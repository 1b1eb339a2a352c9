--------------------------- MODULE MCEventCreation ---------------------------
(***************************************************************************)
(* Small instances of EventCreation for TLC.                               *)
(***************************************************************************)
EXTENDS EventCreation

CONSTANTS d1, e1, e2, x
=============================================================================
