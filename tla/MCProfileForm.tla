---------------------------- MODULE MCProfileForm ----------------------------
(***************************************************************************)
(* Small instances of ProfileForm for TLC.                                 *)
(***************************************************************************)
EXTENDS ProfileForm

CONSTANT d1
=============================================================================
