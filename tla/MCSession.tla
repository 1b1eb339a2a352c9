------------------------------ MODULE MCSession ------------------------------
(***************************************************************************)
(* Small instances of Session for TLC.                                     *)
(***************************************************************************)
EXTENDS Session, TLC

CONSTANTS d1, d2, m1, m2, c1, c2, x1, x2

SessionSymmetry ==
  {p @@ q @@ r @@ s : p \in Permutations(Calls), q \in Permutations(Devices),
                      r \in Permutations(Emails), s \in Permutations(Updates)}
=============================================================================
