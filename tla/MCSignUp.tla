------------------------------ MODULE MCSignUp ------------------------------
(***************************************************************************)
(* Small instances of SignUp for TLC.                                      *)
(***************************************************************************)
EXTENDS SignUp, TLC

CONSTANTS d1, d2, m1, m2, c1, c2, c3

(* Calls, devices and addresses are interchangeable.                       *)
SignUpSymmetry ==
  {p @@ q @@ r : p \in Permutations(Calls), q \in Permutations(Devices),
                 r \in Permutations(Emails)}
=============================================================================
