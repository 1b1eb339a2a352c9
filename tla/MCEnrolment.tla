---------------------------- MODULE MCEnrolment ----------------------------
(***************************************************************************)
(* Small instances of Enrolment for TLC.                                   *)
(***************************************************************************)
EXTENDS Enrolment, TLC

CONSTANTS d1, d2, u1, u2, e1, e2, s1, s2

OneDevice == d1 :> u1
TwoUsers  == d1 :> u1 @@ d2 :> u2

OnePlace  == e1 :> 1
TwoPlaces == e1 :> 2
TwoEvents == e1 :> 2 @@ e2 :> 1

(* Screens are interchangeable, and so are the two devices if their users  *)
(* change places with them.                                                *)
ScreenSymmetry == Permutations(Screens)
Swapped == d1 :> d2 @@ d2 :> d1 @@ u1 :> u2 @@ u2 :> u1
Kept    == d1 :> d1 @@ d2 :> d2 @@ u1 :> u1 @@ u2 :> u2
PairSymmetry == {p @@ q : p \in Permutations(Screens), q \in {Kept, Swapped}}
=============================================================================
