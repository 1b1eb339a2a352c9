---------------------------- MODULE EntryLedger ----------------------------
(***************************************************************************)
(* What enrolling promises, without the mechanism.  An entry of a user for *)
(* an event is kept on two sides, the user's own list and the event's      *)
(* roster.  The two sides are written separately, so a half-made entry is  *)
(* allowed; but the user's side always comes first, and neither side ever  *)
(* forgets.                                                                *)
(***************************************************************************)
CONSTANTS Users, Events

VARIABLES
  userSide,   \* the events in each user's list
  eventSide   \* the users on each event's roster

ledgerVars == <<userSide, eventSide>>

LedgerInit ==
  /\ userSide  = [u \in Users  |-> {}]
  /\ eventSide = [e \in Events |-> {}]

NoteForUser(u, e) ==
  /\ e \notin userSide[u]
  /\ userSide' = [userSide EXCEPT ![u] = @ \cup {e}]
  /\ UNCHANGED eventSide

PutOnRoster(u, e) ==
  /\ e \in userSide[u]
  /\ u \notin eventSide[e]
  /\ eventSide' = [eventSide EXCEPT ![e] = @ \cup {u}]
  /\ UNCHANGED userSide

LedgerNext == \E u \in Users, e \in Events : NoteForUser(u, e) \/ PutOnRoster(u, e)

LedgerSpec == LedgerInit /\ [][LedgerNext]_ledgerVars
=============================================================================
