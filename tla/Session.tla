------------------------------- MODULE Session -------------------------------
(***************************************************************************)
(* Who is signed in while the screens are used.  Every screen behind the   *)
(* tab bar builds services of its own, which capture the e-mail address of *)
(* Auth's current user (unwrapped by force) and keep it; what they write   *)
(* goes to users/<captured address>, but into the queue of whoever is      *)
(* signed in when it is written.  Sign-up, sign-out and the change of user *)
(* in the Firestore client are those of SignUp.                            *)
(***************************************************************************)
EXTENDS SignUp

CONSTANT Updates   \* updates of a profile; each is made at most once

VARIABLES
  captured,  \* per device, <<screen, address>> of the services alive
  update,    \* the updates of "users" the screens have made
  dead,      \* devices whose app ended on "currentUser!"
  missed     \* history: <<address, user of the queue>> of updates without a profile

sessionVars == <<captured, update, dead, missed>>

Screens == {"profile", "events", "updateProfile"}

(* ahead: what the client's worker has to do before it comes to the update *)
UpdateRec == [state : {"enqueued", "stored", "over"}, device : Devices,
              address : Emails, queue : Emails \cup {Nobody}, ahead : Nat]
Unmade == [state |-> "unmade"]

SessionInit ==
  /\ Init
  /\ captured = [d \in Devices |-> {}]
  /\ update   = [x \in Updates |-> Unmade]
  /\ dead     = {}
  /\ missed   = {}
----------------------------------------------------------------------------
(* UserStudentService() and EventService(): the app ends if nobody is      *)
(* signed in.                                                              *)
NewService(d, s) ==
  IF SignedIn(d) = Nobody
  THEN dead' = dead \cup {d} /\ UNCHANGED captured
  ELSE captured' = [captured EXCEPT ![d] = @ \cup {<<s, SignedIn(d)>>}] /\ UNCHANGED dead

(* toProfile makes the tab bar and with it the profile screen.  If it is   *)
(* not presented, because one is shown already or an alert is up, its      *)
(* services go with it.                                                    *)
TabBarAppears(m) ==
  LET d == profile[m].device
  IN  IF profile[m].handler
      THEN \/ screen'[d] # screen[d] /\ NewService(d, "profile")
           \/ /\ screen'[d] = screen[d]
              /\ dead' = IF SignedIn(d) = Nobody THEN dead \cup {d} ELSE dead
              /\ UNCHANGED captured
      ELSE UNCHANGED <<captured, dead>>

ProfileWritten(m) ==
  /\ Acknowledge(m) \/ Refuse(m)
  /\ TabBarAppears(m)
  /\ UNCHANGED <<update, missed>>

(* The events tab, a row of its table, the form: each a service of its own. *)
OpenScreen(d, s) ==
  /\ screen[d] = "tabBar"
  /\ s # "profile"
  /\ NewService(d, s)
  /\ UNCHANGED <<vars, update, missed>>

(* An entry, or the complete button of the form.                           *)
UpdateData(x, d, a) ==
  /\ update[x] = Unmade
  /\ \E s \in Screens \ {"profile"} : <<s, a>> \in captured[d]
  /\ update' = [update EXCEPT ![x] =
       [state |-> "enqueued", device |-> d, address |-> a,
        queue |-> SignedIn(d), ahead |-> Len(enqueued[d])]]
  /\ UNCHANGED <<vars, captured, dead, missed>>

On(x, d) == update[x] # Unmade /\ update[x].device = d

(* The worker serves one change of user, or one update whose turn it is.   *)
WorkerChangesUser(d) ==
  /\ RunWorker(d)
  /\ \A x \in Updates : On(x, d) /\ update[x].state = "enqueued" => update[x].ahead > 0
  /\ update' = [x \in Updates |->
       IF On(x, d) /\ update[x].state = "enqueued"
       THEN [update[x] EXCEPT !.ahead = @ - 1] ELSE update[x]]
  /\ UNCHANGED <<captured, dead, missed>>

WorkerStoresUpdate(x) ==
  /\ update[x].state = "enqueued" /\ update[x].ahead = 0
  /\ update' = [update EXCEPT ![x].state = "stored", ![x].queue = user[update[x].device]]
  /\ UNCHANGED <<vars, captured, dead, missed>>

(* Mutant of InTurn: an update overtakes the profile write before it.      *)
InTurnOvertaking(x) == user[update[x].device] = update[x].queue

(* The queue of the present user is sent in order: the profile write, the  *)
(* first of every queue, comes before the updates.                         *)
InTurn(x) ==
  /\ user[update[x].device] = update[x].queue
  /\ \A m \in Emails : m = update[x].queue /\ At(update[x].device, m) =>
       profile[m].state # "stored"

(* updateData has the precondition that the document exists.               *)
ServerUpdates(x) ==
  /\ update[x].state = "stored"
  /\ InTurn(x)
  /\ update' = [update EXCEPT ![x].state = "over"]
  /\ missed' = IF update[x].address \in profiles THEN missed
               ELSE missed \cup {<<update[x].address, update[x].queue>>}
  /\ UNCHANGED <<vars, captured, dead>>

SessionRelaunch(d) ==
  /\ Relaunch(d)
  /\ captured' = [captured EXCEPT ![d] = {}]
  /\ update' = [x \in Updates |->
       IF On(x, d) /\ update[x].state = "enqueued"
       THEN [update[x] EXCEPT !.state = "over"] ELSE update[x]]
  /\ dead' = dead \ {d}
  /\ UNCHANGED missed
----------------------------------------------------------------------------
(* On a device whose app has ended nothing happens until it is relaunched. *)
Alive(c) == call[c] # Unused => call[c].device \notin dead

SessionNext ==
  \/ \E c \in Calls :
       \/ \E d \in Devices \ dead, m \in Emails :
            SignUpButtonTapped(c, d, m) /\ UNCHANGED sessionVars
       \/ CreateUser(c) /\ UNCHANGED sessionVars
       \/ Alive(c) /\ CreateUserFails(c) /\ UNCHANGED sessionVars
       \/ Alive(c) /\ CreateUserAnswers(c) /\ UNCHANGED sessionVars
       \/ Alive(c) /\ ReportError(c) /\ UNCHANGED sessionVars
  \/ \E d \in Devices \ dead :
       \/ SignOut(d) /\ UNCHANGED sessionVars
       \/ WorkerChangesUser(d)
       \/ \E s \in Screens : OpenScreen(d, s)
       \/ \E x \in Updates, a \in Emails : UpdateData(x, d, a)
  \/ \E d \in Devices : SessionRelaunch(d)
  \/ \E m \in Emails : profile[m] # NoWrite /\ profile[m].device \notin dead /\
       \/ ServerApplies(m) /\ UNCHANGED sessionVars
       \/ StreamBreaks(m) /\ UNCHANGED sessionVars
       \/ ProfileWritten(m)
  \/ \E x \in Updates : update[x] # Unmade /\ update[x].device \notin dead /\
       (WorkerStoresUpdate(x) \/ ServerUpdates(x))

SessionSpec == SessionInit /\ [][SessionNext]_<<vars, sessionVars>>
----------------------------------------------------------------------------
(* The types of the variables of both modules.                             *)
SessionTypeOK ==
  /\ TypeOK
  /\ captured \in [Devices -> SUBSET (Screens \X Emails)]
  /\ update \in [Updates -> UpdateRec \cup {Unmade}]
  /\ dead \subseteq Devices
  /\ missed \subseteq Emails \X (Emails \cup {Nobody})

(* An update in its own user's queue finds the profile, however sign-ups   *)
(* raced for the tab bar and whoever the screens' services captured, unless *)
(* the profile write was refused.                                          *)
UpdatesFindProfile ==
  \A m \in Emails : <<m, m>> \in missed => m \in cut
=============================================================================
