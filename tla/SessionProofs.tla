---------------------------- MODULE SessionProofs ----------------------------
(***************************************************************************)
(* Theorems about Session, for any screens, updates, addresses and calls.  *)
(* A session takes no step of the sign-up that SignUp does not allow, so   *)
(* what is proved of SignUp holds of it.                                   *)
(***************************************************************************)
EXTENDS Session, SignUpProofs

LEMMA SessionStepIsSignUpStep ==
  ASSUME [SessionNext]_<<vars, sessionVars>>
  PROVE  [Next]_vars
<1>1. ASSUME NEW m \in Emails, ProfileWritten(m)
      PROVE  Next
  BY <1>1 DEF ProfileWritten, Next
<1>2. ASSUME NEW d \in Devices,
             \/ \E s \in Screens : OpenScreen(d, s)
             \/ \E x \in Updates, a \in Emails : UpdateData(x, d, a)
      PROVE  UNCHANGED vars
  BY <1>2 DEF OpenScreen, UpdateData
<1>3. ASSUME NEW x \in Updates, WorkerStoresUpdate(x) \/ ServerUpdates(x)
      PROVE  UNCHANGED vars
  BY <1>3 DEF WorkerStoresUpdate, ServerUpdates
<1>4. ASSUME NEW d \in Devices, SignOut(d) \/ WorkerChangesUser(d) \/ SessionRelaunch(d)
      PROVE  Next
  BY <1>4 DEF WorkerChangesUser, SessionRelaunch, Next
<1> QED BY <1>1, <1>2, <1>3, <1>4 DEF SessionNext, Next

(* Every behaviour of the session is one of the sign-up: the screens read  *)
(* who is signed in and never change it but by signing out.                *)
THEOREM SessionRefinesSignUp == SessionSpec => Spec
<1>1. SessionInit => Init
  BY DEF SessionInit
<1>2. [SessionNext]_<<vars, sessionVars>> => [Next]_vars
  BY SessionStepIsSignUpStep
<1> QED BY <1>1, <1>2, PTL DEF SessionSpec, Spec
----------------------------------------------------------------------------
(* The types.                                                              *)

LEMMA SignedInTyped ==
  ASSUME TypeOK, NEW d \in Devices
  PROVE  SignedIn(d) \in Emails \cup {Nobody}
<1>1. enqueued[d] \in Seq(Emails \cup {Nobody}) /\ user[d] \in Emails \cup {Nobody}
  BY DEF TypeOK
<1>2. CASE enqueued[d] = << >>
  BY <1>1, <1>2 DEF SignedIn
<1>3. CASE enqueued[d] # << >>
  <2>1. Len(enqueued[d]) \in 1 .. Len(enqueued[d])
    BY <1>1, <1>3, EmptySeq, LenProperties
  <2> QED BY <1>1, <1>3, <2>1, ElementOfSeq DEF SignedIn
<1> QED BY <1>2, <1>3

LEMMA UpdateTyped ==
  ASSUME SessionTypeOK, NEW x \in Updates, update[x] # Unmade
  PROVE  update[x] \in UpdateRec
BY DEF SessionTypeOK

LEMMA NewServiceTyped ==
  ASSUME SessionTypeOK, NEW d \in Devices, NEW s \in Screens, NewService(d, s)
  PROVE  captured' \in [Devices -> SUBSET (Screens \X Emails)] /\ dead' \subseteq Devices
<1>1. CASE SignedIn(d) = Nobody
  BY <1>1 DEF NewService, SessionTypeOK
<1>2. CASE SignedIn(d) # Nobody
  <2>1. SignedIn(d) \in Emails
    BY <1>2, SignedInTyped DEF SessionTypeOK
  <2>2. captured' = [captured EXCEPT ![d] = @ \cup {<<s, SignedIn(d)>>}] /\ dead' = dead
    BY <1>2 DEF NewService
  <2>3. captured[d] \cup {<<s, SignedIn(d)>>} \in SUBSET (Screens \X Emails)
    BY <2>1 DEF SessionTypeOK
  <2> QED BY <2>2, <2>3 DEF SessionTypeOK
<1> QED BY <1>1, <1>2

LEMMA SessionTypeStep ==
  ASSUME SessionTypeOK, TypeOK', [SessionNext]_<<vars, sessionVars>>
  PROVE  SessionTypeOK'
<1>1. ASSUME UNCHANGED sessionVars
      PROVE  SessionTypeOK'
  BY <1>1 DEF sessionVars, SessionTypeOK
<1>2. ASSUME NEW m \in Emails, profile[m] # NoWrite, ProfileWritten(m)
      PROVE  SessionTypeOK'
  <2>1. PICK d \in Devices : d = profile[m].device
    BY <1>2, ProfileTyped DEF ProfileWrite, SessionTypeOK
  <2>2. TabBarAppears(m) /\ UNCHANGED <<update, missed>>
    BY <1>2 DEF ProfileWritten
  <2>3. "profile" \in Screens
    BY DEF Screens
  <2>4. \/ NewService(d, "profile")
        \/ dead' \subseteq dead \cup {d} /\ UNCHANGED captured
    BY <2>1, <2>2 DEF TabBarAppears
  <2>5. captured' \in [Devices -> SUBSET (Screens \X Emails)] /\ dead' \subseteq Devices
    BY <2>3, <2>4, NewServiceTyped DEF SessionTypeOK
  <2> QED BY <2>2, <2>5 DEF SessionTypeOK
<1>3. ASSUME NEW d \in Devices, NEW s \in Screens, OpenScreen(d, s)
      PROVE  SessionTypeOK'
  BY <1>3, NewServiceTyped DEF OpenScreen, SessionTypeOK
<1>4. ASSUME NEW d \in Devices, NEW x \in Updates, NEW a \in Emails, UpdateData(x, d, a)
      PROVE  SessionTypeOK'
  <2>1. SignedIn(d) \in Emails \cup {Nobody} /\ Len(enqueued[d]) \in Nat
    BY SignedInTyped, LenProperties DEF SessionTypeOK, TypeOK
  <2>2. [state |-> "enqueued", device |-> d, address |-> a,
         queue |-> SignedIn(d), ahead |-> Len(enqueued[d])] \in UpdateRec
    BY <2>1 DEF UpdateRec
  <2>3. update' \in [Updates -> UpdateRec \cup {Unmade}]
    BY <1>4, <2>2 DEF UpdateData, SessionTypeOK
  <2> QED BY <1>4, <2>3 DEF UpdateData, SessionTypeOK
<1>5. ASSUME NEW d \in Devices, WorkerChangesUser(d)
      PROVE  SessionTypeOK'
  <2>1. ASSUME NEW x \in Updates, On(x, d), update[x].state = "enqueued"
        PROVE  [update[x] EXCEPT !.ahead = @ - 1] \in UpdateRec
    <3>1. update[x] \in UpdateRec /\ update[x].ahead > 0
      BY <1>5, <2>1, UpdateTyped DEF WorkerChangesUser, On
    <3> QED BY <3>1 DEF UpdateRec
  <2>2. update' \in [Updates -> UpdateRec \cup {Unmade}]
    BY <1>5, <2>1 DEF WorkerChangesUser, SessionTypeOK
  <2> QED BY <1>5, <2>2 DEF WorkerChangesUser, SessionTypeOK
<1>6. ASSUME NEW x \in Updates, update[x] # Unmade, WorkerStoresUpdate(x)
      PROVE  SessionTypeOK'
  <2>1. update[x] \in UpdateRec /\ user[update[x].device] \in Emails \cup {Nobody}
    BY <1>6, UpdateTyped DEF UpdateRec, SessionTypeOK, TypeOK
  <2>2. [update[x] EXCEPT !.state = "stored", !.queue = user[update[x].device]] \in UpdateRec
    BY <2>1 DEF UpdateRec
  <2>3. update' \in [Updates -> UpdateRec \cup {Unmade}]
    BY <1>6, <2>2 DEF WorkerStoresUpdate, SessionTypeOK
  <2> QED BY <1>6, <2>3 DEF WorkerStoresUpdate, SessionTypeOK
<1>7. ASSUME NEW x \in Updates, update[x] # Unmade, ServerUpdates(x)
      PROVE  SessionTypeOK'
  <2>1. update[x] \in UpdateRec
    BY <1>7, UpdateTyped
  <2>2. update' \in [Updates -> UpdateRec \cup {Unmade}]
    BY <1>7, <2>1 DEF ServerUpdates, SessionTypeOK, UpdateRec
  <2>3. missed' \subseteq Emails \X (Emails \cup {Nobody})
    BY <1>7, <2>1 DEF ServerUpdates, SessionTypeOK, UpdateRec
  <2> QED BY <1>7, <2>2, <2>3 DEF ServerUpdates, SessionTypeOK
<1>8. ASSUME NEW d \in Devices, SessionRelaunch(d)
      PROVE  SessionTypeOK'
  <2>1. ASSUME NEW x \in Updates, On(x, d), update[x].state = "enqueued"
        PROVE  [update[x] EXCEPT !.state = "over"] \in UpdateRec
    BY <2>1, UpdateTyped DEF On, UpdateRec
  <2>2. update' \in [Updates -> UpdateRec \cup {Unmade}]
    BY <1>8, <2>1 DEF SessionRelaunch, SessionTypeOK
  <2>3. captured' \in [Devices -> SUBSET (Screens \X Emails)] /\ dead' \subseteq Devices
    BY <1>8 DEF SessionRelaunch, SessionTypeOK
  <2> QED BY <1>8, <2>2, <2>3 DEF SessionRelaunch, SessionTypeOK
<1>9. CASE UNCHANGED <<vars, sessionVars>>
  BY <1>1, <1>9
<1> QED BY <1>1, <1>2, <1>3, <1>4, <1>5, <1>6, <1>7, <1>8, <1>9 DEF SessionNext
----------------------------------------------------------------------------
(* Whose queue a device serves.                                            *)

(* A device serves the queue of a user only after it has written the       *)
(* user's profile to it.                                                   *)
UserServed ==
  \A d \in Devices : user[d] # Nobody => Written(user[d]) /\ profile[user[d]].device = d

SessionInv == SignUpInv /\ Explained /\ SessionTypeOK /\ UserServed /\ UpdatesFindProfile

(* Profile writes keep their device as long as the users stay.             *)
LEMMA ServedStays ==
  ASSUME TypeOK, UserServed, user' = user,
         \A m \in Emails : Written(m) => Written(m)' /\ profile'[m].device = profile[m].device
  PROVE  UserServed'
<1> SUFFICES ASSUME NEW d \in Devices, user[d] # Nobody
             PROVE  Written(user[d])' /\ profile'[user[d]].device = d
  BY DEF UserServed
<1>1. PICK m \in Emails : m = user[d]
  BY DEF TypeOK
<1>2. Written(m)' /\ profile'[m].device = d
  BY <1>1 DEF UserServed
<1> QED BY <1>1, <1>2 DEF Written

LEMMA UserServedStep ==
  ASSUME SignUpInv, UserServed, [Next]_vars
  PROVE  UserServed'
<1> USE DEF SignUpInv
<1>1. ASSUME UNCHANGED <<user, profile>>
      PROVE  UserServed'
  BY <1>1 DEF UserServed, Written
<1>2. ASSUME NEW m \in Emails,
             ServerApplies(m) \/ Acknowledge(m) \/ Refuse(m) \/ StreamBreaks(m)
      PROVE  UserServed'
  <2>1. PICK x \in {"stored", "applied", "over"} :
          profile' = [profile EXCEPT ![m].state = x] /\ user' = user
    BY <1>2 DEF ServerApplies, Acknowledge, Refuse, StreamBreaks, Complete
  <2>2. profile[m] \in ProfileWrite
    BY <1>2, ProfileTyped DEF ServerApplies, Acknowledge, Refuse, StreamBreaks, Served
  <2>3. [profile[m] EXCEPT !.state = x] \in ProfileWrite
        /\ [profile[m] EXCEPT !.state = x].device = profile[m].device
    BY <2>2 DEF ProfileWrite
  <2>4. [profile[m] EXCEPT !.state = x] # NoWrite
    BY <2>3 DEF ProfileWrite, NoWrite
  <2>5. \A n \in Emails : Written(n) => Written(n)' /\ profile'[n].device = profile[n].device
    BY <2>1, <2>3, <2>4 DEF Written, TypeOK
  <2> QED BY <2>1, <2>5, ServedStays
<1>3. ASSUME NEW d \in Devices, RunWorker(d)
      PROVE  UserServed'
  <2>1. enqueued[d] # << >>
    BY <1>3 DEF RunWorker
  <2>2. PICK u \in Emails \cup {Nobody} : u = Head(enqueued[d]) /\ u = enqueued[d][1]
    BY <2>1, TailTyped
  <2>3. /\ user' = [user EXCEPT ![d] = u]
        /\ profile' = IF u = Nobody
                      THEN StreamTornDown(d)
                      ELSE [StreamTornDown(d) EXCEPT ![u] =
                              [state |-> "stored", device |-> d, handler |-> TRUE]]
    BY <1>3, <2>2 DEF RunWorker
  <2>4. user'[d] = u /\ \A e \in Devices : e # d => user'[e] = user[e]
    BY <2>3 DEF TypeOK
  <2>5. ASSUME NEW n \in Emails, Written(n), n # u
        PROVE  Written(n)' /\ profile'[n].device = profile[n].device
    <3>1. profile'[n] = StreamTornDown(d)[n]
      BY <2>3, <2>5, StreamTornDownKeeps
    <3>2. profile'[n] # NoWrite
      BY <2>5, <3>1, StreamTornDownKeeps DEF Written
    <3>3. StreamTornDown(d)[n].device = profile[n].device
      BY <2>5, ProfileTyped DEF StreamTornDown, Written, ProfileWrite
    <3> QED BY <3>1, <3>2, <3>3 DEF Written
  <2>6. u \in Emails => profile'[u] = [state |-> "stored", device |-> d, handler |-> TRUE]
    BY <2>3, SignUpAssumption, StreamTornDownKeeps
  <2>7. u \in Emails => Written(u)' /\ profile'[u].device = d
    BY <2>6 DEF Written, NoWrite
  <2>8. u \in Emails => ~Written(u)
    <3>1. 1 \in Waiting(d)
      BY <2>1, TailTyped DEF Waiting
    <3> QED BY <2>2, <3>1 DEF OneProfileWrite, SomeEnqueued
  <2> SUFFICES ASSUME NEW e \in Devices, user'[e] # Nobody
               PROVE  Written(user[e])' /\ profile'[user'[e]].device = e
    BY DEF UserServed
  <2>9. CASE e = d
    <3>1. u \in Emails /\ user'[e] = u
      BY <2>4, <2>9
    <3> QED BY <2>7, <2>9, <3>1 DEF Written
  <2>10. CASE e # d
    <3>1. PICK n \in Emails : n = user[e] /\ n = user'[e]
      BY <2>4, <2>10 DEF TypeOK
    <3>2. Written(n) /\ profile[n].device = e
      BY <2>4, <2>10, <3>1 DEF UserServed
    <3>3. n # u
      BY <2>8, <3>2
    <3>4. Written(n)' /\ profile'[n].device = e
      BY <2>5, <3>2, <3>3
    <3> QED BY <3>1, <3>4 DEF Written
  <2> QED BY <2>9, <2>10
<1>4. ASSUME NEW d \in Devices, Relaunch(d)
      PROVE  UserServed'
  <2>1. user'[d] = Nobody /\ \A e \in Devices : e # d => user'[e] = user[e]
    BY <1>4 DEF Relaunch, TypeOK
  <2> SUFFICES ASSUME NEW e \in Devices, user'[e] # Nobody
               PROVE  Written(user[e])' /\ profile'[user'[e]].device = e
    BY DEF UserServed
  <2>2. e # d
    BY <2>1
  <2>3. PICK n \in Emails : n = user[e] /\ n = user'[e]
    BY <2>1, <2>2 DEF TypeOK
  <2>4. Written(n) /\ profile[n].device = e
    BY <2>1, <2>2, <2>3 DEF UserServed
  <2>5. profile'[n] = profile[n]
    BY <1>4, <2>2, <2>4 DEF Relaunch, At
  <2> QED BY <2>3, <2>4, <2>5 DEF Written
<1>5. ASSUME NEW c \in Calls,
             \/ \E d \in Devices, m \in Emails : SignUpButtonTapped(c, d, m)
             \/ CreateUser(c) \/ CreateUserFails(c) \/ CreateUserAnswers(c) \/ ReportError(c)
      PROVE  UserServed'
  BY <1>1, <1>5 DEF SignUpButtonTapped, CreateUser, CreateUserFails, CreateUserAnswers,
     ReportError
<1>6. ASSUME NEW d \in Devices, SignOut(d)
      PROVE  UserServed'
  BY <1>1, <1>6 DEF SignOut
<1>7. CASE UNCHANGED vars
  BY <1>1, <1>7 DEF vars
<1> QED BY <1>2, <1>3, <1>4, <1>5, <1>6, <1>7 DEF Next, AllUsed
----------------------------------------------------------------------------
(* What the server finds.                                                  *)

(* Its own user's profile is there, or was cut off, when the turn of an    *)
(* update in the queue of the user comes: the profile write came first.    *)
LEMMA OwnProfileInTurn ==
  ASSUME SignUpInv, Explained, UserServed, NEW x \in Updates, NEW m \in Emails,
         update[x].device \in Devices, update[x].queue = m, InTurn(x)
  PROVE  m \in profiles \cup cut
<1>1. user[update[x].device] = m /\ m # Nobody
  BY SignUpAssumption DEF InTurn
<1>2. Written(m) /\ profile[m].device = update[x].device
  BY <1>1 DEF UserServed
<1>3. profile[m].state \in {"applied", "over"}
  <2>1. profile[m] \in ProfileWrite
    BY <1>2, ProfileTyped DEF Written, SignUpInv
  <2>2. profile[m].state # "stored"
    BY <1>2 DEF InTurn, At, Written
  <2> QED BY <2>1, <2>2 DEF ProfileWrite
<1>4. CASE profile[m].state = "applied"
  BY <1>4 DEF Explained, AppliedIsThere
<1>5. CASE profile[m].state = "over"
  <2>1. m \in accounts /\ ~SomeCreating(m) /\ ~SomeEnqueued(m)
    BY <1>2 DEF SignUpInv, OneProfileWrite
  <2>2. ~Underway(m)
    BY <1>5, <2>1 DEF Underway
  <2> QED BY <2>1, <2>2 DEF Explained, HalfSignUpsExplained
<1> QED BY <1>3, <1>4, <1>5

LEMMA UpdatesStep ==
  ASSUME SessionInv, [SessionNext]_<<vars, sessionVars>>
  PROVE  UpdatesFindProfile'
<1> USE DEF SessionInv
<1>1. cut \subseteq cut'
  BY SessionStepIsSignUpStep DEF Next, AllUsed, vars, SignUpButtonTapped, CreateUser,
     CreateUserFails, CreateUserAnswers, ReportError, SignOut, RunWorker, Relaunch,
     ServerApplies, Acknowledge, Refuse, StreamBreaks
<1>2. CASE missed' = missed
  BY <1>1, <1>2 DEF UpdatesFindProfile
<1>3. ASSUME NEW x \in Updates, update[x] # Unmade, ServerUpdates(x)
      PROVE  UpdatesFindProfile'
  <2>1. /\ InTurn(x) /\ cut' = cut
        /\ missed' = IF update[x].address \in profiles THEN missed
                     ELSE missed \cup {<<update[x].address, update[x].queue>>}
    BY <1>3 DEF ServerUpdates, vars
  <2>2. update[x].device \in Devices
    BY <1>3, UpdateTyped DEF UpdateRec
  <2>3. ASSUME NEW m \in Emails, <<m, m>> \in missed'
        PROVE  m \in cut'
    <3>1. CASE <<m, m>> \in missed
      BY <2>1, <3>1 DEF UpdatesFindProfile
    <3>2. CASE <<m, m>> \notin missed
      <4>1. update[x].address = m /\ update[x].queue = m /\ m \notin profiles
        BY <2>1, <2>3, <3>2
      <4> QED BY <2>1, <2>2, <4>1, OwnProfileInTurn
    <3> QED BY <3>1, <3>2
  <2> QED BY <2>3 DEF UpdatesFindProfile
<1>4. CASE \A x \in Updates : ~(update[x] # Unmade /\ ServerUpdates(x))
  BY <1>2, <1>4 DEF SessionNext, sessionVars, ProfileWritten, OpenScreen, UpdateData,
     WorkerChangesUser, WorkerStoresUpdate, SessionRelaunch
<1> QED BY <1>3, <1>4

LEMMA SessionInitially == SessionInit => SessionInv
<1> SUFFICES ASSUME SessionInit PROVE SessionInv
  OBVIOUS
<1>1. SignUpInv /\ Explained
  BY SignUpInitially, ExplainedInitially DEF SessionInit
<1>2. SessionTypeOK
  BY <1>1 DEF SessionInit, SessionTypeOK, SignUpInv
<1>3. UserServed /\ UpdatesFindProfile
  BY DEF SessionInit, Init, UserServed, UpdatesFindProfile
<1> QED BY <1>1, <1>2, <1>3 DEF SessionInv

LEMMA SessionInvHolds == SessionSpec => []SessionInv
<1>1. SessionInv /\ [SessionNext]_<<vars, sessionVars>> => SessionInv'
  <2> SUFFICES ASSUME SessionInv, [SessionNext]_<<vars, sessionVars>> PROVE SessionInv'
    OBVIOUS
  <2>1. [Next]_vars
    BY SessionStepIsSignUpStep
  <2>2. SignUpInv' /\ Explained' /\ UserServed'
    BY <2>1, SignUpStep, ExplainedStep, UserServedStep DEF SessionInv
  <2>3. SessionTypeOK'
    BY <2>2, SessionTypeStep DEF SessionInv, SignUpInv
  <2>4. UpdatesFindProfile'
    BY UpdatesStep
  <2> QED BY <2>2, <2>3, <2>4 DEF SessionInv
<1> QED BY SessionInitially, <1>1, PTL DEF SessionSpec

(* The variables of the session keep their types: among them, no service   *)
(* is ever made for nobody, and the worker never counts below zero before  *)
(* it comes to an update.                                                  *)
THEOREM SessionTypeCorrect == SessionSpec => []SessionTypeOK
<1>1. SessionInv => SessionTypeOK
  BY DEF SessionInv
<1> QED BY <1>1, SessionInvHolds, PTL

(* An update of its own profile by the user whose queue it is in finds the *)
(* document, unless the profile write was refused or cut off.              *)
THEOREM UpdatesAlwaysFindProfile == SessionSpec => []UpdatesFindProfile
<1>1. SessionInv => UpdatesFindProfile
  BY DEF SessionInv
<1> QED BY <1>1, SessionInvHolds, PTL
=============================================================================
