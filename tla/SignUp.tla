------------------------------- MODULE SignUp -------------------------------
(***************************************************************************)
(* Signing up: an account is made at Firebase Auth and, once its answer is *)
(* there, the profile users/<email> is written to Firestore.  The two      *)
(* steps are in two services; between them the app can die, the answer can *)
(* get lost and the button can be pressed again.                           *)
(*                                                                         *)
(* The Firestore client keeps one persisted queue of writes per signed-in  *)
(* user and serves only the queue of the present one.  As an account is    *)
(* made at most once, an e-mail address has at most one profile write.     *)
(***************************************************************************)
EXTENDS Naturals, Sequences, FiniteSets

CONSTANTS
  Devices,      \* the installations of the app
  Emails,       \* the e-mail addresses people sign up with
  Calls,        \* calls of signUp; each is made at most once
  MaxRestarts,  \* bound: how often one device's app dies and is started again
  Refusable     \* whether the backend may refuse a profile write for good

Nobody == [user |-> "nobody"]

ASSUME SignUpAssumption ==
  /\ MaxRestarts \in Nat
  /\ Refusable \in BOOLEAN
  /\ Nobody \notin Emails

VARIABLES
  call,      \* the calls of signUp
  accounts,  \* Auth: the accounts that exist
  profiles,  \* Firestore: the documents of "users"
  enqueued,  \* per device, what waits on the client's worker queue
  user,      \* per device, the user whose queue the client serves
  profile,   \* per e-mail address, its profile write
  screen,    \* per device, "signUp" or "tabBar"
  welcomed,  \* history: addresses whose sign-up was reported as done
  cut,       \* history: accounts whose profile write was lost
  restarts   \* per device, how often its app has died so far

vars == <<call, accounts, profiles, enqueued, user, profile, screen, welcomed,
          cut, restarts>>

Unused  == [state |-> "unused"]
NoWrite == [state |-> "none"]

Call == [state : {"sent", "orphaned", "created", "failed", "over"},
         device : Devices, email : Emails]

(* "stored" in the user's persisted queue, "applied" by the server but not *)
(* answered, "over" after the answer; handler: setData's completion lives. *)
ProfileWrite ==
  [state : {"stored", "applied", "over"}, device : Devices, handler : BOOLEAN]

Init ==
  /\ call     = [c \in Calls |-> Unused]
  /\ accounts = {}
  /\ profiles = {}
  /\ enqueued = [d \in Devices |-> << >>]
  /\ user     = [d \in Devices |-> Nobody]
  /\ profile  = [m \in Emails |-> NoWrite]
  /\ screen   = [d \in Devices |-> "signUp"]
  /\ welcomed = {}
  /\ cut      = {}
  /\ restarts = [d \in Devices |-> 0]
----------------------------------------------------------------------------
(* The sign-up screen and Firebase Auth.                                   *)

(* The alerts of the validation do not stop the call (both checks return   *)
(* nil), and nothing disables the button while a call is under way.        *)
SignUpButtonTapped(c, d, m) ==
  /\ call[c] = Unused
  /\ screen[d] = "signUp"
  /\ call' = [call EXCEPT ![c] = [state |-> "sent", device |-> d, email |-> m]]
  /\ UNCHANGED <<accounts, profiles, enqueued, user, profile, screen, welcomed,
                 cut, restarts>>

(* Auth makes the account, unless the address is in use.  The app may have *)
(* died since it sent the request; nobody gets the answer then.            *)
CreateUser(c) ==
  /\ call[c].state \in {"sent", "orphaned"}
  /\ accounts' = accounts \cup {call[c].email}
  /\ call' = [call EXCEPT ![c].state =
                CASE call[c].state = "orphaned"     -> "over"
                  [] call[c].email \in accounts     -> "failed"
                  [] OTHER                          -> "created"]
  /\ cut' = IF call[c].state = "orphaned" THEN cut \cup (accounts' \ accounts) ELSE cut
  /\ UNCHANGED <<profiles, enqueued, user, profile, screen, welcomed, restarts>>

(* The connection fails: on the way there, or with the answer.             *)
CreateUserFails(c) ==
  /\ call[c].state \in {"sent", "created"}
  /\ call' = [call EXCEPT ![c].state = "failed"]
  /\ cut'  = IF call[c].state = "created" THEN cut \cup {call[c].email} ELSE cut
  /\ UNCHANGED <<accounts, profiles, enqueued, user, profile, screen, welcomed, restarts>>

(* createUser's completion.  Auth has told the Firestore client about the  *)
(* new user just before, so the change of user and the profile write reach *)
(* the worker queue one behind the other.                                  *)
CreateUserAnswers(c) ==
  /\ call[c].state = "created"
  /\ call'     = [call EXCEPT ![c].state = "over"]
  /\ enqueued' = [enqueued EXCEPT ![call[c].device] = Append(@, call[c].email)]
  /\ UNCHANGED <<accounts, profiles, user, profile, screen, welcomed, cut, restarts>>

(* Mutant of ReportError: the return behind onError is missing.            *)
ReportErrorAndGoOn(c) ==
  /\ call[c].state = "failed"
  /\ call'     = [call EXCEPT ![c].state = "over"]
  /\ enqueued' = [enqueued EXCEPT ![call[c].device] = Append(@, call[c].email)]
  /\ UNCHANGED <<accounts, profiles, user, profile, screen, welcomed, cut, restarts>>

(* The error branch of createUser's completion: an alert.                  *)
ReportError(c) ==
  /\ call[c].state = "failed"
  /\ call' = [call EXCEPT ![c].state = "over"]
  /\ UNCHANGED <<accounts, profiles, enqueued, user, profile, screen, welcomed,
                 cut, restarts>>

(* Settings: signing out tells the client and leaves the screen as it is.  *)
SignedIn(d) == IF enqueued[d] = << >> THEN user[d] ELSE enqueued[d][Len(enqueued[d])]

SignOut(d) ==
  /\ screen[d] = "tabBar"
  /\ SignedIn(d) # Nobody
  /\ enqueued' = [enqueued EXCEPT ![d] = Append(@, Nobody)]
  /\ UNCHANGED <<call, accounts, profiles, user, profile, screen, welcomed, cut, restarts>>
----------------------------------------------------------------------------
(* The Firestore client and its backend.                                   *)

At(d, m) == profile[m] # NoWrite /\ profile[m].device = d

(* Mutant of StreamTornDown: the old user's unsent writes are dropped.     *)
StreamTornDownDropping(d) ==
  [m \in Emails |-> IF At(d, m) /\ profile[m].state # "over"
                    THEN [profile[m] EXCEPT !.state = "over"] ELSE profile[m]]

(* The streams are torn down with the old user's: what was sent but not    *)
(* answered will be sent again when that user's queue is served next.      *)
StreamTornDown(d) ==
  [m \in Emails |-> IF At(d, m) /\ profile[m].state = "applied"
                    THEN [profile[m] EXCEPT !.state = "stored"] ELSE profile[m]]

(* HandleCredentialChange, and behind it WriteLocally for a new account.   *)
RunWorker(d) ==
  /\ enqueued[d] # << >>
  /\ LET u == Head(enqueued[d])
     IN  /\ user' = [user EXCEPT ![d] = u]
         /\ profile' = IF u = Nobody
                       THEN StreamTornDown(d)
                       ELSE [StreamTornDown(d) EXCEPT ![u] =
                               [state |-> "stored", device |-> d, handler |-> TRUE]]
  /\ enqueued' = [enqueued EXCEPT ![d] = Tail(@)]
  /\ UNCHANGED <<call, accounts, profiles, screen, welcomed, cut, restarts>>

(* Only the queue of the present user is sent.                             *)
Served(m) == profile[m] # NoWrite /\ user[profile[m].device] = m

(* setData has no precondition: the document is there afterwards.          *)
ServerApplies(m) ==
  /\ Served(m) /\ profile[m].state = "stored"
  /\ profile'  = [profile EXCEPT ![m].state = "applied"]
  /\ profiles' = profiles \cup {m}
  /\ UNCHANGED <<call, accounts, enqueued, user, screen, welcomed, cut, restarts>>

(* setData's completion tests createUser's error, nil by then, instead of  *)
(* its own: whatever the answer, it reports success, which presents the    *)
(* tab bar, in vain while an alert is still up.  A completion that died    *)
(* with the app is not there to be called.                                 *)
Complete(m) ==
  /\ profile' = [profile EXCEPT ![m].state = "over"]
  /\ IF profile[m].handler
     THEN /\ \/ screen' = [screen EXCEPT ![profile[m].device] = "tabBar"]
             \/ UNCHANGED screen
          /\ welcomed' = welcomed \cup {m}
     ELSE UNCHANGED <<screen, welcomed>>
  /\ UNCHANGED <<call, accounts, profiles, enqueued, user, restarts>>

(* Mutant of Acknowledge: reported once the write is persisted.            *)
AcknowledgeEarly(m) ==
  /\ Served(m) /\ profile[m].state \in {"stored", "applied"}
  /\ Complete(m)
  /\ UNCHANGED cut

Acknowledge(m) ==
  /\ Served(m) /\ profile[m].state = "applied"
  /\ Complete(m)
  /\ UNCHANGED cut

Refuse(m) ==
  /\ Refusable
  /\ Served(m) /\ profile[m].state = "stored"
  /\ Complete(m)
  /\ cut' = cut \cup {m}

StreamBreaks(m) ==
  /\ Served(m) /\ profile[m].state = "applied"
  /\ profile' = [profile EXCEPT ![m].state = "stored"]
  /\ UNCHANGED <<call, accounts, profiles, enqueued, user, screen, welcomed, cut, restarts>>

(* The app dies and starts with the sign-up screen.  Firestore's client is *)
(* created by its first use, which is the completion of the next createUser. *)
Relaunch(d) ==
  /\ restarts[d] < MaxRestarts
  /\ restarts' = [restarts EXCEPT ![d] = @ + 1]
  /\ call' = [c \in Calls |->
       IF call[c] = Unused \/ call[c].device # d THEN call[c]
       ELSE [call[c] EXCEPT !.state =
               IF @ \in {"sent", "orphaned"} THEN "orphaned" ELSE "over"]]
  /\ cut' = cut
       \cup {call[c].email : c \in {x \in Calls : call[x].state = "created" /\ call[x].device = d}}
       \cup {m \in Emails : \E i \in 1 .. Len(enqueued[d]) : enqueued[d][i] = m}
  /\ enqueued' = [enqueued EXCEPT ![d] = << >>]
  /\ user'     = [user EXCEPT ![d] = Nobody]
  /\ profile'  = [m \in Emails |-> IF At(d, m)
                                   THEN [StreamTornDown(d)[m] EXCEPT !.handler = FALSE]
                                   ELSE profile[m]]
  /\ screen'   = [screen EXCEPT ![d] = "signUp"]
  /\ UNCHANGED <<accounts, profiles, welcomed>>
----------------------------------------------------------------------------
(* No call is under way and no device shows the sign-up screen, or there   *)
(* is no call left to make.                                                *)
AllUsed ==
  /\ \A c \in Calls :
       \/ call[c].state = "over"
       \/ call[c] = Unused /\ \A d \in Devices : screen[d] = "tabBar"
  /\ UNCHANGED vars

Next ==
  \/ \E c \in Calls :
       \/ \E d \in Devices, m \in Emails : SignUpButtonTapped(c, d, m)
       \/ CreateUser(c) \/ CreateUserFails(c) \/ CreateUserAnswers(c) \/ ReportError(c)
  \/ \E d \in Devices : SignOut(d) \/ RunWorker(d) \/ Relaunch(d)
  \/ \E m \in Emails : ServerApplies(m) \/ Acknowledge(m) \/ Refuse(m) \/ StreamBreaks(m)
  \/ AllUsed

Spec == Init /\ [][Next]_vars

(* The worker runs, the stream sends and, repeated often enough, gets its  *)
(* answer; Auth answers every request the app still waits for.             *)
Fairness ==
  /\ \A d \in Devices : WF_vars(RunWorker(d))
  /\ \A m \in Emails : WF_vars(ServerApplies(m)) /\ SF_vars(Acknowledge(m))
  /\ \A c \in Calls : WF_vars(CreateUserAnswers(c))

FairSpec == Spec /\ Fairness
----------------------------------------------------------------------------
TypeOK ==
  /\ call \in [Calls -> Call \cup {Unused}]
  /\ accounts \subseteq Emails
  /\ profiles \subseteq accounts
  /\ welcomed \subseteq accounts
  /\ cut \subseteq accounts
  /\ enqueued \in [Devices -> Seq(Emails \cup {Nobody})]
  /\ user \in [Devices -> Emails \cup {Nobody}]
  /\ profile \in [Emails -> ProfileWrite \cup {NoWrite}]
  /\ screen \in [Devices -> {"signUp", "tabBar"}]
  /\ restarts \in [Devices -> Nat]

(* Where the profile write of m can be, before and after it is persisted.  *)
Creating(c, m)     == call[c].state = "created" /\ call[c].email = m
Waiting(d)         == 1 .. Len(enqueued[d])
SomeCreating(m)    == \E c \in Calls : Creating(c, m)
SomeEnqueued(m)    == \E d \in Devices : \E i \in Waiting(d) : enqueued[d][i] = m
Written(m)         == profile[m] # NoWrite

(* The profile of an account is written once, by one device: taps that     *)
(* race for an address, on one screen or on two devices, never write a     *)
(* fresh profile (with an empty list of events) over one that is in use.   *)
OneProfileWrite ==
  \A m \in Emails :
    /\ \A b, c \in Calls : Creating(b, m) /\ Creating(c, m) => b = c
    /\ \A d, e \in Devices : \A i \in Waiting(d), j \in Waiting(e) :
         enqueued[d][i] = m /\ enqueued[e][j] = m => d = e /\ i = j
    /\ SomeCreating(m) => ~SomeEnqueued(m) /\ ~Written(m)
    /\ SomeEnqueued(m) => ~Written(m)
    /\ SomeCreating(m) \/ SomeEnqueued(m) \/ Written(m) => m \in accounts

(* An account without a profile has its profile write under way, unless a  *)
(* crash, a lost answer or a refusal came between the two steps.           *)
Underway(m) ==
  SomeCreating(m) \/ SomeEnqueued(m) \/ profile[m].state \in {"stored", "applied"}

HalfSignUpsExplained ==
  \A m \in accounts : m \in profiles \/ m \in cut \/ Underway(m)

(* What makes it inductive: an applied profile write has made its document. *)
AppliedIsThere == \A m \in Emails : profile[m].state = "applied" => m \in profiles

(* A sign-up is reported as done for an account with a profile only.       *)
WelcomedHasProfile == welcomed \subseteq profiles

(* Where the backend may refuse: only a refused write, never an answer     *)
(* that was lost or a death of the app, reports success for an account     *)
(* without a profile.                                                      *)
WelcomeExplained == welcomed \subseteq profiles \cup cut

(* Every account gets its profile in the end, unless the two steps were    *)
(* cut apart or the device stopped serving its user: the queue of another  *)
(* user, or of a user before a restart, waits for a sign-in.               *)
Stranded(m) == profile[m] # NoWrite /\ ~Served(m)

SignUpCompletes ==
  \A m \in Emails :
    m \in accounts ~> (m \in profiles \/ m \in cut \/ Stranded(m))
=============================================================================
