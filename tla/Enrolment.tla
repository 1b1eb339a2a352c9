----------------------------- MODULE Enrolment -----------------------------
(***************************************************************************)
(* Enrolling in an event: the table of events fed by a snapshot listener,  *)
(* the detail screen that copies one row of it, the read of the user's own *)
(* events, and the four writes that follow the answer.                     *)
(*                                                                         *)
(* The documents are users/<email> (field "events") and events/<id>        *)
(* (fields "users", "eventMaxMemberCount", "eventMembersCount").  Nothing  *)
(* is a transaction: every device works on what its listener last showed.  *)
(***************************************************************************)
EXTENDS WritePipeline, FiniteSets, FiniteSetsExt

CONSTANTS
  Users,        \* e-mail addresses with an account
  Owner,        \* the user signed up on each device
  Registered,   \* the users who have a document in "users"
  Events,       \* documents of "events" with all the fields of a row
  Capacity,     \* eventMaxMemberCount of each event at the start
  Screens,      \* detail screens; each object is opened at most once
  MaxTaps,      \* bound: taps on the button of one detail screen
  Rejectable    \* the operations the backend may refuse for good

Ops == {"updateUserEvent", "updateEventUser",
        "updateEventMaxMemberCount", "updateEventMembersCount"}

ASSUME EnrolmentAssumption ==
  /\ Owner \in [Devices -> Users]
  /\ Registered \subseteq Users
  /\ Capacity \in [Events -> Nat]
  /\ MaxTaps \in Nat
  /\ Rejectable \subseteq Ops

VARIABLES
  userEvents,   \* server: users/<email>.events
  eventUsers,   \* server: events/<id>.users
  counts,       \* server: the two counters of events/<id>
  seen,         \* per device, the counters in its cache of "events"
  watched,      \* per device, how many applied writes the cache reflects
  screen,       \* the detail screens
  entries,      \* history: entries made so far, per event
  lost          \* history: <<user, event>> whose roster write was lost

serverVars == <<userEvents, eventUsers, counts>>
cacheVars  == <<seen, watched>>
vars == <<writes, stored, applied, served, restarts, userEvents, eventUsers, counts,
          seen, watched, screen, entries, lost>>

Counts    == [max : Int, members : Int]
Mutations == [op : Ops, event : Events, value : Int]
Uncached  == [state |-> "uncached"]   \* a document the device never got

Unopened == [state |-> "unopened"]
Details ==
  [state : {"shown", "closed"}, device : Devices, event : Events,
   max : Int, members : Int, enabled : BOOLEAN, taps : Nat, reads : Nat]

Opened(s)  == screen[s] # Unopened
Waiting(s) == Opened(s) /\ screen[s].reads > 0

Init ==
  /\ PipelineInit
  /\ userEvents = [u \in Users |-> {}]
  /\ eventUsers = [e \in Events |-> {}]
  /\ counts     = [e \in Events |-> [max |-> Capacity[e], members |-> 0]]
  /\ seen       = [d \in Devices |-> [e \in Events |-> Uncached]]
  /\ watched    = [d \in Devices |-> 0]
  /\ screen     = [s \in Screens |-> Unopened]
  /\ entries    = [e \in Events |-> 0]
  /\ lost       = {}
----------------------------------------------------------------------------
(* The documents a device shows: its cache with its pending writes on top. *)

ShowsAs(op) == CASE op = "updateEventMaxMemberCount" -> "max"
                 [] op = "updateEventMembersCount"   -> "members"
                 [] OTHER -> "none"

(* The last of the persisted writes to one counter wins over the cache.    *)
PendingWrites(d, e, field) ==
  {i \in 1 .. stored[d] : /\ writes[d][i].event = e
                          /\ ShowsAs(writes[d][i].op) = field}

LocalField(d, e, field) ==
  IF PendingWrites(d, e, field) = {}
  THEN seen[d][e][field]
  ELSE writes[d][Max(PendingWrites(d, e, field))].value

(* eventsArray: every snapshot the listener gets, also after a write of    *)
(* the device itself, replaces the rows.  The documents of "events" are    *)
(* never deleted, so the snapshot is empty only before the first answer.   *)
EventsArray(d) ==
  [e \in {x \in Events : seen[d][x] # Uncached} |->
     [max |-> LocalField(d, e, "max"), members |-> LocalField(d, e, "members")]]

(* What a read of users/<email> returns on a device: the server's list and *)
(* the device's own pending entries.                                       *)
UserEventsOn(d) ==
  userEvents[Owner[d]] \cup
  {writes[d][i].event : i \in {j \in 1 .. stored[d] :
                                  writes[d][j].op = "updateUserEvent"}}
----------------------------------------------------------------------------
(* The table of events and the detail screen.                              *)

(* Mutant of ShowEvents: a single read instead of a listener.              *)
ShowEventsOnce(d) ==
  /\ d \in served
  /\ \A e \in Events : seen[d][e] = Uncached
  /\ seen'    = [seen EXCEPT ![d] = counts]
  /\ watched' = [watched EXCEPT ![d] = applied[d]]
  /\ UNCHANGED <<pipelineVars, serverVars, screen, entries, lost>>

(* showEvents: the listener brings the server's documents of "events".     *)
ShowEvents(d) ==
  /\ d \in served
  /\ seen[d] # counts \/ watched[d] # applied[d]
  /\ seen'    = [seen EXCEPT ![d] = counts]
  /\ watched' = [watched EXCEPT ![d] = applied[d]]
  /\ UNCHANGED <<pipelineVars, serverVars, screen, entries, lost>>

(* viewDidLoad disables the button if the copy of the row has no place left. *)
ButtonEnabled(row) == row.max > 0

(* didSelectRowAt hands a copy of the row to a presenter of its own.       *)
OpenDetail(s, d, e) ==
  /\ d \in served
  /\ screen[s] = Unopened
  /\ \A t \in Screens :
       Opened(t) /\ screen[t].device = d => screen[t].state # "shown"
  /\ e \in DOMAIN EventsArray(d)
  /\ screen' = [screen EXCEPT ![s] =
       [state |-> "shown", device |-> d, event |-> e,
        max |-> EventsArray(d)[e].max, members |-> EventsArray(d)[e].members,
        enabled |-> ButtonEnabled(EventsArray(d)[e]), taps |-> 0, reads |-> 0]]
  /\ UNCHANGED <<pipelineVars, serverVars, cacheVars, entries, lost>>

(* Going back to the table; reads under way keep the presenter alive.      *)
CloseDetail(s) ==
  /\ Opened(s)
  /\ screen[s].state = "shown"
  /\ screen' = [screen EXCEPT ![s].state = "closed"]
  /\ UNCHANGED <<pipelineVars, serverVars, cacheVars, entries, lost>>

(* button -> entryToEvent -> getUserEvents: a read is started, nothing is  *)
(* checked again and the button stays enabled.                             *)
TapEntry(s) ==
  /\ Opened(s)
  /\ screen[s].state = "shown"
  /\ screen[s].enabled
  /\ screen[s].taps < MaxTaps
  /\ screen' = [screen EXCEPT ![s].taps = @ + 1, ![s].reads = @ + 1]
  /\ UNCHANGED <<pipelineVars, serverVars, cacheVars, entries, lost>>

(* String(describing:) of the optional eventId: never the id itself.       *)
Describing(e) == <<"Optional", e>>

Write(o, e, v) == [op |-> o, event |-> e, value |-> v]

(* Mutants of EntryWrites: the roster before the user's list, the roster   *)
(* forgotten, the places sent before they are counted down.                *)
EntryWritesRosterFirst(e, max, members) ==
  <<Write("updateEventUser", e, 0),
    Write("updateUserEvent", e, 0),
    Write("updateEventMaxMemberCount", e, max),
    Write("updateEventMembersCount", e, members)>>

EntryWritesNoRoster(e, max, members) ==
  <<Write("updateUserEvent", e, 0),
    Write("updateEventMaxMemberCount", e, max),
    Write("updateEventMembersCount", e, members)>>

EntryWritesTooEarly(e, max, members) ==
  <<Write("updateUserEvent", e, 0),
    Write("updateEventUser", e, 0),
    Write("updateEventMaxMemberCount", e, max + 1),
    Write("updateEventMembersCount", e, members)>>

(* entryToEvent: the four writes, in the order of the calls.               *)
EntryWrites(e, max, members) ==
  <<Write("updateUserEvent", e, 0),
    Write("updateEventUser", e, 0),
    Write("updateEventMaxMemberCount", e, max),
    Write("updateEventMembersCount", e, members)>>

(* The completion of getUserEvents inside entryToEvent.                    *)
EnterEvent(s) ==
  LET d == screen[s].device
      e == screen[s].event
  IN  /\ screen' = [screen EXCEPT ![s].reads   = @ - 1,
                                  ![s].max     = @ - 1,
                                  ![s].members = @ + 1]
      /\ WriteMutations(d, EntryWrites(e, screen[s].max - 1, screen[s].members + 1))
      /\ entries' = [entries EXCEPT ![e] = @ + 1]
      /\ UNCHANGED <<serverVars, cacheVars, lost>>

(* getUserEvents calls back only if the user's document exists; the alert  *)
(* of the other branch goes to a view this presenter does not have.        *)
GetUserEventsAnswers(s) ==
  /\ Waiting(s)
  /\ Owner[screen[s].device] \in Registered
  /\ IF Describing(screen[s].event) \in UserEventsOn(screen[s].device)
     THEN /\ screen' = [screen EXCEPT ![s].reads = @ - 1]
          /\ UNCHANGED <<pipelineVars, serverVars, cacheVars, entries, lost>>
     ELSE EnterEvent(s)

(* The read fails (offline and not cached), or the document is missing.    *)
GetUserEventsFails(s) ==
  /\ Waiting(s)
  /\ screen' = [screen EXCEPT ![s].reads = @ - 1]
  /\ UNCHANGED <<pipelineVars, serverVars, cacheVars, entries, lost>>
----------------------------------------------------------------------------
(* The writes on their way.                                                *)

Persist(d) ==
  /\ WriteLocally(d)
  /\ UNCHANGED <<serverVars, cacheVars, screen, entries, lost>>

(* Mutant of PatchCounts: each delivery counts, as FieldValue.increment.   *)
PatchCountsByOne(c, m) ==
  CASE m.op = "updateEventMaxMemberCount" -> [c EXCEPT !.max = @ - 1]
    [] m.op = "updateEventMembersCount"   -> [c EXCEPT !.members = @ + 1]
    [] OTHER -> c

PatchCounts(c, m) ==
  CASE m.op = "updateEventMaxMemberCount" -> [c EXCEPT !.max = m.value]
    [] m.op = "updateEventMembersCount"   -> [c EXCEPT !.members = m.value]
    [] OTHER -> c

(* Mutant of Effect: the roster is replaced by the user, not extended.     *)
EffectReplacing(u, m) ==
  /\ userEvents' = [userEvents EXCEPT ![u] =
                      IF m.op = "updateUserEvent" THEN @ \cup {m.event} ELSE @]
  /\ eventUsers' = [eventUsers EXCEPT ![m.event] =
                      IF m.op = "updateEventUser" THEN {u} ELSE @]
  /\ counts'     = [counts EXCEPT ![m.event] = PatchCounts(@, m)]

(* The backend's documents after one write: arrayUnion for the two lists,  *)
(* the value that was sent for the two counters.                           *)
Effect(u, m) ==
  /\ userEvents' = [userEvents EXCEPT ![u] =
                      IF m.op = "updateUserEvent" THEN @ \cup {m.event} ELSE @]
  /\ eventUsers' = [eventUsers EXCEPT ![m.event] =
                      IF m.op = "updateEventUser" THEN @ \cup {u} ELSE @]
  /\ counts'     = [counts EXCEPT ![m.event] = PatchCounts(@, m)]

ServerApplies(d) ==
  /\ ApplyAtServer(d)
  /\ Effect(Owner[d], NextToApply(d))
  /\ UNCHANGED <<cacheVars, screen, entries, lost>>

(* The cache takes the write over, unless the listener has brought a newer *)
(* version of the document already.                                        *)
Acknowledge(d) ==
  /\ HandleSuccessfulWrite(d)
  /\ LET m == Head(writes[d])
     IN  seen' = IF watched[d] = 0 /\ seen[d][m.event] # Uncached
                 THEN [seen EXCEPT ![d][m.event] = PatchCounts(@, m)]
                 ELSE seen
  /\ watched' = [watched EXCEPT ![d] = IF @ = 0 THEN 0 ELSE @ - 1]
  /\ UNCHANGED <<serverVars, screen, entries, lost>>

(* A refused write disappears; entryToEvent's writes have completion       *)
(* handlers that let every error pass.                                     *)
Refuse(d) ==
  /\ HandleRejectedWrite(d)
  /\ LET m == Head(writes[d])
     IN  /\ m.op \in Rejectable
         /\ lost' = IF m.op = "updateEventUser"
                    THEN lost \cup {<<Owner[d], m.event>>} ELSE lost
  /\ UNCHANGED <<serverVars, cacheVars, screen, entries>>

(* The stream is lost: the listener's documents stay, but what they        *)
(* contain of the unanswered writes is applied once more.                  *)
StreamBreaks(d) ==
  /\ OnWriteStreamClose(d)
  /\ watched' = [watched EXCEPT ![d] = 0]
  /\ UNCHANGED <<serverVars, seen, screen, entries, lost>>

(* The app dies: the presenters and their reads go with it, and the writes *)
(* that are not in the persisted queue.  It starts with the sign-up screen *)
(* and has no way to sign in: the user does not come back, and nobody      *)
(* serves the rest of the queue.  The next user of the installation is     *)
(* another element of Devices.                                             *)
Unpersisted(d) == {i \in 1 .. Len(writes[d]) : i > stored[d]}

Relaunch(d) ==
  /\ Restart(d)
  /\ watched' = [watched EXCEPT ![d] = 0]
  /\ screen'  = [s \in Screens |->
                   IF Opened(s) /\ screen[s].device = d
                   THEN [screen[s] EXCEPT !.state = "closed", !.reads = 0]
                   ELSE screen[s]]
  /\ lost' = lost \cup {<<Owner[d], writes[d][i].event>> :
                          i \in {j \in Unpersisted(d) :
                                   writes[d][j].op = "updateEventUser"}}
  /\ UNCHANGED <<serverVars, seen, entries>>
----------------------------------------------------------------------------
(* No device can open another detail screen and all is quiet.              *)
AllUsed ==
  /\ \A d \in served : writes[d] = << >>
  /\ \A s \in Screens :
       \/ screen[s] = Unopened /\ served = {}
       \/ Opened(s) /\ screen[s].state = "closed" /\ screen[s].reads = 0
  /\ UNCHANGED vars

Next ==
  \/ \E d \in Devices :
       \/ ShowEvents(d)
       \/ Persist(d) \/ ServerApplies(d) \/ Acknowledge(d) \/ Refuse(d)
       \/ StreamBreaks(d) \/ Relaunch(d)
       \/ \E s \in Screens, e \in Events : OpenDetail(s, d, e)
  \/ \E s \in Screens : \/ TapEntry(s) \/ CloseDetail(s)
                        \/ GetUserEventsAnswers(s) \/ GetUserEventsFails(s)
  \/ AllUsed

Spec == Init /\ [][Next]_vars

(* While its app lives a client keeps its promises: the worker and the     *)
(* streams go on, and a write that is sent again and again is answered at  *)
(* last.  Nothing is asked of users, of the backend's refusals, of crashes *)
(* and of the queue of a device whose app has died.                        *)
Fairness == \A d \in Devices :
  /\ WF_vars(Persist(d))
  /\ WF_vars(d \in served /\ ServerApplies(d))
  /\ SF_vars(Acknowledge(d))
  /\ WF_vars(ShowEvents(d))

FairSpec == Spec /\ Fairness
----------------------------------------------------------------------------
TypeOK ==
  /\ PipelineTypeOK(Mutations)
  /\ userEvents \in [Users -> SUBSET Events]
  /\ eventUsers \in [Events -> SUBSET Users]
  /\ counts  \in [Events -> Counts]
  /\ seen    \in [Devices -> [Events -> Counts \cup {Uncached}]]
  /\ watched \in [Devices -> Nat]
  /\ \A d \in Devices : watched[d] <= applied[d]
  /\ screen  \in [Screens -> Details \cup {Unopened}]
  /\ entries \in [Events -> Nat]
  /\ lost    \subseteq Users \X Events

(* Whoever is on an event's roster has the event in the own list: the      *)
(* writes of one entry are sent in the order entryToEvent makes them, and  *)
(* neither a second delivery nor a restart reverses them.                  *)
RosterBackedByUser ==
  \A e \in Events : \A u \in eventUsers[e] : e \in userEvents[u]

(* A half-made entry (in the user's list, not on the roster) has its roster *)
(* write in a queue, served or not, unless a crash or a refusal took       *)
(* exactly that write.                                                     *)
Waits(d, i, o, e) == writes[d][i].op = o /\ writes[d][i].event = e

RosterWritePending(u, e) ==
  \E d \in Devices :
    /\ Owner[d] = u
    /\ \E i \in 1 .. Len(writes[d]) : Waits(d, i, "updateEventUser", e)

HalfEntriesExplained ==
  \A u \in Users : \A e \in userEvents[u] :
    \/ u \in eventUsers[e]
    \/ RosterWritePending(u, e)
    \/ <<u, e>> \in lost

(* However stale the copies the counters are computed from, and however    *)
(* often a write is repeated, no counter moves by more than the entries    *)
(* that were made.                                                         *)
CountersWithinEntries ==
  \A e \in Events :
    /\ counts[e].members >= 0
    /\ counts[e].members <= entries[e]
    /\ counts[e].max <= Capacity[e]
    /\ counts[e].max >= Capacity[e] - entries[e]

(* With one device and no write lost, the two counters of an event come    *)
(* from the same copy of its row whenever all the writes have arrived.     *)
(* (They need not add up to the capacity: a detail screen opened between   *)
(* the snapshots of two counter writes copies a row that is half updated.) *)
SoloPairWhole ==
  /\ Cardinality(Devices) = 1
  /\ Rejectable = {} /\ \A d \in Devices : restarts[d] = 0
  /\ Drained
  => \A e \in Events :
       IF entries[e] = 0
       THEN counts[e] = [max |-> Capacity[e], members |-> 0]
       ELSE \E s \in Screens :
              /\ Opened(s) /\ screen[s].event = e
              /\ counts[e] = [max |-> screen[s].max, members |-> screen[s].members]

(* Nobody is taken off a list by somebody else's entry.                    *)
NobodyDropped ==
  [][/\ \A u \in Users  : userEvents[u] \subseteq userEvents'[u]
     /\ \A e \in Events : eventUsers[e] \subseteq eventUsers'[e]]_vars

(* An entry whose roster write was persisted reaches the roster, whatever  *)
(* answers are lost and writes repeated, unless the app dies before: then, *)
(* and only then, the write may stay in a queue that nobody serves.        *)
Stranded(d, e) ==
  /\ d \notin served
  /\ \E i \in 1 .. stored[d] : Waits(d, i, "updateEventUser", e)

PersistedEntryArrives ==
  \A d \in Devices, e \in Events :
    (\E i \in 1 .. stored[d] : Waits(d, i, "updateEventUser", e))
      ~> (Owner[d] \in eventUsers[e] \/ Stranded(d, e))

(* Every table of events ends up showing the server's counters, as long as *)
(* its app lives and whatever the others' apps do.                         *)
RowsConverge ==
  \A d \in Devices : <>[](d \in served => EventsArray(d) = counts)

----------------------------------------------------------------------------
(* What makes the safety properties inductive.                             *)

(* In a device's queue the user's side of an entry precedes the roster's,  *)
(* or has arrived already.                                                 *)
UserWriteFirst ==
  \A d \in Devices : \A i \in 1 .. Len(writes[d]) :
    writes[d][i].op = "updateEventUser" =>
      \/ writes[d][i].event \in userEvents[Owner[d]]
      \/ \E j \in 1 .. i - 1 : Waits(d, j, "updateUserEvent", writes[d][i].event)

(* A write the server has applied is in its documents, answered or not.    *)
AppliedTakesEffect ==
  \A d \in Devices : \A i \in 1 .. applied[d] :
    /\ writes[d][i].op = "updateUserEvent"
         => writes[d][i].event \in userEvents[Owner[d]]
    /\ writes[d][i].op = "updateEventUser"
         => Owner[d] \in eventUsers[writes[d][i].event]

RosterInv == TypeOK /\ RosterBackedByUser /\ UserWriteFirst /\ AppliedTakesEffect

(* Behind the user's side of an entry waits the roster's, unless lost.     *)
RosterWriteFollows ==
  \A d \in Devices : \A i \in 1 .. Len(writes[d]) :
    writes[d][i].op = "updateUserEvent" =>
      \/ \E j \in i + 1 .. Len(writes[d]) :
           Waits(d, j, "updateEventUser", writes[d][i].event)
      \/ <<Owner[d], writes[d][i].event>> \in lost

HalfInv == TypeOK /\ HalfEntriesExplained /\ RosterWriteFollows /\ AppliedTakesEffect

(* Every copy of a counter, wherever it is, is within the entries made.    *)
MembersInRange(e, n) == n \in 0 .. entries[e]
MaxInRange(e, n)     == n \in Capacity[e] - entries[e] .. Capacity[e]
InRange(e, c)        == MembersInRange(e, c.members) /\ MaxInRange(e, c.max)

CopiesInRange ==
  /\ \A e \in Events : InRange(e, counts[e])
  /\ \A d \in Devices, e \in Events : seen[d][e] # Uncached => InRange(e, seen[d][e])
  /\ \A s \in Screens : Opened(s) => InRange(screen[s].event, screen[s])
  /\ \A d \in Devices : \A i \in 1 .. Len(writes[d]) :
       /\ writes[d][i].op = "updateEventMembersCount"
            => MembersInRange(writes[d][i].event, writes[d][i].value)
       /\ writes[d][i].op = "updateEventMaxMemberCount"
            => MaxInRange(writes[d][i].event, writes[d][i].value)

CountersInv == TypeOK /\ CopiesInRange
----------------------------------------------------------------------------
(* DetailEventViewController: "all the participants are recruited" once    *)
(* eventMaxMemberCount is used up.  As a claim about the event: no more    *)
(* users on the roster than places.                                        *)
NeverOversubscribed ==
  \A e \in Events : Cardinality(eventUsers[e]) <= Capacity[e]

(* entryToEvent: "you have already enrolled in this event".  As a claim    *)
(* about its step: no writes for an event the answer already lists.        *)
NoSecondEntry ==
  [][\A s \in Screens :
       Opened(s) /\ EnterEvent(s) => screen[s].event \notin UserEventsOn(screen[s].device)]_vars

Ledger == INSTANCE EntryLedger
            WITH userSide <- userEvents, eventSide <- eventUsers

(* The two sides of an entry behave as the ledger says.                    *)
LedgerHolds == Ledger!LedgerSpec
=============================================================================
