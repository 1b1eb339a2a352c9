-------------------------- MODULE EnrolmentProofs --------------------------
(***************************************************************************)
(* Theorems about Enrolment for any devices, users, events, detail         *)
(* screens, taps, restarts and refusals.                                   *)
(***************************************************************************)
EXTENDS Enrolment, WritePipelineProofs, FiniteSetTheorems

----------------------------------------------------------------------------
(* Facts about the operators of the model.                                 *)

(* The four writes of an entry.                                            *)
LEMMA EntryWritesTyped ==
  ASSUME NEW e \in Events, NEW x \in Int, NEW y \in Int
  PROVE  /\ EntryWrites(e, x, y) \in Seq(Mutations)
         /\ Len(EntryWrites(e, x, y)) = 4
         /\ EntryWrites(e, x, y)[1] = Write("updateUserEvent", e, 0)
         /\ EntryWrites(e, x, y)[2] = Write("updateEventUser", e, 0)
         /\ EntryWrites(e, x, y)[3] = Write("updateEventMaxMemberCount", e, x)
         /\ EntryWrites(e, x, y)[4] = Write("updateEventMembersCount", e, y)
BY DEF EntryWrites, Write, Mutations, Ops

(* A row of the table has two numbers.                                     *)
LEMMA RowTyped ==
  ASSUME TypeOK, NEW d \in Devices, NEW e \in DOMAIN EventsArray(d)
  PROVE  /\ e \in Events
         /\ EventsArray(d)[e].max \in Int
         /\ EventsArray(d)[e].members \in Int
<1>1. e \in Events /\ seen[d][e] # Uncached
  BY DEF EventsArray
<1>2. /\ seen[d][e] \in Counts
      /\ seen[d][e]["max"] \in Int /\ seen[d][e]["members"] \in Int
  BY <1>1 DEF TypeOK, Counts
<1>3. ASSUME NEW field, seen[d][e][field] \in Int
      PROVE  LocalField(d, e, field) \in Int
  <2> DEFINE P == PendingWrites(d, e, field)
  <2>1. CASE P = {}
    BY <1>3, <2>1 DEF LocalField
  <2>2. CASE P # {}
    <3>1. stored[d] \in Nat /\ stored[d] <= Len(writes[d]) /\ writes[d] \in Seq(Mutations)
      BY DEF TypeOK, PipelineTypeOK
    <3>2. P \in SUBSET (1 .. stored[d])
      BY DEF PendingWrites
    <3>3. Max(P) \in P
      BY <2>2, <3>1, <3>2, MaxOfPositions
    <3>4. Max(P) \in 1 .. Len(writes[d])
      <4>1. Max(P) \in 1 .. stored[d]
        BY <3>2, <3>3, Zenon
      <4>2. Len(writes[d]) \in Nat
        BY <3>1, LenProperties
      <4> QED BY <3>1, <4>1, <4>2
    <3>5. writes[d][Max(P)] \in Mutations
      BY <3>1, <3>4, ElementOfSeq
    <3> QED BY <2>2, <3>5 DEF LocalField, Mutations
  <2> QED BY <2>1, <2>2
<1> QED BY <1>1, <1>2, <1>3 DEF EventsArray
----------------------------------------------------------------------------
(* Type correctness.                                                       *)

LEMMA InitTyped == Init => TypeOK
<1> SUFFICES ASSUME Init PROVE TypeOK
  OBVIOUS
<1>1. PipelineTypeOK(Mutations)
  BY DEF Init, PipelineInit, PipelineTypeOK
<1>2. counts \in [Events -> Counts]
  BY EnrolmentAssumption DEF Init, Counts
<1> QED BY <1>1, <1>2 DEF Init, TypeOK, PipelineInit

LEMMA PipelineUnchanged ==
  ASSUME PipelineTypeOK(Mutations), UNCHANGED pipelineVars
  PROVE  PipelineTypeOK(Mutations)'
BY DEF PipelineTypeOK, pipelineVars

(* The changes a detail screen goes through leave it a detail screen.      *)
LEMMA DetailUpdates ==
  ASSUME NEW r \in Details
  PROVE  /\ [r EXCEPT !.state = "closed"] \in Details
         /\ [r EXCEPT !.state = "closed", !.reads = 0] \in Details
         /\ [r EXCEPT !.taps = @ + 1, !.reads = @ + 1] \in Details
         /\ r.reads > 0 => [r EXCEPT !.reads = @ - 1] \in Details
         /\ r.reads > 0 =>
              [r EXCEPT !.reads = @ - 1, !.max = @ - 1, !.members = @ + 1] \in Details
<1>1. [r EXCEPT !.state = "closed"] \in Details
  BY DEF Details
<1>2. [r EXCEPT !.state = "closed", !.reads = 0] \in Details
  BY DEF Details
<1>3. [r EXCEPT !.taps = @ + 1, !.reads = @ + 1] \in Details
  <2>1. ASSUME NEW t \in Nat, NEW n \in Nat
        PROVE  [r EXCEPT !.taps = t, !.reads = n] \in Details
    BY DEF Details
  <2>2. r.taps + 1 \in Nat /\ r.reads + 1 \in Nat
    BY DEF Details
  <2> QED BY <2>1, <2>2
<1>4. r.reads > 0 => [r EXCEPT !.reads = @ - 1] \in Details
  BY DEF Details
<1>5. r.reads > 0 =>
        [r EXCEPT !.reads = @ - 1, !.max = @ - 1, !.members = @ + 1] \in Details
  <2>1. ASSUME NEW n \in Nat, NEW x \in Int, NEW y \in Int
        PROVE  [r EXCEPT !.reads = n, !.max = x, !.members = y] \in Details
    BY DEF Details
  <2>2. r.max - 1 \in Int /\ r.members + 1 \in Int /\ (r.reads > 0 => r.reads - 1 \in Nat)
    BY DEF Details
  <2> QED BY <2>1, <2>2
<1> QED BY <1>1, <1>2, <1>3, <1>4, <1>5

LEMMA ScreenStepTyped ==
  ASSUME TypeOK, NEW s \in Screens,
         \/ CloseDetail(s) \/ TapEntry(s) \/ GetUserEventsFails(s)
         \/ \E d \in Devices, e \in Events : OpenDetail(s, d, e)
  PROVE  TypeOK'
<1>1. screen' \in [Screens -> Details \cup {Unopened}]
  <2> DEFINE old == screen[s]
  <2>0. ASSUME Opened(s)
        PROVE  /\ [old EXCEPT !.state = "closed"] \in Details
               /\ [old EXCEPT !.taps = @ + 1, !.reads = @ + 1] \in Details
               /\ old.reads > 0 => [old EXCEPT !.reads = @ - 1] \in Details
    <3>1. old \in Details
      BY <2>0 DEF TypeOK, Opened
    <3> HIDE DEF old
    <3> QED BY <3>1, DetailUpdates
  <2>1. CASE CloseDetail(s)
    <3>1. screen' = [screen EXCEPT ![s] = [old EXCEPT !.state = "closed"]]
      BY <2>1 DEF CloseDetail
    <3> HIDE DEF old
    <3> QED BY <2>0, <2>1, <3>1 DEF TypeOK, CloseDetail
  <2>2. CASE TapEntry(s)
    <3>1. screen' = [screen EXCEPT ![s] = [old EXCEPT !.taps = @ + 1, !.reads = @ + 1]]
      BY <2>2 DEF TapEntry
    <3> HIDE DEF old
    <3> QED BY <2>0, <2>2, <3>1 DEF TypeOK, TapEntry
  <2>3. CASE GetUserEventsFails(s)
    <3>1. screen' = [screen EXCEPT ![s] = [old EXCEPT !.reads = @ - 1]]
      BY <2>3 DEF GetUserEventsFails
    <3>2. Opened(s) /\ old.reads > 0
      BY <2>3 DEF GetUserEventsFails, Waiting
    <3> HIDE DEF old
    <3> QED BY <2>0, <3>1, <3>2 DEF TypeOK
  <2>4. ASSUME NEW d \in Devices, NEW e \in Events, OpenDetail(s, d, e)
        PROVE  screen' \in [Screens -> Details \cup {Unopened}]
    <3>1. /\ EventsArray(d)[e].max \in Int /\ EventsArray(d)[e].members \in Int
      BY <2>4, RowTyped DEF OpenDetail
    <3> QED BY <2>4, <3>1 DEF TypeOK, OpenDetail, Details, ButtonEnabled
  <2> QED BY <2>1, <2>2, <2>3, <2>4
<1>2. UNCHANGED <<pipelineVars, serverVars, cacheVars, entries, lost>>
  BY DEF CloseDetail, TapEntry, GetUserEventsFails, OpenDetail
<1>3. PipelineTypeOK(Mutations)'
  BY <1>2, PipelineUnchanged DEF TypeOK
<1> QED BY <1>1, <1>2, <1>3 DEF TypeOK, pipelineVars, serverVars, cacheVars

LEMMA AnswerTyped ==
  ASSUME TypeOK, NEW s \in Screens, GetUserEventsAnswers(s)
  PROVE  TypeOK'
<1> DEFINE old == screen[s]
<1>1. old \in Details /\ old.reads > 0
  BY DEF TypeOK, GetUserEventsAnswers, Waiting, Opened
<1>2. old.device \in Devices /\ old.event \in Events /\ old.max \in Int /\ old.members \in Int
  BY <1>1 DEF Details
<1>3. CASE UNCHANGED <<pipelineVars, serverVars, cacheVars, entries, lost>>
           /\ screen' = [screen EXCEPT ![s] = [old EXCEPT !.reads = @ - 1]]
  <2>1. PipelineTypeOK(Mutations)'
    BY <1>3, PipelineUnchanged DEF TypeOK
  <2>2. [old EXCEPT !.reads = @ - 1] \in Details
    BY <1>1, DetailUpdates
  <2> HIDE DEF old
  <2> QED BY <1>3, <2>1, <2>2 DEF TypeOK, pipelineVars, serverVars, cacheVars
<1>4. CASE EnterEvent(s)
  <2> DEFINE ws == EntryWrites(old.event, old.max - 1, old.members + 1)
  <2>1. WriteMutations(old.device, ws)
    BY <1>4 DEF EnterEvent
  <2>2. ws \in Seq(Mutations)
    <3>1. old.max - 1 \in Int /\ old.members + 1 \in Int
      BY <1>2
    <3> QED BY <1>2, <3>1, EntryWritesTyped
  <2>3. PipelineTypeOK(Mutations)'
    <3> HIDE DEF old, ws
    <3> QED BY <1>2, <2>1, <2>2, WriteMutationsStep DEF TypeOK
  <2>4. [old EXCEPT !.reads = @ - 1, !.max = @ - 1, !.members = @ + 1] \in Details
    BY <1>1, DetailUpdates
  <2>5. /\ screen' = [screen EXCEPT ![s] =
              [old EXCEPT !.reads = @ - 1, !.max = @ - 1, !.members = @ + 1]]
        /\ entries' = [entries EXCEPT ![old.event] = @ + 1]
        /\ UNCHANGED <<serverVars, cacheVars, lost>>
    BY <1>4 DEF EnterEvent
  <2>6. UNCHANGED applied
    BY <2>1 DEF WriteMutations
  <2> HIDE DEF old, ws
  <2>7. entries' \in [Events -> Nat]
    BY <1>2, <2>5 DEF TypeOK
  <2>8. screen' \in [Screens -> Details \cup {Unopened}]
    BY <2>4, <2>5 DEF TypeOK
  <2>9. UNCHANGED <<userEvents, eventUsers, counts, seen, watched, lost>>
    BY <2>5 DEF serverVars, cacheVars
  <2> QED BY <2>3, <2>6, <2>7, <2>8, <2>9 DEF TypeOK
<1> QED BY <1>3, <1>4 DEF GetUserEventsAnswers

LEMMA ShowEventsTyped ==
  ASSUME TypeOK, NEW d \in Devices, ShowEvents(d)
  PROVE  TypeOK'
<1>1. PipelineTypeOK(Mutations)'
  BY PipelineUnchanged DEF TypeOK, ShowEvents
<1>2. /\ watched' \in [Devices -> Nat]
      /\ \A c \in Devices : watched'[c] <= applied'[c]
  <2>1. applied \in [Devices -> Nat] /\ watched \in [Devices -> Nat]
    BY DEF TypeOK, PipelineTypeOK
  <2>2. applied' = applied /\ watched' = [watched EXCEPT ![d] = applied[d]]
    BY DEF ShowEvents, pipelineVars
  <2> QED BY <2>1, <2>2 DEF TypeOK
<1>3. seen' \in [Devices -> [Events -> Counts \cup {Uncached}]]
  BY DEF TypeOK, ShowEvents
<1> QED BY <1>1, <1>2, <1>3 DEF TypeOK, ShowEvents, serverVars

LEMMA PersistTyped ==
  ASSUME TypeOK, NEW d \in Devices, Persist(d)
  PROVE  TypeOK'
<1>1. PipelineTypeOK(Mutations)'
  BY WriteLocallyStep DEF TypeOK, Persist
<1> QED BY <1>1 DEF TypeOK, Persist, WriteLocally, serverVars, cacheVars

(* What one write does to the server's documents keeps their types.        *)
LEMMA PatchTyped ==
  ASSUME NEW c \in Counts, NEW m \in Mutations
  PROVE  PatchCounts(c, m) \in Counts
BY DEF PatchCounts, Counts, Mutations

LEMMA ServerAppliesTyped ==
  ASSUME TypeOK, NEW d \in Devices, ServerApplies(d)
  PROVE  TypeOK'
<1> DEFINE m == NextToApply(d)
<1>1. PipelineTypeOK(Mutations)' /\ m \in Mutations
  BY ApplyAtServerStep DEF TypeOK, ServerApplies
<1>2. m.event \in Events /\ Owner[d] \in Users
  BY <1>1, EnrolmentAssumption DEF Mutations
<1>3. Effect(Owner[d], m)
  BY DEF ServerApplies
<1>4. PatchCounts(counts[m.event], m) \in Counts
  BY <1>1, <1>2, PatchTyped DEF TypeOK
<1>5. /\ \A c \in Devices : applied[c] <= applied'[c]
      /\ applied \in [Devices -> Nat] /\ applied' \in [Devices -> Nat]
  BY DEF ServerApplies, ApplyAtServer, TypeOK, PipelineTypeOK
<1>6. \A c \in Devices : watched[c] <= applied'[c]
  BY <1>5 DEF TypeOK
<1> HIDE DEF m
<1>7. /\ userEvents' \in [Users -> SUBSET Events]
      /\ eventUsers' \in [Events -> SUBSET Users]
      /\ counts' \in [Events -> Counts]
  BY <1>2, <1>3, <1>4 DEF TypeOK, Effect
<1> QED BY <1>1, <1>6, <1>7 DEF TypeOK, ServerApplies, cacheVars

LEMMA AcknowledgeTyped ==
  ASSUME TypeOK, NEW d \in Devices, Acknowledge(d)
  PROVE  TypeOK'
<1> DEFINE m == Head(writes[d])
<1>1. PipelineTypeOK(Mutations)' /\ m \in Mutations
  BY HandleSuccessfulWriteStep DEF TypeOK, Acknowledge
<1>2. m.event \in Events
  BY <1>1 DEF Mutations
<1>3. seen' \in [Devices -> [Events -> Counts \cup {Uncached}]]
  <2>1. CASE seen' = seen
    BY <2>1 DEF TypeOK
  <2>2. CASE /\ seen[d][m.event] # Uncached
             /\ seen' = [seen EXCEPT ![d][m.event] = PatchCounts(@, m)]
    <3>1. PatchCounts(seen[d][m.event], m) \in Counts
      BY <1>1, <1>2, <2>2, PatchTyped DEF TypeOK
    <3> HIDE DEF m
    <3> QED BY <1>2, <2>2, <3>1 DEF TypeOK
  <2> QED BY <2>1, <2>2 DEF Acknowledge
<1>4. /\ applied \in [Devices -> Nat] /\ applied[d] > 0
      /\ applied' = [applied EXCEPT ![d] = @ - 1]
  BY DEF TypeOK, PipelineTypeOK, Acknowledge, HandleSuccessfulWrite
<1>5. /\ watched' \in [Devices -> Nat]
      /\ \A c \in Devices : watched'[c] <= applied'[c]
  BY <1>4 DEF TypeOK, Acknowledge
<1> QED BY <1>1, <1>3, <1>5 DEF TypeOK, Acknowledge, serverVars

LEMMA RefuseTyped ==
  ASSUME TypeOK, NEW d \in Devices, Refuse(d)
  PROVE  TypeOK'
<1> DEFINE m == Head(writes[d])
<1>1. PipelineTypeOK(Mutations)' /\ m \in Mutations
  BY HandleRejectedWriteStep DEF TypeOK, Refuse
<1>2. m.event \in Events /\ Owner[d] \in Users
  BY <1>1, EnrolmentAssumption DEF Mutations
<1>3. lost' \subseteq Users \X Events
  BY <1>2 DEF TypeOK, Refuse
<1>4. UNCHANGED applied
  BY DEF Refuse, HandleRejectedWrite
<1> QED BY <1>1, <1>3, <1>4 DEF TypeOK, Refuse, serverVars, cacheVars

LEMMA StreamBreaksTyped ==
  ASSUME TypeOK, NEW d \in Devices, StreamBreaks(d)
  PROVE  TypeOK'
<1>1. PipelineTypeOK(Mutations)'
  BY OnWriteStreamCloseStep DEF TypeOK, StreamBreaks
<1>2. /\ watched' \in [Devices -> Nat]
      /\ \A c \in Devices : watched'[c] <= applied'[c]
  BY DEF TypeOK, PipelineTypeOK, StreamBreaks, OnWriteStreamClose
<1> QED BY <1>1, <1>2 DEF TypeOK, StreamBreaks, serverVars

LEMMA RelaunchTyped ==
  ASSUME TypeOK, NEW d \in Devices, Relaunch(d)
  PROVE  TypeOK'
<1>1. PipelineTypeOK(Mutations)'
  BY RestartStep DEF TypeOK, Relaunch
<1>2. /\ watched' \in [Devices -> Nat]
      /\ \A c \in Devices : watched'[c] <= applied'[c]
  <2>1. applied \in [Devices -> Nat] /\ watched \in [Devices -> Nat]
    BY DEF TypeOK, PipelineTypeOK
  <2>2. applied' = applied /\ watched' = [watched EXCEPT ![d] = 0]
    BY DEF Relaunch, Restart
  <2> QED BY <2>1, <2>2 DEF TypeOK
<1>3. screen' \in [Screens -> Details \cup {Unopened}]
  <2>1. \A s \in Screens : Opened(s) =>
          [screen[s] EXCEPT !.state = "closed", !.reads = 0] \in Details
    BY DetailUpdates DEF TypeOK, Opened
  <2> QED BY <2>1 DEF TypeOK, Relaunch
<1>4. lost' \subseteq Users \X Events
  <2>1. \A j \in Unpersisted(d) : writes[d][j].event \in Events
    <3>1. writes[d] \in Seq(Mutations)
      BY DEF TypeOK, PipelineTypeOK
    <3>2. \A j \in 1 .. Len(writes[d]) : writes[d][j] \in Mutations
      BY <3>1, ElementOfSeq
    <3> QED BY <3>2 DEF Unpersisted, Mutations
  <2>2. Owner[d] \in Users
    BY EnrolmentAssumption
  <2> DEFINE L == {<<Owner[d], writes[d][i].event>> :
                      i \in {j \in Unpersisted(d) : writes[d][j].op = "updateEventUser"}}
  <2>3. L \subseteq Users \X Events
    BY <2>1, <2>2
  <2>4. lost' = lost \cup L
    BY DEF Relaunch
  <2> HIDE DEF L
  <2> QED BY <2>3, <2>4 DEF TypeOK
<1> QED BY <1>1, <1>2, <1>3, <1>4 DEF TypeOK, Relaunch, serverVars

LEMMA StutterTyped ==
  ASSUME TypeOK, UNCHANGED vars
  PROVE  TypeOK'
<1>1. PipelineTypeOK(Mutations)'
  BY PipelineUnchanged DEF TypeOK, vars, pipelineVars
<1> QED BY <1>1 DEF TypeOK, vars

LEMMA NextTyped ==
  ASSUME TypeOK, [Next]_vars
  PROVE  TypeOK'
<1>1. ASSUME NEW d \in Devices, ShowEvents(d) PROVE TypeOK'
  BY <1>1, ShowEventsTyped
<1>2. ASSUME NEW d \in Devices, Persist(d) PROVE TypeOK'
  BY <1>2, PersistTyped
<1>3. ASSUME NEW d \in Devices, ServerApplies(d) PROVE TypeOK'
  BY <1>3, ServerAppliesTyped
<1>4. ASSUME NEW d \in Devices, Acknowledge(d) PROVE TypeOK'
  BY <1>4, AcknowledgeTyped
<1>5. ASSUME NEW d \in Devices, Refuse(d) PROVE TypeOK'
  BY <1>5, RefuseTyped
<1>6. ASSUME NEW d \in Devices, StreamBreaks(d) PROVE TypeOK'
  BY <1>6, StreamBreaksTyped
<1>7. ASSUME NEW d \in Devices, Relaunch(d) PROVE TypeOK'
  BY <1>7, RelaunchTyped
<1>8. ASSUME NEW s \in Screens,
             \/ CloseDetail(s) \/ TapEntry(s) \/ GetUserEventsFails(s)
             \/ \E d \in Devices, e \in Events : OpenDetail(s, d, e)
      PROVE TypeOK'
  BY <1>8, ScreenStepTyped
<1>9. ASSUME NEW s \in Screens, GetUserEventsAnswers(s) PROVE TypeOK'
  BY <1>9, AnswerTyped
<1>10. CASE UNCHANGED vars
  BY <1>10, StutterTyped
<1> QED BY <1>1, <1>2, <1>3, <1>4, <1>5, <1>6, <1>7, <1>8, <1>9, <1>10
        DEF Next, AllUsed

(* Every reachable state is well typed: the indices of the pipelines and   *)
(* of the cache stay in order whatever is enqueued, answered, resent,      *)
(* refused or lost.                                                        *)
THEOREM TypeCorrect == Spec => []TypeOK
<1>1. TypeOK /\ [Next]_vars => TypeOK'
  BY NextTyped
<1> QED BY InitTyped, <1>1, PTL DEF Spec
----------------------------------------------------------------------------
(* The steps that can disturb the two sides of an entry.                   *)

LEMMA StepsOfEntries ==
  ASSUME [Next]_vars
  PROVE  \/ UNCHANGED <<writes, applied, userEvents, eventUsers, lost>>
         \/ \E s \in Screens : Waiting(s) /\ EnterEvent(s)
         \/ \E d \in Devices : \/ ServerApplies(d) \/ Acknowledge(d) \/ Refuse(d)
                              \/ StreamBreaks(d) \/ Relaunch(d)
<1> DEFINE Quiet == UNCHANGED <<writes, applied, userEvents, eventUsers, lost>>
<1> USE DEF pipelineVars, serverVars
<1>1. ASSUME NEW d \in Devices, ShowEvents(d) \/ Persist(d) PROVE Quiet
  BY <1>1 DEF ShowEvents, Persist, WriteLocally
<1>2. ASSUME NEW s \in Screens,
             \/ TapEntry(s) \/ CloseDetail(s) \/ GetUserEventsFails(s)
             \/ \E d \in Devices, e \in Events : OpenDetail(s, d, e)
      PROVE Quiet
  BY <1>2 DEF TapEntry, CloseDetail, GetUserEventsFails, OpenDetail
<1>3. ASSUME NEW s \in Screens, GetUserEventsAnswers(s)
      PROVE Quiet \/ (Waiting(s) /\ EnterEvent(s))
  BY <1>3 DEF GetUserEventsAnswers
<1>4. CASE UNCHANGED vars
  BY <1>4 DEF vars
<1>5. CASE AllUsed
  BY <1>4, <1>5 DEF AllUsed
<1> HIDE DEF Quiet
<1>6. ASSUME NEW d \in Devices, NEW s \in Screens, NEW e \in Events, OpenDetail(s, d, e)
      PROVE  Quiet
  BY <1>2, <1>6
<1> QED BY <1>1, <1>2, <1>3, <1>4, <1>5, <1>6, Zenon DEF Next, Quiet

(* An entry puts its four writes behind those that are under way already.  *)
LEMMA EntryStep ==
  ASSUME TypeOK, NEW s \in Screens, Waiting(s), EnterEvent(s)
  PROVE  \E d \in Devices, e \in Events, n \in Nat :
           /\ screen[s] \in Details
           /\ d = screen[s].device /\ e = screen[s].event /\ n = Len(writes[d])
           /\ Len(writes'[d]) = n + 4
           /\ \A i \in 1 .. n : writes'[d][i] = writes[d][i]
           /\ writes'[d][n + 1] = Write("updateUserEvent", e, 0)
           /\ writes'[d][n + 2] = Write("updateEventUser", e, 0)
           /\ writes'[d][n + 3] = Write("updateEventMaxMemberCount", e, screen[s].max - 1)
           /\ writes'[d][n + 4] = Write("updateEventMembersCount", e, screen[s].members + 1)
           /\ \A c \in Devices : c # d => writes'[c] = writes[c]
           /\ UNCHANGED <<applied, userEvents, eventUsers, counts, seen, lost>>
<1> DEFINE d == screen[s].device
           e == screen[s].event
           x == screen[s].max - 1
           y == screen[s].members + 1
           n == Len(writes[d])
           ws == EntryWrites(e, x, y)
<1>1. screen[s] \in Details
  BY DEF TypeOK, Waiting, Opened
<1>2. d \in Devices /\ e \in Events /\ x \in Int /\ y \in Int
  BY <1>1 DEF Details
<1>3. /\ ws \in Seq(Mutations) /\ Len(ws) = 4
      /\ ws[1] = Write("updateUserEvent", e, 0)
      /\ ws[2] = Write("updateEventUser", e, 0)
      /\ ws[3] = Write("updateEventMaxMemberCount", e, x)
      /\ ws[4] = Write("updateEventMembersCount", e, y)
  <2> HIDE DEF e, x, y
  <2> QED BY <1>2, EntryWritesTyped
<1>4. WriteMutations(d, ws) /\ UNCHANGED <<serverVars, cacheVars, lost>>
  BY DEF EnterEvent
<1>5. PipelineTypeOK(Mutations)
  BY DEF TypeOK
<1>6. n \in Nat
  BY <1>2, <1>5, LenProperties DEF PipelineTypeOK
<1> HIDE DEF d, e, x, y, ws
<1>7. /\ Len(writes'[d]) = Len(writes[d]) + Len(ws)
      /\ \A i \in 1 .. Len(writes[d]) : writes'[d][i] = writes[d][i]
      /\ \A i \in 1 .. Len(ws) : writes'[d][Len(writes[d]) + i] = ws[i]
      /\ \A c \in Devices : c # d => writes'[c] = writes[c]
  <2>1. d \in Devices /\ ws \in Seq(Mutations) /\ WriteMutations(d, ws)
    BY <1>2, <1>3, <1>4
  <2> QED BY <1>5, <2>1, WriteMutationsStep
<1>8. /\ writes'[d][n + 1] = ws[1] /\ writes'[d][n + 2] = ws[2]
      /\ writes'[d][n + 3] = ws[3] /\ writes'[d][n + 4] = ws[4]
  <2>1. \A i \in 1 .. 4 : writes'[d][n + i] = ws[i]
    BY <1>3, <1>7
  <2> QED BY <2>1
<1>9. UNCHANGED <<applied, userEvents, eventUsers, counts, seen, lost>>
  BY <1>4 DEF WriteMutations, serverVars, cacheVars
<1>10. /\ d = screen[s].device /\ e = screen[s].event
       /\ x = screen[s].max - 1 /\ y = screen[s].members + 1
  BY DEF d, e, x, y
<1> HIDE DEF n
<1>11. n = Len(writes[d])
  BY DEF n
<1>12. /\ screen[s] \in Details
       /\ d = screen[s].device /\ e = screen[s].event /\ n = Len(writes[d])
       /\ Len(writes'[d]) = n + 4
       /\ \A i \in 1 .. n : writes'[d][i] = writes[d][i]
       /\ writes'[d][n + 1] = Write("updateUserEvent", e, 0)
       /\ writes'[d][n + 2] = Write("updateEventUser", e, 0)
       /\ writes'[d][n + 3] = Write("updateEventMaxMemberCount", e, screen[s].max - 1)
       /\ writes'[d][n + 4] = Write("updateEventMembersCount", e, screen[s].members + 1)
       /\ \A c \in Devices : c # d => writes'[c] = writes[c]
       /\ UNCHANGED <<applied, userEvents, eventUsers, counts, seen, lost>>
  BY <1>1, <1>3, <1>7, <1>8, <1>9, <1>10, <1>11
<1> QED BY <1>2, <1>6, <1>12

(* Applying a write moves one index and adds to the documents; it never    *)
(* takes anything away, and after it the write is in the documents.        *)
LEMMA ApplyStep ==
  ASSUME TypeOK, NEW d \in Devices, ServerApplies(d)
  PROVE  LET m == NextToApply(d)
         IN  /\ m \in Mutations /\ m.event \in Events /\ Owner[d] \in Users
             /\ applied[d] + 1 \in 1 .. Len(writes[d])
             /\ applied' = [applied EXCEPT ![d] = @ + 1]
             /\ UNCHANGED <<writes, lost, entries, seen, screen>>
             /\ Effect(Owner[d], m)
             /\ \A u \in Users : userEvents[u] \subseteq userEvents'[u]
             /\ \A e \in Events : eventUsers[e] \subseteq eventUsers'[e]
             /\ m.op = "updateUserEvent" => m.event \in userEvents'[Owner[d]]
             /\ m.op = "updateEventUser" => Owner[d] \in eventUsers'[m.event]
             /\ \A u \in Users : \A e \in userEvents'[u] :
                  \/ e \in userEvents[u]
                  \/ u = Owner[d] /\ e = m.event /\ m.op = "updateUserEvent"
             /\ \A e \in Events : \A u \in eventUsers'[e] :
                  \/ u \in eventUsers[e]
                  \/ u = Owner[d] /\ e = m.event /\ m.op = "updateEventUser"
<1> DEFINE m == NextToApply(d)
<1>1. ApplyAtServer(d) /\ PipelineTypeOK(Mutations)
  BY DEF ServerApplies, TypeOK
<1>2. applied[d] + 1 \in 1 .. Len(writes[d]) /\ m \in Mutations
  BY <1>1, ApplyAtServerStep
<1>3. m.event \in Events /\ Owner[d] \in Users
  BY <1>2, EnrolmentAssumption DEF Mutations
<1>4. applied' = [applied EXCEPT ![d] = @ + 1] /\ UNCHANGED <<writes, lost, entries, seen, screen>>
  BY DEF ServerApplies, ApplyAtServer, cacheVars
<1>5. Effect(Owner[d], m)
  BY DEF ServerApplies
<1> HIDE DEF m
<1>6. /\ userEvents' = [userEvents EXCEPT ![Owner[d]] =
                          IF m.op = "updateUserEvent" THEN @ \cup {m.event} ELSE @]
      /\ eventUsers' = [eventUsers EXCEPT ![m.event] =
                          IF m.op = "updateEventUser" THEN @ \cup {Owner[d]} ELSE @]
  BY <1>5 DEF Effect
<1>7. /\ \A u \in Users : userEvents[u] \subseteq userEvents'[u]
      /\ m.op = "updateUserEvent" => m.event \in userEvents'[Owner[d]]
      /\ \A u \in Users : \A e \in userEvents'[u] :
           \/ e \in userEvents[u]
           \/ u = Owner[d] /\ e = m.event /\ m.op = "updateUserEvent"
  BY <1>3, <1>6 DEF TypeOK
<1>8. /\ \A e \in Events : eventUsers[e] \subseteq eventUsers'[e]
      /\ m.op = "updateEventUser" => Owner[d] \in eventUsers'[m.event]
      /\ \A e \in Events : \A u \in eventUsers'[e] :
           \/ u \in eventUsers[e]
           \/ u = Owner[d] /\ e = m.event /\ m.op = "updateEventUser"
  BY <1>3, <1>6 DEF TypeOK
<1> QED BY <1>2, <1>3, <1>4, <1>5, <1>7, <1>8 DEF m

(* A write that leaves the front of the queue, answered or refused.        *)
LEMMA DropStep ==
  ASSUME TypeOK, NEW d \in Devices, Acknowledge(d) \/ Refuse(d)
  PROVE  /\ Len(writes[d]) \in Nat /\ Len(writes[d]) > 0
         /\ Len(writes'[d]) = Len(writes[d]) - 1
         /\ \A i \in 1 .. Len(writes'[d]) : writes'[d][i] = writes[d][i + 1]
         /\ Head(writes[d]) = writes[d][1]
         /\ \A c \in Devices : c # d => writes'[c] = writes[c] /\ applied'[c] = applied[c]
         /\ UNCHANGED <<userEvents, eventUsers>>
         /\ Acknowledge(d) => applied[d] > 0 /\ applied'[d] = applied[d] - 1 /\ lost' = lost
         /\ Refuse(d) => applied[d] = 0 /\ applied'[d] = 0 /\ lost \subseteq lost'
<1>1. PipelineTypeOK(Mutations) /\ (HandleSuccessfulWrite(d) \/ HandleRejectedWrite(d))
  BY DEF TypeOK, Acknowledge, Refuse
<1>2. /\ stored[d] > 0
      /\ Len(writes'[d]) = Len(writes[d]) - 1
      /\ \A i \in 1 .. Len(writes'[d]) : writes'[d][i] = writes[d][i + 1]
      /\ Head(writes[d]) = writes[d][1]
      /\ \A c \in Devices : c # d => writes'[c] = writes[c]
  BY <1>1, HandleSuccessfulWriteStep, HandleRejectedWriteStep
<1>3. Len(writes[d]) \in Nat /\ stored[d] <= Len(writes[d])
  BY <1>1, LenProperties DEF PipelineTypeOK
<1>4. Len(writes[d]) > 0
  BY <1>1, <1>2, <1>3 DEF PipelineTypeOK
<1>5. /\ \A c \in Devices : c # d => applied'[c] = applied[c]
      /\ Acknowledge(d) => applied[d] > 0 /\ applied'[d] = applied[d] - 1 /\ lost' = lost
      /\ Refuse(d) => applied[d] = 0 /\ applied'[d] = 0 /\ lost \subseteq lost'
  BY <1>1 DEF Acknowledge, Refuse, HandleSuccessfulWrite, HandleRejectedWrite, PipelineTypeOK
<1>6. UNCHANGED <<userEvents, eventUsers>>
  BY DEF Acknowledge, Refuse, serverVars
<1> QED BY <1>2, <1>3, <1>4, <1>5, <1>6

LEMMA RelaunchStep ==
  ASSUME TypeOK, NEW d \in Devices, Relaunch(d)
  PROVE  /\ Len(writes[d]) \in Nat /\ stored[d] \in 0 .. Len(writes[d])
         /\ Len(writes'[d]) = stored[d]
         /\ \A i \in 1 .. stored[d] : writes'[d][i] = writes[d][i]
         /\ \A c \in Devices : c # d => writes'[c] = writes[c]
         /\ applied' = applied
         /\ lost \subseteq lost'
         /\ \A i \in stored[d] + 1 .. Len(writes[d]) :
              writes[d][i].op = "updateEventUser" => <<Owner[d], writes[d][i].event>> \in lost'
         /\ UNCHANGED <<userEvents, eventUsers, counts, seen, entries>>
<1>1. PipelineTypeOK(Mutations) /\ Restart(d)
  BY DEF TypeOK, Relaunch
<1>2. Len(writes[d]) \in Nat /\ stored[d] \in 0 .. Len(writes[d])
  BY <1>1, LenProperties DEF PipelineTypeOK
<1>3. /\ Len(writes'[d]) = stored[d]
      /\ \A i \in 1 .. stored[d] : writes'[d][i] = writes[d][i]
      /\ \A c \in Devices : c # d => writes'[c] = writes[c]
  BY <1>1, RestartStep
<1>4. applied' = applied
  BY <1>1 DEF Restart
<1>5. /\ lost \subseteq lost'
      /\ \A i \in stored[d] + 1 .. Len(writes[d]) :
           writes[d][i].op = "updateEventUser" => <<Owner[d], writes[d][i].event>> \in lost'
  <2>1. lost' = lost \cup {<<Owner[d], writes[d][i].event>> :
                            i \in {j \in Unpersisted(d) : writes[d][j].op = "updateEventUser"}}
    BY DEF Relaunch
  <2>2. \A i \in stored[d] + 1 .. Len(writes[d]) : i \in Unpersisted(d)
    BY <1>2 DEF Unpersisted
  <2> QED BY <2>1, <2>2
<1>6. UNCHANGED <<userEvents, eventUsers, counts, seen, entries>>
  BY DEF Relaunch, serverVars
<1> QED BY <1>2, <1>3, <1>4, <1>5, <1>6
----------------------------------------------------------------------------
(* The documents change only when the server applies a write.              *)
LEMMA OnlyServerAdds ==
  ASSUME TypeOK, [Next]_vars
  PROVE  UNCHANGED <<userEvents, eventUsers>> \/ \E d \in Devices : ServerApplies(d)
BY StepsOfEntries, EntryStep, DropStep, RelaunchStep DEF StreamBreaks, serverVars

(* Whatever the server has applied stays in its documents.                 *)

LEMMA AppliedStep ==
  ASSUME TypeOK, AppliedTakesEffect, [Next]_vars
  PROVE  AppliedTakesEffect'
<1>0. \A d \in Devices : /\ applied[d] \in Nat /\ Len(writes[d]) \in Nat
                         /\ applied[d] <= Len(writes[d])
  BY LenProperties DEF TypeOK, PipelineTypeOK
<1>1. CASE UNCHANGED <<writes, applied, userEvents, eventUsers, lost>>
  BY <1>1 DEF AppliedTakesEffect
<1>2. ASSUME NEW s \in Screens, Waiting(s), EnterEvent(s)
      PROVE  AppliedTakesEffect'
  <2>1. PICK d \in Devices, n \in Nat :
           /\ n = Len(writes[d])
           /\ \A i \in 1 .. n : writes'[d][i] = writes[d][i]
           /\ \A c \in Devices : c # d => writes'[c] = writes[c]
           /\ UNCHANGED <<applied, userEvents, eventUsers>>
    BY <1>2, EntryStep
  <2>2. \A c \in Devices : \A i \in 1 .. applied[c] : writes'[c][i] = writes[c][i]
    BY <1>0, <2>1
  <2> QED BY <2>1, <2>2 DEF AppliedTakesEffect
<1>3. ASSUME NEW d \in Devices, ServerApplies(d)
      PROVE  AppliedTakesEffect'
  <2> SUFFICES ASSUME NEW c \in Devices, NEW i \in 1 .. applied'[c]
               PROVE  /\ writes[c][i].op = "updateUserEvent"
                            => writes[c][i].event \in userEvents'[Owner[c]]
                      /\ writes[c][i].op = "updateEventUser"
                            => Owner[c] \in eventUsers'[writes[c][i].event]
    BY <1>3, ApplyStep DEF AppliedTakesEffect
  <2>1. CASE c = d /\ i = applied[d] + 1
    BY <1>3, <2>1, ApplyStep DEF NextToApply
  <2>2. CASE ~(c = d /\ i = applied[d] + 1)
    <3>1. i \in 1 .. applied[c]
      <4>1. applied' = [applied EXCEPT ![d] = @ + 1]
        BY <1>3, ApplyStep
      <4>2. applied'[d] = applied[d] + 1 /\ (c # d => applied'[c] = applied[c])
        BY <4>1 DEF TypeOK, PipelineTypeOK
      <4>3. i \in Int
        OBVIOUS
      <4> QED BY <1>0, <2>2, <4>2, <4>3
    <3>2. /\ Owner[c] \in Users /\ writes[c][i].event \in Events
      <4>1. writes[c][i] \in Mutations
        BY <1>0, <3>1, ElementOfSeq DEF TypeOK, PipelineTypeOK
      <4> QED BY <4>1, EnrolmentAssumption DEF Mutations
    <3> QED BY <1>3, <3>1, <3>2, ApplyStep DEF AppliedTakesEffect
  <2> QED BY <2>1, <2>2
<1>4. ASSUME NEW d \in Devices, Acknowledge(d) \/ Refuse(d)
      PROVE  AppliedTakesEffect'
  <2> SUFFICES ASSUME NEW c \in Devices, NEW i \in 1 .. applied'[c]
               PROVE  /\ writes'[c][i].op = "updateUserEvent"
                            => writes'[c][i].event \in userEvents[Owner[c]]
                      /\ writes'[c][i].op = "updateEventUser"
                            => Owner[c] \in eventUsers[writes'[c][i].event]
    BY <1>4, DropStep DEF AppliedTakesEffect
  <2>1. CASE c = d
    <3>1. i + 1 \in 1 .. applied[c] /\ i \in 1 .. Len(writes'[c])
      BY <1>0, <1>4, <2>1, DropStep
    <3>2. writes'[c][i] = writes[c][i + 1]
      BY <1>4, <2>1, <3>1, DropStep
    <3> QED BY <3>1, <3>2 DEF AppliedTakesEffect
  <2>2. CASE c # d
    BY <1>4, <2>2, DropStep DEF AppliedTakesEffect
  <2> QED BY <2>1, <2>2
<1>5. ASSUME NEW d \in Devices, StreamBreaks(d)
      PROVE  AppliedTakesEffect'
  <2>1. /\ applied'[d] = 0
        /\ \A c \in Devices : c # d => applied'[c] = applied[c]
        /\ UNCHANGED <<writes, userEvents, eventUsers>>
    BY <1>5 DEF StreamBreaks, OnWriteStreamClose, serverVars, TypeOK, PipelineTypeOK
  <2>2. \A c \in Devices : \A i \in 1 .. applied'[c] : c # d
    BY <2>1
  <2> QED BY <2>1, <2>2 DEF AppliedTakesEffect
<1>6. ASSUME NEW d \in Devices, Relaunch(d)
      PROVE  AppliedTakesEffect'
  <2>1. ASSUME NEW c \in Devices, NEW i \in 1 .. applied'[c]
        PROVE  writes'[c][i] = writes[c][i] /\ i \in 1 .. applied[c]
    <3>1. applied' = applied /\ applied[d] \in Nat /\ stored[d] \in Nat
          /\ applied[d] <= stored[d]
      BY <1>6, RelaunchStep DEF TypeOK, PipelineTypeOK
    <3>2. CASE c = d
      BY <1>6, <3>1, <3>2, RelaunchStep
    <3>3. CASE c # d
      BY <1>6, <3>1, <3>3, RelaunchStep
    <3> QED BY <3>2, <3>3
  <2>2. UNCHANGED <<userEvents, eventUsers>>
    BY <1>6, RelaunchStep
  <2> QED BY <2>1, <2>2 DEF AppliedTakesEffect
<1> QED BY <1>1, <1>2, <1>3, <1>4, <1>5, <1>6, StepsOfEntries
----------------------------------------------------------------------------
(* The roster is backed by the users' lists.                               *)

LEMMA UserWriteFirstStep ==
  ASSUME TypeOK, UserWriteFirst, "updateUserEvent" \notin Rejectable,
         AppliedTakesEffect, [Next]_vars
  PROVE  UserWriteFirst'
<1>0. \A d \in Devices : Len(writes[d]) \in Nat
  BY LenProperties DEF TypeOK, PipelineTypeOK
<1>1. CASE UNCHANGED <<writes, applied, userEvents, eventUsers, lost>>
  BY <1>1 DEF UserWriteFirst, Waits
<1>2. ASSUME NEW s \in Screens, Waiting(s), EnterEvent(s)
      PROVE  UserWriteFirst'
  <2>1. PICK d \in Devices, e \in Events, n \in Nat :
        /\ n = Len(writes[d])
        /\ Len(writes'[d]) = n + 4
        /\ \A i \in 1 .. n : writes'[d][i] = writes[d][i]
        /\ writes'[d][n + 1] = Write("updateUserEvent", e, 0)
        /\ writes'[d][n + 2] = Write("updateEventUser", e, 0)
        /\ writes'[d][n + 3] = Write("updateEventMaxMemberCount", e, screen[s].max - 1)
        /\ writes'[d][n + 4] = Write("updateEventMembersCount", e, screen[s].members + 1)
        /\ \A c \in Devices : c # d => writes'[c] = writes[c]
        /\ UNCHANGED userEvents
    BY <1>2, EntryStep
  <2> SUFFICES ASSUME NEW c \in Devices, NEW i \in 1 .. Len(writes'[c]),
                      writes'[c][i].op = "updateEventUser"
               PROVE  \/ writes'[c][i].event \in userEvents[Owner[c]]
                      \/ \E j \in 1 .. i - 1 :
                           Waits(c, j, "updateUserEvent", writes[c][i].event)'
    BY <2>1 DEF UserWriteFirst, Waits
  <2>2. CASE c # d
    <3>1. writes'[c] = writes[c]
      BY <2>1, <2>2
    <3>2. \/ writes[c][i].event \in userEvents[Owner[c]]
          \/ \E j \in 1 .. i - 1 : Waits(c, j, "updateUserEvent", writes[c][i].event)
      BY <3>1 DEF UserWriteFirst
    <3> QED BY <3>1, <3>2 DEF Waits
  <2>3. CASE c = d /\ i \in 1 .. n
    <3>1. \A j \in 1 .. i : writes'[c][j] = writes[c][j]
      BY <2>1, <2>3
    <3>2. i \in 1 .. Len(writes[c]) /\ writes[c][i] = writes'[c][i]
      BY <2>1, <2>3, <3>1
    <3>3. \/ writes[c][i].event \in userEvents[Owner[c]]
          \/ \E j \in 1 .. i - 1 : Waits(c, j, "updateUserEvent", writes[c][i].event)
      BY <3>2 DEF UserWriteFirst
    <3>4. \A j \in 1 .. i - 1 : writes'[c][j] = writes[c][j]
      BY <2>3, <3>1
    <3> QED BY <3>2, <3>3, <3>4 DEF Waits
  <2>4. CASE c = d /\ i = n + 2
    <3>1. n + 1 \in 1 .. i - 1
      BY <2>1, <2>4
    <3>2. /\ writes'[c][n + 1].op = "updateUserEvent"
          /\ writes'[c][n + 1].event = writes'[c][i].event
      BY <2>1, <2>4 DEF Write
    <3> QED BY <3>1, <3>2 DEF Waits
  <2>5. CASE c = d /\ i \in {n + 1, n + 3, n + 4}
    BY <2>1, <2>5 DEF Write
  <2>6. ASSUME c = d
        PROVE  i \in 1 .. n \/ i \in {n + 1, n + 2, n + 3, n + 4}
    <3>1. i \in 1 .. n + 4
      BY <2>1, <2>6
    <3> QED BY <3>1
  <2> QED BY <2>2, <2>3, <2>4, <2>5, <2>6
<1>3. ASSUME NEW d \in Devices, ServerApplies(d)
      PROVE  UserWriteFirst'
  <2>1. writes' = writes /\ \A u \in Users : userEvents[u] \subseteq userEvents'[u]
    BY <1>3, ApplyStep
  <2>2. \A c \in Devices : Owner[c] \in Users
    BY EnrolmentAssumption
  <2> QED BY <2>1, <2>2 DEF UserWriteFirst, Waits
<1>4. ASSUME NEW d \in Devices, Acknowledge(d) \/ Refuse(d)
      PROVE  UserWriteFirst'
  <2> SUFFICES ASSUME NEW c \in Devices, NEW i \in 1 .. Len(writes'[c]),
                      writes'[c][i].op = "updateEventUser"
               PROVE  \/ writes'[c][i].event \in userEvents[Owner[c]]
                      \/ \E j \in 1 .. i - 1 :
                           Waits(c, j, "updateUserEvent", writes[c][i].event)'
    BY <1>4, DropStep DEF UserWriteFirst, Waits
  <2>1. CASE c # d
    BY <1>4, <2>1, DropStep DEF UserWriteFirst, Waits
  <2>2. CASE c = d
    <3>1. /\ i + 1 \in 1 .. Len(writes[c]) /\ writes'[c][i] = writes[c][i + 1]
          /\ \A j \in 1 .. i : writes'[c][j] = writes[c][j + 1]
      <4>1. /\ Len(writes'[c]) = Len(writes[c]) - 1
            /\ \A j \in 1 .. Len(writes'[c]) : writes'[c][j] = writes[c][j + 1]
        BY <1>4, <2>2, DropStep
      <4>2. \A j \in 1 .. i : j \in 1 .. Len(writes'[c])
        BY <1>0, <4>1
      <4> QED BY <1>0, <4>1, <4>2
    <3>2. CASE writes[c][i + 1].event \in userEvents[Owner[c]]
      BY <3>1, <3>2
    <3>3. ASSUME NEW j \in 1 .. i, Waits(c, j, "updateUserEvent", writes[c][i + 1].event)
          PROVE  \/ writes'[c][i].event \in userEvents[Owner[c]]
                 \/ \E k \in 1 .. i - 1 :
                      Waits(c, k, "updateUserEvent", writes[c][i].event)'
      <4>1. CASE j = 1
        <5>1. Head(writes[c]) = writes[c][1] /\ writes[c][1].op = "updateUserEvent"
          BY <1>4, <2>2, <3>3, <4>1, DropStep DEF Waits
        <5>2. ~Refuse(d)
          BY <2>2, <5>1 DEF Refuse
        <5>3. 1 \in 1 .. applied[c]
          BY <1>4, <2>2, <5>2, DropStep DEF TypeOK, PipelineTypeOK
        <5> QED BY <3>1, <3>3, <4>1, <5>3 DEF AppliedTakesEffect, Waits
      <4>2. CASE j # 1
        <5>1. j - 1 \in 1 .. i - 1 /\ j - 1 \in 1 .. i /\ (j - 1) + 1 = j
          BY <1>0, <3>1, <4>2
        <5>2. writes'[c][j - 1] = writes[c][j]
          BY <3>1, <5>1
        <5> QED BY <3>1, <3>3, <5>1, <5>2 DEF Waits
      <4> QED BY <4>1, <4>2
    <3> QED BY <3>1, <3>2, <3>3 DEF UserWriteFirst
  <2> QED BY <2>1, <2>2
<1>5. ASSUME NEW d \in Devices, StreamBreaks(d)
      PROVE  UserWriteFirst'
  BY <1>5 DEF StreamBreaks, OnWriteStreamClose, serverVars, UserWriteFirst, Waits
<1>6. ASSUME NEW d \in Devices, Relaunch(d)
      PROVE  UserWriteFirst'
  <2>1. \A c \in Devices : /\ Len(writes'[c]) \in Nat /\ Len(writes'[c]) <= Len(writes[c])
                           /\ \A i \in 1 .. Len(writes'[c]) : writes'[c][i] = writes[c][i]
    BY <1>0, <1>6, RelaunchStep
  <2>2. UNCHANGED userEvents
    BY <1>6, RelaunchStep
  <2> SUFFICES ASSUME NEW c \in Devices, NEW i \in 1 .. Len(writes'[c]),
                      writes'[c][i].op = "updateEventUser"
               PROVE  \/ writes'[c][i].event \in userEvents[Owner[c]]
                      \/ \E j \in 1 .. i - 1 :
                           Waits(c, j, "updateUserEvent", writes[c][i].event)'
    BY <2>2 DEF UserWriteFirst, Waits
  <2>3. i \in 1 .. Len(writes[c]) /\ \A j \in 1 .. i : writes'[c][j] = writes[c][j]
    BY <1>0, <2>1
  <2>4. writes'[c][i] = writes[c][i]
    BY <1>0, <2>1, <2>3
  <2>5. \/ writes[c][i].event \in userEvents[Owner[c]]
        \/ \E j \in 1 .. i - 1 : Waits(c, j, "updateUserEvent", writes[c][i].event)
    BY <2>3, <2>4 DEF UserWriteFirst
  <2>6. \A j \in 1 .. i - 1 : writes'[c][j] = writes[c][j]
    BY <1>0, <2>3
  <2> QED BY <2>4, <2>5, <2>6 DEF Waits
<1> QED BY <1>1, <1>2, <1>3, <1>4, <1>5, <1>6, StepsOfEntries

(* An entry reaches the event's roster only after the user's own list, for *)
(* any number of devices, stale screens, lost answers and crashes, as long *)
(* as the backend does not refuse the writes to the users' documents.      *)
LEMMA RosterStep ==
  ASSUME "updateUserEvent" \notin Rejectable, RosterInv, [Next]_vars
  PROVE  RosterInv'
<1>1. TypeOK' /\ AppliedTakesEffect' /\ UserWriteFirst'
  BY NextTyped, AppliedStep, UserWriteFirstStep DEF RosterInv
<1>2. CASE UNCHANGED <<userEvents, eventUsers>>
  BY <1>1, <1>2 DEF RosterInv, RosterBackedByUser
<1>3. ASSUME NEW d \in Devices, ServerApplies(d)
      PROVE  RosterBackedByUser'
  <2> SUFFICES ASSUME NEW e \in Events, NEW u \in eventUsers'[e]
               PROVE  e \in userEvents'[u]
    BY DEF RosterBackedByUser
  <2>1. u \in Users
    BY <1>1 DEF TypeOK
  <2>2. CASE u \in eventUsers[e]
    BY <1>3, <2>1, <2>2, ApplyStep DEF RosterInv, RosterBackedByUser
  <2>3. CASE u \notin eventUsers[e]
    <3> DEFINE k == applied[d] + 1
    <3>1. /\ u = Owner[d] /\ e = writes[d][k].event /\ writes[d][k].op = "updateEventUser"
          /\ k \in 1 .. Len(writes[d]) /\ applied[d] \in Nat
      BY <1>3, <2>3, ApplyStep DEF RosterInv, TypeOK, PipelineTypeOK, NextToApply
    <3>2. CASE writes[d][k].event \in userEvents[Owner[d]]
      <4>1. userEvents[u] \subseteq userEvents'[u]
        BY <1>3, <2>1, ApplyStep DEF RosterInv
      <4> QED BY <3>1, <3>2, <4>1
    <3>3. ASSUME NEW j \in 1 .. k - 1, Waits(d, j, "updateUserEvent", writes[d][k].event)
          PROVE  e \in userEvents'[u]
      <4>1. j \in 1 .. applied[d]
        BY <3>1
      <4>2. userEvents[u] \subseteq userEvents'[u]
        BY <1>3, <2>1, ApplyStep DEF RosterInv
      <4> QED BY <3>1, <3>3, <4>1, <4>2 DEF RosterInv, AppliedTakesEffect, Waits
    <3> QED BY <3>1, <3>2, <3>3 DEF RosterInv, UserWriteFirst
  <2> QED BY <2>2, <2>3
<1> QED BY <1>1, <1>2, <1>3, OnlyServerAdds DEF RosterInv

LEMMA RosterInit == Init => RosterInv
<1> SUFFICES ASSUME Init PROVE RosterInv
  OBVIOUS
<1>1. \A d \in Devices : Len(writes[d]) = 0 /\ applied[d] = 0
  BY DEF Init, PipelineInit
<1> QED BY <1>1, InitTyped
        DEF Init, RosterInv, RosterBackedByUser, UserWriteFirst, AppliedTakesEffect

THEOREM RosterAlwaysBacked ==
  ASSUME "updateUserEvent" \notin Rejectable
  PROVE  Spec => []RosterBackedByUser
<1>1. RosterInv /\ [Next]_vars => RosterInv'
  BY RosterStep
<1>2. RosterInv => RosterBackedByUser
  BY DEF RosterInv
<1> QED BY RosterInit, <1>1, <1>2, PTL DEF Spec

(* No step, of any device and in any order, takes a user off a roster or   *)
(* an event out of a user's list.                                          *)
THEOREM NobodyEverDropped == Spec => NobodyDropped
<1>1. TypeOK /\ [Next]_vars => [/\ \A u \in Users  : userEvents[u] \subseteq userEvents'[u]
                               /\ \A e \in Events : eventUsers[e] \subseteq eventUsers'[e]]_vars
  BY OnlyServerAdds, ApplyStep
<1> QED BY TypeCorrect, <1>1, PTL DEF Spec, NobodyDropped

(* Enrolment implements the two-sided ledger: a write that the server      *)
(* applies is a step of the ledger or repeats what the documents hold.     *)
THEOREM ImplementsLedger ==
  ASSUME "updateUserEvent" \notin Rejectable
  PROVE  Spec => LedgerHolds
<1>1. Init => Ledger!LedgerInit
  BY DEF Init, Ledger!LedgerInit
<1>2. RosterInv /\ [Next]_vars => [Ledger!LedgerNext]_(Ledger!ledgerVars)
  <2> SUFFICES ASSUME RosterInv, [Next]_vars
               PROVE  Ledger!LedgerNext \/ UNCHANGED <<userEvents, eventUsers>>
    BY DEF Ledger!ledgerVars
  <2>1. TypeOK /\ RosterInv'
    BY RosterStep DEF RosterInv
  <2>2. ASSUME NEW d \in Devices, ServerApplies(d)
        PROVE  Ledger!LedgerNext \/ UNCHANGED <<userEvents, eventUsers>>
    <3> DEFINE m == NextToApply(d)
               u == Owner[d]
    <3>1. /\ m.event \in Events /\ u \in Users /\ Effect(u, m) /\ m.op \in Ops
      BY <2>1, <2>2, ApplyStep DEF Mutations
    <3> HIDE DEF m, u
    <3>2. CASE m.op = "updateUserEvent"
      <4>1. /\ userEvents' = [userEvents EXCEPT ![u] = @ \cup {m.event}]
            /\ eventUsers' = eventUsers
        BY <2>1, <3>1, <3>2 DEF Effect, TypeOK
      <4>2. CASE m.event \in userEvents[u]
        BY <2>1, <3>1, <4>1, <4>2 DEF TypeOK
      <4>3. CASE m.event \notin userEvents[u]
        BY <3>1, <4>1, <4>3 DEF Ledger!LedgerNext, Ledger!NoteForUser
      <4> QED BY <4>2, <4>3
    <3>3. CASE m.op = "updateEventUser"
      <4>1. /\ userEvents' = userEvents
            /\ eventUsers' = [eventUsers EXCEPT ![m.event] = @ \cup {u}]
        BY <2>1, <3>1, <3>3 DEF Effect, TypeOK
      <4>2. u \in eventUsers'[m.event]
        BY <2>1, <3>1, <4>1 DEF TypeOK
      <4>3. m.event \in userEvents[u]
        BY <2>1, <3>1, <4>1, <4>2 DEF RosterInv, RosterBackedByUser
      <4>4. CASE u \in eventUsers[m.event]
        BY <2>1, <3>1, <4>1, <4>4 DEF TypeOK
      <4>5. CASE u \notin eventUsers[m.event]
        BY <3>1, <4>1, <4>3, <4>5 DEF Ledger!LedgerNext, Ledger!PutOnRoster
      <4> QED BY <4>4, <4>5
    <3>4. CASE m.op \notin {"updateUserEvent", "updateEventUser"}
      BY <2>1, <3>1, <3>4 DEF Effect, TypeOK
    <3> QED BY <3>2, <3>3, <3>4
  <2> QED BY <2>1, <2>2, OnlyServerAdds
<1>3. RosterInv /\ [Next]_vars => RosterInv'
  BY RosterStep
<1> QED BY RosterInit, <1>1, <1>2, <1>3, PTL DEF Spec, LedgerHolds, Ledger!LedgerSpec
----------------------------------------------------------------------------
(* A half-made entry is under way or was lost.                             *)

LEMMA RosterWriteFollowsStep ==
  ASSUME TypeOK, RosterWriteFollows, [Next]_vars
  PROVE  RosterWriteFollows'
<1>0. \A d \in Devices : Len(writes[d]) \in Nat
  BY LenProperties DEF TypeOK, PipelineTypeOK
<1> DEFINE Goal(c, i) ==
      \/ \E j \in i + 1 .. Len(writes'[c]) :
           writes'[c][j].op = "updateEventUser" /\ writes'[c][j].event = writes'[c][i].event
      \/ <<Owner[c], writes'[c][i].event>> \in lost'
<1>1. SUFFICES ASSUME NEW c \in Devices, NEW i \in 1 .. Len(writes'[c]),
                      writes'[c][i].op = "updateUserEvent"
               PROVE  Goal(c, i)
  BY DEF RosterWriteFollows, Waits
<1> DEFINE Here(k) ==
      \/ \E j \in k + 1 .. Len(writes[c]) :
           writes[c][j].op = "updateEventUser" /\ writes[c][j].event = writes[c][k].event
      \/ <<Owner[c], writes[c][k].event>> \in lost
<1>2. \A k \in 1 .. Len(writes[c]) : writes[c][k].op = "updateUserEvent" => Here(k)
  BY DEF RosterWriteFollows, Waits
<1>3. ASSUME writes'[c] = writes[c], lost \subseteq lost'
      PROVE  Goal(c, i)
  BY <1>1, <1>2, <1>3
<1>4. ASSUME NEW s \in Screens, Waiting(s), EnterEvent(s)
      PROVE  Goal(c, i)
  <2>1. PICK d \in Devices, e \in Events, n \in Nat :
          /\ n = Len(writes[d]) /\ Len(writes'[d]) = n + 4
          /\ \A k \in 1 .. n : writes'[d][k] = writes[d][k]
          /\ writes'[d][n + 1] = Write("updateUserEvent", e, 0)
          /\ writes'[d][n + 2] = Write("updateEventUser", e, 0)
          /\ writes'[d][n + 3] = Write("updateEventMaxMemberCount", e, screen[s].max - 1)
          /\ writes'[d][n + 4] = Write("updateEventMembersCount", e, screen[s].members + 1)
          /\ \A b \in Devices : b # d => writes'[b] = writes[b]
          /\ lost' = lost
    BY <1>4, EntryStep
  <2>2. CASE c # d
    BY <1>3, <2>1, <2>2
  <2>3. CASE c = d /\ i \in 1 .. n
    <3>1. writes'[c][i] = writes[c][i] /\ i \in 1 .. Len(writes[c]) /\ Here(i)
      BY <1>1, <1>2, <2>1, <2>3
    <3>2. \A j \in i + 1 .. Len(writes[c]) :
            j \in i + 1 .. Len(writes'[c]) /\ writes'[c][j] = writes[c][j]
      BY <2>1, <2>3
    <3> QED BY <2>1, <3>1, <3>2
  <2>4. CASE c = d /\ i = n + 1
    <3>1. n + 2 \in i + 1 .. Len(writes'[c])
      BY <2>1, <2>4
    <3>2. writes'[c][n + 2].op = "updateEventUser" /\ writes'[c][n + 2].event = writes'[c][i].event
      BY <2>1, <2>4 DEF Write
    <3> QED BY <3>1, <3>2
  <2>5. CASE c = d /\ i \in {n + 2, n + 3, n + 4}
    BY <1>1, <2>1, <2>5 DEF Write
  <2>6. ASSUME c = d
        PROVE  i \in 1 .. n \/ i = n + 1 \/ i \in {n + 2, n + 3, n + 4}
    <3>1. i \in 1 .. n + 4
      BY <2>1, <2>6
    <3> QED BY <3>1
  <2> QED BY <2>2, <2>3, <2>4, <2>5, <2>6
<1>5. ASSUME NEW d \in Devices, Acknowledge(d) \/ Refuse(d)
      PROVE  Goal(c, i)
  <2>1. lost \subseteq lost'
    BY <1>5, DropStep
  <2>2. CASE c # d
    BY <1>3, <1>5, <2>1, <2>2, DropStep
  <2>3. CASE c = d
    <3>1. /\ Len(writes'[c]) = Len(writes[c]) - 1
          /\ \A k \in 1 .. Len(writes'[c]) : writes'[c][k] = writes[c][k + 1]
      BY <1>5, <2>3, DropStep
    <3>2. i + 1 \in 1 .. Len(writes[c]) /\ writes'[c][i] = writes[c][i + 1] /\ Here(i + 1)
      BY <1>0, <1>1, <1>2, <3>1
    <3>3. ASSUME NEW j \in (i + 1) + 1 .. Len(writes[c])
          PROVE  j - 1 \in i + 1 .. Len(writes'[c]) /\ writes'[c][j - 1] = writes[c][j]
      <4>1. j - 1 \in i + 1 .. Len(writes'[c]) /\ j - 1 \in 1 .. Len(writes'[c]) /\ (j - 1) + 1 = j
        BY <1>0, <3>1
      <4> QED BY <3>1, <4>1
    <3> QED BY <2>1, <3>2, <3>3
  <2> QED BY <2>2, <2>3
<1>6. ASSUME NEW d \in Devices, Relaunch(d)
      PROVE  Goal(c, i)
  <2>1. lost \subseteq lost'
    BY <1>6, RelaunchStep
  <2>2. CASE c # d
    BY <1>3, <1>6, <2>1, <2>2, RelaunchStep
  <2>3. CASE c = d
    <3>1. /\ Len(writes'[c]) = stored[c] /\ stored[c] \in 0 .. Len(writes[c])
          /\ \A k \in 1 .. stored[c] : writes'[c][k] = writes[c][k]
          /\ \A k \in stored[c] + 1 .. Len(writes[c]) :
               writes[c][k].op = "updateEventUser" => <<Owner[c], writes[c][k].event>> \in lost'
      BY <1>6, <2>3, RelaunchStep
    <3>2. i \in 1 .. Len(writes[c]) /\ writes'[c][i] = writes[c][i] /\ Here(i)
      BY <1>0, <1>1, <1>2, <3>1
    <3>3. ASSUME NEW j \in i + 1 .. Len(writes[c]),
                 writes[c][j].op = "updateEventUser", writes[c][j].event = writes[c][i].event
          PROVE  Goal(c, i)
      <4>1. CASE j <= stored[c]
        <5>1. j \in i + 1 .. Len(writes'[c]) /\ j \in 1 .. stored[c]
          BY <1>0, <3>1, <4>1
        <5>2. writes'[c][j] = writes[c][j]
          BY <3>1, <5>1
        <5> QED BY <3>2, <3>3, <5>1, <5>2
      <4>2. CASE j > stored[c]
        <5>1. j \in stored[c] + 1 .. Len(writes[c])
          BY <1>0, <3>1, <4>2
        <5>2. <<Owner[c], writes[c][j].event>> \in lost'
          BY <3>1, <3>3, <5>1
        <5> QED BY <3>2, <3>3, <5>2
      <4>3. j \in Int /\ stored[c] \in Int
        BY <3>1
      <4> QED BY <4>1, <4>2, <4>3
    <3> QED BY <2>1, <3>2, <3>3
  <2> QED BY <2>2, <2>3
<1>7. ASSUME NEW d \in Devices, ServerApplies(d) \/ StreamBreaks(d)
      PROVE  writes' = writes /\ lost' = lost
  BY <1>7 DEF ServerApplies, ApplyAtServer, StreamBreaks, OnWriteStreamClose
<1> HIDE DEF Goal
<1> QED BY <1>3, <1>4, <1>5, <1>6, <1>7, StepsOfEntries

LEMMA HalfStep ==
  ASSUME HalfInv, [Next]_vars
  PROVE  HalfInv'
<1>1. TypeOK /\ TypeOK' /\ AppliedTakesEffect' /\ RosterWriteFollows'
  BY NextTyped, AppliedStep, RosterWriteFollowsStep DEF HalfInv
<1>0. \A d \in Devices : Len(writes[d]) \in Nat /\ applied[d] \in Nat /\ Owner[d] \in Users
  BY <1>1, LenProperties, EnrolmentAssumption DEF TypeOK, PipelineTypeOK
<1> SUFFICES ASSUME NEW u \in Users, NEW e \in userEvents'[u], u \notin eventUsers'[e]
             PROVE  RosterWritePending(u, e)' \/ <<u, e>> \in lost'
  BY <1>1 DEF HalfInv, HalfEntriesExplained
<1>e. e \in Events
  BY <1>1 DEF TypeOK
(* What is under way now, position by position.                            *)
<1> DEFINE Pending(d, i) ==
      /\ d \in Devices /\ Owner[d] = u /\ i \in 1 .. Len(writes[d])
      /\ writes[d][i].op = "updateEventUser" /\ writes[d][i].event = e
    PendingNext(d, i) ==
      /\ d \in Devices /\ Owner[d] = u /\ i \in 1 .. Len(writes'[d])
      /\ writes'[d][i].op = "updateEventUser" /\ writes'[d][i].event = e
<1>2. ASSUME NEW d, NEW i, PendingNext(d, i)
      PROVE  RosterWritePending(u, e)'
  BY <1>2 DEF RosterWritePending, Waits
<1>3. ASSUME UNCHANGED <<userEvents, eventUsers>>
      PROVE  (\E d, i : Pending(d, i)) \/ <<u, e>> \in lost
  BY <1>3 DEF HalfInv, HalfEntriesExplained, RosterWritePending, Waits
<1> DEFINE Goal == (\E d, i : PendingNext(d, i)) \/ <<u, e>> \in lost'
<1>4. CASE UNCHANGED <<writes, applied, userEvents, eventUsers, lost>>
  <2>1. Goal
    BY <1>3, <1>4
  <2> QED BY <1>2, <2>1
<1>5. ASSUME NEW s \in Screens, Waiting(s), EnterEvent(s)
      PROVE  Goal
  <2>1. PICK d \in Devices, n \in Nat :
          /\ n = Len(writes[d]) /\ Len(writes'[d]) = n + 4
          /\ \A k \in 1 .. n : writes'[d][k] = writes[d][k]
          /\ \A b \in Devices : b # d => writes'[b] = writes[b]
          /\ UNCHANGED <<userEvents, eventUsers, lost>>
    BY <1>1, <1>5, EntryStep
  <2>2. ASSUME NEW c, NEW i, Pending(c, i)
        PROVE  PendingNext(c, i)
    <3>1. CASE c # d
      BY <2>1, <2>2, <3>1
    <3>2. CASE c = d
      <4>1. i \in 1 .. n /\ i \in 1 .. n + 4
        BY <2>1, <2>2, <3>2
      <4> QED BY <2>1, <2>2, <3>2, <4>1
    <3> QED BY <3>1, <3>2
  <2> HIDE DEF Pending, PendingNext
  <2> QED BY <1>3, <2>1, <2>2
<1>6. ASSUME NEW d \in Devices, ServerApplies(d)
      PROVE  Goal
  <2>1. /\ writes' = writes /\ lost' = lost
        /\ userEvents[u] \subseteq userEvents'[u] /\ eventUsers[e] \subseteq eventUsers'[e]
        /\ applied[d] + 1 \in 1 .. Len(writes[d])
    BY <1>1, <1>6, <1>e, ApplyStep
  <2>2. CASE e \in userEvents[u]
    <3>1. (\E c, i : Pending(c, i)) \/ <<u, e>> \in lost
      BY <2>1, <2>2 DEF HalfInv, HalfEntriesExplained, RosterWritePending, Waits
    <3> QED BY <2>1, <3>1
  <2>3. CASE e \notin userEvents[u]
    <3> DEFINE k == applied[d] + 1
    <3>1. /\ u = Owner[d] /\ e = writes[d][k].event /\ writes[d][k].op = "updateUserEvent"
      BY <1>1, <1>6, <2>3, ApplyStep DEF NextToApply
    <3> HIDE DEF k
    <3>2. \/ \E j \in k + 1 .. Len(writes[d]) :
               writes[d][j].op = "updateEventUser" /\ writes[d][j].event = e
          \/ <<u, e>> \in lost
      BY <2>1, <3>1 DEF HalfInv, RosterWriteFollows, Waits, k
    <3>3. \A j \in k + 1 .. Len(writes[d]) : j \in 1 .. Len(writes[d])
      BY <1>0 DEF k
    <3> QED BY <2>1, <3>1, <3>2, <3>3
  <2> QED BY <2>2, <2>3
<1>7. ASSUME NEW d \in Devices, Acknowledge(d) \/ Refuse(d)
      PROVE  Goal
  <2>1. /\ Len(writes'[d]) = Len(writes[d]) - 1
        /\ \A i \in 1 .. Len(writes'[d]) : writes'[d][i] = writes[d][i + 1]
        /\ \A c \in Devices : c # d => writes'[c] = writes[c]
        /\ UNCHANGED <<userEvents, eventUsers>>
        /\ lost \subseteq lost'
    BY <1>1, <1>7, DropStep
  <2>2. ASSUME NEW c, NEW i, Pending(c, i)
        PROVE  Goal
    <3>1. CASE c # d
      <4>1. PendingNext(c, i)
        BY <2>1, <2>2, <3>1
      <4> QED BY <4>1
    <3>2. CASE c = d /\ i # 1
      <4>1. i - 1 \in 1 .. Len(writes'[d]) /\ (i - 1) + 1 = i
        BY <1>0, <2>1, <2>2, <3>2
      <4>2. PendingNext(c, i - 1)
        BY <2>1, <2>2, <3>2, <4>1
      <4> QED BY <4>2
    <3>3. CASE c = d /\ i = 1
      <4>1. Head(writes[d]).op = "updateEventUser" /\ Head(writes[d]).event = e /\ Owner[d] = u
        BY <1>1, <1>7, <2>2, <3>3, DropStep
      <4>2. CASE Refuse(d)
        <5>1. <<u, e>> \in lost'
          BY <4>1, <4>2 DEF Refuse
        <5> QED BY <5>1
      <4>3. CASE Acknowledge(d)
        <5>1. 1 \in 1 .. applied[d]
          BY <1>0, <1>1, <4>3, DropStep
        <5>2. u \in eventUsers[e]
          BY <2>2, <3>3, <5>1 DEF HalfInv, AppliedTakesEffect
        <5> QED BY <2>1, <5>2
      <4> QED BY <1>7, <4>2, <4>3
    <3> QED BY <3>1, <3>2, <3>3
  <2> HIDE DEF Pending
  <2> QED BY <1>3, <2>1, <2>2
<1>8. ASSUME NEW d \in Devices, StreamBreaks(d)
      PROVE  Goal
  <2>1. UNCHANGED <<writes, userEvents, eventUsers, lost>>
    BY <1>8 DEF StreamBreaks, OnWriteStreamClose, serverVars
  <2> QED BY <1>3, <2>1
<1>9. ASSUME NEW d \in Devices, Relaunch(d)
      PROVE  Goal
  <2>1. /\ Len(writes'[d]) = stored[d] /\ stored[d] \in 0 .. Len(writes[d])
        /\ \A i \in 1 .. stored[d] : writes'[d][i] = writes[d][i]
        /\ \A c \in Devices : c # d => writes'[c] = writes[c]
        /\ \A i \in stored[d] + 1 .. Len(writes[d]) :
             writes[d][i].op = "updateEventUser" => <<Owner[d], writes[d][i].event>> \in lost'
        /\ lost \subseteq lost'
        /\ UNCHANGED <<userEvents, eventUsers>>
    BY <1>1, <1>9, RelaunchStep
  <2>2. ASSUME NEW c, NEW i, Pending(c, i)
        PROVE  Goal
    <3>1. CASE c # d
      <4>1. PendingNext(c, i)
        BY <2>1, <2>2, <3>1
      <4> QED BY <4>1
    <3>2. CASE c = d /\ i \in 1 .. stored[d]
      <4>1. PendingNext(c, i)
        BY <2>1, <2>2, <3>2
      <4> QED BY <4>1
    <3>3. CASE c = d /\ i \in stored[d] + 1 .. Len(writes[d])
      <4>1. <<u, e>> \in lost'
        BY <2>1, <2>2, <3>3
      <4> QED BY <4>1
    <3>4. c = d => i \in 1 .. stored[d] \/ i \in stored[d] + 1 .. Len(writes[d])
      BY <1>0, <2>1, <2>2
    <3> QED BY <3>1, <3>2, <3>3, <3>4
  <2> HIDE DEF Pending
  <2> QED BY <1>3, <2>1, <2>2
<1>10. Goal => RosterWritePending(u, e)' \/ <<u, e>> \in lost'
  <2> HIDE DEF PendingNext
  <2> QED BY <1>2
<1> HIDE DEF Goal
<1> QED BY <1>4, <1>5, <1>6, <1>7, <1>8, <1>9, <1>10, StepsOfEntries

(* An entry that stays half made was cut in two by a crash or a refusal of *)
(* its roster write; nothing else, no staleness and no second delivery,    *)
(* leaves the two sides of an entry apart for good.                        *)
THEOREM HalfEntriesAlwaysExplained == Spec => []HalfEntriesExplained
<1>1. Init => HalfInv
  <2> SUFFICES ASSUME Init PROVE HalfInv
    OBVIOUS
  <2>1. \A d \in Devices : Len(writes[d]) = 0 /\ applied[d] = 0
    BY DEF Init, PipelineInit
  <2> QED BY <2>1, InitTyped
          DEF Init, HalfInv, HalfEntriesExplained, RosterWriteFollows, AppliedTakesEffect
<1>2. HalfInv /\ [Next]_vars => HalfInv'
  BY HalfStep
<1>3. HalfInv => HalfEntriesExplained
  BY DEF HalfInv
<1> QED BY <1>1, <1>2, <1>3, PTL DEF Spec

-----------------------------------------------------------------------------
(* The counters.  The copies of a counter travel through the server's       *)
(* documents, the devices' caches, their pending writes and their detail    *)
(* screens, and every one of them is kept in range.                         *)

(* A pending write to a counter carries a value in range.                  *)
WriteInRange(m) ==
  /\ m.op = "updateEventMembersCount" => MembersInRange(m.event, m.value)
  /\ m.op = "updateEventMaxMemberCount" => MaxInRange(m.event, m.value)

LEMMA RowInRange ==
  ASSUME CountersInv, NEW d \in Devices, NEW e \in DOMAIN EventsArray(d)
  PROVE  e \in Events /\ InRange(e, EventsArray(d)[e])
<1>1. e \in Events /\ seen[d][e] # Uncached
  BY DEF EventsArray
<1>2. MembersInRange(e, seen[d][e]["members"]) /\ MaxInRange(e, seen[d][e]["max"])
  BY <1>1 DEF CountersInv, CopiesInRange, InRange
<1>3. stored[d] \in Nat /\ stored[d] <= Len(writes[d]) /\ Len(writes[d]) \in Nat
  BY LenProperties DEF CountersInv, TypeOK, PipelineTypeOK
<1>4. ASSUME NEW field, PendingWrites(d, e, field) # {}
      PROVE  \E i \in 1 .. Len(writes[d]) :
               /\ LocalField(d, e, field) = writes[d][i].value
               /\ writes[d][i].event = e /\ ShowsAs(writes[d][i].op) = field
  <2> DEFINE P == PendingWrites(d, e, field)
  <2>1. P \in SUBSET (1 .. stored[d])
    BY DEF PendingWrites
  <2>2. Max(P) \in P
    BY <1>3, <1>4, <2>1, MaxOfPositions
  <2>3. Max(P) \in 1 .. stored[d]
    BY <2>1, <2>2, Zenon
  <2>4. Max(P) \in 1 .. Len(writes[d])
    BY <1>3, <2>3
  <2>5. LocalField(d, e, field) = writes[d][Max(P)].value
    BY <1>4 DEF LocalField
  <2>6. writes[d][Max(P)].event = e /\ ShowsAs(writes[d][Max(P)].op) = field
    BY <2>2 DEF PendingWrites
  <2> QED BY <2>4, <2>5, <2>6
<1>5. MembersInRange(e, LocalField(d, e, "members"))
  <2>1. CASE PendingWrites(d, e, "members") = {}
    BY <1>2, <2>1 DEF LocalField
  <2>2. CASE PendingWrites(d, e, "members") # {}
    BY <1>4, <2>2 DEF ShowsAs, CountersInv, CopiesInRange
  <2> QED BY <2>1, <2>2
<1>6. MaxInRange(e, LocalField(d, e, "max"))
  <2>1. CASE PendingWrites(d, e, "max") = {}
    BY <1>2, <2>1 DEF LocalField
  <2>2. CASE PendingWrites(d, e, "max") # {}
    BY <1>4, <2>2 DEF ShowsAs, CountersInv, CopiesInRange
  <2> QED BY <2>1, <2>2
<1> QED BY <1>1, <1>5, <1>6 DEF EventsArray, InRange

(* Taking a value in range over into a copy in range.                      *)
LEMMA PatchInRange ==
  ASSUME NEW c \in Counts, NEW m \in Mutations, InRange(m.event, c), WriteInRange(m)
  PROVE  InRange(m.event, PatchCounts(c, m))
BY DEF PatchCounts, Counts, Mutations, InRange, WriteInRange

(* A step that makes no entry keeps the range; the copies it leaves must be *)
(* in it.                                                                  *)
LEMMA CopiesKept ==
  ASSUME UNCHANGED entries,
         \A e \in Events : InRange(e, counts'[e]),
         \A d \in Devices, e \in Events : seen'[d][e] # Uncached => InRange(e, seen'[d][e]),
         \A s \in Screens : screen'[s] # Unopened => InRange(screen'[s].event, screen'[s]),
         \A d \in Devices : \A i \in 1 .. Len(writes'[d]) : WriteInRange(writes'[d][i])
  PROVE  CopiesInRange'
<1>1. ASSUME NEW e, NEW n
      PROVE  /\ MembersInRange(e, n) => MembersInRange(e, n)'
             /\ MaxInRange(e, n) => MaxInRange(e, n)'
  BY DEF MembersInRange, MaxInRange
<1> QED BY <1>1 DEF CopiesInRange, InRange, WriteInRange, Opened

(* The copies of the present state, in the form CopiesKept asks for.       *)
LEMMA CopiesNow ==
  ASSUME CountersInv
  PROVE  /\ \A e \in Events : InRange(e, counts[e])
         /\ \A d \in Devices, e \in Events : seen[d][e] # Uncached => InRange(e, seen[d][e])
         /\ \A s \in Screens : screen[s] # Unopened => InRange(screen[s].event, screen[s])
         /\ \A d \in Devices : \A i \in 1 .. Len(writes[d]) :
              writes[d][i] \in Mutations /\ WriteInRange(writes[d][i])
<1>1. \A d \in Devices : writes[d] \in Seq(Mutations)
  BY DEF CountersInv, TypeOK, PipelineTypeOK
<1>2. \A d \in Devices : \A i \in 1 .. Len(writes[d]) : writes[d][i] \in Mutations
  BY <1>1, ElementOfSeq
<1> QED BY <1>2 DEF CountersInv, CopiesInRange, WriteInRange, Opened

LEMMA ShowEventsCopies ==
  ASSUME CountersInv, NEW d \in Devices, ShowEvents(d)
  PROVE  CopiesInRange'
<1>1. /\ seen' = [seen EXCEPT ![d] = counts]
      /\ UNCHANGED <<writes, counts, screen, entries>>
  BY DEF ShowEvents, pipelineVars, serverVars
<1>2. \A c \in Devices, e \in Events : seen'[c][e] # Uncached => InRange(e, seen'[c][e])
  BY <1>1, CopiesNow DEF CountersInv, TypeOK
<1> QED BY <1>1, <1>2, CopiesNow, CopiesKept

LEMMA ScreenCopies ==
  ASSUME CountersInv, NEW s \in Screens,
         \/ CloseDetail(s) \/ TapEntry(s) \/ GetUserEventsFails(s)
         \/ \E d \in Devices, e \in Events : OpenDetail(s, d, e)
  PROVE  CopiesInRange'
<1>1. UNCHANGED <<writes, counts, seen, entries>>
  BY DEF CloseDetail, TapEntry, GetUserEventsFails, OpenDetail, pipelineVars, serverVars, cacheVars
<1>2. screen \in [Screens -> Details \cup {Unopened}]
  BY DEF CountersInv, TypeOK
<1>3. \A t \in Screens : screen'[t] # Unopened => InRange(screen'[t].event, screen'[t])
  <2>1. ASSUME NEW r \in Details, NEW x \in Details, InRange(r.event, r),
               x.event = r.event, x.max = r.max, x.members = r.members
        PROVE  InRange(x.event, x)
    BY <2>1 DEF InRange
  <2>2. CASE CloseDetail(s) \/ TapEntry(s) \/ GetUserEventsFails(s)
    <3>1. screen[s] \in Details /\ InRange(screen[s].event, screen[s])
      BY <1>2, <2>2, CopiesNow DEF CloseDetail, TapEntry, GetUserEventsFails, Waiting, Opened
    <3>2. \A t \in Screens : t # s => screen'[t] = screen[t]
      BY <1>2, <2>2 DEF CloseDetail, TapEntry, GetUserEventsFails
    <3>3. /\ screen'[s].event = screen[s].event
          /\ screen'[s].max = screen[s].max
          /\ screen'[s].members = screen[s].members
      BY <1>2, <2>2, <3>1 DEF CloseDetail, TapEntry, GetUserEventsFails, Details
    <3> QED BY <3>1, <3>2, <3>3, CopiesNow DEF InRange
  <2>3. ASSUME NEW d \in Devices, NEW e \in Events, OpenDetail(s, d, e)
        PROVE  \A t \in Screens : screen'[t] # Unopened => InRange(screen'[t].event, screen'[t])
    <3>1. InRange(e, EventsArray(d)[e])
      BY <2>3, RowInRange DEF OpenDetail
    <3>2. /\ screen'[s].event = e
          /\ screen'[s].max = EventsArray(d)[e].max
          /\ screen'[s].members = EventsArray(d)[e].members
          /\ \A t \in Screens : t # s => screen'[t] = screen[t]
      BY <1>2, <2>3 DEF OpenDetail
    <3> QED BY <3>1, <3>2, CopiesNow DEF InRange
  <2> QED BY <2>2, <2>3
<1> QED BY <1>1, <1>3, CopiesNow, CopiesKept

LEMMA EnterCopies ==
  ASSUME CountersInv, NEW s \in Screens, Waiting(s), EnterEvent(s)
  PROVE  CopiesInRange'
<1>1. PICK d \in Devices, e \in Events, n \in Nat :
        /\ screen[s] \in Details
        /\ d = screen[s].device /\ e = screen[s].event /\ n = Len(writes[d])
        /\ Len(writes'[d]) = n + 4
        /\ \A i \in 1 .. n : writes'[d][i] = writes[d][i]
        /\ writes'[d][n + 1] = Write("updateUserEvent", e, 0)
        /\ writes'[d][n + 2] = Write("updateEventUser", e, 0)
        /\ writes'[d][n + 3] = Write("updateEventMaxMemberCount", e, screen[s].max - 1)
        /\ writes'[d][n + 4] = Write("updateEventMembersCount", e, screen[s].members + 1)
        /\ \A c \in Devices : c # d => writes'[c] = writes[c]
        /\ UNCHANGED <<counts, seen>>
  BY EntryStep DEF CountersInv
<1>2. /\ entries \in [Events -> Nat] /\ Capacity \in [Events -> Nat]
      /\ entries' = [entries EXCEPT ![e] = @ + 1]
      /\ screen \in [Screens -> Details \cup {Unopened}]
  BY <1>1, EnrolmentAssumption DEF CountersInv, TypeOK, EnterEvent
<1>3. /\ entries'[e] = entries[e] + 1
      /\ \A b \in Events : b # e => entries'[b] = entries[b]
  BY <1>2
(* The ranges after the step, for values that are not primed with them.    *)
<1> DEFINE MembersFit(b, x) == x \in 0 .. entries'[b]
           MaxFits(b, x)    == x \in Capacity[b] - entries'[b] .. Capacity[b]
<1>4. ASSUME NEW b \in Events, NEW x
      PROVE  /\ MembersInRange(b, x) => MembersFit(b, x)
             /\ MaxInRange(b, x) => MaxFits(b, x)
  <2>1. CASE b = e
    BY <1>2, <1>3, <2>1 DEF MembersInRange, MaxInRange
  <2>2. CASE b # e
    BY <1>3, <2>2 DEF MembersInRange, MaxInRange
  <2> QED BY <2>1, <2>2
<1>5. ASSUME NEW b \in Events, NEW r, InRange(b, r)
      PROVE  MembersFit(b, r.members) /\ MaxFits(b, r.max)
  BY <1>4, <1>5 DEF InRange
<1>6. MembersInRange(e, screen[s].members) /\ MaxInRange(e, screen[s].max)
  BY <1>1, CopiesNow DEF Waiting, Opened, InRange
<1>7. MembersFit(e, screen[s].members + 1) /\ MaxFits(e, screen[s].max - 1)
  BY <1>2, <1>3, <1>6 DEF MembersInRange, MaxInRange
<1> HIDE DEF MembersFit, MaxFits
<1>8. \A b \in Events : MembersFit(b, counts'[b].members) /\ MaxFits(b, counts'[b].max)
  BY <1>1, <1>5, CopiesNow
<1>9. \A c \in Devices, b \in Events :
        seen'[c][b] # Uncached =>
          MembersFit(b, seen'[c][b].members) /\ MaxFits(b, seen'[c][b].max)
  BY <1>1, <1>5, CopiesNow
<1>10. \A t \in Screens :
         screen'[t] # Unopened =>
           /\ MembersFit(screen'[t].event, screen'[t].members)
           /\ MaxFits(screen'[t].event, screen'[t].max)
  <2>1. /\ screen'[s].event = e
        /\ screen'[s].max = screen[s].max - 1
        /\ screen'[s].members = screen[s].members + 1
    BY <1>1, <1>2 DEF EnterEvent, Details
  <2>2. \A t \in Screens : t # s => screen'[t] = screen[t]
    BY <1>2 DEF EnterEvent
  <2>3. \A t \in Screens : screen[t] # Unopened => screen[t].event \in Events
    BY <1>2 DEF Details
  <2> SUFFICES ASSUME NEW t \in Screens, screen'[t] # Unopened
               PROVE  /\ MembersFit(screen'[t].event, screen'[t].members)
                      /\ MaxFits(screen'[t].event, screen'[t].max)
    OBVIOUS
  <2>4. CASE t = s
    BY <1>7, <2>1, <2>4
  <2>5. CASE t # s
    <3>1. screen'[t] = screen[t] /\ screen[t].event \in Events
      BY <2>2, <2>3, <2>5
    <3>2. InRange(screen[t].event, screen[t])
      BY <3>1, CopiesNow
    <3> QED BY <1>5, <3>1, <3>2
  <2> QED BY <2>4, <2>5
<1>11. \A c \in Devices : \A i \in 1 .. Len(writes'[c]) :
         /\ writes'[c][i].op = "updateEventMembersCount"
              => MembersFit(writes'[c][i].event, writes'[c][i].value)
         /\ writes'[c][i].op = "updateEventMaxMemberCount"
              => MaxFits(writes'[c][i].event, writes'[c][i].value)
  <2> DEFINE Fits(m) ==
        /\ m.op = "updateEventMembersCount" => MembersFit(m.event, m.value)
        /\ m.op = "updateEventMaxMemberCount" => MaxFits(m.event, m.value)
  <2> SUFFICES ASSUME NEW c \in Devices, NEW i \in 1 .. Len(writes'[c])
               PROVE  Fits(writes'[c][i])
    OBVIOUS
  <2>1. ASSUME NEW k \in 1 .. Len(writes[c]), writes'[c][i] = writes[c][k]
        PROVE  Fits(writes'[c][i])
    <3>1. writes[c][k] \in Mutations /\ WriteInRange(writes[c][k])
      BY CopiesNow
    <3>2. writes[c][k].event \in Events
      BY <3>1 DEF Mutations
    <3>3. Fits(writes[c][k])
      BY <1>4, <3>1, <3>2 DEF WriteInRange
    <3> QED BY <2>1, <3>3
  <2>2. CASE c # d
    <3>1. writes'[c] = writes[c]
      BY <1>1, <2>2
    <3> QED BY <2>1, <3>1
  <2>3. CASE c = d /\ i \in 1 .. n
    BY <1>1, <2>1, <2>3
  <2>4. CASE c = d /\ i \in {n + 1, n + 2, n + 3, n + 4}
    <3>1. CASE i = n + 1 \/ i = n + 2
      <4>1. \/ writes'[c][i] = Write("updateUserEvent", e, 0)
            \/ writes'[c][i] = Write("updateEventUser", e, 0)
        BY <1>1, <2>4, <3>1
      <4> QED BY <4>1 DEF Write
    <3>2. CASE i = n + 3
      <4>1. writes'[c][i] = Write("updateEventMaxMemberCount", e, screen[s].max - 1)
        BY <1>1, <2>4, <3>2
      <4> QED BY <1>7, <4>1 DEF Write
    <3>3. CASE i = n + 4
      <4>1. writes'[c][i] = Write("updateEventMembersCount", e, screen[s].members + 1)
        BY <1>1, <2>4, <3>3
      <4> QED BY <1>7, <4>1 DEF Write
    <3> QED BY <2>4, <3>1, <3>2, <3>3
  <2>5. c = d => i \in 1 .. n \/ i \in {n + 1, n + 2, n + 3, n + 4}
    <3>1. c = d => i \in 1 .. n + 4
      BY <1>1
    <3> QED BY <3>1
  <2> QED BY <2>2, <2>3, <2>4, <2>5
<1>12. /\ \A b \in Events : InRange(b, counts[b])'
       /\ \A c \in Devices, b \in Events : (seen[c][b] # Uncached => InRange(b, seen[c][b]))'
       /\ \A t \in Screens : (Opened(t) => InRange(screen[t].event, screen[t]))'
  BY <1>8, <1>9, <1>10
     DEF InRange, MembersInRange, MaxInRange, Opened, MembersFit, MaxFits
<1>13. \A c \in Devices : \A i \in 1 .. Len(writes'[c]) :
         (/\ writes[c][i].op = "updateEventMembersCount"
               => MembersInRange(writes[c][i].event, writes[c][i].value)
          /\ writes[c][i].op = "updateEventMaxMemberCount"
               => MaxInRange(writes[c][i].event, writes[c][i].value))'
  BY <1>11 DEF MembersInRange, MaxInRange, MembersFit, MaxFits
<1> QED BY <1>12, <1>13 DEF CopiesInRange

LEMMA ServerAppliesCopies ==
  ASSUME CountersInv, NEW d \in Devices, ServerApplies(d)
  PROVE  CopiesInRange'
<1>1. PICK m \in Mutations :
        /\ \E i \in 1 .. Len(writes[d]) : m = writes[d][i]
        /\ counts' = [counts EXCEPT ![m.event] = PatchCounts(@, m)]
        /\ UNCHANGED <<writes, entries, seen, screen>>
  BY ApplyStep DEF CountersInv, NextToApply, Effect
<1>2. m.event \in Events /\ WriteInRange(m) /\ counts \in [Events -> Counts]
  BY <1>1, CopiesNow DEF Mutations, CountersInv, TypeOK
<1>3. InRange(m.event, PatchCounts(counts[m.event], m))
  BY <1>2, CopiesNow, PatchInRange
<1>4. \A e \in Events : InRange(e, counts'[e])
  BY <1>1, <1>2, <1>3, CopiesNow
<1> QED BY <1>1, <1>4, CopiesNow, CopiesKept

LEMMA DropCopies ==
  ASSUME CountersInv, NEW d \in Devices, Acknowledge(d) \/ Refuse(d)
  PROVE  CopiesInRange'
<1>1. /\ Len(writes[d]) \in Nat /\ Len(writes[d]) > 0
      /\ Len(writes'[d]) = Len(writes[d]) - 1
      /\ \A i \in 1 .. Len(writes'[d]) : writes'[d][i] = writes[d][i + 1]
      /\ Head(writes[d]) = writes[d][1]
      /\ \A c \in Devices : c # d => writes'[c] = writes[c]
  BY DropStep DEF CountersInv
<1>2. UNCHANGED <<counts, screen, entries>>
  BY DEF Acknowledge, Refuse, serverVars
<1>3. \A c \in Devices : \A i \in 1 .. Len(writes'[c]) : WriteInRange(writes'[c][i])
  <2> SUFFICES ASSUME NEW c \in Devices, NEW i \in 1 .. Len(writes'[c])
               PROVE  WriteInRange(writes'[c][i])
    OBVIOUS
  <2>1. CASE c = d
    <3>1. i + 1 \in 1 .. Len(writes[d])
      BY <1>1, <2>1
    <3> QED BY <1>1, <2>1, <3>1, CopiesNow
  <2>2. CASE c # d
    BY <1>1, <2>2, CopiesNow
  <2> QED BY <2>1, <2>2
<1>4. \A c \in Devices, e \in Events : seen'[c][e] # Uncached => InRange(e, seen'[c][e])
  <2> DEFINE m == Head(writes[d])
  <2>1. CASE seen' = seen
    BY <2>1, CopiesNow
  <2>2. CASE /\ seen[d][m.event] # Uncached
             /\ seen' = [seen EXCEPT ![d][m.event] = PatchCounts(@, m)]
    <3>1. 1 \in 1 .. Len(writes[d])
      BY <1>1
    <3>2. m \in Mutations /\ WriteInRange(m)
      BY <1>1, <3>1, CopiesNow
    <3> HIDE DEF m
    <3>3. /\ m.event \in Events /\ seen \in [Devices -> [Events -> Counts \cup {Uncached}]]
          /\ seen[d][m.event] \in Counts
      BY <2>2, <3>2 DEF Mutations, CountersInv, TypeOK
    <3>4. InRange(m.event, PatchCounts(seen[d][m.event], m))
      BY <2>2, <3>2, <3>3, CopiesNow, PatchInRange
    <3> QED BY <2>2, <3>3, <3>4, CopiesNow
  <2>3. seen' = seen \/ (/\ seen[d][m.event] # Uncached
                         /\ seen' = [seen EXCEPT ![d][m.event] = PatchCounts(@, m)])
    BY DEF Acknowledge, Refuse, cacheVars
  <2> QED BY <2>1, <2>2, <2>3
<1> QED BY <1>2, <1>3, <1>4, CopiesNow, CopiesKept

LEMMA RelaunchCopies ==
  ASSUME CountersInv, NEW d \in Devices, Relaunch(d)
  PROVE  CopiesInRange'
<1>1. /\ stored[d] \in 0 .. Len(writes[d]) /\ Len(writes[d]) \in Nat
      /\ Len(writes'[d]) = stored[d]
      /\ \A i \in 1 .. stored[d] : writes'[d][i] = writes[d][i]
      /\ \A c \in Devices : c # d => writes'[c] = writes[c]
      /\ UNCHANGED <<counts, seen, entries>>
  BY RelaunchStep DEF CountersInv
<1>2. \A c \in Devices : \A i \in 1 .. Len(writes'[c]) : WriteInRange(writes'[c][i])
  <2> SUFFICES ASSUME NEW c \in Devices, NEW i \in 1 .. Len(writes'[c])
               PROVE  WriteInRange(writes'[c][i])
    OBVIOUS
  <2>1. CASE c = d
    <3>1. i \in 1 .. stored[d] /\ i \in 1 .. Len(writes[d])
      BY <1>1, <2>1
    <3> QED BY <1>1, <2>1, <3>1, CopiesNow
  <2>2. CASE c # d
    BY <1>1, <2>2, CopiesNow
  <2> QED BY <2>1, <2>2
<1>3. \A s \in Screens : screen'[s] # Unopened => InRange(screen'[s].event, screen'[s])
  <2> SUFFICES ASSUME NEW s \in Screens, screen'[s] # Unopened
               PROVE  InRange(screen'[s].event, screen'[s])
    OBVIOUS
  <2>1. CASE screen'[s] = screen[s]
    BY <2>1, CopiesNow
  <2>2. CASE /\ screen[s] # Unopened
             /\ screen'[s] = [screen[s] EXCEPT !.state = "closed", !.reads = 0]
    <3>1. screen[s] \in Details
      BY <2>2 DEF CountersInv, TypeOK
    <3>2. /\ screen'[s].event = screen[s].event
          /\ screen'[s].max = screen[s].max
          /\ screen'[s].members = screen[s].members
      BY <2>2, <3>1 DEF Details
    <3> QED BY <2>2, <3>2, CopiesNow DEF InRange
  <2> QED BY <2>1, <2>2 DEF Relaunch, Opened
<1> QED BY <1>1, <1>2, <1>3, CopiesNow, CopiesKept

LEMMA CopiesStep ==
  ASSUME CountersInv, [Next]_vars
  PROVE  CopiesInRange'
<1>1. ASSUME UNCHANGED <<writes, counts, seen, screen, entries>>
      PROVE  CopiesInRange'
  BY <1>1, CopiesNow, CopiesKept
<1>2. ASSUME NEW d \in Devices, Persist(d) \/ StreamBreaks(d)
      PROVE  CopiesInRange'
  BY <1>1, <1>2 DEF Persist, WriteLocally, StreamBreaks, OnWriteStreamClose, serverVars, cacheVars
<1>3. CASE UNCHANGED vars
  BY <1>1, <1>3 DEF vars
<1>4. ASSUME NEW s \in Screens, GetUserEventsAnswers(s)
      PROVE  CopiesInRange'
  <2>1. CASE EnterEvent(s)
    BY <1>4, <2>1, EnterCopies DEF GetUserEventsAnswers
  <2>2. CASE GetUserEventsFails(s)
    BY <2>2, ScreenCopies
  <2> QED BY <1>4, <2>1, <2>2 DEF GetUserEventsAnswers, GetUserEventsFails
<1>5. ASSUME NEW s \in Screens,
             \/ CloseDetail(s) \/ TapEntry(s) \/ GetUserEventsFails(s)
             \/ \E d \in Devices, e \in Events : OpenDetail(s, d, e)
      PROVE  CopiesInRange'
  BY <1>5, ScreenCopies
<1>6. ASSUME NEW d \in Devices, ShowEvents(d)
      PROVE  CopiesInRange'
  BY <1>6, ShowEventsCopies
<1>7. ASSUME NEW d \in Devices, ServerApplies(d)
      PROVE  CopiesInRange'
  BY <1>7, ServerAppliesCopies
<1>8. ASSUME NEW d \in Devices, Acknowledge(d) \/ Refuse(d)
      PROVE  CopiesInRange'
  BY <1>8, DropCopies
<1>9. ASSUME NEW d \in Devices, Relaunch(d)
      PROVE  CopiesInRange'
  BY <1>9, RelaunchCopies
<1> QED BY <1>2, <1>3, <1>4, <1>5, <1>6, <1>7, <1>8, <1>9 DEF Next, AllUsed

(* Stale copies and repeated writes may lose updates, but no counter ever  *)
(* moves by more than the entries that were made for its event.            *)
THEOREM CountersAlwaysWithinEntries == Spec => []CountersWithinEntries
<1>1. Init => CountersInv
  <2> SUFFICES ASSUME Init PROVE CopiesInRange
    BY InitTyped DEF CountersInv
  <2>1. /\ \A e \in Events : entries[e] = 0 /\ Capacity[e] \in Nat
        /\ \A e \in Events : counts[e] = [max |-> Capacity[e], members |-> 0]
        /\ \A d \in Devices, e \in Events : seen[d][e] = Uncached
        /\ \A s \in Screens : ~Opened(s)
        /\ \A d \in Devices : writes[d] = << >>
    BY EnrolmentAssumption DEF Init, PipelineInit, Opened
  <2>2. \A e \in Events : InRange(e, counts[e])
    <3> SUFFICES ASSUME NEW e \in Events
                 PROVE  InRange(e, counts[e])
      OBVIOUS
    <3>1. counts[e].max = Capacity[e] /\ counts[e].members = 0
      <4>1. counts[e] = [max |-> Capacity[e], members |-> 0]
        BY <2>1
      <4> QED BY <4>1
    <3>2. entries[e] = 0 /\ Capacity[e] \in Nat
      BY <2>1
    <3>3. MembersInRange(e, 0) /\ MaxInRange(e, Capacity[e])
      BY <3>2 DEF MembersInRange, MaxInRange
    <3> QED BY <3>1, <3>3 DEF InRange
  <2> QED BY <2>1, <2>2 DEF CopiesInRange
<1>2. CountersInv /\ [Next]_vars => CountersInv'
  BY CopiesStep, NextTyped DEF CountersInv
<1>3. CountersInv => CountersWithinEntries
  <2> SUFFICES ASSUME CountersInv, NEW e \in Events
               PROVE  /\ counts[e].members >= 0
                      /\ counts[e].members <= entries[e]
                      /\ counts[e].max <= Capacity[e]
                      /\ counts[e].max >= Capacity[e] - entries[e]
    BY DEF CountersWithinEntries
  <2>1. /\ counts[e].members \in 0 .. entries[e]
        /\ counts[e].max \in Capacity[e] - entries[e] .. Capacity[e]
    BY CopiesNow DEF InRange, MembersInRange, MaxInRange
  <2>2. entries[e] \in Nat /\ Capacity[e] \in Nat
    BY EnrolmentAssumption DEF CountersInv, TypeOK
  <2> QED BY <2>1, <2>2
<1> QED BY <1>1, <1>2, <1>3, PTL DEF Spec
----------------------------------------------------------------------------
(* SoloPairWhole, and why a step of the only device keeps it: for every    *)
(* event there is a copy of its row whose two values are what the counters *)
(* will be when all the writes have arrived.                               *)
CounterOps == {"updateEventMaxMemberCount", "updateEventMembersCount"}

LastWait(d, e, o, i, n) ==
  /\ i \in 1 .. n /\ Waits(d, i, o, e)
  /\ \A j \in 1 .. n : Waits(d, j, o, e) => j <= i

(* The last outstanding write of a counter carries v or, if there is none, *)
(* the counter is v.                                                       *)
EndsUpAs(d, e, o, v) ==
  /\ \A i \in 1 .. Len(writes[d]) :
       LastWait(d, e, o, i, Len(writes[d])) => writes[d][i].value = v
  /\ (\A i \in 1 .. Len(writes[d]) : ~Waits(d, i, o, e)) => counts[e][ShowsAs(o)] = v

(* The counter is what the last of the applied writes carries.             *)
CountsLastApplied(d, e, o) ==
  \A i \in 1 .. applied[d] :
    LastWait(d, e, o, i, applied[d]) => counts[e][ShowsAs(o)] = writes[d][i].value

CopyShows(e, x, y) ==
  \E s \in Screens : /\ Opened(s) /\ screen[s].event = e
                     /\ screen[s].max = x /\ screen[s].members = y

Untouched(d, e) ==
  /\ counts[e] = [max |-> Capacity[e], members |-> 0]
  /\ \A i \in 1 .. Len(writes[d]) : writes[d][i].event # e

PairOnItsWay(d, e) ==
  IF entries[e] = 0
  THEN Untouched(d, e)
  ELSE \E x, y \in Int : /\ CopyShows(e, x, y)
                         /\ EndsUpAs(d, e, "updateEventMaxMemberCount", x)
                         /\ EndsUpAs(d, e, "updateEventMembersCount", y)

SoloInv(d) ==
  restarts[d] = 0 =>
    \A e \in Events : /\ PairOnItsWay(d, e)
                      /\ \A o \in CounterOps : CountsLastApplied(d, e, o)

(* What a write does to one counter.                                       *)
LEMMA PatchedCounter ==
  ASSUME NEW c \in Counts, NEW m \in Mutations, NEW o \in CounterOps
  PROVE  PatchCounts(c, m)[ShowsAs(o)] = IF m.op = o THEN m.value ELSE c[ShowsAs(o)]
BY DEF Counts, CounterOps, PatchCounts, ShowsAs

(* When the first write leaves the queue, the last one of a counter is the *)
(* same, one position further to the front.                                *)
LEMMA ShiftLastWait ==
  ASSUME NEW d \in Devices, NEW e \in Events, NEW o \in CounterOps, NEW n \in Nat, 1 <= n,
         \A k \in 1 .. n - 1 : writes'[d][k] = writes[d][k + 1],
         NEW i \in 1 .. n - 1, LastWait(d, e, o, i, n - 1)'
  PROVE  LastWait(d, e, o, i + 1, n)
<1>1. ASSUME NEW j \in 1 .. n, Waits(d, j, o, e)
      PROVE  j <= i + 1
  <2>1. CASE j = 1
    BY <2>1
  <2>2. CASE j # 1
    <3>1. j - 1 \in 1 .. n - 1 /\ (j - 1) + 1 = j
      BY <2>2
    <3>2. Waits(d, j - 1, o, e)'
      BY <3>1, <1>1 DEF Waits
    <3> QED BY <3>1, <3>2 DEF LastWait
  <2> QED BY <2>1, <2>2
<1>2. Waits(d, i + 1, o, e)
  BY DEF LastWait, Waits
<1> QED BY <1>1, <1>2 DEF LastWait

(* Applying a write: it is outstanding still, and the counter shows it.    *)
LEMMA AppliesSolo ==
  ASSUME TypeOK, NEW d \in Devices, ServerApplies(d),
         NEW e \in Events, NEW o \in CounterOps
  PROVE  /\ \A v \in Int : EndsUpAs(d, e, o, v) => EndsUpAs(d, e, o, v)'
         /\ CountsLastApplied(d, e, o) => CountsLastApplied(d, e, o)'
<1>0. /\ applied[d] + 1 \in 1 .. Len(writes[d]) /\ NextToApply(d) \in Mutations
      /\ applied' = [applied EXCEPT ![d] = @ + 1] /\ writes' = writes
      /\ counts' = [counts EXCEPT ![NextToApply(d).event] = PatchCounts(@, NextToApply(d))]
  BY ApplyStep DEF Effect
<1>1. PICK n \in 1 .. Len(writes[d]), m \in Mutations :
        /\ n = applied[d] + 1 /\ m = writes[d][n]
        /\ applied'[d] = n /\ writes' = writes
        /\ counts' = [counts EXCEPT ![m.event] = PatchCounts(@, m)]
  <2>1. applied'[d] = applied[d] + 1
    BY <1>0 DEF TypeOK, PipelineTypeOK
  <2> QED BY <1>0, <2>1 DEF NextToApply
<1>2. applied[d] \in Nat /\ counts[e] \in Counts /\ m.event \in Events
  BY DEF TypeOK, PipelineTypeOK, Mutations
<1>3. counts'[e][ShowsAs(o)] = IF m.event = e /\ m.op = o THEN m.value ELSE counts[e][ShowsAs(o)]
  BY <1>1, <1>2, PatchedCounter DEF TypeOK
<1>4. Waits(d, n, o, e) <=> m.event = e /\ m.op = o
  BY <1>1 DEF Waits
<1>5. \A i : Waits(d, i, o, e)' <=> Waits(d, i, o, e)
  BY <1>1 DEF Waits
<1>6. ASSUME NEW v \in Int, EndsUpAs(d, e, o, v)
      PROVE  EndsUpAs(d, e, o, v)'
  <2>1. \A i \in 1 .. Len(writes[d]) :
          LastWait(d, e, o, i, Len(writes[d]))' => LastWait(d, e, o, i, Len(writes[d]))
    BY <1>1, <1>5 DEF LastWait
  <2> QED BY <1>1, <1>3, <1>4, <1>5, <1>6, <2>1 DEF EndsUpAs
<1>7. ASSUME CountsLastApplied(d, e, o), NEW i \in 1 .. applied'[d],
             LastWait(d, e, o, i, applied[d])'
      PROVE  counts'[e][ShowsAs(o)] = writes'[d][i].value
  <2>1. CASE Waits(d, n, o, e)
    <3>1. i = n
      BY <1>1, <1>5, <1>7, <2>1 DEF LastWait
    <3> QED BY <3>1, <1>1, <1>3, <1>4, <2>1
  <2>2. CASE ~Waits(d, n, o, e)
    <3>1. i \in 1 .. applied[d] /\ LastWait(d, e, o, i, applied[d])
      BY <1>1, <1>2, <1>5, <1>7, <2>2 DEF LastWait
    <3> QED BY <3>1, <1>1, <1>3, <1>4, <1>7, <2>2 DEF CountsLastApplied
  <2> QED BY <2>1, <2>2
<1> QED BY <1>6, <1>7 DEF CountsLastApplied

(* An answer takes the first write off the queue: if no other one of its   *)
(* counter is outstanding, the counter shows it.                           *)
LEMMA AcknowledgeSolo ==
  ASSUME TypeOK, NEW d \in Devices, Acknowledge(d),
         NEW e \in Events, NEW o \in CounterOps, CountsLastApplied(d, e, o)
  PROVE  /\ \A v \in Int : EndsUpAs(d, e, o, v) => EndsUpAs(d, e, o, v)'
         /\ CountsLastApplied(d, e, o)'
<1>0. /\ Len(writes[d]) \in Nat /\ Len(writes'[d]) = Len(writes[d]) - 1
      /\ \A i \in 1 .. Len(writes'[d]) : writes'[d][i] = writes[d][i + 1]
      /\ applied[d] > 0 /\ applied'[d] = applied[d] - 1
  BY DropStep
<1>1. PICK n \in Nat, k \in Nat :
        /\ n = Len(writes[d]) /\ Len(writes'[d]) = n - 1
        /\ k = applied[d] /\ applied'[d] = k - 1 /\ 1 <= k /\ k <= n
        /\ \A i \in 1 .. n - 1 : writes'[d][i] = writes[d][i + 1]
        /\ counts' = counts
  <2>1. applied[d] \in Nat /\ applied[d] <= Len(writes[d]) /\ counts' = counts
    BY <1>0 DEF Acknowledge, serverVars, TypeOK, PipelineTypeOK
  <2> QED BY <1>0, <2>1
<1>2. ASSUME NEW l \in {n, k}, NEW i \in 1 .. l - 1, LastWait(d, e, o, i, l - 1)'
      PROVE  LastWait(d, e, o, i + 1, l) /\ i + 1 \in 1 .. l
  <2>1. \A j \in 1 .. l - 1 : writes'[d][j] = writes[d][j + 1]
    BY <1>1
  <2>2. l \in Nat /\ 1 <= l
    BY <1>1
  <2> QED BY <1>2, <2>1, <2>2, ShiftLastWait
<1>3. ASSUME NEW v \in Int, EndsUpAs(d, e, o, v)
      PROVE  EndsUpAs(d, e, o, v)'
  <2>1. ASSUME NEW i \in 1 .. n - 1, LastWait(d, e, o, i, n - 1)'
        PROVE  writes'[d][i].value = v
    BY <1>1, <1>2, <1>3, <2>1 DEF EndsUpAs
  <2>2. ASSUME \A i \in 1 .. n - 1 : ~Waits(d, i, o, e)'
        PROVE  counts'[e][ShowsAs(o)] = v
    <3>1. ASSUME NEW j \in 1 .. n, Waits(d, j, o, e)
          PROVE  j = 1
      <4>1. CASE j # 1
        <5>1. j - 1 \in 1 .. n - 1 /\ (j - 1) + 1 = j
          BY <4>1
        <5>2. Waits(d, j - 1, o, e)'
          BY <1>1, <3>1, <5>1 DEF Waits
        <5> QED BY <2>2, <5>1, <5>2
      <4> QED BY <4>1
    <3>2. CASE Waits(d, 1, o, e)
      <4>1. LastWait(d, e, o, 1, n) /\ LastWait(d, e, o, 1, k)
        <5>1. 1 \in 1 .. n /\ 1 \in 1 .. k /\ \A j \in 1 .. k : j \in 1 .. n
          BY <1>1
        <5>2. \A j \in 1 .. n : Waits(d, j, o, e) => j <= 1
          BY <3>1
        <5> QED BY <3>2, <5>1, <5>2 DEF LastWait
      <4> QED BY <4>1, <1>1, <1>3 DEF EndsUpAs, CountsLastApplied
    <3>3. CASE ~Waits(d, 1, o, e)
      BY <1>1, <1>3, <3>1, <3>3 DEF EndsUpAs
    <3> QED BY <3>2, <3>3
  <2> QED BY <1>1, <2>1, <2>2 DEF EndsUpAs
<1>4. ASSUME NEW i \in 1 .. k - 1, LastWait(d, e, o, i, k - 1)'
      PROVE  counts'[e][ShowsAs(o)] = writes'[d][i].value
  <2>1. LastWait(d, e, o, i + 1, k) /\ i + 1 \in 1 .. k
    BY <1>2, <1>4
  <2>2. writes'[d][i] = writes[d][i + 1]
    BY <1>1
  <2> QED BY <1>1, <2>1, <2>2 DEF CountsLastApplied
<1> QED BY <1>1, <1>3, <1>4 DEF CountsLastApplied

(* An entry for another event leaves an event's writes and copies alone;   *)
(* one for the event itself leaves its pair in the queue and in its copy.  *)
LEMMA EnterSolo ==
  ASSUME TypeOK, NEW d \in Devices, Devices = {d}, NEW s \in Screens, Waiting(s), EnterEvent(s),
         NEW e \in Events, PairOnItsWay(d, e), \A o \in CounterOps : CountsLastApplied(d, e, o)
  PROVE  PairOnItsWay(d, e)' /\ \A o \in CounterOps : CountsLastApplied(d, e, o)'
<1>0. PICK c \in Devices, a \in Events, n \in Nat :
        /\ screen[s] \in Details
        /\ c = screen[s].device /\ a = screen[s].event /\ n = Len(writes[c])
        /\ Len(writes'[c]) = n + 4
        /\ \A i \in 1 .. n : writes'[c][i] = writes[c][i]
        /\ writes'[c][n + 1] = Write("updateUserEvent", a, 0)
        /\ writes'[c][n + 2] = Write("updateEventUser", a, 0)
        /\ writes'[c][n + 3] = Write("updateEventMaxMemberCount", a, screen[s].max - 1)
        /\ writes'[c][n + 4] = Write("updateEventMembersCount", a, screen[s].members + 1)
        /\ UNCHANGED <<applied, counts>>
  BY EntryStep
<1>1. /\ screen[s] \in Details
      /\ a = screen[s].event /\ n = Len(writes[d])
      /\ Len(writes'[d]) = n + 4
      /\ \A i \in 1 .. n : writes'[d][i] = writes[d][i]
      /\ writes'[d][n + 1] = Write("updateUserEvent", a, 0)
      /\ writes'[d][n + 2] = Write("updateEventUser", a, 0)
      /\ writes'[d][n + 3] = Write("updateEventMaxMemberCount", a, screen[s].max - 1)
      /\ writes'[d][n + 4] = Write("updateEventMembersCount", a, screen[s].members + 1)
      /\ UNCHANGED <<applied, counts>>
  <2>1. c = d
    OBVIOUS
  <2> QED BY <1>0, <2>1
<1>2. /\ entries' = [entries EXCEPT ![a] = @ + 1] /\ entries \in [Events -> Nat]
      /\ screen \in [Screens -> Details \cup {Unopened}]
      /\ applied[d] \in Nat /\ applied[d] <= n
  <2>1. entries' = [entries EXCEPT ![a] = @ + 1]
    BY <1>1 DEF EnterEvent
  <2>2. /\ entries \in [Events -> Nat]
        /\ screen \in [Screens -> Details \cup {Unopened}]
        /\ applied[d] \in Nat /\ applied[d] <= Len(writes[d])
    BY DEF TypeOK, PipelineTypeOK
  <2> QED BY <2>1, <2>2, <1>1
<1>3. PICK x \in Int, y \in Int : x = screen[s].max - 1 /\ y = screen[s].members + 1
  <2>1. screen[s].max \in Int /\ screen[s].members \in Int
    BY <1>1 DEF Details
  <2> QED BY <2>1
<1>4. /\ screen'[s].event = a /\ screen'[s].max = x /\ screen'[s].members = y
      /\ Opened(s)' /\ \A t \in Screens : t # s => screen'[t] = screen[t]
  <2>1. screen' = [screen EXCEPT ![s].reads   = @ - 1,
                                 ![s].max     = @ - 1,
                                 ![s].members = @ + 1]
    BY DEF EnterEvent
  <2>2. screen'[s] = [screen[s] EXCEPT !.reads = @ - 1, !.max = @ - 1, !.members = @ + 1]
        /\ \A t \in Screens : t # s => screen'[t] = screen[t]
    BY <1>2, <2>1
  <2>3. screen'[s].event = a /\ screen'[s].max = x /\ screen'[s].members = y
        /\ screen'[s].state = screen[s].state
    BY <1>1, <1>3, <2>2 DEF Details
  <2>4. Opened(s)'
    <3>1. screen'[s].state \in {"shown", "closed"}
      BY <1>1, <2>3 DEF Details
    <3>2. Unopened.state = "unopened"
      BY DEF Unopened
    <3>3. screen'[s] # Unopened
      BY <3>1, <3>2
    <3> QED BY <3>3 DEF Opened, Unopened
  <2> QED BY <2>2, <2>3, <2>4
<1>5. ASSUME NEW o \in CounterOps
      PROVE  CountsLastApplied(d, e, o)'
  <2>1. \A i \in 1 .. applied[d] : i \in 1 .. n /\ (Waits(d, i, o, e)' <=> Waits(d, i, o, e))
    <3>1. \A i \in 1 .. applied[d] : i \in 1 .. n
      BY <1>2
    <3>2. \A i \in 1 .. applied[d] : writes'[d][i] = writes[d][i]
      BY <3>1, <1>1
    <3> QED BY <3>1, <3>2 DEF Waits
  <2> QED BY <1>1, <2>1 DEF CountsLastApplied, LastWait
<1>6. \A i \in 1 .. n + 4 : i \in 1 .. n \/ i = n + 1 \/ i = n + 2 \/ i = n + 3 \/ i = n + 4
  OBVIOUS
<1>7. CASE a = e
  <2>1. CopyShows(e, x, y)'
    BY <1>4, <1>7 DEF CopyShows
  <2>2. ASSUME NEW i \in 1 .. n + 4
        PROVE  /\ Waits(d, i, "updateEventMaxMemberCount", e)' => i <= n + 3
               /\ Waits(d, i, "updateEventMembersCount", e)' => i <= n + 4
    BY <1>1 DEF Waits, Write
  <2>3. /\ Waits(d, n + 3, "updateEventMaxMemberCount", e)' /\ writes'[d][n + 3].value = x
        /\ Waits(d, n + 4, "updateEventMembersCount", e)' /\ writes'[d][n + 4].value = y
    BY <1>1, <1>3, <1>7 DEF Waits, Write
  <2>4. n + 3 \in 1 .. n + 4 /\ n + 4 \in 1 .. n + 4
    OBVIOUS
  <2>5. EndsUpAs(d, e, "updateEventMaxMemberCount", x)'
    <3>1. \A i \in 1 .. n + 4 :
            LastWait(d, e, "updateEventMaxMemberCount", i, n + 4)' => i = n + 3
      BY <2>2, <2>3, <2>4 DEF LastWait
    <3> QED BY <1>1, <2>3, <2>4, <3>1 DEF EndsUpAs
  <2>6. EndsUpAs(d, e, "updateEventMembersCount", y)'
    <3>1. \A i \in 1 .. n + 4 :
            LastWait(d, e, "updateEventMembersCount", i, n + 4)' => i = n + 4
      BY <2>2, <2>3, <2>4 DEF LastWait
    <3> QED BY <1>1, <2>3, <2>4, <3>1 DEF EndsUpAs
  <2>7. entries'[e] # 0
    BY <1>2, <1>7
  <2> QED BY <1>5, <2>1, <2>5, <2>6, <2>7 DEF PairOnItsWay
<1>8. CASE a # e
  <2>1. entries'[e] = entries[e]
    BY <1>2, <1>8
  <2>2. \A i \in 1 .. n + 4 : writes'[d][i].event = e => i \in 1 .. n
    <3>1. /\ writes'[d][n + 1].event = a /\ writes'[d][n + 2].event = a
          /\ writes'[d][n + 3].event = a /\ writes'[d][n + 4].event = a
      BY <1>1 DEF Write
    <3> QED BY <1>6, <1>8, <3>1
  <2>3. Untouched(d, e) => Untouched(d, e)'
    BY <1>1, <2>2 DEF Untouched
  <2>4. ASSUME NEW o \in CounterOps, NEW v \in Int, EndsUpAs(d, e, o, v)
        PROVE  EndsUpAs(d, e, o, v)'
    <3>1. \A i \in 1 .. n + 4 : Waits(d, i, o, e)' => i \in 1 .. n /\ Waits(d, i, o, e)
      BY <1>1, <2>2 DEF Waits
    <3>2. \A i \in 1 .. n : i \in 1 .. n + 4 /\ (Waits(d, i, o, e) => Waits(d, i, o, e)')
      BY <1>1 DEF Waits
    <3>3. \A i \in 1 .. n + 4 :
            LastWait(d, e, o, i, n + 4)' => i \in 1 .. n /\ LastWait(d, e, o, i, n)
      BY <3>1, <3>2 DEF LastWait
    <3> QED BY <1>1, <2>4, <3>2, <3>3 DEF EndsUpAs
  <2>5. ASSUME NEW v \in Int, NEW w \in Int, CopyShows(e, v, w)
        PROVE  CopyShows(e, v, w)'
    BY <1>1, <1>4, <1>8, <2>5 DEF CopyShows, Opened
  <2>6. "updateEventMaxMemberCount" \in CounterOps /\ "updateEventMembersCount" \in CounterOps
    BY DEF CounterOps
  <2>7. PairOnItsWay(d, e)'
    BY <2>1, <2>3, <2>4, <2>5, <2>6 DEF PairOnItsWay
  <2> QED BY <1>5, <2>7
<1> QED BY <1>7, <1>8

(* A step that makes no entry and changes no copy of a row.                *)
LEMMA NoEntrySolo ==
  ASSUME NEW d \in Devices, NEW e \in Events, PairOnItsWay(d, e), entries' = entries,
         Untouched(d, e) => Untouched(d, e)',
         \A o \in CounterOps, v \in Int : EndsUpAs(d, e, o, v) => EndsUpAs(d, e, o, v)',
         \A s \in Screens : Opened(s) =>
           /\ Opened(s)' /\ screen'[s].event = screen[s].event
           /\ screen'[s].max = screen[s].max /\ screen'[s].members = screen[s].members
  PROVE  PairOnItsWay(d, e)'
<1>1. \A v, w \in Int : CopyShows(e, v, w) => CopyShows(e, v, w)'
  BY DEF CopyShows
<1>2. "updateEventMaxMemberCount" \in CounterOps /\ "updateEventMembersCount" \in CounterOps
  BY DEF CounterOps
<1> QED BY <1>1, <1>2 DEF PairOnItsWay

LEMMA SoloStep ==
  ASSUME TypeOK, Rejectable = {}, NEW d \in Devices, Devices = {d}, SoloInv(d), [Next]_vars
  PROVE  SoloInv(d)'
<1> SUFFICES ASSUME restarts'[d] = 0, NEW e \in Events
             PROVE  PairOnItsWay(d, e)' /\ \A o \in CounterOps : CountsLastApplied(d, e, o)'
  BY DEF SoloInv
<1> DEFINE Goal == PairOnItsWay(d, e)' /\ \A o \in CounterOps : CountsLastApplied(d, e, o)'
<1>1. restarts[d] \in Nat /\ applied[d] \in Nat /\ Len(writes[d]) \in Nat
      /\ screen \in [Screens -> Details \cup {Unopened}]
  BY LenProperties DEF TypeOK, PipelineTypeOK
<1> DEFINE Quiet == /\ restarts[d] = 0
                    /\ writes' = writes /\ counts' = counts /\ entries' = entries
                    /\ applied'[d] \in {0, applied[d]}
                    /\ \A s \in Screens : Opened(s) =>
                         /\ Opened(s)' /\ screen'[s].event = screen[s].event
                         /\ screen'[s].max = screen[s].max
                         /\ screen'[s].members = screen[s].members
<1>2. ASSUME Quiet
      PROVE  Goal
  <2>1. PairOnItsWay(d, e) /\ \A o \in CounterOps : CountsLastApplied(d, e, o)
    BY <1>2 DEF SoloInv
  <2>2. \A i, o : Waits(d, i, o, e)' <=> Waits(d, i, o, e)
    BY <1>2 DEF Waits
  <2>3. \A o \in CounterOps, v \in Int : EndsUpAs(d, e, o, v) => EndsUpAs(d, e, o, v)'
    BY <1>2, <2>2 DEF EndsUpAs, LastWait
  <2>4. \A o \in CounterOps : CountsLastApplied(d, e, o)'
    BY <1>2, <2>1, <2>2 DEF CountsLastApplied, LastWait
  <2>5. Untouched(d, e) => Untouched(d, e)'
    BY <1>2 DEF Untouched
  <2> QED BY <1>2, <2>1, <2>3, <2>4, <2>5, NoEntrySolo
<1>3. ASSUME UNCHANGED <<restarts, writes, counts, entries, applied, screen>>
      PROVE  Quiet
  BY <1>3 DEF Opened
<1>4. ASSUME NEW c \in Devices, ShowEvents(c) \/ Persist(c)
      PROVE  Quiet
  BY <1>3, <1>4 DEF ShowEvents, Persist, WriteLocally, pipelineVars, serverVars
<1>5. ASSUME NEW c \in Devices, StreamBreaks(c)
      PROVE  Quiet
  <2>1. applied'[d] = 0
    BY <1>5 DEF StreamBreaks, OnWriteStreamClose, TypeOK, PipelineTypeOK
  <2> QED BY <1>5, <2>1 DEF StreamBreaks, OnWriteStreamClose, serverVars, Opened
<1>6. ASSUME NEW c \in Devices, Relaunch(c)
      PROVE  FALSE
  <2>1. restarts'[d] = restarts[d] + 1
    BY <1>6 DEF Relaunch, Restart, TypeOK, PipelineTypeOK
  <2> QED BY <1>1, <2>1
<1>7. ASSUME NEW c \in Devices, Refuse(c)
      PROVE  FALSE
  BY <1>7 DEF Refuse
<1>8. ASSUME NEW s \in Screens,
             \/ CloseDetail(s) \/ TapEntry(s) \/ GetUserEventsFails(s)
             \/ \E c \in Devices, a \in Events : OpenDetail(s, c, a)
      PROVE  Quiet
  <2>1. UNCHANGED <<restarts, writes, counts, entries, applied>>
    BY <1>8 DEF CloseDetail, TapEntry, GetUserEventsFails, OpenDetail, pipelineVars, serverVars
  <2>2. \A t \in Screens : t # s => screen'[t] = screen[t]
    BY <1>1, <1>8 DEF CloseDetail, TapEntry, GetUserEventsFails, OpenDetail
  <2>3. Opened(s) =>
          /\ Opened(s)' /\ screen'[s].event = screen[s].event
          /\ screen'[s].max = screen[s].max /\ screen'[s].members = screen[s].members
    <3> SUFFICES ASSUME Opened(s)
                 PROVE  /\ Opened(s)' /\ screen'[s].event = screen[s].event
                        /\ screen'[s].max = screen[s].max /\ screen'[s].members = screen[s].members
      OBVIOUS
    <3>1. screen[s] \in Details
      BY <1>1 DEF Opened
    <3>2. CloseDetail(s) \/ TapEntry(s) \/ GetUserEventsFails(s)
      BY <1>8 DEF OpenDetail, Opened
    <3>3. \/ screen'[s] = [screen[s] EXCEPT !.state = "closed"]
          \/ screen'[s] = [screen[s] EXCEPT !.taps = @ + 1, !.reads = @ + 1]
          \/ screen'[s] = [screen[s] EXCEPT !.reads = @ - 1]
      BY <1>1, <3>2 DEF CloseDetail, TapEntry, GetUserEventsFails
    <3>4. /\ screen'[s].event = screen[s].event
          /\ screen'[s].max = screen[s].max /\ screen'[s].members = screen[s].members
          /\ screen'[s].state \in {"shown", "closed"}
      BY <3>1, <3>3 DEF Details
    <3> QED BY <3>4 DEF Opened, Unopened
  <2> QED BY <2>1, <2>2, <2>3 DEF Opened
<1>9. ASSUME NEW s \in Screens, GetUserEventsAnswers(s)
      PROVE  Quiet \/ (Waiting(s) /\ EnterEvent(s) /\ restarts[d] = 0)
  <2>1. CASE GetUserEventsFails(s)
    BY <1>8, <2>1
  <2>2. CASE Waiting(s) /\ EnterEvent(s)
    BY <2>2 DEF EnterEvent, WriteMutations
  <2> QED BY <1>9, <2>1, <2>2 DEF GetUserEventsAnswers, GetUserEventsFails
<1>10. ASSUME UNCHANGED vars
       PROVE  Quiet
  BY <1>3, <1>10 DEF vars
<1>11. ASSUME NEW s \in Screens, Waiting(s), EnterEvent(s), restarts[d] = 0
       PROVE  Goal
  <2>1. PairOnItsWay(d, e) /\ \A o \in CounterOps : CountsLastApplied(d, e, o)
    BY <1>11 DEF SoloInv
  <2>2. Waiting(s) /\ EnterEvent(s)
    BY <1>11
  <2> HIDE DEF Quiet
  <2> QED BY <2>1, <2>2, EnterSolo
<1>12. ASSUME NEW c \in Devices, ServerApplies(c)
       PROVE  Goal
  <2>1. c = d /\ UNCHANGED <<writes, restarts, entries, screen>>
    BY <1>12 DEF ServerApplies, ApplyAtServer
  <2>2. PairOnItsWay(d, e) /\ \A o \in CounterOps : CountsLastApplied(d, e, o)
    BY <2>1 DEF SoloInv
  <2>3. Untouched(d, e) => Untouched(d, e)'
    <3>1. /\ applied[d] + 1 \in 1 .. Len(writes[d])
          /\ counts' = [counts EXCEPT ![NextToApply(d).event] = PatchCounts(@, NextToApply(d))]
      BY <1>12, <2>1, ApplyStep DEF Effect
    <3>2. Untouched(d, e) => NextToApply(d).event # e
      BY <3>1 DEF Untouched, NextToApply
    <3> QED BY <2>1, <3>1, <3>2 DEF Untouched, TypeOK
  <2>4. /\ \A o \in CounterOps, v \in Int : EndsUpAs(d, e, o, v) => EndsUpAs(d, e, o, v)'
        /\ \A o \in CounterOps : CountsLastApplied(d, e, o)'
    BY <1>12, <2>1, <2>2, AppliesSolo
  <2> QED BY <2>1, <2>2, <2>3, <2>4, NoEntrySolo DEF Opened
<1>13. ASSUME NEW c \in Devices, Acknowledge(c)
       PROVE  Goal
  <2>1. c = d /\ UNCHANGED <<counts, restarts, entries, screen>>
    BY <1>13 DEF Acknowledge, HandleSuccessfulWrite, serverVars
  <2>2. PairOnItsWay(d, e) /\ \A o \in CounterOps : CountsLastApplied(d, e, o)
    BY <2>1 DEF SoloInv
  <2>3. Untouched(d, e) => Untouched(d, e)'
    <3>1. /\ Len(writes'[d]) = Len(writes[d]) - 1
          /\ \A i \in 1 .. Len(writes'[d]) : writes'[d][i] = writes[d][i + 1]
      BY <1>13, <2>1, DropStep
    <3>2. Len(writes[d]) \in Nat
      BY <1>13, <2>1, DropStep
    <3>3. \A i \in 1 .. Len(writes'[d]) : i + 1 \in 1 .. Len(writes[d])
      BY <3>1, <3>2
    <3> QED BY <2>1, <3>1, <3>3 DEF Untouched
  <2>4. /\ \A o \in CounterOps, v \in Int : EndsUpAs(d, e, o, v) => EndsUpAs(d, e, o, v)'
        /\ \A o \in CounterOps : CountsLastApplied(d, e, o)'
    BY <1>13, <2>1, <2>2, AcknowledgeSolo
  <2> QED BY <2>1, <2>2, <2>3, <2>4, NoEntrySolo DEF Opened
<1> HIDE DEF Quiet, Goal
<1>14. ASSUME Quiet PROVE Goal
  BY <1>2, <1>14 DEF Goal
<1>15. ASSUME NEW c \in Devices,
              \/ ShowEvents(c)
              \/ Persist(c) \/ ServerApplies(c) \/ Acknowledge(c) \/ Refuse(c)
              \/ StreamBreaks(c) \/ Relaunch(c)
       PROVE  Goal
  BY <1>4, <1>5, <1>6, <1>7, <1>12, <1>13, <1>14, <1>15
<1>16. ASSUME NEW s \in Screens,
              \/ TapEntry(s) \/ CloseDetail(s)
              \/ GetUserEventsAnswers(s) \/ GetUserEventsFails(s)
              \/ \E c \in Devices, a \in Events : OpenDetail(s, c, a)
       PROVE  Goal
  BY <1>8, <1>9, <1>11, <1>14, <1>16
<1>17. Goal
  BY <1>10, <1>14, <1>15, <1>16 DEF Next, AllUsed
<1> QED BY <1>17 DEF Goal

(* One device on its own, of whose writes none is refused: when everything *)
(* has arrived the two counters of an event come from one copy of its row. *)
(* (Of an infinite set the cardinality in SoloPairWhole says nothing.)     *)
THEOREM SoloPairAlwaysWhole ==
  ASSUME IsFiniteSet(Devices)
  PROVE  Spec => []SoloPairWhole
<1>1. CASE Rejectable = {} /\ Cardinality(Devices) = 1
  <2>1. PICK d : Devices = {d}
    BY <1>1, FS_Singleton
  <2>2. Init => TypeOK /\ SoloInv(d)
    <3> SUFFICES ASSUME Init PROVE SoloInv(d)
      BY InitTyped
    <3>1. writes[d] = << >> /\ applied[d] = 0
      BY <2>1 DEF Init, PipelineInit
    <3>2. \A e \in Events : entries[e] = 0 /\ counts[e] = [max |-> Capacity[e], members |-> 0]
      BY DEF Init
    <3> QED BY <3>1, <3>2 DEF SoloInv, PairOnItsWay, Untouched, CountsLastApplied
  <2>3. TypeOK /\ SoloInv(d) /\ [Next]_vars => TypeOK' /\ SoloInv(d)'
    BY <1>1, <2>1, NextTyped, SoloStep
  <2>4. TypeOK /\ SoloInv(d) => SoloPairWhole
    <3> SUFFICES ASSUME TypeOK, SoloInv(d), Drained, \A c \in Devices : restarts[c] = 0,
                        NEW e \in Events
                 PROVE  IF entries[e] = 0
                        THEN counts[e] = [max |-> Capacity[e], members |-> 0]
                        ELSE \E s \in Screens :
                               /\ Opened(s) /\ screen[s].event = e
                               /\ counts[e] = [max |-> screen[s].max, members |-> screen[s].members]
      BY DEF SoloPairWhole
    <3>1. Len(writes[d]) = 0 /\ PairOnItsWay(d, e) /\ counts[e] \in Counts
      BY <2>1 DEF Drained, SoloInv, TypeOK
    <3>2. CASE entries[e] = 0
      BY <3>1, <3>2 DEF PairOnItsWay, Untouched
    <3>3. CASE entries[e] # 0
      <4>1. PICK x \in Int, y \in Int :
              /\ CopyShows(e, x, y)
              /\ EndsUpAs(d, e, "updateEventMaxMemberCount", x)
              /\ EndsUpAs(d, e, "updateEventMembersCount", y)
        BY <3>1, <3>3 DEF PairOnItsWay
      <4>2. counts[e].max = x /\ counts[e].members = y
        BY <3>1, <4>1 DEF EndsUpAs, ShowsAs
      <4>3. counts[e] = [max |-> x, members |-> y]
        BY <3>1, <4>2 DEF Counts
      <4> QED BY <3>3, <4>1, <4>3 DEF CopyShows
    <3> QED BY <3>2, <3>3
  <2> QED BY <2>2, <2>3, <2>4, PTL DEF Spec
<1>2. CASE ~(Rejectable = {} /\ Cardinality(Devices) = 1)
  <2>1. SoloPairWhole
    BY <1>2 DEF SoloPairWhole
  <2> QED BY <2>1, PTL
<1> QED BY <1>1, <1>2
=============================================================================
