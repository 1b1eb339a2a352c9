------------------------- MODULE DocumentReadsProofs -------------------------
(* Theorems about DocumentReads, for all queries, calls, versions and        *)
(* numbers of faults.                                                        *)
(*                                                                           *)
(* The listeners and the two queues are followed first: an event reaches the *)
(* main thread after its listener was asked for, and an error is the last    *)
(* one.  Below them is the record of RemoteStore, whose operators are taken  *)
(* one by one as in RemoteWriteProofs.  Then come the two wires: how many    *)
(* responses they hold of a target, and what they tell about it.  From these *)
(* follow, last, that answers are fresh and that no call waits for nothing.  *)
EXTENDS DocumentReads, FiniteSetTheorems, SequenceTheorems, TLAPS

(* What the variables hold *)

Targets == UNION {[D -> Versions] : D \in SUBSET Queries}
Views   == UNION {[D -> BOOLEAN] : D \in SUBSET Queries}

TargetState == [pending : Int, current : BOOLEAN]
Aggregators == [states : [Queries -> TargetState], updates : [Queries -> Versions]]

Request ==
  [type : {"Watch"}, query : Queries, known : Versions]
    \cup [type : {"Unwatch"}, query : Queries]
Response ==
  [type : {"Added", "Removed", "Rejected", "Document", "Current", "Snapshot"},
   query : Queries, at : [Queries -> Versions]]

\* The HARD_ASSERTs of the stream, OnlineStateTracker, RemoteStore and SyncEngine.
Assertions ==
  {"already started", "closing a stopped stream", "inhibiting a started stream",
   "writing while not open", "backoff elapsed late", "still starting",
   "online timer started twice", "online with failures", "started without need",
   "stopped while still needed", "not watched", "timeout while known",
   "already listening", "query not found"}

WatchRec ==
  [stream : {"Initial", "Starting", "Open", "Error", "Backoff"}, closes : Nat,
   tokens : SUBSET Nat, backoff : BOOLEAN, idle : BOOLEAN, enabled : BOOLEAN,
   online : {"Unknown", "Online", "Offline"}, failures : {0, 1},
   timer : BOOLEAN, targets : Targets, aggregator : Aggregators,
   up : Seq(Request), down : Seq(Response), served : SUBSET Queries,
   broken : SUBSET Assertions]

Listener ==
  [state : {"idle", "asked", "listening", "gone"}, raised : BOOLEAN,
   muted : BOOLEAN, since : Versions]
Event ==
  [kind : {"value", "refused", "unavailable"}, version : Versions, synced : BOOLEAN]
Delivery == [read : Reads, event : Event]
Operations == [op : {"Add", "Remove"}, read : Reads]

Results == [cache : [Queries -> Versions], resume : [Queries -> Versions]]

Typed ==
  /\ remote \in WatchRec
  /\ server \in [Queries -> 0..MaxVersion] /\ refused \subseteq Queries
  /\ reads \in [Reads -> Listener] /\ views \in Views /\ stored \in Results
  /\ worker \in Seq(Operations) /\ executor \in Seq(Delivery)
  /\ answers \in [Reads -> Seq(Event)]
  /\ opened \in [Queries -> 0..MaxVersion]

-----------------------------------------------------------------------------
(* The inductive invariant *)

Adds(i, r)    == i \in DOMAIN worker /\ worker[i] = Operation("Add", r)
Removes(i, r) == i \in DOMAIN worker /\ worker[i] = Operation("Remove", r)
Tells(i, r)   == i \in DOMAIN executor /\ executor[i].read = r

\* A listener is added once, and what it is told comes after that.
AddedOnce(r) ==
  /\ \A i, j \in Nat : Adds(i, r) /\ Adds(j, r) => i = j
  /\ \A i \in Nat : Adds(i, r) => reads[r].state = "asked"
  /\ \A i \in Nat : Removes(i, r) => reads[r].state \in {"listening", "gone"}
  /\ \A i \in Nat : Tells(i, r) => reads[r].state \in {"listening", "gone"}
  /\ reads[r].state \in {"idle", "asked"} => answers[r] = <<>> /\ ~reads[r].muted

\* An error is the last event of its listener.
ErrorIsLast(r) ==
  \A i \in Nat :
    /\ Tells(i, r) => executor[i].event.kind # "unavailable"
    /\ Tells(i, r) /\ executor[i].event.kind = "refused" =>
         /\ reads[r].state = "gone"
         /\ \A j \in Nat : Tells(j, r) => j <= i

\* After its answer a listener is muted, or nothing is left to be told.
AnsweredThenSilent(r) ==
  answers[r] # <<>> =>
    /\ Len(answers[r]) = 1
    /\ \/ reads[r].muted
       \/ reads[r].state = "gone" /\ \A i \in Nat : ~Tells(i, r)

AnswersInv ==
  /\ Typed
  /\ \A r \in Reads : AddedOnce(r) /\ ErrorIsLast(r) /\ AnsweredThenSilent(r)

\* The tables are added before anything else.
TablesFirst ==
  /\ \A r \in Tables : reads[r].state # "idle"
  /\ \A r \in Tables : reads[r].state = "asked" => \E i \in Nat : Adds(i, r)
  /\ \A i, j \in Nat, r \in Tables : Adds(j, r) /\ i \in 1..j => worker[i].op = "Add"

Timed(s) == IsStarted(s) => s.online # "Unknown" \/ s.timer

\* What holds of the record between two steps, and within one.
Sound(s) ==
  /\ s \in WatchRec /\ s.broken = {}
  /\ s.tokens \subseteq 0..s.closes
  /\ s.closes \in s.tokens => s.stream = "Starting"
  /\ s.backoff <=> s.stream = "Backoff"
  /\ s.idle => IsOpen(s) /\ Listening(s) = {}
  /\ s.timer => s.online = "Unknown"
  /\ s.online # "Offline" => s.failures = 0

Rests(s) ==
  /\ Sound(s) /\ s.enabled
  /\ s.timer => IsStarted(s)
  /\ ~IsStarted(s) => Listening(s) = {}

Listened(rs) == {QueryOf[r] : r \in {r \in Reads : rs[r].state = "listening"}}

\* As long as a table needs the stream, an attempt is limited in time.
TablesTimed ==
  (\E r \in Tables : reads[r].state \in {"asked", "listening"}) => Timed(remote)

WatchInv ==
  /\ AnswersInv /\ TablesFirst
  /\ Rests(remote)
  /\ Listening(remote) = DOMAIN views /\ DOMAIN views = Listened(reads)
  /\ TablesTimed

-----------------------------------------------------------------------------
(* The operators of the libraries *)

LEMMA SetToSeqIs ==
  ASSUME NEW S, IsFiniteSet(S)
  PROVE  /\ SetToSeq(S) \in Seq(S)
         /\ \A i, j \in DOMAIN SetToSeq(S) : SetToSeq(S)[i] = SetToSeq(S)[j] => i = j
         /\ \A x \in S : \E i \in DOMAIN SetToSeq(S) : SetToSeq(S)[i] = x
<1>1. /\ Cardinality(S) \in Nat
      /\ ExistsBijection(1..Cardinality(S), S)
  BY FS_CardinalityType
<1>2. PICK n \in Nat : n = Cardinality(S)
  BY <1>1
<1>3. PICK f \in [1..n -> S] : IsInjective(f)
  BY <1>1, <1>2 DEF ExistsBijection, Bijection, Injection
<1>4. SetToSeq(S) \in [1..n -> S] /\ IsInjective(SetToSeq(S))
  BY <1>2, <1>3 DEF SetToSeq
<1>5. SetToSeq(S) \in Seq(S)
  BY <1>4
<1>6. PICK g \in [1..n -> S] : g = SetToSeq(S) /\ IsInjective(g)
  BY <1>4
<1>7. \A x \in S : \E i \in 1..n : g[i] = x
  <2> DEFINE T == {g[i] : i \in 1..n}
  <2>1. g \in Bijection(1..n, T)
    BY <1>6 DEF Bijection, Injection, Surjection
  <2>2. T \in SUBSET S
    OBVIOUS
  <2> HIDE DEF T
  <2>3. Cardinality(T) = n
    BY <2>1, FS_CountingElements DEF ExistsBijection
  <2>4. T = S
    BY <1>2, <2>2, <2>3, FS_Subset
  <2> QED BY <2>4 DEF T
<1> QED BY <1>4, <1>5, <1>6, <1>7 DEF IsInjective

LEMMA MaxOfTwo ==
  ASSUME NEW a \in Int, NEW b \in Int
  PROVE  Max({a, b}) \in {a, b} /\ Max({a, b}) >= a /\ Max({a, b}) >= b
<1>1. \E x \in {a, b} : \A y \in {a, b} : x >= y
  <2>1. CASE a >= b
    BY <2>1
  <2>2. CASE ~(a >= b)
    BY <2>2
  <2> QED BY <2>1, <2>2
<1> QED BY <1>1 DEF Max

LEMMA VersionsAreInts == Versions \subseteq Int /\ NotKnown \in Versions
BY RemoteWatchAssumption DEF Versions, NotKnown

-----------------------------------------------------------------------------
(* The two queues *)

\* What Raise queues behind the errors: an event for listeners that listen.
Queued(queued, es) == executor' = executor \o queued \o es
Raised(rs, es) ==
  \A i \in DOMAIN es : es[i].event.kind = "value" /\ rs[es[i].read].state = "listening"

LEMMA RaiseTells ==
  ASSUME NEW rs \in [Reads -> Listener], NEW queued \in Seq(Delivery), Raise(rs, queued),
         executor \in Seq(Delivery), views' \in Views, stored' \in Results
  PROVE  /\ reads' \in [Reads -> Listener]
         /\ \A r \in Reads : /\ reads'[r].state = rs[r].state
                             /\ reads'[r].muted = rs[r].muted
         /\ \E es \in Seq(Delivery) : Queued(queued, es) /\ Raised(rs, es)
<1> DEFINE Told(r) == [read |-> r, event |-> Value(stored'.cache[QueryOf[r]],
                                                   views'[QueryOf[r]])]
           T == {Told(r) : r \in Raising(rs)}
<1>1. reads' = [r \in Reads |-> IF r \in Raising(rs) THEN [rs[r] EXCEPT !.raised = TRUE]
                                ELSE rs[r]]
  BY DEF Raise
<1>2. \A r \in Reads :
        /\ [rs[r] EXCEPT !.raised = TRUE] \in Listener
        /\ [rs[r] EXCEPT !.raised = TRUE].state = rs[r].state
        /\ [rs[r] EXCEPT !.raised = TRUE].muted = rs[r].muted
  BY DEF Listener
<1>3. IsFiniteSet(Raising(rs))
  BY DocumentReadsAssumption, FS_Subset DEF Raising
<1>4. ASSUME NEW r \in Raising(rs)
      PROVE  /\ r \in Reads /\ rs[r].state = "listening"
             /\ Told(r) \in Delivery /\ Told(r).event.kind = "value" /\ Told(r).read = r
  <2>1. r \in Reads /\ rs[r].state = "listening" /\ QueryOf[r] \in DOMAIN views'
    BY DEF Raising
  <2>2. stored'.cache[QueryOf[r]] \in Versions /\ views'[QueryOf[r]] \in BOOLEAN
    BY <2>1, DocumentReadsAssumption DEF Results, Views
  <2> QED BY <2>1, <2>2 DEF Delivery, Event, Value
<1>5. IsFiniteSet(T)
  <2> DEFINE f == [r \in Raising(rs) |-> Told(r)]
  <2>1. f \in Surjection(Raising(rs), T)
    BY DEF Surjection
  <2> HIDE DEF f, T
  <2> QED BY <1>3, <2>1, FS_Surjection
<1>6. executor' = executor \o queued \o SetToSeq(T)
  BY DEF Raise
<1>7. T \subseteq Delivery
        /\ \A x \in T : x.event.kind = "value" /\ rs[x.read].state = "listening"
  BY <1>4
<1> HIDE DEF T
<1>8. SetToSeq(T) \in Seq(T)
  BY <1>5, SetToSeqIs
<1>9. SetToSeq(T) \in Seq(Delivery)
  BY <1>7, <1>8, SeqMonotonic
<1>10. Raised(rs, SetToSeq(T))
  BY <1>7, <1>8, ElementOfSeq, LenProperties DEF Raised
<1> QED BY <1>1, <1>2, <1>6, <1>9, <1>10 DEF Queued

LEMMA TailShifts ==
  ASSUME worker \in Seq(Operations), worker # <<>>, worker' = Tail(worker),
         NEW r, NEW i \in Nat
  PROVE  /\ Adds(i, r)' => Adds(i + 1, r)
         /\ Removes(i, r)' => Removes(i + 1, r)
BY DEF Adds, Removes

LEMMA AppendAdds ==
  ASSUME worker \in Seq(Operations), NEW o \in Operations, worker' = Append(worker, o),
         NEW r, NEW i \in Nat
  PROVE  /\ Adds(i, r)' => Adds(i, r) \/ (i = Len(worker) + 1 /\ o = Operation("Add", r))
         /\ Removes(i, r)' =>
              Removes(i, r) \/ (i = Len(worker) + 1 /\ o = Operation("Remove", r))
         /\ Adds(i, r) => Adds(i, r)' /\ i <= Len(worker)
BY AppendProperties DEF Adds, Removes

LEMMA ToldBehind ==
  ASSUME executor \in Seq(Delivery), NEW queued \in Seq(Delivery), NEW es \in Seq(Delivery),
         Queued(queued, es), NEW r, NEW i \in Nat, Tells(i, r)'
  PROVE  \/ Tells(i, r) /\ executor'[i] = executor[i]
         \/ \E k \in DOMAIN queued : /\ i = Len(executor) + k
                                     /\ executor'[i] = queued[k] /\ queued[k].read = r
         \/ \E k \in DOMAIN es : executor'[i] = es[k] /\ es[k].read = r
<1>1. PICK a \in Nat, b \in Nat, c \in Nat :
        a = Len(executor) /\ b = Len(queued) /\ c = Len(es)
  BY LenProperties
<1>2. /\ executor \o queued \in Seq(Delivery) /\ Len(executor \o queued) = a + b
      /\ \A k \in 1..(a + b) : (executor \o queued)[k] =
           IF k <= a THEN executor[k] ELSE queued[k - a]
  BY <1>1, ConcatProperties
<1>3. /\ Len(executor') = a + b + c /\ executor' \in Seq(Delivery)
      /\ \A k \in 1..(a + b + c) : executor'[k] =
           IF k <= a + b THEN (executor \o queued)[k] ELSE es[k - (a + b)]
  BY <1>1, <1>2, ConcatProperties DEF Queued
<1>4. i \in 1..(a + b + c) /\ executor'[i].read = r
  BY <1>3, LenProperties DEF Tells
<1>5. CASE i <= a
  BY <1>1, <1>2, <1>3, <1>4, <1>5 DEF Tells
<1>6. CASE a < i /\ i <= a + b
  <2>1. i - a \in 1..b /\ i \in 1..(a + b)
    BY <1>4, <1>6
  <2>2. executor'[i] = queued[i - a]
    <3>1. executor'[i] = (executor \o queued)[i]
      BY <1>3, <1>4, <1>6
    <3>2. (executor \o queued)[i] = queued[i - a]
      BY <1>1, <1>2, <1>6, <2>1
    <3> QED BY <3>1, <3>2
  <2>3. DOMAIN queued = 1..b
    BY <1>1, LenProperties
  <2>4. PICK k \in 1..b : k = i - a
    BY <2>1
  <2>5. i = a + k /\ k \in DOMAIN queued /\ executor'[i] = queued[k] /\ queued[k].read = r
    BY <1>4, <2>2, <2>3, <2>4
  <2> QED BY <1>1, <2>5
<1>7. CASE a + b < i
  <2>1. i - (a + b) \in 1..c /\ i - a - b = i - (a + b) /\ i > a
    BY <1>4, <1>7
  <2>2. executor'[i] = es[i - (a + b)]
    BY <1>3, <1>4, <1>7
  <2>3. DOMAIN es = 1..c
    BY <1>1, LenProperties
  <2>4. PICK k \in 1..c : k = i - (a + b)
    BY <2>1
  <2>5. k \in DOMAIN es /\ executor'[i] = es[k] /\ es[k].read = r
    BY <1>4, <2>2, <2>3, <2>4
  <2> QED BY <2>5
<1>8. i <= a \/ (a < i /\ i <= a + b) \/ a + b < i
  BY <1>1
<1> QED BY <1>5, <1>6, <1>7, <1>8, Zenon

ReadInv(r) == AddedOnce(r) /\ ErrorIsLast(r) /\ AnsweredThenSilent(r)

\* What a step of the worker may make of a listener before it raises.
Legal(r, rs) ==
  /\ rs[r].muted = reads[r].muted
  /\ \/ rs[r].state = reads[r].state
     \/ rs[r].state = "gone" /\ reads[r].state \in {"listening", "gone"}
     \/ /\ rs[r].state = "listening" /\ reads[r].state = "asked"
        /\ \A i \in Nat : ~Adds(i, r)'

\* The errors are for listeners that have listened up to now, one for each.
Errors(queued, rs) ==
  /\ \A i \in DOMAIN queued :
       /\ queued[i].event.kind = "refused"
       /\ reads[queued[i].read].state = "listening" /\ rs[queued[i].read].state = "gone"
  /\ \A i, j \in DOMAIN queued : queued[i].read = queued[j].read => i = j

WorkerStep ==
  /\ worker \in Seq(Operations)
  /\ \/ worker' = worker
     \/ worker # <<>> /\ worker' = Tail(worker)

LEMMA WorkerStepShifts ==
  ASSUME WorkerStep, NEW r, NEW i \in Nat
  PROVE  /\ Adds(i, r)' =>
              \E k \in Nat : /\ Adds(k, r)
                             /\ k = IF worker' = worker THEN i ELSE i + 1
         /\ Removes(i, r)' => \E k \in Nat : Removes(k, r)
<1>1. CASE worker' = worker
  BY <1>1 DEF Adds, Removes
<1>2. CASE worker' # worker /\ worker # <<>> /\ worker' = Tail(worker)
  <2>1. i + 1 \in Nat
    OBVIOUS
  <2> QED BY <1>2, <2>1, TailShifts DEF WorkerStep
<1> QED BY <1>1, <1>2 DEF WorkerStep

LEMMA ToldAfterRaise ==
  ASSUME executor \in Seq(Delivery), NEW rs, NEW queued \in Seq(Delivery), Errors(queued, rs),
         NEW es \in Seq(Delivery), Raised(rs, es), Queued(queued, es),
         NEW r, NEW i \in Nat, Tells(i, r)'
  PROVE  \/ Tells(i, r) /\ executor'[i] = executor[i]
         \/ /\ executor'[i].event.kind = "refused"
            /\ reads[r].state = "listening" /\ rs[r].state = "gone"
            /\ \E k \in DOMAIN queued : i = Len(executor) + k /\ queued[k].read = r
         \/ executor'[i].event.kind = "value" /\ rs[r].state = "listening"
<1>1. CASE Tells(i, r) /\ executor'[i] = executor[i]
  BY <1>1
<1>2. CASE \E k \in DOMAIN queued : /\ i = Len(executor) + k
                                   /\ executor'[i] = queued[k] /\ queued[k].read = r
  BY <1>2 DEF Errors
<1>3. CASE \E k \in DOMAIN es : executor'[i] = es[k] /\ es[k].read = r
  BY <1>3 DEF Raised
<1>4. \/ Tells(i, r) /\ executor'[i] = executor[i]
      \/ \E k \in DOMAIN queued : /\ i = Len(executor) + k
                                  /\ executor'[i] = queued[k] /\ queued[k].read = r
      \/ \E k \in DOMAIN es : executor'[i] = es[k] /\ es[k].read = r
  BY ToldBehind
<1> QED BY <1>1, <1>2, <1>3, <1>4, Zenon

LEMMA RaisedAdded ==
  ASSUME WorkerStep, answers' = answers,
         executor \in Seq(Delivery), NEW rs, NEW queued \in Seq(Delivery), Errors(queued, rs),
         NEW es \in Seq(Delivery), Raised(rs, es), Queued(queued, es),
         NEW r \in Reads, ReadInv(r), Legal(r, rs),
         reads'[r].state = rs[r].state, reads'[r].muted = rs[r].muted
  PROVE  AddedOnce(r)'
<1>1. ASSUME NEW i \in Nat, NEW j \in Nat, Adds(i, r)', Adds(j, r)'
      PROVE  i = j
  <2>1. PICK k \in Nat : Adds(k, r) /\ k = IF worker' = worker THEN i ELSE i + 1
    BY <1>1, WorkerStepShifts
  <2>2. PICK l \in Nat : Adds(l, r) /\ l = IF worker' = worker THEN j ELSE j + 1
    BY <1>1, WorkerStepShifts
  <2>3. k = l
    BY <2>1, <2>2 DEF ReadInv, AddedOnce
  <2> QED BY <2>1, <2>2, <2>3
<1>2. ASSUME NEW i \in Nat, Adds(i, r)'
      PROVE  reads'[r].state = "asked"
  <2>1. reads[r].state = "asked"
    BY <1>2, WorkerStepShifts DEF ReadInv, AddedOnce
  <2> QED BY <1>2, <2>1 DEF Legal
<1>3. ASSUME NEW i \in Nat, Removes(i, r)'
      PROVE  reads'[r].state \in {"listening", "gone"}
  <2>1. reads[r].state \in {"listening", "gone"}
    BY <1>3, WorkerStepShifts DEF ReadInv, AddedOnce
  <2> QED BY <2>1 DEF Legal
<1>4. ASSUME NEW i \in Nat, Tells(i, r)'
      PROVE  reads'[r].state \in {"listening", "gone"}
  <2>1. CASE Tells(i, r)
    <3>1. reads[r].state \in {"listening", "gone"}
      BY <2>1 DEF ReadInv, AddedOnce
    <3> QED BY <3>1 DEF Legal
  <2>2. CASE ~Tells(i, r)
    BY <1>4, <2>2, ToldAfterRaise
  <2> QED BY <2>1, <2>2
<1>5. ASSUME reads'[r].state \in {"idle", "asked"}
      PROVE  answers'[r] = <<>> /\ ~reads'[r].muted
  BY <1>5 DEF ReadInv, AddedOnce, Legal
<1> QED BY <1>1, <1>2, <1>3, <1>4, <1>5 DEF AddedOnce

LEMMA RaisedLast ==
  ASSUME executor \in Seq(Delivery), NEW rs, NEW queued \in Seq(Delivery), Errors(queued, rs),
         NEW es \in Seq(Delivery), Raised(rs, es), Queued(queued, es),
         NEW r \in Reads, ReadInv(r), Legal(r, rs), reads'[r].state = rs[r].state
  PROVE  ErrorIsLast(r)'
<1>1. ASSUME NEW i \in Nat, Tells(i, r)'
      PROVE  executor'[i].event.kind # "unavailable"
  <2>1. Tells(i, r) => executor[i].event.kind # "unavailable"
    BY DEF ReadInv, ErrorIsLast
  <2> QED BY <1>1, <2>1, ToldAfterRaise
<1>2. ASSUME NEW i \in Nat, Tells(i, r)', executor'[i].event.kind = "refused"
      PROVE  reads'[r].state = "gone" /\ \A j \in Nat : Tells(j, r)' => j <= i
  <2>1. CASE Tells(i, r) /\ executor'[i] = executor[i]
    <3>1. reads[r].state = "gone" /\ \A j \in Nat : Tells(j, r) => j <= i
      BY <1>2, <2>1 DEF ReadInv, ErrorIsLast
    <3>2. rs[r].state = "gone"
      BY <3>1 DEF Legal
    <3>3. ASSUME NEW j \in Nat, Tells(j, r)' PROVE j <= i
      BY <3>1, <3>2, <3>3, ToldAfterRaise
    <3> QED BY <3>2, <3>3
  <2>2. CASE /\ reads[r].state = "listening" /\ rs[r].state = "gone"
             /\ \E k \in DOMAIN queued : i = Len(executor) + k /\ queued[k].read = r
    <3>1. PICK k \in DOMAIN queued : i = Len(executor) + k /\ queued[k].read = r
      BY <2>2
    <3>2. ASSUME NEW j \in Nat, Tells(j, r)' PROVE j <= i
      <4>1. CASE Tells(j, r)
        <5>1. j <= Len(executor) /\ Len(executor) \in Nat /\ k \in Nat
          BY <4>1, LenProperties DEF Tells
        <5> QED BY <3>1, <5>1
      <4>2. CASE \E l \in DOMAIN queued : j = Len(executor) + l /\ queued[l].read = r
        BY <3>1, <4>2 DEF Errors
      <4> QED BY <2>2, <3>2, <4>1, <4>2, ToldAfterRaise
    <3> QED BY <2>2, <3>2
  <2>3. ~(executor'[i].event.kind = "value" /\ rs[r].state = "listening")
    BY <1>2
  <2>4. \/ Tells(i, r) /\ executor'[i] = executor[i]
        \/ /\ reads[r].state = "listening" /\ rs[r].state = "gone"
           /\ \E k \in DOMAIN queued : i = Len(executor) + k /\ queued[k].read = r
    BY <1>2, <2>3, ToldAfterRaise
  <2> QED BY <2>1, <2>2, <2>4
<1> QED BY <1>1, <1>2 DEF ErrorIsLast

LEMMA RaisedSilent ==
  ASSUME answers' = answers,
         executor \in Seq(Delivery), NEW rs, NEW queued \in Seq(Delivery), Errors(queued, rs),
         NEW es \in Seq(Delivery), Raised(rs, es), Queued(queued, es),
         NEW r \in Reads, ReadInv(r), Legal(r, rs),
         reads'[r].state = rs[r].state, reads'[r].muted = rs[r].muted
  PROVE  AnsweredThenSilent(r)'
<1> SUFFICES ASSUME answers[r] # <<>>, ~reads[r].muted
             PROVE  reads'[r].state = "gone" /\ \A i \in Nat : ~Tells(i, r)'
  BY DEF AnsweredThenSilent, ReadInv, Legal
<1>1. reads[r].state = "gone" /\ \A i \in Nat : ~Tells(i, r)
  BY DEF ReadInv, AnsweredThenSilent
<1>2. rs[r].state = "gone"
  BY <1>1 DEF Legal
<1>3. ASSUME NEW i \in Nat, Tells(i, r)' PROVE FALSE
  BY <1>1, <1>2, <1>3, ToldAfterRaise
<1> QED BY <1>2, <1>3

\* A step of the worker that raises keeps what is known of every listener.
LEMMA RaisedAnswers ==
  ASSUME Typed, WorkerStep, answers' = answers, views' \in Views, stored' \in Results,
         NEW rs \in [Reads -> Listener], NEW queued \in Seq(Delivery),
         Errors(queued, rs), Raise(rs, queued),
         \A r \in Reads : ReadInv(r) /\ Legal(r, rs)
  PROVE  /\ \A r \in Reads : ReadInv(r)'
         /\ reads' \in [Reads -> Listener] /\ executor' \in Seq(Delivery)
         /\ \A r \in Reads : reads'[r].state = rs[r].state
<1>1. executor \in Seq(Delivery)
  BY DEF Typed
<1>2. /\ reads' \in [Reads -> Listener]
      /\ \A r \in Reads : reads'[r].state = rs[r].state /\ reads'[r].muted = rs[r].muted
      /\ \E es \in Seq(Delivery) : Queued(queued, es) /\ Raised(rs, es)
  BY <1>1, RaiseTells
<1>3. PICK es \in Seq(Delivery) : Queued(queued, es) /\ Raised(rs, es)
  BY <1>2
<1>4. executor' \in Seq(Delivery)
  BY <1>1, <1>3, ConcatProperties DEF Queued
<1>5. ASSUME NEW r \in Reads PROVE ReadInv(r)'
  <2>1. ReadInv(r) /\ Legal(r, rs) /\ reads'[r].state = rs[r].state
        /\ reads'[r].muted = rs[r].muted
    BY <1>2
  <2>2. AddedOnce(r)'
    BY <1>1, <1>3, <2>1, RaisedAdded
  <2>3. ErrorIsLast(r)'
    BY <1>1, <1>3, <2>1, RaisedLast
  <2>4. AnsweredThenSilent(r)'
    BY <1>1, <1>3, <2>1, RaisedSilent
  <2> QED BY <2>2, <2>3, <2>4 DEF ReadInv
<1> QED BY <1>2, <1>4, <1>5

\* A call of getDocument asks for a listener that nothing is known of yet.
LEMMA AskedAnswers ==
  ASSUME Typed, \A r \in Reads : ReadInv(r), NEW c \in Reads, GetDocument(c)
  PROVE  /\ \A r \in Reads : ReadInv(r)'
         /\ reads' \in [Reads -> Listener] /\ worker' \in Seq(Operations)
<1>1. /\ reads' = [reads EXCEPT ![c].state = "asked"]
      /\ worker' = Append(worker, Operation("Add", c))
      /\ executor' = executor /\ answers' = answers /\ reads[c].state = "idle"
  BY DEF GetDocument
<1>2. /\ reads \in [Reads -> Listener] /\ worker \in Seq(Operations)
      /\ Operation("Add", c) \in Operations
  BY DEF Typed, Operation, Operations
<1>3. /\ reads' \in [Reads -> Listener]
      /\ reads'[c].state = "asked" /\ reads'[c].muted = reads[c].muted
      /\ \A r \in Reads : r # c => reads'[r] = reads[r]
  BY <1>1, <1>2 DEF Listener
<1>4. worker' \in Seq(Operations)
  BY <1>1, <1>2, AppendProperties
<1>5. ASSUME NEW r \in Reads PROVE ReadInv(r)'
  <2>1. ReadInv(r)
    OBVIOUS
  <2>2. \A i \in Nat : Tells(i, r)' <=> Tells(i, r)
    BY <1>1 DEF Tells
  <2>3. /\ \A i \in Nat : Adds(i, r)' =>
              Adds(i, r) \/ (i = Len(worker) + 1 /\ r = c)
        /\ \A i \in Nat : Removes(i, r)' => Removes(i, r)
    BY <1>1, <1>2, AppendAdds DEF Operation
  <2>4. CASE r # c
    <3>1. AddedOnce(r)'
      BY <1>1, <1>3, <2>1, <2>2, <2>3, <2>4 DEF ReadInv, AddedOnce
    <3>2. ErrorIsLast(r)'
      BY <1>1, <1>3, <2>1, <2>2, <2>4 DEF ReadInv, ErrorIsLast
    <3>3. AnsweredThenSilent(r)'
      BY <1>1, <1>3, <2>1, <2>2, <2>4 DEF ReadInv, AnsweredThenSilent
    <3> QED BY <3>1, <3>2, <3>3 DEF ReadInv
  <2>5. CASE r = c
    <3>1. /\ \A i \in Nat : ~Adds(i, r) /\ ~Removes(i, r) /\ ~Tells(i, r)
          /\ answers[r] = <<>> /\ ~reads[r].muted
      BY <1>1, <2>1, <2>5 DEF ReadInv, AddedOnce
    <3>2. AddedOnce(r)'
      BY <1>1, <1>3, <2>2, <2>3, <2>5, <3>1 DEF AddedOnce
    <3>3. ErrorIsLast(r)' /\ AnsweredThenSilent(r)'
      BY <1>1, <2>2, <3>1 DEF ErrorIsLast, AnsweredThenSilent
    <3> QED BY <3>2, <3>3 DEF ReadInv
  <2> QED BY <2>4, <2>5
<1> QED BY <1>3, <1>4, <1>5

LEMMA ExecutorShifts ==
  ASSUME executor \in Seq(Delivery), executor # <<>>, executor' = Tail(executor)
  PROVE  /\ Head(executor) = executor[1] /\ Head(executor) \in Delivery
         /\ Tells(1, Head(executor).read)
         /\ executor' \in Seq(Delivery)
         /\ \A r : \A i \in Nat : Tells(i, r)' =>
              \E k \in Nat : k = i + 1 /\ Tells(k, r) /\ executor'[i] = executor[k]
<1>1. /\ Head(executor) = executor[1] /\ Head(executor) \in Delivery
      /\ executor' \in Seq(Delivery) /\ Len(executor') = Len(executor) - 1
      /\ \A i \in 1..Len(executor') : executor'[i] = executor[i + 1]
      /\ Len(executor) \in Nat /\ 1 \in DOMAIN executor
      /\ DOMAIN executor' = 1..Len(executor') /\ DOMAIN executor = 1..Len(executor)
  BY HeadTailProperties, LenProperties
<1>2. ASSUME NEW r, NEW i \in Nat, Tells(i, r)'
      PROVE  \E k \in Nat : k = i + 1 /\ Tells(k, r) /\ executor'[i] = executor[k]
  <2>1. i \in 1..Len(executor') /\ executor'[i].read = r
    BY <1>1, <1>2 DEF Tells
  <2>2. PICK k \in Nat : k = i + 1
    OBVIOUS
  <2>3. k \in 1..Len(executor) /\ executor'[i] = executor[k]
    BY <1>1, <2>1, <2>2
  <2>4. Tells(k, r)
    BY <1>1, <2>1, <2>3 DEF Tells
  <2> QED BY <2>2, <2>3, <2>4
<1> QED BY <1>1, <1>2 DEF Tells

\* The listeners an event is not for stay as they are, with less to be told.
LEMMA LessToTell ==
  ASSUME executor \in Seq(Delivery), executor # <<>>, executor' = Tail(executor),
         NEW r \in Reads, ReadInv(r),
         reads'[r].state = reads[r].state, reads'[r].muted = reads[r].muted,
         answers'[r] = answers[r],
         \A i \in Nat : Adds(i, r)' => Adds(i, r),
         \A i \in Nat : Removes(i, r)' => Removes(i, r)
  PROVE  ReadInv(r)'
<1>1. \A i \in Nat : Tells(i, r)' =>
        \E k \in Nat : k = i + 1 /\ Tells(k, r) /\ executor'[i] = executor[k]
  BY ExecutorShifts
<1>2. AddedOnce(r)'
  BY <1>1 DEF ReadInv, AddedOnce
<1>3. ErrorIsLast(r)'
  <2>1. ASSUME NEW i \in Nat, Tells(i, r)'
        PROVE  executor'[i].event.kind # "unavailable"
    BY <1>1, <2>1 DEF ReadInv, ErrorIsLast
  <2>2. ASSUME NEW i \in Nat, Tells(i, r)', executor'[i].event.kind = "refused"
        PROVE  reads'[r].state = "gone" /\ \A j \in Nat : Tells(j, r)' => j <= i
    <3>0. PICK k \in Nat : k = i + 1 /\ Tells(k, r) /\ executor[k].event.kind = "refused"
      BY <1>1, <2>2
    <3>1. reads[r].state = "gone" /\ \A j \in Nat : Tells(j, r) => j <= k
      BY <3>0 DEF ReadInv, ErrorIsLast
    <3>2. ASSUME NEW j \in Nat, Tells(j, r)' PROVE j <= i
      <4>1. PICK l \in Nat : l = j + 1 /\ Tells(l, r)
        BY <1>1, <3>2
      <4> QED BY <3>0, <3>1, <4>1
    <3> QED BY <3>1, <3>2
  <2> QED BY <2>1, <2>2 DEF ErrorIsLast
<1>4. AnsweredThenSilent(r)'
  BY <1>1 DEF ReadInv, AnsweredThenSilent
<1> QED BY <1>2, <1>3, <1>4 DEF ReadInv

\* The first event is the answer: a value mutes the listener, and behind an
\* error there is nothing.
LEMMA AnswerIsFirst ==
  ASSUME Typed, executor # <<>>, executor' = Tail(executor),
         NEW r \in Reads, ReadInv(r), r = Head(executor).read, ~reads[r].muted,
         NEW e \in Event, e = Head(executor).event, OnEvent(r, e)
  PROVE  /\ ReadInv(r)'
         /\ reads' \in [Reads -> Listener] /\ answers' \in [Reads -> Seq(Event)]
         /\ worker' \in Seq(Operations)
<1>1. /\ executor \in Seq(Delivery) /\ reads \in [Reads -> Listener]
      /\ worker \in Seq(Operations) /\ answers \in [Reads -> Seq(Event)]
  BY DEF Typed
<1>2. /\ Tells(1, r) /\ executor[1].event = e
      /\ \A i \in Nat : Tells(i, r)' =>
           \E k \in Nat : k = i + 1 /\ Tells(k, r) /\ executor'[i] = executor[k]
      /\ \A i \in Nat : Tells(i, r)' => i >= 1
  <2>1. executor' \in Seq(Delivery)
    BY <1>1, ExecutorShifts
  <2> QED BY <1>1, <2>1, ExecutorShifts, LenProperties DEF Tells
<1>3. reads[r].state \in {"listening", "gone"} /\ answers[r] = <<>>
      /\ e.kind \in {"value", "refused"}
  BY <1>2 DEF ReadInv, AddedOnce, ErrorIsLast, AnsweredThenSilent, Event
<1>4. AnswerTo(e) \in Event
  BY VersionsAreInts DEF AnswerTo, Event, Unavailable
<1>5. /\ answers' \in [Reads -> Seq(Event)] /\ answers'[r] = <<AnswerTo(e)>>
      /\ answers'[r] # <<>> /\ Len(answers'[r]) = 1
  <2>1. answers' = [answers EXCEPT ![r] = Append(answers[r], AnswerTo(e))]
    BY DEF OnEvent
  <2>2. Append(answers[r], AnswerTo(e)) = <<AnswerTo(e)>>
    BY <1>3
  <2>3. PICK a \in Event : a = AnswerTo(e)
    BY <1>4
  <2>4. <<a>> \in Seq(Event) /\ Len(<<a>>) = 1 /\ <<a>> # <<>>
    OBVIOUS
  <2>5. answers' = [answers EXCEPT ![r] = <<a>>]
    BY <2>1, <2>2, <2>3
  <2> QED BY <1>1, <2>3, <2>4, <2>5
<1>6. CASE e.kind = "value"
  <2>1. /\ reads' = [reads EXCEPT ![r].muted = TRUE]
        /\ worker' = Append(worker, Operation("Remove", r))
    BY <1>6 DEF OnEvent, MuteAndRemove
  <2>2. /\ reads' \in [Reads -> Listener]
        /\ reads'[r].muted /\ reads'[r].state = reads[r].state
    <3> DEFINE l == [reads[r] EXCEPT !.muted = TRUE]
    <3>1. l \in Listener /\ l.muted /\ l.state = reads[r].state
      BY <1>1 DEF Listener
    <3>2. reads' = [reads EXCEPT ![r] = l]
      BY <2>1
    <3> HIDE DEF l
    <3> QED BY <1>1, <3>1, <3>2
  <2>3. Operation("Remove", r) \in Operations
    BY DEF Operation, Operations
  <2>4. worker' \in Seq(Operations)
    BY <1>1, <2>1, <2>3, AppendProperties
  <2>5. \A i \in Nat : Adds(i, r)' => Adds(i, r)
    BY <1>1, <2>1, <2>3, AppendAdds DEF Operation
  <2>6. AddedOnce(r)'
    BY <1>2, <1>3, <2>2, <2>5 DEF ReadInv, AddedOnce
  <2>7. ErrorIsLast(r)'
    <3>1. ASSUME NEW i \in Nat, Tells(i, r)'
          PROVE  executor'[i].event.kind # "unavailable"
      BY <1>2, <3>1 DEF ReadInv, ErrorIsLast
    <3>2. ASSUME NEW i \in Nat, Tells(i, r)', executor'[i].event.kind = "refused"
          PROVE  reads'[r].state = "gone" /\ \A j \in Nat : Tells(j, r)' => j <= i
      <4>1. PICK k \in Nat : /\ k = i + 1 /\ Tells(k, r)
                             /\ executor[k].event.kind = "refused"
        BY <1>2, <3>2
      <4>2. reads[r].state = "gone" /\ \A j \in Nat : Tells(j, r) => j <= k
        BY <4>1 DEF ReadInv, ErrorIsLast
      <4>3. ASSUME NEW j \in Nat, Tells(j, r)' PROVE j <= i
        <5>1. PICK l \in Nat : l = j + 1 /\ Tells(l, r)
          BY <1>2, <4>3
        <5> QED BY <4>1, <4>2, <5>1
      <4> QED BY <2>2, <4>2, <4>3
    <3> QED BY <3>1, <3>2 DEF ErrorIsLast
  <2>8. AnsweredThenSilent(r)'
    BY <1>5, <2>2 DEF AnsweredThenSilent
  <2> QED BY <1>5, <2>2, <2>4, <2>6, <2>7, <2>8 DEF ReadInv
<1>7. CASE e.kind = "refused"
  <2>1. reads' = reads /\ worker' = worker
    BY <1>7 DEF OnEvent
  <2>2. reads[r].state = "gone" /\ \A j \in Nat : Tells(j, r) => j <= 1
    BY <1>2, <1>7 DEF ReadInv, ErrorIsLast
  <2>3. ASSUME NEW i \in Nat, Tells(i, r)' PROVE FALSE
    <3>1. PICK k \in Nat : k = i + 1 /\ Tells(k, r)
      BY <1>2, <2>3
    <3> QED BY <1>2, <2>2, <2>3, <3>1
  <2>4. AddedOnce(r)'
    BY <2>1, <2>2, <2>3 DEF ReadInv, AddedOnce, Adds, Removes
  <2>5. ErrorIsLast(r)' /\ AnsweredThenSilent(r)'
    BY <1>5, <2>1, <2>2, <2>3 DEF ErrorIsLast, AnsweredThenSilent
  <2> QED BY <1>1, <1>5, <2>1, <2>4, <2>5 DEF ReadInv
<1> QED BY <1>3, <1>6, <1>7

LEMMA DeliveredAnswers ==
  ASSUME Typed, \A r \in Reads : ReadInv(r), RunExecutor
  PROVE  /\ \A r \in Reads : ReadInv(r)'
         /\ reads' \in [Reads -> Listener] /\ answers' \in [Reads -> Seq(Event)]
         /\ worker' \in Seq(Operations) /\ executor' \in Seq(Delivery)
<1>1. /\ executor \in Seq(Delivery) /\ reads \in [Reads -> Listener]
      /\ worker \in Seq(Operations) /\ answers \in [Reads -> Seq(Event)]
      /\ executor # <<>> /\ executor' = Tail(executor)
  BY DEF Typed, RunExecutor
<1>2. PICK c \in Reads, e \in Event :
        c = Head(executor).read /\ e = Head(executor).event
  <2>1. Head(executor) \in Delivery
    BY <1>1, ExecutorShifts
  <2> QED BY <2>1 DEF Delivery
<1>3. executor' \in Seq(Delivery)
  BY <1>1, ExecutorShifts
<1>4. CASE UNCHANGED <<reads, worker, answers>>
  <2>1. ASSUME NEW r \in Reads PROVE ReadInv(r)'
    <3>1. ReadInv(r) /\ \A i \in Nat : /\ Adds(i, r)' => Adds(i, r)
                                       /\ Removes(i, r)' => Removes(i, r)
      BY <1>4 DEF Adds, Removes
    <3> QED BY <1>1, <1>4, <3>1, LessToTell
  <2> QED BY <1>1, <1>3, <1>4, <2>1
<1>5. CASE ~reads[c].muted /\ OnEvent(c, e)
  <2>1. /\ ReadInv(c)'
        /\ reads' \in [Reads -> Listener] /\ answers' \in [Reads -> Seq(Event)]
        /\ worker' \in Seq(Operations)
    BY <1>1, <1>2, <1>5, AnswerIsFirst
  <2>2. ASSUME NEW r \in Reads, r # c PROVE ReadInv(r)'
    <3>1. answers'[r] = answers[r] /\ reads'[r] = reads[r]
      BY <1>1, <1>5, <2>2 DEF OnEvent, MuteAndRemove
    <3>2. \A i \in Nat : (Adds(i, r)' => Adds(i, r)) /\ (Removes(i, r)' => Removes(i, r))
      <4>1. CASE worker' = worker
        BY <4>1 DEF Adds, Removes
      <4>2. CASE worker' = Append(worker, Operation("Remove", c))
        <5>1. Operation("Remove", c) \in Operations
          BY DEF Operation, Operations
        <5> QED BY <1>1, <2>2, <4>2, <5>1, AppendAdds DEF Operation
      <4> QED BY <1>5, <4>1, <4>2 DEF OnEvent, MuteAndRemove
    <3>3. ReadInv(r)
      OBVIOUS
    <3> QED BY <1>1, <3>1, <3>2, <3>3, LessToTell
  <2> QED BY <1>3, <2>1, <2>2
<1> QED BY <1>2, <1>4, <1>5 DEF RunExecutor

-----------------------------------------------------------------------------
(* The online state and the watch stream *)

LEMMA NewAggregatorTyped == NewAggregator \in Aggregators
BY VersionsAreInts DEF NewAggregator, Aggregators, NoTargetState, TargetState

LEMMA TargetsAre ==
  ASSUME NEW f \in Targets
  PROVE  /\ DOMAIN f \subseteq Queries /\ f \in [DOMAIN f -> Versions]
         /\ IsFiniteSet(DOMAIN f)
<1>1. DOMAIN f \subseteq Queries /\ f \in [DOMAIN f -> Versions]
  BY DEF Targets
<1> QED BY <1>1, FS_Subset, RemoteWatchAssumption

LEMMA NoneStarted ==
  ASSUME NEW s \in WatchRec, ~IsStarted(s)
  PROVE  s.stream \in {"Initial", "Error"} /\ ~IsOpen(s)
BY DEF WatchRec, IsStarted, IsOpen

\* A stream is started while the online state is not timed yet.
LEMMA StartsSound ==
  ASSUME NEW s, Sound(s), ~IsStarted(s), s.enabled, Listening(s) # {},
         s.failures = 0 => ~s.timer
  PROVE  LET t == StartWatchStream(s)
         IN  /\ Sound(t) /\ IsStarted(t) /\ Timed(t)
             /\ t.enabled = s.enabled /\ t.targets = s.targets
<1> DEFINE a == [s EXCEPT !.aggregator = NewAggregator]
           b == Start(a)
           t == StartWatchStream(s)
<1>1. /\ s \in WatchRec /\ s.broken = {} /\ s.tokens \subseteq 0..s.closes
      /\ s.stream \in {"Initial", "Error"} /\ ~IsOpen(s) /\ s.closes \notin s.tokens
      /\ ~s.backoff /\ ~s.idle /\ (s.timer => s.online = "Unknown")
      /\ (s.online # "Offline" => s.failures = 0) /\ s.failures \in {0, 1}
      /\ s.closes \in Nat /\ s.tokens \subseteq Nat
  BY NoneStarted DEF Sound, WatchRec
<1>2. t = HandleWatchStreamStart(b)
  BY DEF StartWatchStream, Check, ShouldStartWatchStream
<1>3. /\ a \in WatchRec /\ a.stream = s.stream /\ a.closes = s.closes
      /\ a.tokens = s.tokens /\ a.backoff = s.backoff /\ a.idle = s.idle
      /\ a.enabled = s.enabled /\ a.online = s.online /\ a.failures = s.failures
      /\ a.timer = s.timer /\ a.targets = s.targets /\ a.broken = s.broken
  BY <1>1, NewAggregatorTyped DEF WatchRec
<1> HIDE DEF a, t
<1>4. /\ b \in WatchRec
      /\ \/ b.stream = "Backoff" /\ b.backoff /\ b.tokens = s.tokens
         \/ b.stream = "Starting" /\ ~b.backoff /\ b.tokens = s.tokens \cup {s.closes}
      /\ b.closes = s.closes /\ b.idle = s.idle /\ b.enabled = s.enabled
      /\ b.online = s.online /\ b.failures = s.failures /\ b.timer = s.timer
      /\ b.targets = s.targets /\ b.broken = {}
  <2>1. CASE a.stream = "Error"
    <3>1. b = [a EXCEPT !.stream = "Backoff", !.backoff = TRUE]
      BY <2>1 DEF Start
    <3> HIDE DEF b
    <3>2. b \in WatchRec
      BY <1>3, <3>1 DEF WatchRec
    <3>3. /\ b.stream = "Backoff" /\ b.backoff /\ b.tokens = a.tokens
          /\ b.closes = a.closes /\ b.idle = a.idle /\ b.enabled = a.enabled
          /\ b.online = a.online /\ b.failures = a.failures /\ b.timer = a.timer
          /\ b.targets = a.targets /\ b.broken = a.broken
      BY <1>3, <3>1 DEF WatchRec
    <3> QED BY <1>1, <1>3, <3>2, <3>3
  <2>2. CASE a.stream = "Initial"
    <3> DEFINE c == [a EXCEPT !.stream = "Starting"]
    <3>1. b = [c EXCEPT !.tokens = @ \cup {c.closes}]
      BY <2>2 DEF Start, RequestCredentials, Check
    <3>2. /\ c \in WatchRec /\ c.stream = "Starting" /\ c.closes = s.closes
          /\ c.tokens = s.tokens /\ c.backoff = s.backoff /\ c.idle = s.idle
          /\ c.enabled = s.enabled /\ c.online = s.online /\ c.failures = s.failures
          /\ c.timer = s.timer /\ c.targets = s.targets /\ c.broken = s.broken
      BY <1>3 DEF WatchRec
    <3> HIDE DEF b, c
    <3>3. b = [c EXCEPT !.tokens = s.tokens \cup {s.closes}]
          /\ s.tokens \cup {s.closes} \in SUBSET Nat
      BY <1>1, <3>1, <3>2
    <3>4. b \in WatchRec
      BY <3>2, <3>3 DEF WatchRec
    <3> QED BY <1>1, <3>2, <3>3, <3>4 DEF WatchRec
  <2> QED BY <1>1, <1>3, <2>1, <2>2
<1> HIDE DEF b
<1>5. ASSUME b.failures # 0
      PROVE  /\ Sound(t) /\ IsStarted(t) /\ Timed(t)
             /\ t.enabled = s.enabled /\ t.targets = s.targets
  <2>1. t = b
    BY <1>2, <1>5 DEF HandleWatchStreamStart
  <2>2. b.online = "Offline" /\ ~b.timer
    BY <1>1, <1>4, <1>5
  <2>3. IsStarted(b) /\ Timed(b)
    BY <1>4, <2>2 DEF IsStarted, Timed
  <2>4. Sound(b)
    BY <1>1, <1>4, <2>2 DEF Sound
  <2> QED BY <1>4, <2>1, <2>3, <2>4
<1>6. ASSUME b.failures = 0
      PROVE  /\ Sound(t) /\ IsStarted(t) /\ Timed(t)
             /\ t.enabled = s.enabled /\ t.targets = s.targets
  <2>1. t = [b EXCEPT !.online = "Unknown", !.timer = TRUE]
    BY <1>1, <1>2, <1>4, <1>6 DEF HandleWatchStreamStart, Check
  <2>2. /\ t \in WatchRec /\ t.stream = b.stream /\ t.closes = b.closes
        /\ t.tokens = b.tokens /\ t.backoff = b.backoff /\ t.idle = b.idle
        /\ t.enabled = b.enabled /\ t.online = "Unknown" /\ t.failures = b.failures
        /\ t.timer /\ t.targets = b.targets /\ t.broken = b.broken
    BY <1>4, <2>1 DEF WatchRec
  <2>3. IsStarted(t) /\ Timed(t)
    BY <1>4, <2>2 DEF IsStarted, Timed
  <2>4. Sound(t)
    BY <1>1, <1>4, <1>6, <2>2 DEF Sound
  <2> QED BY <1>4, <2>2, <2>3, <2>4
<1> QED BY <1>5, <1>6 DEF t

LEMMA UpdateStateIs ==
  ASSUME NEW s \in WatchRec, NEW state \in {"Unknown", "Online", "Offline"}
  PROVE  LET t == UpdateState(s, state)
         IN  /\ t \in WatchRec /\ ~t.timer /\ t.failures = 0 /\ t.online = state
             /\ t.stream = s.stream /\ t.closes = s.closes /\ t.tokens = s.tokens
             /\ t.backoff = s.backoff /\ t.idle = s.idle /\ t.enabled = s.enabled
             /\ t.targets = s.targets /\ t.broken = s.broken
             /\ t.aggregator = s.aggregator /\ t.up = s.up /\ t.down = s.down
             /\ t.served = s.served
<1> DEFINE t == UpdateState(s, state)
<1>1. t = [s EXCEPT !.timer = FALSE, !.failures = 0, !.online = state]
  BY DEF UpdateState
<1> HIDE DEF t
<1>2. t \in WatchRec
  BY <1>1 DEF WatchRec
<1>3. /\ ~t.timer /\ t.failures = 0 /\ t.online = state
      /\ t.stream = s.stream /\ t.closes = s.closes /\ t.tokens = s.tokens
      /\ t.backoff = s.backoff /\ t.idle = s.idle /\ t.enabled = s.enabled
      /\ t.targets = s.targets /\ t.broken = s.broken
      /\ t.aggregator = s.aggregator /\ t.up = s.up /\ t.down = s.down
      /\ t.served = s.served
  BY <1>1 DEF WatchRec
<1> QED BY <1>2, <1>3 DEF t

LEMMA UpdateSound ==
  ASSUME NEW s, Sound(s), NEW state \in {"Unknown", "Online", "Offline"}
  PROVE  LET t == UpdateState(s, state)
         IN  /\ Sound(t) /\ ~t.timer /\ t.online = state
             /\ t.stream = s.stream /\ t.enabled = s.enabled /\ t.targets = s.targets
<1> DEFINE t == UpdateState(s, state)
<1>1. /\ t \in WatchRec /\ ~t.timer /\ t.failures = 0 /\ t.online = state
      /\ t.stream = s.stream /\ t.closes = s.closes /\ t.tokens = s.tokens
      /\ t.backoff = s.backoff /\ t.idle = s.idle /\ t.enabled = s.enabled
      /\ t.targets = s.targets /\ t.broken = s.broken
  BY UpdateStateIs DEF Sound
<1> HIDE DEF t
<1>2. Listening(t) = Listening(s) /\ (IsOpen(t) <=> IsOpen(s))
  BY <1>1 DEF Listening, IsOpen
<1>3. /\ s.broken = {} /\ s.tokens \subseteq 0..s.closes
      /\ (s.closes \in s.tokens => s.stream = "Starting")
      /\ (s.backoff <=> s.stream = "Backoff")
      /\ (s.idle => IsOpen(s) /\ Listening(s) = {})
  BY DEF Sound
<1>4. Sound(t)
  BY <1>1, <1>2, <1>3 DEF Sound
<1> QED BY <1>1, <1>4 DEF t

\* A closed stream starts again exactly if it is still needed.
LEMMA ClosedStartsAgain ==
  ASSUME NEW s, Sound(s), ~IsStarted(s), NEW g \in BOOLEAN,
         g => ~s.enabled \/ Listening(s) = {}
  PROVE  LET t == OnWatchStreamClose(s, g)
         IN  /\ Sound(t) /\ Timed(t) /\ (t.timer => IsStarted(t))
             /\ (IsStarted(t) <=> (s.enabled /\ Listening(s) # {}))
             /\ t.enabled = s.enabled /\ t.targets = s.targets
<1> DEFINE t == OnWatchStreamClose(s, g)
           u == HandleWatchStreamFailure(s)
<1>1. t = IF ShouldStartWatchStream(s) THEN StartWatchStream(u)
          ELSE UpdateState(s, "Unknown")
  BY DEF OnWatchStreamClose, Check, ShouldStartWatchStream
<1>2. /\ s \in WatchRec /\ s.broken = {} /\ s.tokens \subseteq 0..s.closes
      /\ s.closes \notin s.tokens
      /\ ~s.backoff /\ ~s.idle /\ (s.timer => s.online = "Unknown")
      /\ (s.online # "Offline" => s.failures = 0) /\ s.failures \in {0, 1}
      /\ s.stream \in {"Initial", "Error"}
  BY NoneStarted DEF Sound, WatchRec, IsOpen
<1> HIDE DEF t
<1>3. CASE ShouldStartWatchStream(s)
  <2>1. /\ u \in WatchRec /\ ~u.timer
        /\ u.online \in {"Unknown", "Offline"} /\ u.failures \in {0, 1}
        /\ u.online # "Offline" => u.failures = 0
        /\ u.stream = s.stream /\ u.closes = s.closes /\ u.tokens = s.tokens
        /\ u.backoff = s.backoff /\ u.idle = s.idle /\ u.enabled = s.enabled
        /\ u.targets = s.targets /\ u.broken = s.broken
    <3>1. CASE s.online = "Online"
      <4>1. u = [s EXCEPT !.online = "Unknown"]
        BY <1>2, <3>1 DEF HandleWatchStreamFailure, Check
      <4> HIDE DEF u
      <4>2. u \in WatchRec
        BY <1>2, <4>1 DEF WatchRec
      <4> QED BY <1>2, <3>1, <4>1, <4>2 DEF WatchRec
    <3>2. CASE s.online # "Online"
      <4>1. u = [s EXCEPT !.failures = 1, !.timer = FALSE, !.online = "Offline"]
        BY <3>2 DEF HandleWatchStreamFailure
      <4> HIDE DEF u
      <4>2. u \in WatchRec
        BY <1>2, <4>1 DEF WatchRec
      <4> QED BY <1>2, <4>1, <4>2 DEF WatchRec
    <3> QED BY <3>1, <3>2
  <2> HIDE DEF u
  <2>2. Sound(u) /\ ~IsStarted(u) /\ u.enabled /\ Listening(u) # {}
    <3>1. ~IsStarted(u) /\ ~IsOpen(u) /\ u.enabled /\ Listening(u) # {}
      BY <1>2, <1>3, <2>1 DEF IsStarted, IsOpen, ShouldStartWatchStream, Listening
    <3> QED BY <1>2, <2>1, <3>1 DEF Sound
  <2>3. /\ Sound(t) /\ IsStarted(t) /\ Timed(t)
        /\ t.enabled = u.enabled /\ t.targets = u.targets
    BY <1>1, <1>3, <2>1, <2>2, StartsSound
  <2>4. s.enabled /\ Listening(s) # {}
    BY <1>3 DEF ShouldStartWatchStream
  <2> QED BY <2>1, <2>3, <2>4 DEF t
<1>4. CASE ~ShouldStartWatchStream(s)
  <2>1. /\ Sound(t) /\ ~t.timer /\ t.stream = s.stream
        /\ t.enabled = s.enabled /\ t.targets = s.targets
    BY <1>1, <1>4, UpdateSound
  <2>2. ~IsStarted(t)
    BY <2>1 DEF IsStarted
  <2>3. ~(s.enabled /\ Listening(s) # {})
    BY <1>4 DEF ShouldStartWatchStream
  <2>4. Timed(t)
    BY <2>2 DEF Timed
  <2> QED BY <2>1, <2>2, <2>3, <2>4 DEF t
<1> QED BY <1>3, <1>4

LEMMA CloseSound ==
  ASSUME NEW s, Sound(s), IsStarted(s), NEW g \in BOOLEAN,
         g => ~s.enabled \/ Listening(s) = {}
  PROVE  LET t == Close(s, g)
         IN  /\ Sound(t) /\ Timed(t) /\ (t.timer => IsStarted(t))
             /\ (IsStarted(t) <=> (s.enabled /\ Listening(s) # {}))
             /\ t.enabled = s.enabled /\ t.targets = s.targets
<1> DEFINE final == IF g THEN "Initial" ELSE "Error"
           c == [TearDown(s, g) EXCEPT !.served = {}]
           t == Close(s, g)
<1>1. c = [s EXCEPT !.idle = FALSE, !.backoff = FALSE, !.closes = @ + 1,
                    !.stream = final, !.up = <<>>, !.down = <<>>, !.served = {}]
  BY DEF TearDown, Check
<1>2. s \in WatchRec /\ final \in {"Initial", "Error"}
  BY DEF Sound
<1>3. t = OnWatchStreamClose(c, g)
  BY DEF Close
<1> HIDE DEF c, t, final
<1>4. /\ c.stream = final /\ c.closes = s.closes + 1 /\ c.tokens = s.tokens
      /\ ~c.backoff /\ ~c.idle /\ c.enabled = s.enabled /\ c.online = s.online
      /\ c.failures = s.failures /\ c.timer = s.timer /\ c.targets = s.targets
      /\ c.broken = s.broken
  BY <1>1, <1>2 DEF WatchRec
<1>5. c \in WatchRec
  <2> DEFINE d == [s EXCEPT !.idle = FALSE, !.backoff = FALSE, !.closes = @ + 1]
  <2>1. d \in WatchRec
    <3>1. s.closes \in Nat /\ s.closes + 1 \in Nat
      BY <1>2 DEF WatchRec
    <3>2. d = [s EXCEPT !.idle = FALSE, !.backoff = FALSE, !.closes = s.closes + 1]
      OBVIOUS
    <3> HIDE DEF d
    <3> QED BY <1>2, <3>1, <3>2 DEF WatchRec
  <2>2. c = [d EXCEPT !.stream = final, !.up = <<>>, !.down = <<>>, !.served = {}]
    BY <1>1
  <2> HIDE DEF d
  <2>3. <<>> \in Seq(Request) /\ <<>> \in Seq(Response)
    OBVIOUS
  <2> QED BY <1>2, <2>1, <2>2, <2>3 DEF WatchRec
<1>6. ~IsStarted(c) /\ ~IsOpen(c) /\ Listening(c) = Listening(s)
  BY <1>2, <1>4 DEF IsStarted, IsOpen, Listening
<1>7. c.tokens \subseteq 0..c.closes /\ c.closes \notin c.tokens
  <2>1. s.closes \in Nat /\ s.tokens \subseteq 0..s.closes
    BY <1>2 DEF Sound, WatchRec
  <2> QED BY <1>4, <2>1
<1>8. Sound(c)
  <2>1. c.stream # "Backoff"
    BY <1>2, <1>4
  <2> QED BY <1>4, <1>5, <1>6, <1>7, <2>1 DEF Sound
<1>9. /\ Sound(t) /\ Timed(t) /\ (t.timer => IsStarted(t))
      /\ (IsStarted(t) <=> (c.enabled /\ Listening(c) # {}))
      /\ t.enabled = c.enabled /\ t.targets = c.targets
  BY <1>3, <1>4, <1>6, <1>8, ClosedStartsAgain
<1> QED BY <1>4, <1>6, <1>9 DEF t

\* Nothing of the stream and of the online state is changed.
Alike(s, t) ==
  /\ t.stream = s.stream /\ t.closes = s.closes /\ t.tokens = s.tokens
  /\ t.backoff = s.backoff /\ t.enabled = s.enabled /\ t.online = s.online
  /\ t.failures = s.failures /\ t.timer = s.timer /\ t.broken = s.broken

LEMMA AlikeSound ==
  ASSUME NEW s, Sound(s), NEW t \in WatchRec, Alike(s, t),
         t.idle => IsOpen(t) /\ Listening(t) = {}
  PROVE  /\ Sound(t) /\ (Timed(t) <=> Timed(s)) /\ t.enabled = s.enabled
         /\ (IsStarted(t) <=> IsStarted(s)) /\ (IsOpen(t) <=> IsOpen(s))
         /\ t.timer = s.timer
<1>1. /\ (IsStarted(t) <=> IsStarted(s)) /\ (IsOpen(t) <=> IsOpen(s))
      /\ t.enabled = s.enabled /\ (Timed(t) <=> Timed(s)) /\ t.timer = s.timer
  BY DEF Alike, IsStarted, IsOpen, Timed
<1>2. /\ s.broken = {} /\ s.tokens \subseteq 0..s.closes
      /\ (s.closes \in s.tokens => s.stream = "Starting")
      /\ (s.backoff <=> s.stream = "Backoff")
      /\ (s.timer => s.online = "Unknown")
      /\ (s.online # "Offline" => s.failures = 0)
  BY DEF Sound
<1>3. Sound(t)
  BY <1>2 DEF Sound, Alike
<1> QED BY <1>1, <1>3

\* One more response is outstanding.
LEMMA RequestsPending ==
  ASSUME NEW s \in WatchRec, NEW qs \in SUBSET Queries
  PROVE  LET t == RecordPendingTargetRequests(s, qs)
         IN  /\ t \in WatchRec /\ Alike(s, t)
             /\ t.targets = s.targets /\ t.idle = s.idle
             /\ t.up = s.up /\ t.down = s.down
<1> DEFINE after == [q \in Queries |->
                       IF q \in qs
                       THEN RecordPendingTargetRequest(s.aggregator.states[q])
                       ELSE s.aggregator.states[q]]
           a == [s.aggregator EXCEPT !.states = after]
           t == RecordPendingTargetRequests(s, qs)
<1>1. s.aggregator \in Aggregators
  BY DEF WatchRec
<1>2. after \in [Queries -> TargetState]
  <2>1. \A q \in Queries : s.aggregator.states[q] \in TargetState
    BY <1>1 DEF Aggregators
  <2>2. \A x \in TargetState : RecordPendingTargetRequest(x) \in TargetState
    BY DEF TargetState, RecordPendingTargetRequest
  <2> QED BY <2>1, <2>2
<1> HIDE DEF after
<1>3. a \in Aggregators
  BY <1>1, <1>2 DEF Aggregators
<1>4. t = [s EXCEPT !.aggregator = a]
  BY DEF RecordPendingTargetRequests, after
<1> HIDE DEF a, t
<1>5. t \in WatchRec
  BY <1>3, <1>4 DEF WatchRec
<1>6. Alike(s, t) /\ t.targets = s.targets /\ t.idle = s.idle /\ t.up = s.up /\ t.down = s.down
  BY <1>4 DEF WatchRec, Alike
<1> QED BY <1>5, <1>6 DEF t

LEMMA SendIs ==
  ASSUME NEW s \in WatchRec, IsOpen(s), NEW ms \in Seq(Request)
  PROVE  LET t == Send(s, ms)
         IN  /\ t \in WatchRec /\ Alike(s, t) /\ ~t.idle /\ t.targets = s.targets
             /\ t.down = s.down
<1> DEFINE t == Send(s, ms)
<1>1. t = [s EXCEPT !.idle = FALSE, !.up = s.up \o ms]
  BY DEF Send, Check
<1>2. s.up \in Seq(Request)
  BY DEF WatchRec
<1>3. PICK up \in Seq(Request) : up = s.up \o ms
  BY <1>2, ConcatProperties
<1>4. t = [s EXCEPT !.idle = FALSE, !.up = up]
  BY <1>1, <1>3
<1> HIDE DEF t
<1>5. t \in WatchRec
  BY <1>4 DEF WatchRec
<1>6. Alike(s, t) /\ ~t.idle /\ t.targets = s.targets /\ t.down = s.down
  BY <1>4 DEF WatchRec, Alike
<1> QED BY <1>5, <1>6 DEF t

LEMMA AlikeTwice ==
  ASSUME NEW s, NEW t, NEW u, Alike(s, t), Alike(t, u)
  PROVE  Alike(s, u)
BY DEF Alike

LEMMA WatchRequestsSent ==
  ASSUME NEW s \in WatchRec, IsOpen(s), NEW qs \in SUBSET Listening(s)
  PROVE  LET t == SendWatchRequests(s, qs)
         IN  /\ t \in WatchRec /\ Alike(s, t) /\ ~t.idle /\ t.targets = s.targets
<1> DEFINE T == {WatchRequest(s, q) : q \in qs}
           a == RecordPendingTargetRequests(s, qs)
           t == SendWatchRequests(s, qs)
<1>1. s.targets \in Targets
  BY DEF WatchRec
<1>2. qs \in SUBSET Queries /\ IsFiniteSet(qs) /\ \A q \in qs : s.targets[q] \in Versions
  BY <1>1, TargetsAre, FS_Subset DEF Listening
<1>3. T \subseteq Request
  BY <1>2 DEF WatchRequest, Request
<1>4. IsFiniteSet(T)
  <2> DEFINE f == [q \in qs |-> WatchRequest(s, q)]
  <2>1. f \in Surjection(qs, T)
    BY DEF Surjection
  <2> HIDE DEF f, T
  <2> QED BY <1>2, <2>1, FS_Surjection
<1>5. t = Send(a, SetToSeq(T))
  BY DEF SendWatchRequests
<1> HIDE DEF T, t
<1>6. SetToSeq(T) \in Seq(Request)
  BY <1>3, <1>4, SetToSeqIs, SeqMonotonic
<1>7. /\ a \in WatchRec /\ Alike(s, a)
      /\ a.targets = s.targets /\ a.idle = s.idle
  BY <1>2, RequestsPending
<1> HIDE DEF a
<1>8. IsOpen(a)
  BY <1>7 DEF IsOpen, Alike
<1>9. t \in WatchRec /\ Alike(a, t) /\ ~t.idle /\ t.targets = a.targets
  BY <1>5, <1>6, <1>7, <1>8, SendIs
<1>10. Alike(s, t)
  BY <1>7, <1>9, AlikeTwice
<1> QED BY <1>7, <1>9, <1>10 DEF t

LEMMA UnwatchRequestSent ==
  ASSUME NEW s \in WatchRec, IsOpen(s), NEW q \in Queries
  PROVE  LET t == SendUnwatchRequest(s, q)
         IN  /\ t \in WatchRec /\ Alike(s, t) /\ ~t.idle /\ t.targets = s.targets
<1> DEFINE m == [type |-> "Unwatch", query |-> q]
           a == RecordPendingTargetRequests(s, {q})
           t == SendUnwatchRequest(s, q)
<1>1. t = Send(a, <<m>>)
  BY DEF SendUnwatchRequest
<1>2. <<m>> \in Seq(Request)
  <2>1. m \in Request
    BY DEF Request
  <2> HIDE DEF m
  <2> QED BY <2>1
<1> HIDE DEF t, m
<1>3. /\ a \in WatchRec /\ Alike(s, a)
      /\ a.targets = s.targets /\ a.idle = s.idle
  BY RequestsPending
<1> HIDE DEF a
<1>4. IsOpen(a)
  BY <1>3 DEF IsOpen, Alike
<1>5. t \in WatchRec /\ Alike(a, t) /\ ~t.idle /\ t.targets = a.targets
  BY <1>1, <1>2, <1>3, <1>4, SendIs
<1>6. Alike(s, t)
  BY <1>3, <1>5, AlikeTwice
<1> QED BY <1>3, <1>5, <1>6 DEF t

-----------------------------------------------------------------------------
(* The handlers of RemoteStore *)

\* With the network disabled the stream is stopped, whoever still needs it.
LEMMA DisabledStops ==
  ASSUME NEW s, Rests(s)
  PROVE  LET t == Stop([s EXCEPT !.enabled = FALSE])
         IN  Sound(t) /\ ~IsStarted(t) /\ t.targets = s.targets
<1> DEFINE disabled == [s EXCEPT !.enabled = FALSE]
           stopped == Stop(disabled)
<1>1. /\ s \in WatchRec /\ Sound(s) /\ s.enabled /\ (s.timer => IsStarted(s))
      /\ (~IsStarted(s) => Listening(s) = {})
  BY DEF Rests, Sound
<1>2. /\ disabled \in WatchRec /\ ~disabled.enabled /\ disabled.targets = s.targets
      /\ disabled.stream = s.stream /\ disabled.closes = s.closes
      /\ disabled.tokens = s.tokens /\ disabled.backoff = s.backoff
      /\ disabled.idle = s.idle /\ disabled.online = s.online
      /\ disabled.failures = s.failures /\ disabled.timer = s.timer
      /\ disabled.broken = s.broken
  BY <1>1 DEF WatchRec
<1> HIDE DEF disabled
<1>3. Sound(disabled) /\ (IsStarted(disabled) <=> IsStarted(s))
  <2>1. /\ (IsStarted(disabled) <=> IsStarted(s)) /\ (IsOpen(disabled) <=> IsOpen(s))
        /\ Listening(disabled) = Listening(s)
    BY <1>2 DEF IsStarted, IsOpen, Listening
  <2> QED BY <1>1, <1>2, <2>1 DEF Sound
<1>4. Sound(stopped) /\ ~IsStarted(stopped) /\ stopped.targets = s.targets
  <2>1. CASE IsStarted(s)
    <3>1. stopped = Close(disabled, TRUE)
      BY <2>1, <1>3 DEF Stop
    <3> HIDE DEF stopped
    <3> QED BY <1>2, <1>3, <2>1, <3>1, CloseSound
  <2>2. CASE ~IsStarted(s)
    <3>1. stopped = disabled
      BY <2>2, <1>3 DEF Stop
    <3> QED BY <1>2, <1>3, <2>2, <3>1
  <2> QED BY <2>1, <2>2
<1> QED BY <1>4 DEF stopped, disabled

LEMMA RestartRests ==
  ASSUME NEW s, Rests(s)
  PROVE  LET t == RestartNetwork(s)
         IN  Rests(t) /\ Timed(t) /\ t.targets = s.targets
<1> DEFINE disabled == [s EXCEPT !.enabled = FALSE]
           stopped == Stop(disabled)
           down == UpdateState(stopped, "Unknown")
           up == [InhibitBackoff(down) EXCEPT !.enabled = TRUE]
           t == RestartNetwork(s)
<1>4. Sound(stopped) /\ ~IsStarted(stopped) /\ stopped.targets = s.targets
  BY DisabledStops
<1> HIDE DEF stopped
<1>5. /\ Sound(down) /\ ~down.timer /\ down.stream = stopped.stream
      /\ down.targets = s.targets
  BY <1>4, UpdateSound
<1> HIDE DEF down
<1>6. ~IsStarted(down) /\ down \in WatchRec
  BY <1>4, <1>5 DEF IsStarted, Sound
<1>7. up = [down EXCEPT !.stream = "Initial", !.enabled = TRUE]
  BY <1>6 DEF InhibitBackoff, Check
<1>8. t = IF ShouldStartWatchStream(up) THEN StartWatchStream(up)
          ELSE UpdateState(up, "Unknown")
  BY DEF RestartNetwork, up, down, stopped, disabled
<1> HIDE DEF up, t
<1>9. /\ up \in WatchRec /\ up.stream = "Initial" /\ up.enabled /\ ~up.timer
      /\ up.targets = s.targets /\ up.closes = down.closes /\ up.tokens = down.tokens
      /\ up.backoff = down.backoff /\ up.idle = down.idle /\ up.online = down.online
      /\ up.failures = down.failures /\ up.broken = down.broken
  BY <1>5, <1>6, <1>7 DEF WatchRec
<1>10. Sound(up) /\ ~IsStarted(up)
  <2>1. ~IsStarted(up) /\ ~IsOpen(up) /\ Listening(up) = Listening(s)
    BY <1>9 DEF IsStarted, IsOpen, Listening
  <2>2. /\ down.broken = {} /\ down.tokens \subseteq 0..down.closes
        /\ down.closes \notin down.tokens /\ ~down.backoff /\ ~down.idle
        /\ (down.online # "Offline" => down.failures = 0)
    BY <1>5, <1>6, NoneStarted DEF Sound
  <2> QED BY <1>9, <2>1, <2>2 DEF Sound
<1>11. CASE ShouldStartWatchStream(up)
  <2>1. up.enabled /\ Listening(up) # {}
    BY <1>11 DEF ShouldStartWatchStream
  <2>2. /\ Sound(t) /\ IsStarted(t) /\ Timed(t)
        /\ t.enabled = up.enabled /\ t.targets = up.targets
    BY <1>8, <1>9, <1>10, <1>11, <2>1, StartsSound
  <2> QED BY <1>9, <2>2 DEF Rests, t
<1>12. CASE ~ShouldStartWatchStream(up)
  <2>1. /\ Sound(t) /\ ~t.timer /\ t.stream = up.stream
        /\ t.enabled = up.enabled /\ t.targets = up.targets
    BY <1>8, <1>10, <1>12, UpdateSound
  <2>2. Listening(up) = {} /\ ~IsStarted(t)
    BY <1>9, <1>10, <1>12, <2>1 DEF ShouldStartWatchStream, IsStarted
  <2>3. Listening(t) = {} /\ Timed(t)
    BY <2>1, <2>2 DEF Listening, Timed
  <2> QED BY <1>9, <2>1, <2>2, <2>3 DEF Rests, t
<1> QED BY <1>11, <1>12

LEMMA AddedTargets ==
  ASSUME NEW f \in Targets, NEW q \in Queries, NEW known \in Versions
  PROVE  LET g == Put(f, q, known)
         IN  g \in Targets /\ DOMAIN g = DOMAIN f \cup {q}
<1> DEFINE g == Put(f, q, known)
<1>1. DOMAIN f \subseteq Queries /\ f \in [DOMAIN f -> Versions]
  BY TargetsAre
<1>2. g \in [DOMAIN f \cup {q} -> Versions] /\ DOMAIN f \cup {q} \in SUBSET Queries
  BY <1>1 DEF Put
<1> HIDE DEF g
<1> QED BY <1>2 DEF Targets, g

LEMMA ListenRests ==
  ASSUME NEW s, Rests(s), NEW q \in Queries, q \notin Listening(s), NEW known \in Versions
  PROVE  LET t == Listen(s, q, known)
         IN  /\ Rests(t) /\ Listening(t) = Listening(s) \cup {q}
             /\ Timed(s) => Timed(t)
<1> DEFINE targets == Put(s.targets, q, known)
           added == [s EXCEPT !.targets = targets]
           t == Listen(s, q, known)
<1>1. /\ s \in WatchRec /\ Sound(s) /\ s.enabled /\ (s.timer => IsStarted(s))
      /\ (~IsStarted(s) => Listening(s) = {})
  BY DEF Rests, Sound
<1>2. targets \in Targets /\ DOMAIN targets = Listening(s) \cup {q}
  <2>1. s.targets \in Targets
    BY <1>1 DEF WatchRec
  <2> QED BY <2>1, AddedTargets DEF Listening
<1>3. t = IF ShouldStartWatchStream(added) THEN StartWatchStream(added)
          ELSE IF IsOpen(added) THEN SendWatchRequests(added, {q}) ELSE added
  BY DEF Listen
<1> HIDE DEF targets, t
<1>4. /\ added \in WatchRec /\ Alike(s, added) /\ added.targets = targets
      /\ added.idle = s.idle
  BY <1>1, <1>2 DEF WatchRec, Alike
<1> HIDE DEF added
<1>5. /\ (IsStarted(added) <=> IsStarted(s)) /\ (IsOpen(added) <=> IsOpen(s))
      /\ (Timed(added) <=> Timed(s)) /\ added.timer = s.timer /\ added.enabled
      /\ Listening(added) = Listening(s) \cup {q} /\ q \in Listening(added)
  BY <1>1, <1>2, <1>4 DEF Alike, IsStarted, IsOpen, Timed, Listening
<1>6. CASE ~IsStarted(added)
  <2>1. ~s.idle
    BY <1>1, <1>5, <1>6, NoneStarted DEF Sound
  <2>2. Sound(added)
    BY <1>1, <1>4, <2>1, AlikeSound
  <2>3. t = StartWatchStream(added)
    BY <1>3, <1>5, <1>6 DEF ShouldStartWatchStream
  <2>4. /\ Sound(t) /\ IsStarted(t) /\ Timed(t)
        /\ t.enabled = added.enabled /\ t.targets = added.targets
    BY <1>1, <1>5, <1>6, <2>2, <2>3, StartsSound
  <2>5. Listening(t) = Listening(added)
    BY <2>4 DEF Listening
  <2> QED BY <1>5, <2>4, <2>5 DEF Rests, t
<1>7. CASE IsOpen(added)
  <2>1. t = SendWatchRequests(added, {q})
    BY <1>3, <1>7 DEF ShouldStartWatchStream, IsOpen, IsStarted
  <2>2. t \in WatchRec /\ Alike(added, t) /\ ~t.idle /\ t.targets = added.targets
    <3>1. {q} \in SUBSET Listening(added)
      BY <1>5
    <3> QED BY <1>4, <1>7, <2>1, <3>1, WatchRequestsSent
  <2>3. Alike(s, t)
    BY <1>4, <2>2, AlikeTwice
  <2>4. /\ Sound(t) /\ (Timed(t) <=> Timed(s)) /\ t.enabled = s.enabled
        /\ (IsStarted(t) <=> IsStarted(s)) /\ t.timer = s.timer
    BY <1>1, <2>2, <2>3, AlikeSound
  <2>5. IsStarted(s)
    BY <1>5, <1>7 DEF IsOpen, IsStarted
  <2>6. Listening(t) = Listening(added)
    BY <2>2 DEF Listening
  <2> QED BY <1>1, <1>5, <2>4, <2>5, <2>6 DEF Rests, t
<1>8. CASE IsStarted(added) /\ ~IsOpen(added)
  <2>1. t = added
    BY <1>3, <1>8 DEF ShouldStartWatchStream
  <2>2. ~s.idle
    BY <1>1, <1>5, <1>8 DEF Sound
  <2>3. Sound(added)
    BY <1>1, <1>4, <2>2, AlikeSound
  <2> QED BY <1>1, <1>5, <1>8, <2>1, <2>3 DEF Rests, t
<1> QED BY <1>6, <1>7, <1>8

LEMMA ErasedAlike ==
  ASSUME NEW s \in WatchRec, NEW q
  PROVE  LET t == Erase(s, q)
         IN  /\ t \in WatchRec /\ Alike(s, t) /\ t.idle = s.idle
             /\ Listening(t) = Listening(s) \ {q}
             /\ t.aggregator = s.aggregator
<1> DEFINE targets == [p \in Listening(s) \ {q} |-> s.targets[p]]
           t == Erase(s, q)
<1>1. s.targets \in Targets
  BY DEF WatchRec
<1>2. targets \in Targets /\ DOMAIN targets = Listening(s) \ {q}
  <2>1. Listening(s) \subseteq Queries /\ s.targets \in [Listening(s) -> Versions]
    BY <1>1, TargetsAre DEF Listening
  <2>2. /\ targets \in [Listening(s) \ {q} -> Versions]
        /\ Listening(s) \ {q} \in SUBSET Queries
    BY <2>1
  <2>3. DOMAIN targets = Listening(s) \ {q}
    OBVIOUS
  <2> HIDE DEF targets
  <2> QED BY <2>2, <2>3 DEF Targets
<1>3. t = [s EXCEPT !.targets = targets]
  BY DEF Erase
<1> HIDE DEF targets, t
<1>4. t \in WatchRec
  BY <1>2, <1>3 DEF WatchRec
<1>5. /\ Alike(s, t) /\ t.idle = s.idle /\ t.targets = targets
      /\ t.aggregator = s.aggregator
  BY <1>3 DEF WatchRec, Alike
<1> QED BY <1>2, <1>4, <1>5 DEF t, Listening

\* The last target that is not listened to any more leaves the stream idle.
LEMMA StopRests ==
  ASSUME NEW s, Rests(s), NEW q \in Queries, q \in Listening(s)
  PROVE  LET t == StopListening(s, q)
         IN  /\ Rests(t) /\ Listening(t) = Listening(s) \ {q}
             /\ Timed(s) /\ Listening(t) # {} => Timed(t)
<1> DEFINE erased == Erase(s, q)
           told == IF IsOpen(s) THEN SendUnwatchRequest(erased, q) ELSE erased
           t == StopListening(s, q)
<1>1. /\ s \in WatchRec /\ Sound(s) /\ s.enabled /\ (s.timer => IsStarted(s))
      /\ (~IsStarted(s) => Listening(s) = {}) /\ IsStarted(s) /\ ~s.idle
  BY DEF Rests, Sound
<1>2. t = IF Listening(told) # {} THEN told
          ELSE IF IsOpen(told) THEN MarkIdle(told) ELSE UpdateState(told, "Unknown")
  BY DEF StopListening, Check
<1>3. /\ erased \in WatchRec /\ Alike(s, erased) /\ erased.idle = s.idle
      /\ Listening(erased) = Listening(s) \ {q}
  BY <1>1, ErasedAlike
<1> HIDE DEF erased, t
<1>4. told \in WatchRec /\ Alike(s, told) /\ ~told.idle /\ told.targets = erased.targets
  <2>1. CASE IsOpen(s)
    <3>1. IsOpen(erased)
      BY <1>3, <2>1 DEF IsOpen, Alike
    <3>2. told = SendUnwatchRequest(erased, q)
      BY <2>1
    <3> HIDE DEF told
    <3>3. /\ told \in WatchRec /\ Alike(erased, told) /\ ~told.idle
          /\ told.targets = erased.targets
      BY <1>3, <3>1, <3>2, UnwatchRequestSent
    <3> QED BY <1>3, <3>3, AlikeTwice
  <2>2. CASE ~IsOpen(s)
    BY <1>1, <1>3, <2>2
  <2> QED BY <2>1, <2>2
<1> HIDE DEF told
<1>5. Listening(told) = Listening(s) \ {q}
  BY <1>3, <1>4 DEF Listening
<1>6. /\ Sound(told) /\ (Timed(told) <=> Timed(s)) /\ told.enabled = s.enabled
      /\ (IsStarted(told) <=> IsStarted(s)) /\ told.timer = s.timer
  BY <1>1, <1>4, AlikeSound
<1>7. CASE Listening(told) # {}
  BY <1>1, <1>2, <1>5, <1>6, <1>7 DEF Rests, t
<1>8. CASE Listening(told) = {} /\ IsOpen(told)
  <2>1. t = [told EXCEPT !.idle = TRUE]
    BY <1>2, <1>8 DEF MarkIdle
  <2>2. t \in WatchRec /\ Alike(told, t) /\ t.idle /\ t.targets = told.targets
    BY <1>4, <2>1 DEF WatchRec, Alike
  <2>3. Listening(t) = {} /\ IsOpen(t)
    BY <1>8, <2>2 DEF Listening, IsOpen, Alike
  <2>4. /\ Sound(t) /\ t.enabled = told.enabled
        /\ (IsStarted(t) <=> IsStarted(told))
    BY <1>6, <2>2, <2>3, AlikeSound
  <2> QED BY <1>1, <1>5, <1>6, <1>8, <2>3, <2>4 DEF Rests, t
<1>9. CASE Listening(told) = {} /\ ~IsOpen(told)
  <2>1. t = UpdateState(told, "Unknown")
    BY <1>2, <1>9
  <2>2. /\ Sound(t) /\ ~t.timer /\ t.enabled = told.enabled /\ t.targets = told.targets
    BY <1>6, <2>1, UpdateSound
  <2>3. Listening(t) = {}
    BY <1>9, <2>2 DEF Listening
  <2> QED BY <1>1, <1>5, <1>6, <1>9, <2>2, <2>3 DEF Rests, t
<1> QED BY <1>7, <1>8, <1>9

\* The credentials, or an answer for an attempt that was closed, are used up.
LEMMA TokenTaken ==
  ASSUME NEW s, Rests(s), NEW c \in s.tokens
  PROVE  LET t == [s EXCEPT !.tokens = @ \ {c}]
         IN  /\ Rests(t) /\ (Timed(t) <=> Timed(s)) /\ t.targets = s.targets
             /\ t.closes = s.closes /\ c \notin t.tokens
             /\ t.stream = s.stream /\ t.online = s.online
<1> DEFINE tokens == s.tokens \ {c}
           t == [s EXCEPT !.tokens = tokens]
<1>1. /\ s \in WatchRec /\ Sound(s) /\ s.enabled /\ (s.timer => IsStarted(s))
      /\ (~IsStarted(s) => Listening(s) = {})
  BY DEF Rests, Sound
<1>2. s.tokens \subseteq Nat /\ tokens \in SUBSET Nat /\ tokens \subseteq s.tokens /\ c \notin tokens
  BY <1>1 DEF WatchRec
<1> HIDE DEF tokens
<1>3. t \in WatchRec
  BY <1>1, <1>2 DEF WatchRec
<1>4. /\ t.stream = s.stream /\ t.closes = s.closes /\ t.tokens = tokens
      /\ t.backoff = s.backoff /\ t.idle = s.idle
      /\ t.enabled = s.enabled /\ t.online = s.online /\ t.failures = s.failures
      /\ t.timer = s.timer /\ t.targets = s.targets /\ t.broken = s.broken
  BY <1>1 DEF WatchRec
<1>5. t = [s EXCEPT !.tokens = @ \ {c}]
  BY DEF tokens
<1> HIDE DEF t
<1>6. /\ (IsStarted(t) <=> IsStarted(s)) /\ (IsOpen(t) <=> IsOpen(s))
      /\ (Timed(t) <=> Timed(s)) /\ Listening(t) = Listening(s)
  BY <1>4 DEF IsStarted, IsOpen, Timed, Listening
<1>7. /\ s.broken = {} /\ s.tokens \subseteq 0..s.closes
      /\ (s.closes \in s.tokens => s.stream = "Starting")
      /\ (s.backoff <=> s.stream = "Backoff")
      /\ (s.idle => IsOpen(s) /\ Listening(s) = {})
      /\ (s.timer => s.online = "Unknown")
      /\ (s.online # "Offline" => s.failures = 0)
  BY <1>1 DEF Sound
<1>8. Sound(t)
  BY <1>2, <1>3, <1>4, <1>6, <1>7 DEF Sound
<1> QED BY <1>1, <1>2, <1>4, <1>5, <1>6, <1>8 DEF Rests

\* With its credentials the stream opens, and asks for every target.
LEMMA OpenRests ==
  ASSUME NEW s, Rests(s), s.stream = "Starting", s.closes \notin s.tokens
  PROVE  LET t == OnWatchStreamOpen(OnStreamStart(s))
         IN  Rests(t) /\ (Timed(t) <=> Timed(s)) /\ t.targets = s.targets
<1> DEFINE o == OnStreamStart(s)
           t == OnWatchStreamOpen(o)
<1>1. /\ s \in WatchRec /\ Sound(s) /\ s.enabled /\ (s.timer => IsStarted(s))
      /\ IsStarted(s) /\ ~s.idle /\ ~s.backoff
  BY DEF Rests, Sound, IsStarted, IsOpen
<1>2. o = [s EXCEPT !.stream = "Open"]
  BY DEF OnStreamStart, Check
<1> HIDE DEF o
<1>3. o \in WatchRec
  BY <1>1, <1>2 DEF WatchRec
<1>4. /\ o.stream = "Open" /\ o.closes = s.closes /\ o.tokens = s.tokens
      /\ o.backoff = s.backoff /\ o.idle = s.idle
      /\ o.enabled = s.enabled /\ o.online = s.online /\ o.failures = s.failures
      /\ o.timer = s.timer /\ o.targets = s.targets /\ o.broken = s.broken
  BY <1>1, <1>2 DEF WatchRec
<1>5. IsStarted(o) /\ IsOpen(o) /\ (Timed(o) <=> Timed(s)) /\ Listening(o) = Listening(s)
  BY <1>1, <1>4 DEF IsStarted, IsOpen, Timed, Listening
<1>6. Sound(o)
  <2>1. /\ s.broken = {} /\ s.tokens \subseteq 0..s.closes
        /\ (s.timer => s.online = "Unknown")
        /\ (s.online # "Offline" => s.failures = 0)
    BY <1>1 DEF Sound
  <2> QED BY <1>1, <1>3, <1>4, <1>5, <2>1 DEF Sound
<1>7. t = SendWatchRequests(o, Listening(o))
  BY DEF OnWatchStreamOpen
<1> HIDE DEF t
<1>8. t \in WatchRec /\ Alike(o, t) /\ ~t.idle /\ t.targets = o.targets
  BY <1>3, <1>5, <1>7, WatchRequestsSent
<1>9. /\ Sound(t) /\ (Timed(t) <=> Timed(o)) /\ t.enabled = o.enabled
      /\ (IsStarted(t) <=> IsStarted(o))
  BY <1>6, <1>8, AlikeSound
<1> QED BY <1>1, <1>4, <1>5, <1>8, <1>9 DEF Rests, t, o

LEMMA BreakRests ==
  ASSUME NEW s, Rests(s), IsStarted(s)
  PROVE  LET t == Close(s, FALSE)
         IN  Rests(t) /\ Timed(t) /\ t.targets = s.targets
<1> DEFINE t == Close(s, FALSE)
<1>1. Sound(s) /\ s.enabled
  BY DEF Rests
<1>2. /\ Sound(t) /\ Timed(t) /\ (t.timer => IsStarted(t))
      /\ (IsStarted(t) <=> (s.enabled /\ Listening(s) # {}))
      /\ t.enabled = s.enabled /\ t.targets = s.targets
  BY <1>1, CloseSound
<1> HIDE DEF t
<1>3. Listening(t) = Listening(s)
  BY <1>2 DEF Listening
<1> QED BY <1>1, <1>2, <1>3 DEF Rests, t

LEMMA IdleRests ==
  ASSUME NEW s, Rests(s), s.idle
  PROVE  LET t == Stop(s)
         IN  Rests(t) /\ Timed(t) /\ t.targets = s.targets
<1> DEFINE t == Stop(s)
<1>1. Sound(s) /\ s.enabled /\ Listening(s) = {} /\ IsStarted(s)
  BY DEF Rests, Sound, IsOpen, IsStarted
<1>2. t = Close(s, TRUE)
  BY <1>1 DEF Stop
<1> HIDE DEF t
<1>3. /\ Sound(t) /\ Timed(t) /\ (t.timer => IsStarted(t))
      /\ t.enabled = s.enabled /\ t.targets = s.targets
  BY <1>1, <1>2, CloseSound
<1>4. Listening(t) = {}
  BY <1>1, <1>3 DEF Listening
<1> QED BY <1>1, <1>3, <1>4 DEF Rests, t

\* When the backoff is over credentials are asked for anew.
LEMMA ResumeRests ==
  ASSUME NEW s, Rests(s), s.backoff
  PROVE  LET t == Resume(s)
         IN  Rests(t) /\ (Timed(t) <=> Timed(s)) /\ t.targets = s.targets
<1> DEFINE a == [s EXCEPT !.backoff = FALSE, !.stream = "Initial"]
           b == [a EXCEPT !.stream = "Starting"]
           t == Resume(s)
<1>1. /\ s \in WatchRec /\ s.broken = {} /\ s.tokens \subseteq 0..s.closes
      /\ s.stream = "Backoff" /\ IsStarted(s) /\ ~s.idle
      /\ (s.timer => s.online = "Unknown") /\ s.enabled
      /\ (s.online # "Offline" => s.failures = 0)
      /\ s.closes \in Nat /\ s.tokens \subseteq Nat
  BY DEF Rests, Sound, WatchRec, IsStarted, IsOpen
<1>2. a.stream = "Initial" /\ a \in WatchRec
  BY <1>1 DEF WatchRec
<1>3. t = [b EXCEPT !.tokens = b.tokens \cup {b.closes}]
  BY <1>1, <1>2 DEF Resume, Start, RequestCredentials, Check
<1>4. b = [s EXCEPT !.backoff = FALSE, !.stream = "Starting"]
  BY <1>1 DEF WatchRec
<1> HIDE DEF a, b, t
<1>5. /\ b \in WatchRec /\ b.stream = "Starting" /\ ~b.backoff /\ b.closes = s.closes
      /\ b.tokens = s.tokens /\ b.idle = s.idle /\ b.enabled = s.enabled
      /\ b.online = s.online /\ b.failures = s.failures /\ b.timer = s.timer
      /\ b.targets = s.targets /\ b.broken = s.broken
  BY <1>1, <1>4 DEF WatchRec
<1>6. t = [b EXCEPT !.tokens = s.tokens \cup {s.closes}]
      /\ s.tokens \cup {s.closes} \in SUBSET Nat
  BY <1>1, <1>3, <1>5
<1>7. /\ t \in WatchRec /\ t.stream = "Starting" /\ ~t.backoff /\ t.closes = s.closes
      /\ t.tokens = s.tokens \cup {s.closes} /\ t.idle = s.idle /\ t.enabled = s.enabled
      /\ t.online = s.online /\ t.failures = s.failures /\ t.timer = s.timer
      /\ t.targets = s.targets /\ t.broken = s.broken
  BY <1>5, <1>6 DEF WatchRec
<1>8. IsStarted(t) /\ (Timed(t) <=> Timed(s))
  BY <1>1, <1>7 DEF IsStarted, Timed
<1>9. Sound(t)
  BY <1>1, <1>7 DEF Sound
<1> QED BY <1>1, <1>7, <1>8, <1>9 DEF Rests, t

LEMMA TimeoutRests ==
  ASSUME NEW s, Rests(s), s.timer
  PROVE  LET t == [Check(s, s.online = "Unknown", "timeout while known")
                     EXCEPT !.timer = FALSE, !.online = "Offline"]
         IN  Rests(t) /\ Timed(t) /\ t.targets = s.targets
<1> DEFINE u == [s EXCEPT !.timer = FALSE, !.online = "Offline"]
<1>1. /\ s \in WatchRec /\ s.broken = {} /\ s.tokens \subseteq 0..s.closes
      /\ (s.closes \in s.tokens => s.stream = "Starting")
      /\ (s.backoff <=> s.stream = "Backoff")
      /\ (s.idle => IsOpen(s) /\ Listening(s) = {})
      /\ s.online = "Unknown" /\ s.enabled /\ (~IsStarted(s) => Listening(s) = {})
  BY DEF Rests, Sound
<1>2. u = [Check(s, s.online = "Unknown", "timeout while known")
             EXCEPT !.timer = FALSE, !.online = "Offline"]
  BY <1>1 DEF Check
<1>3. u \in WatchRec
  BY <1>1 DEF WatchRec
<1>4. /\ u.stream = s.stream /\ u.closes = s.closes /\ u.tokens = s.tokens
      /\ u.backoff = s.backoff /\ u.idle = s.idle /\ u.enabled = s.enabled
      /\ u.online = "Offline" /\ ~u.timer
      /\ u.targets = s.targets /\ u.broken = s.broken
  BY <1>1 DEF WatchRec
<1> HIDE DEF u
<1>5. /\ (IsStarted(u) <=> IsStarted(s)) /\ (IsOpen(u) <=> IsOpen(s)) /\ Timed(u)
      /\ Listening(u) = Listening(s)
  BY <1>4 DEF IsStarted, IsOpen, Timed, Listening
<1>6. Sound(u)
  BY <1>1, <1>3, <1>4, <1>5 DEF Sound
<1> QED BY <1>1, <1>2, <1>4, <1>5, <1>6 DEF Rests

\* A message of the open wires, coming or gone, is no matter of the stream's.
LEMMA WireRests ==
  ASSUME NEW s, Rests(s), NEW t \in WatchRec, Alike(s, t), t.idle = s.idle,
         t.targets = s.targets
  PROVE  Rests(t) /\ (Timed(t) <=> Timed(s))
<1>1. Sound(s) /\ s.enabled /\ (s.timer => IsStarted(s))
      /\ (~IsStarted(s) => Listening(s) = {})
  BY DEF Rests
<1>2. (IsOpen(t) <=> IsOpen(s)) /\ Listening(t) = Listening(s)
  BY DEF Alike, IsOpen, Listening
<1>3. t.idle => IsOpen(t) /\ Listening(t) = {}
  BY <1>1, <1>2 DEF Sound
<1>4. /\ Sound(t) /\ (Timed(t) <=> Timed(s)) /\ t.enabled = s.enabled
      /\ (IsStarted(t) <=> IsStarted(s)) /\ t.timer = s.timer
  BY <1>1, <1>3, AlikeSound
<1> QED BY <1>1, <1>2, <1>4 DEF Rests

LEMMA AggregatorRests ==
  ASSUME NEW s, Rests(s), NEW a \in Aggregators
  PROVE  LET t == [s EXCEPT !.aggregator = a]
         IN  Rests(t) /\ (Timed(t) <=> Timed(s)) /\ t.targets = s.targets
<1> DEFINE t == [s EXCEPT !.aggregator = a]
<1>1. s \in WatchRec
  BY DEF Rests, Sound
<1>2. t \in WatchRec /\ Alike(s, t) /\ t.idle = s.idle /\ t.targets = s.targets
  BY <1>1 DEF WatchRec, Alike
<1> HIDE DEF t
<1>3. Rests(t) /\ (Timed(t) <=> Timed(s))
  BY <1>2, WireRests
<1> QED BY <1>2, <1>3 DEF t

\* A target of another state, in the books of the aggregator.
LEMMA StateTyped ==
  ASSUME NEW a \in Aggregators, NEW q \in Queries, NEW state \in TargetState
  PROVE  [a EXCEPT !.states = [a.states EXCEPT ![q] = state]] \in Aggregators
<1>1. [a.states EXCEPT ![q] = state] \in [Queries -> TargetState]
  BY DEF Aggregators
<1> QED BY <1>1 DEF Aggregators

LEMMA ErasedRests ==
  ASSUME NEW s, Rests(s), NEW q
  PROVE  LET t == Erase(s, q)
         IN  /\ Rests(t) /\ (Timed(t) <=> Timed(s))
             /\ Listening(t) = Listening(s) \ {q} /\ t.aggregator = s.aggregator
<1> DEFINE t == Erase(s, q)
<1>1. /\ s \in WatchRec /\ Sound(s) /\ s.enabled /\ (s.timer => IsStarted(s))
      /\ (~IsStarted(s) => Listening(s) = {})
  BY DEF Rests, Sound
<1>2. /\ t \in WatchRec /\ Alike(s, t) /\ t.idle = s.idle
      /\ Listening(t) = Listening(s) \ {q} /\ t.aggregator = s.aggregator
  BY <1>1, ErasedAlike
<1> HIDE DEF t
<1>3. t.idle => IsOpen(t) /\ Listening(t) = {}
  BY <1>1, <1>2 DEF Sound, Alike, IsOpen
<1>4. /\ Sound(t) /\ (Timed(t) <=> Timed(s)) /\ t.enabled = s.enabled
      /\ (IsStarted(t) <=> IsStarted(s)) /\ t.timer = s.timer
  BY <1>1, <1>2, <1>3, AlikeSound
<1> QED BY <1>1, <1>2, <1>4 DEF Rests, t

LEMMA OnlineRests ==
  ASSUME NEW s, Rests(s)
  PROVE  LET t == UpdateState(s, "Online")
         IN  /\ Rests(t) /\ Timed(t) /\ t.targets = s.targets
             /\ t.aggregator = s.aggregator
<1> DEFINE t == UpdateState(s, "Online")
<1>1. Sound(s) /\ s \in WatchRec /\ s.enabled /\ (~IsStarted(s) => Listening(s) = {})
  BY DEF Rests, Sound
<1>2. /\ Sound(t) /\ ~t.timer /\ t.online = "Online"
      /\ t.stream = s.stream /\ t.enabled = s.enabled /\ t.targets = s.targets
  BY <1>1, UpdateSound
<1>3. t.aggregator = s.aggregator
  BY <1>1, UpdateStateIs
<1> HIDE DEF t
<1>4. (IsStarted(t) <=> IsStarted(s)) /\ Listening(t) = Listening(s) /\ Timed(t)
  BY <1>2 DEF IsStarted, Listening, Timed
<1> QED BY <1>1, <1>2, <1>3, <1>4 DEF Rests, t

LEMMA SnapshotTargets ==
  ASSUME NEW s \in WatchRec, NEW at \in [Queries -> Versions]
  PROVE  LET f == [q \in Listening(s) |-> IF q \in DOMAIN TargetChanges(s) THEN at[q]
                                          ELSE s.targets[q]]
         IN  f \in Targets /\ DOMAIN f = Listening(s)
<1> DEFINE f == [q \in Listening(s) |-> IF q \in DOMAIN TargetChanges(s) THEN at[q]
                                        ELSE s.targets[q]]
<1>1. Listening(s) \subseteq Queries /\ s.targets \in [Listening(s) -> Versions]
  BY TargetsAre DEF WatchRec, Listening
<1>2. f \in [Listening(s) -> Versions] /\ DOMAIN f = Listening(s)
  BY <1>1
<1> HIDE DEF f
<1>3. f \in Targets
  BY <1>1, <1>2 DEF Targets
<1> QED BY <1>2, <1>3 DEF f

\* What the backend says brings the client online; a listen that is refused is
\* a target less.
LEMMA HeardRests ==
  ASSUME NEW s, Rests(s), NEW m \in Response
  PROVE  LET t == OnWatchStreamChange(s, m)
         IN  /\ Rests(t) /\ Timed(t)
             /\ Listening(t) = IF m.type = "Rejected" THEN Listening(s) \ {m.query}
                               ELSE Listening(s)
<1> DEFINE o == UpdateState(s, "Online")
           q == m.query
           was == o.aggregator.states[q]
           answered == was.pending - 1
           t == OnWatchStreamChange(s, m)
           Goal == /\ Rests(t) /\ Timed(t)
                   /\ Listening(t) = IF m.type = "Rejected" THEN Listening(s) \ {m.query}
                                     ELSE Listening(s)
<1> SUFFICES Goal
  OBVIOUS
<1>1. /\ m.query \in Queries /\ m.at \in [Queries -> Versions]
      /\ m.type \in {"Added", "Removed", "Rejected", "Document", "Current", "Snapshot"}
  BY DEF Response
<1>2. /\ Rests(o) /\ Timed(o) /\ o.targets = s.targets /\ o.aggregator = s.aggregator
  BY OnlineRests
<1>3. t = CASE m.type = "Added" ->
                 [o EXCEPT !.aggregator.states[q].pending = answered]
            [] m.type = "Removed" ->
                 IF answered = 0
                 THEN [o EXCEPT !.aggregator.states[q] = NoTargetState]
                 ELSE [o EXCEPT !.aggregator.states[q].pending = answered]
            [] m.type = "Rejected" ->
                 IF q \in Listening(s)
                 THEN [Erase(o, q) EXCEPT !.aggregator.states[q] = NoTargetState]
                 ELSE o
            [] m.type = "Document" ->
                 IF IsActiveTarget(s, q)
                 THEN [o EXCEPT !.aggregator.updates[q] = m.at[q]] ELSE o
            [] m.type = "Current" ->
                 IF IsActiveTarget(s, q)
                 THEN [o EXCEPT !.aggregator.states[q].current = TRUE] ELSE o
            [] m.type = "Snapshot" -> RaiseWatchSnapshot(o, m.at)
  BY DEF OnWatchStreamChange
<1> HIDE DEF o, t
<1>4. /\ o \in WatchRec /\ o.aggregator \in Aggregators /\ was \in TargetState
      /\ Listening(o) = Listening(s)
  BY <1>1, <1>2 DEF Rests, Sound, WatchRec, Aggregators, Listening
<1>5. /\ [was EXCEPT !.pending = answered] \in TargetState
      /\ [was EXCEPT !.current = TRUE] \in TargetState /\ NoTargetState \in TargetState
  <2>1. \A x \in TargetState : [x EXCEPT !.pending = x.pending - 1] \in TargetState
    BY DEF TargetState
  <2>2. \A x \in TargetState : [x EXCEPT !.current = TRUE] \in TargetState
    BY DEF TargetState
  <2>3. NoTargetState \in TargetState
    BY DEF TargetState, NoTargetState
  <2> QED BY <1>4, <2>1, <2>2, <2>3
<1>6. ASSUME NEW state \in TargetState, m.type # "Rejected",
             t = [o EXCEPT !.aggregator =
                    [o.aggregator EXCEPT !.states = [o.aggregator.states EXCEPT ![q] = state]]]
      PROVE  Goal
  <2>1. PICK a \in Aggregators :
          a = [o.aggregator EXCEPT !.states = [o.aggregator.states EXCEPT ![q] = state]]
    BY <1>1, <1>4, StateTyped
  <2>2. t = [o EXCEPT !.aggregator = a]
    BY <1>6, <2>1
  <2>3. Rests(t) /\ (Timed(t) <=> Timed(o)) /\ t.targets = o.targets
    BY <1>2, <2>2, AggregatorRests
  <2> QED BY <1>2, <1>4, <1>6, <2>3 DEF Listening
<1>7. ASSUME t = o, m.type = "Rejected" => q \notin Listening(s)
      PROVE  Goal
  BY <1>2, <1>4, <1>7
<1>8. CASE m.type \in {"Added", "Removed"}
  <2>1. \/ t = [o EXCEPT !.aggregator.states[q].pending = answered]
        \/ t = [o EXCEPT !.aggregator.states[q] = NoTargetState]
    BY <1>3, <1>8
  <2>2. CASE t = [o EXCEPT !.aggregator.states[q].pending = answered]
    <3> DEFINE state == [was EXCEPT !.pending = answered]
    <3>1. t = [o EXCEPT !.aggregator =
                 [o.aggregator EXCEPT !.states = [o.aggregator.states EXCEPT ![q] = state]]]
      BY <2>2
    <3>2. state \in TargetState
      BY <1>5
    <3> HIDE DEF state
    <3> QED BY <1>6, <1>8, <3>1, <3>2
  <2>3. CASE t = [o EXCEPT !.aggregator.states[q] = NoTargetState]
    <3>1. t = [o EXCEPT !.aggregator =
                 [o.aggregator EXCEPT
                    !.states = [o.aggregator.states EXCEPT ![q] = NoTargetState]]]
      BY <2>3
    <3> QED BY <1>5, <1>6, <1>8, <3>1
  <2> QED BY <2>1, <2>2, <2>3
<1>9. CASE m.type = "Rejected"
  <2>1. CASE q \in Listening(s)
    <3> DEFINE e == Erase(o, q)
    <3>1. t = [e EXCEPT !.aggregator =
                 [e.aggregator EXCEPT
                    !.states = [e.aggregator.states EXCEPT ![q] = NoTargetState]]]
      BY <1>3, <1>9, <2>1
    <3>2. /\ Rests(e) /\ (Timed(e) <=> Timed(o))
          /\ Listening(e) = Listening(o) \ {q} /\ e.aggregator = o.aggregator
      BY <1>2, ErasedRests
    <3> HIDE DEF e
    <3>3. PICK a \in Aggregators :
            a = [e.aggregator EXCEPT
                   !.states = [e.aggregator.states EXCEPT ![q] = NoTargetState]]
      BY <1>1, <1>4, <1>5, <3>2, StateTyped
    <3>4. t = [e EXCEPT !.aggregator = a]
      BY <3>1, <3>3
    <3>5. Rests(t) /\ (Timed(t) <=> Timed(e)) /\ t.targets = e.targets
      BY <3>2, <3>4, AggregatorRests
    <3> QED BY <1>2, <1>4, <1>9, <3>2, <3>5 DEF Listening
  <2>2. CASE q \notin Listening(s)
    <3>1. t = o
      BY <1>3, <1>9, <2>2
    <3> QED BY <1>7, <2>2, <3>1
  <2> QED BY <2>1, <2>2
<1>10. CASE m.type = "Document"
  <2>1. CASE IsActiveTarget(s, q)
    <3> DEFINE updates == [o.aggregator.updates EXCEPT ![q] = m.at[q]]
    <3>1. t = [o EXCEPT !.aggregator = [o.aggregator EXCEPT !.updates = updates]]
      BY <1>3, <1>10, <2>1
    <3>2. updates \in [Queries -> Versions]
      BY <1>1, <1>4 DEF Aggregators
    <3> HIDE DEF updates
    <3>3. PICK a \in Aggregators : a = [o.aggregator EXCEPT !.updates = updates]
      BY <1>4, <3>2 DEF Aggregators
    <3>4. t = [o EXCEPT !.aggregator = a]
      BY <3>1, <3>3
    <3>5. Rests(t) /\ (Timed(t) <=> Timed(o)) /\ t.targets = o.targets
      BY <1>2, <3>4, AggregatorRests
    <3> QED BY <1>2, <1>4, <1>10, <3>5 DEF Listening
  <2>2. CASE ~IsActiveTarget(s, q)
    BY <1>3, <1>7, <1>10, <2>2
  <2> QED BY <2>1, <2>2
<1>11. CASE m.type = "Current"
  <2>1. CASE IsActiveTarget(s, q)
    <3> DEFINE state == [was EXCEPT !.current = TRUE]
    <3>1. t = [o EXCEPT !.aggregator =
                 [o.aggregator EXCEPT !.states = [o.aggregator.states EXCEPT ![q] = state]]]
      BY <1>3, <1>11, <2>1
    <3>2. state \in TargetState
      BY <1>5
    <3> HIDE DEF state
    <3> QED BY <1>6, <1>11, <3>1, <3>2
  <2>2. CASE ~IsActiveTarget(s, q)
    BY <1>3, <1>7, <1>11, <2>2
  <2> QED BY <2>1, <2>2
<1>12. CASE m.type = "Snapshot"
  <2> DEFINE f == [p \in Listening(o) |-> IF p \in DOMAIN TargetChanges(o) THEN m.at[p]
                                          ELSE o.targets[p]]
             g == [o EXCEPT !.targets = f]
             updates == [p \in Queries |-> NotKnown]
  <2>1. t = [g EXCEPT !.aggregator = [g.aggregator EXCEPT !.updates = updates]]
    BY <1>3, <1>12 DEF RaiseWatchSnapshot
  <2>2. f \in Targets /\ DOMAIN f = Listening(o)
    BY <1>1, <1>4, SnapshotTargets
  <2>3. updates \in [Queries -> Versions]
    BY VersionsAreInts
  <2> HIDE DEF f, updates
  <2>4. /\ g \in WatchRec /\ Alike(o, g) /\ g.idle = o.idle /\ g.targets = f
        /\ g.aggregator = o.aggregator
    BY <1>4, <2>2 DEF WatchRec, Alike
  <2> HIDE DEF g
  <2>5. Rests(g) /\ (Timed(g) <=> Timed(o)) /\ Listening(g) = Listening(s)
    <3>1. /\ Sound(o) /\ o.enabled /\ (o.timer => IsStarted(o))
          /\ (~IsStarted(o) => Listening(o) = {})
      BY <1>2 DEF Rests
    <3>2. Listening(g) = Listening(o) /\ (IsOpen(g) <=> IsOpen(o))
      BY <2>2, <2>4 DEF Listening, Alike, IsOpen
    <3>3. g.idle => IsOpen(g) /\ Listening(g) = {}
      BY <2>4, <3>1, <3>2 DEF Sound
    <3>4. /\ Sound(g) /\ (Timed(g) <=> Timed(o)) /\ g.enabled = o.enabled
          /\ (IsStarted(g) <=> IsStarted(o)) /\ g.timer = o.timer
      BY <2>4, <3>1, <3>3, AlikeSound
    <3> QED BY <1>4, <3>1, <3>2, <3>4 DEF Rests
  <2>6. PICK a \in Aggregators : a = [g.aggregator EXCEPT !.updates = updates]
    BY <1>4, <2>3, <2>4 DEF Aggregators
  <2>7. t = [g EXCEPT !.aggregator = a]
    BY <2>1, <2>6
  <2>8. Rests(t) /\ (Timed(t) <=> Timed(g)) /\ t.targets = g.targets
    BY <2>5, <2>7, AggregatorRests
  <2> QED BY <1>2, <1>12, <2>5, <2>8 DEF Listening
<1> HIDE DEF Goal
<1> QED BY <1>1, <1>8, <1>9, <1>10, <1>11, <1>12

-----------------------------------------------------------------------------
(* The books: tables, listeners and views *)

LEMMA ListenedSame ==
  ASSUME NEW as, NEW bs, \A r \in Reads : as[r].state = bs[r].state
  PROVE  Listened(as) = Listened(bs)
BY DEF Listened

\* A table may lose its listener, but it is not asked for again.
LEMMA TablesSame ==
  ASSUME TablesFirst, worker' = worker,
         \A r \in Tables : reads'[r].state = reads[r].state \/ reads'[r].state = "gone"
  PROVE  TablesFirst'
<1>1. \A i \in Nat, r \in Tables : Adds(i, r)' <=> Adds(i, r)
  BY DEF Adds
<1> QED BY <1>1 DEF TablesFirst

LEMMA TablesAppend ==
  ASSUME TablesFirst, worker \in Seq(Operations), NEW o \in Operations,
         worker' = Append(worker, o), o.read \notin Tables,
         \A r \in Tables : reads'[r].state = reads[r].state
  PROVE  TablesFirst'
<1>1. \A i \in Nat, r \in Tables :
        /\ Adds(i, r)' => Adds(i, r)
        /\ Adds(i, r) => Adds(i, r)' /\ i <= Len(worker)
  BY AppendAdds DEF Operation
<1>2. \A i \in 1..Len(worker) : worker'[i] = worker[i]
  BY AppendProperties
<1>3. ASSUME NEW i \in Nat, NEW j \in Nat, NEW r \in Tables, Adds(j, r)', i \in 1..j
      PROVE  worker'[i].op = "Add"
  <2>1. Adds(j, r) /\ j <= Len(worker) /\ Len(worker) \in Nat
    BY <1>1, <1>3, LenProperties
  <2>2. worker[i].op = "Add"
    BY <1>3, <2>1 DEF TablesFirst
  <2>3. i \in 1..Len(worker)
    BY <1>3, <2>1
  <2> QED BY <1>2, <2>2, <2>3
<1>4. ASSUME NEW r \in Tables PROVE reads'[r].state # "idle"
  BY DEF TablesFirst
<1>5. ASSUME NEW r \in Tables, reads'[r].state = "asked"
      PROVE  \E i \in Nat : Adds(i, r)'
  <2>1. PICK i \in Nat : Adds(i, r)
    BY <1>5 DEF TablesFirst
  <2> QED BY <1>1, <2>1
<1> QED BY <1>3, <1>4, <1>5 DEF TablesFirst

\* The worker has taken the first operation.
LEMMA WorkerShifts ==
  ASSUME worker \in Seq(Operations), worker # <<>>, worker' = Tail(worker)
  PROVE  /\ Head(worker) = worker[1] /\ Head(worker) \in Operations /\ 1 \in DOMAIN worker
         /\ worker' \in Seq(Operations)
         /\ \A r : \A i \in Nat : Adds(i, r)' => i >= 1
         /\ \A r : \A i, k \in Nat : k = i + 1 /\ i >= 1 =>
              /\ Adds(i, r)' <=> Adds(k, r)
              /\ k \in DOMAIN worker => worker'[i] = worker[k]
<1>1. /\ Head(worker) = worker[1] /\ Head(worker) \in Operations
      /\ worker' \in Seq(Operations) /\ Len(worker') = Len(worker) - 1
      /\ \A i \in 1..Len(worker') : worker'[i] = worker[i + 1]
      /\ Len(worker) \in Nat /\ 1 \in DOMAIN worker
      /\ DOMAIN worker' = 1..Len(worker') /\ DOMAIN worker = 1..Len(worker)
  BY HeadTailProperties, LenProperties
<1>2. ASSUME NEW r, NEW i \in Nat, NEW k \in Nat, k = i + 1, i >= 1
      PROVE  /\ Adds(i, r)' <=> Adds(k, r)
             /\ k \in DOMAIN worker => worker'[i] = worker[k]
  <2>1. (i \in DOMAIN worker' <=> k \in DOMAIN worker)
    BY <1>1, <1>2
  <2>2. k \in DOMAIN worker => worker'[i] = worker[k]
    BY <1>1, <1>2, <2>1
  <2> QED BY <2>1, <2>2 DEF Adds
<1>3. ASSUME NEW r, NEW i \in Nat, Adds(i, r)' PROVE i >= 1
  BY <1>1, <1>3 DEF Adds
<1> QED BY <1>1, <1>2, <1>3

LEMMA TablesTaken ==
  ASSUME TablesFirst, worker \in Seq(Operations), worker # <<>>, worker' = Tail(worker),
         \A r \in Tables : \/ reads'[r].state = reads[r].state /\ ~Adds(1, r)
                           \/ reads'[r].state \in {"listening", "gone"}
  PROVE  TablesFirst'
<1>1. ASSUME NEW r \in Tables PROVE reads'[r].state # "idle"
  BY DEF TablesFirst
<1>2. ASSUME NEW r \in Tables, reads'[r].state = "asked"
      PROVE  \E i \in Nat : Adds(i, r)'
  <2>1. reads[r].state = "asked" /\ ~Adds(1, r)
    BY <1>2
  <2>2. PICK k \in Nat : Adds(k, r)
    BY <2>1 DEF TablesFirst
  <2>3. k \in DOMAIN worker /\ k # 1
    BY <2>1, <2>2 DEF Adds
  <2>4. k \in 1..Len(worker) /\ Len(worker) \in Nat
    BY <2>3, LenProperties
  <2>5. PICK i \in Nat : k = i + 1 /\ i >= 1
    <3>1. k - 1 \in Nat /\ k = (k - 1) + 1 /\ k - 1 >= 1
      BY <2>3, <2>4
    <3> QED BY <3>1
  <2> QED BY <2>2, <2>5, WorkerShifts
<1>3. ASSUME NEW i \in Nat, NEW j \in Nat, NEW r \in Tables, Adds(j, r)', i \in 1..j
      PROVE  worker'[i].op = "Add"
  <2>1. PICK l \in Nat, k \in Nat : l = j + 1 /\ k = i + 1
    OBVIOUS
  <2>2. j >= 1 /\ i >= 1
    BY <1>3
  <2>3. Adds(l, r)
    BY <1>3, <2>1, <2>2, WorkerShifts
  <2>4. k \in 1..l
    BY <1>3, <2>1
  <2>5. worker[k].op = "Add"
    BY <2>3, <2>4 DEF TablesFirst
  <2>6. k \in DOMAIN worker
    <3>1. l \in 1..Len(worker) /\ Len(worker) \in Nat /\ DOMAIN worker = 1..Len(worker)
      BY <2>3, LenProperties DEF Adds
    <3> QED BY <2>4, <3>1
  <2>7. worker'[i] = worker[k]
    BY <2>1, <2>2, <2>6, WorkerShifts
  <2> QED BY <2>5, <2>7
<1> QED BY <1>1, <1>2, <1>3 DEF TablesFirst

-----------------------------------------------------------------------------
(* The steps *)

LEMMA ViewsAre ==
  ASSUME NEW f \in Views
  PROVE  DOMAIN f \subseteq Queries /\ f \in [DOMAIN f -> BOOLEAN]
BY DEF Views

LEMMA NoErrors == ASSUME NEW rs PROVE <<>> \in Seq(Delivery) /\ Errors(<<>>, rs)
BY DEF Errors

\* A step that changes no listener but lets it raise.
LEMMA UnchangedAnswers ==
  ASSUME Typed, \A r \in Reads : ReadInv(r), UNCHANGED <<worker, answers>>,
         views' \in Views, stored' \in Results, Raise(reads, <<>>)
  PROVE  /\ \A r \in Reads : ReadInv(r)'
         /\ reads' \in [Reads -> Listener] /\ executor' \in Seq(Delivery)
         /\ \A r \in Reads : reads'[r].state = reads[r].state
<1>1. WorkerStep /\ reads \in [Reads -> Listener]
  <2>1. worker \in Seq(Operations) /\ reads \in [Reads -> Listener]
    BY DEF Typed
  <2>2. worker' = worker
    OBVIOUS
  <2> QED BY <2>1, <2>2 DEF WorkerStep
<1>2. \A r \in Reads : ReadInv(r) /\ Legal(r, reads)
  BY DEF Legal
<1> QED BY <1>1, <1>2, NoErrors, RaisedAnswers

LEMMA ClientStep ==
  ASSUME WatchInv, HandleOnlineStateChange,
         Rests(remote'), Listening(remote') = Listening(remote),
         Timed(remote) => Timed(remote'),
         server' \in [Queries -> 0..MaxVersion], refused' \subseteq Queries
  PROVE  WatchInv'
<1>1. /\ Typed /\ TablesFirst /\ TablesTimed /\ \A r \in Reads : ReadInv(r)
      /\ Listening(remote) = DOMAIN views /\ DOMAIN views = Listened(reads)
  BY DEF WatchInv, AnswersInv, ReadInv
<1>2. /\ UNCHANGED <<stored, worker, answers, opened>> /\ Raise(reads, <<>>)
      /\ \/ views' = [q \in DOMAIN views |-> FALSE]
         \/ views' = views
  BY DEF HandleOnlineStateChange
<1>3. views' \in Views /\ DOMAIN views' = DOMAIN views
  <2>1. views \in Views /\ DOMAIN views \subseteq Queries
    BY <1>1, ViewsAre DEF Typed
  <2>2. CASE views' = [q \in DOMAIN views |-> FALSE]
    <3>1. views' \in [DOMAIN views -> BOOLEAN] /\ DOMAIN views' = DOMAIN views
      BY <2>2
    <3> QED BY <2>1, <3>1 DEF Views
  <2> QED BY <1>2, <2>1, <2>2
<1>4. stored' \in Results
  BY <1>1, <1>2 DEF Typed
<1>5. /\ \A r \in Reads : ReadInv(r)'
      /\ reads' \in [Reads -> Listener] /\ executor' \in Seq(Delivery)
      /\ \A r \in Reads : reads'[r].state = reads[r].state
  BY <1>1, <1>2, <1>3, <1>4, UnchangedAnswers
<1>6. remote' \in WatchRec
  BY DEF Rests, Sound
<1>7. Typed'
  BY <1>1, <1>2, <1>3, <1>4, <1>5, <1>6 DEF Typed
<1>8. TablesFirst'
  BY <1>1, <1>2, <1>5, TablesSame, DocumentReadsAssumption
<1>9. Listened(reads') = Listened(reads)
  BY <1>5, ListenedSame
<1>10. TablesTimed'
  BY <1>1, <1>5, DocumentReadsAssumption DEF TablesTimed
<1> QED BY <1>1, <1>3, <1>5, <1>7, <1>8, <1>9, <1>10 DEF WatchInv, AnswersInv, ReadInv

LEMMA AskedKeeps ==
  ASSUME WatchInv, NEW c \in Reads, GetDocument(c)
  PROVE  WatchInv'
<1>1. /\ Typed /\ TablesFirst /\ TablesTimed /\ \A r \in Reads : ReadInv(r)
      /\ Rests(remote)
      /\ Listening(remote) = DOMAIN views /\ DOMAIN views = Listened(reads)
  BY DEF WatchInv, AnswersInv, ReadInv
<1>2. /\ reads' = [reads EXCEPT ![c].state = "asked"] /\ reads[c].state = "idle"
      /\ worker' = Append(worker, Operation("Add", c))
      /\ UNCHANGED <<remote, server, refused, views, stored, executor, answers, opened>>
  BY DEF GetDocument, remoteVars
<1>3. /\ \A r \in Reads : ReadInv(r)'
      /\ reads' \in [Reads -> Listener] /\ worker' \in Seq(Operations)
  BY <1>1, AskedAnswers
<1>4. Typed'
  BY <1>1, <1>2, <1>3 DEF Typed
<1>5. /\ reads'[c].state = "asked"
      /\ \A r \in Reads : r # c => reads'[r] = reads[r]
  BY <1>1, <1>2 DEF Typed, Listener
<1>6. c \notin Tables
  BY <1>1, <1>2 DEF TablesFirst
<1>7. TablesFirst'
  <2>1. Operation("Add", c) \in Operations /\ Operation("Add", c).read = c
    BY DEF Operation, Operations
  <2>2. worker \in Seq(Operations)
    BY <1>1 DEF Typed
  <2>3. \A r \in Tables : reads'[r].state = reads[r].state
    BY <1>5, <1>6, DocumentReadsAssumption
  <2> QED BY <1>1, <1>2, <1>6, <2>1, <2>2, <2>3, TablesAppend
<1>8. Listened(reads') = Listened(reads)
  BY <1>2, <1>5 DEF Listened
<1>9. TablesTimed'
  BY <1>1, <1>2, <1>5, <1>6, DocumentReadsAssumption DEF TablesTimed
<1> QED BY <1>1, <1>2, <1>3, <1>4, <1>7, <1>8, <1>9 DEF WatchInv, AnswersInv, ReadInv

LEMMA DeliveredKeeps ==
  ASSUME WatchInv, RunExecutor
  PROVE  WatchInv'
<1>1. /\ Typed /\ TablesFirst /\ TablesTimed /\ \A r \in Reads : ReadInv(r)
      /\ Rests(remote)
      /\ Listening(remote) = DOMAIN views /\ DOMAIN views = Listened(reads)
  BY DEF WatchInv, AnswersInv, ReadInv
<1>2. /\ executor # <<>> /\ UNCHANGED <<remote, server, refused, views, stored, opened>>
  BY DEF RunExecutor, remoteVars
<1>3. /\ \A r \in Reads : ReadInv(r)'
      /\ reads' \in [Reads -> Listener] /\ answers' \in [Reads -> Seq(Event)]
      /\ worker' \in Seq(Operations) /\ executor' \in Seq(Delivery)
  BY <1>1, DeliveredAnswers
<1>4. Typed'
  BY <1>1, <1>2, <1>3 DEF Typed
<1>5. PICK c \in Reads : c = Head(executor).read
  <2>1. Head(executor) \in Delivery
    BY <1>1, <1>2, ExecutorShifts, HeadTailProperties DEF Typed
  <2> QED BY <2>1 DEF Delivery
<1>6. \/ reads' = reads /\ worker' = worker
      \/ /\ reads' = [reads EXCEPT ![c].muted = TRUE] /\ c \notin Tables
         /\ worker' = Append(worker, Operation("Remove", c))
  BY <1>5 DEF RunExecutor, OnEvent, MuteAndRemove
<1>7. \A r \in Reads : reads'[r].state = reads[r].state
  <2>1. reads \in [Reads -> Listener]
    BY <1>1 DEF Typed
  <2>2. CASE reads' = [reads EXCEPT ![c].muted = TRUE]
    BY <2>1, <2>2 DEF Listener
  <2> QED BY <1>6, <2>2
<1>8. TablesFirst'
  <2>1. CASE worker' = worker
    BY <1>1, <1>7, <2>1, TablesSame, DocumentReadsAssumption
  <2>2. CASE c \notin Tables /\ worker' = Append(worker, Operation("Remove", c))
    <3>1. Operation("Remove", c) \in Operations /\ Operation("Remove", c).read = c
      BY DEF Operation, Operations
    <3>2. worker \in Seq(Operations)
      BY <1>1 DEF Typed
    <3> QED BY <1>1, <1>7, <2>2, <3>1, <3>2, TablesAppend, DocumentReadsAssumption
  <2> QED BY <1>6, <2>1, <2>2
<1>9. Listened(reads') = Listened(reads)
  BY <1>7, ListenedSame
<1>10. TablesTimed'
  BY <1>1, <1>2, <1>7, DocumentReadsAssumption DEF TablesTimed
<1> QED BY <1>1, <1>2, <1>3, <1>4, <1>8, <1>9, <1>10 DEF WatchInv, AnswersInv, ReadInv

\* The timers, the credentials and the network on the side of the client.
ClientSteps ==
  \/ CredentialsArrive \/ CredentialsLost \/ StreamBreaks \/ BackoffElapses
  \/ IdleElapses \/ OnlineTimeout \/ ConnectivityChanges

LEMMA ClientRests ==
  ASSUME Rests(remote), ClientSteps
  PROVE  /\ Rests(remote') /\ remote'.targets = remote.targets
         /\ Timed(remote) => Timed(remote')
         /\ server' = server /\ refused' = refused
<1>1. CASE CredentialsArrive
  <2>1. PICK c \in remote.tokens : CredentialsAnswer(c)
    BY <1>1 DEF CredentialsArrive
  <2> DEFINE s == [remote EXCEPT !.tokens = @ \ {c}]
  <2>2. remote' = IF c # remote.closes THEN s ELSE OnWatchStreamOpen(OnStreamStart(s))
    BY <2>1 DEF CredentialsAnswer
  <2>3. /\ Rests(s) /\ (Timed(s) <=> Timed(remote)) /\ s.targets = remote.targets
        /\ s.closes = remote.closes /\ c \notin s.tokens /\ s.stream = remote.stream
    BY TokenTaken
  <2> HIDE DEF s
  <2>4. UNCHANGED <<server, faults, refused>>
    BY <2>1 DEF CredentialsAnswer
  <2>5. CASE c # remote.closes
    BY <2>2, <2>3, <2>4, <2>5
  <2>6. CASE c = remote.closes
    <3>1. remote' = OnWatchStreamOpen(OnStreamStart(s))
      BY <2>2, <2>6
    <3>2. s.stream = "Starting" /\ s.closes \notin s.tokens
      BY <2>3, <2>6 DEF Rests, Sound
    <3> QED BY <2>3, <2>4, <3>1, <3>2, OpenRests
  <2> QED BY <2>5, <2>6
<1>2. CASE CredentialsLost
  <2>1. PICK c \in remote.tokens : CredentialsFail(c)
    BY <1>2 DEF CredentialsLost
  <2> DEFINE s == [remote EXCEPT !.tokens = @ \ {c}]
  <2>2. remote' = IF c # remote.closes THEN s ELSE Close(s, FALSE)
    BY <2>1 DEF CredentialsFail
  <2>3. /\ Rests(s) /\ (Timed(s) <=> Timed(remote)) /\ s.targets = remote.targets
        /\ s.stream = remote.stream
    BY TokenTaken
  <2> HIDE DEF s
  <2>4. UNCHANGED <<server, refused>>
    BY <2>1 DEF CredentialsFail
  <2>5. CASE c # remote.closes
    BY <2>2, <2>3, <2>4, <2>5
  <2>6. CASE c = remote.closes
    <3>1. remote' = Close(s, FALSE)
      BY <2>2, <2>6
    <3>2. IsStarted(s)
      BY <2>3, <2>6 DEF Rests, Sound, IsStarted
    <3> QED BY <2>3, <2>4, <3>1, <3>2, BreakRests
  <2> QED BY <2>5, <2>6
<1>3. CASE StreamBreaks
  <2>1. remote' = Close(remote, FALSE) /\ UNCHANGED <<server, refused>>
    BY <1>3 DEF StreamBreaks
  <2>2. IsStarted(remote)
    BY <1>3 DEF StreamBreaks, IsOpen, IsStarted
  <2> QED BY <2>1, <2>2, BreakRests
<1>4. CASE BackoffElapses
  <2>1. remote' = Resume(remote) /\ UNCHANGED <<server, faults, refused>> /\ remote.backoff
    BY <1>4 DEF BackoffElapses
  <2> QED BY <2>1, ResumeRests
<1>5. CASE IdleElapses
  <2>1. remote' = Stop(remote) /\ UNCHANGED <<server, faults, refused>> /\ remote.idle
    BY <1>5 DEF IdleElapses
  <2> QED BY <2>1, IdleRests
<1>6. CASE OnlineTimeout
  <2>1. /\ remote' = [Check(remote, remote.online = "Unknown", "timeout while known")
                        EXCEPT !.timer = FALSE, !.online = "Offline"]
        /\ UNCHANGED <<server, faults, refused>> /\ remote.timer
    BY <1>6 DEF OnlineTimeout
  <2> QED BY <2>1, TimeoutRests
<1>7. CASE ConnectivityChanges
  <2>1. remote' = RestartNetwork(remote) /\ UNCHANGED <<server, refused>>
    BY <1>7 DEF ConnectivityChanges
  <2> QED BY <2>1, RestartRests
<1> QED BY <1>1, <1>2, <1>3, <1>4, <1>5, <1>6, <1>7 DEF ClientSteps

\* The backend takes a request off one wire and writes to the other.
Wired(s, up, down, served) == [s EXCEPT !.up = up, !.down = down, !.served = served]

LEMMA BackendRests ==
  ASSUME NEW s, Rests(s), NEW up \in Seq(Request), NEW down \in Seq(Response),
         NEW served \in SUBSET Queries
  PROVE  LET t == Wired(s, up, down, served)
         IN  Rests(t) /\ (Timed(t) <=> Timed(s)) /\ t.targets = s.targets
<1> DEFINE t == Wired(s, up, down, served)
<1>1. s \in WatchRec
  BY DEF Rests, Sound
<1>2. t \in WatchRec /\ Alike(s, t) /\ t.idle = s.idle /\ t.targets = s.targets
  <2>1. t \in WatchRec
    BY <1>1 DEF WatchRec, Wired
  <2>2. Alike(s, t) /\ t.idle = s.idle /\ t.targets = s.targets
    BY <1>1 DEF WatchRec, Alike, Wired
  <2> QED BY <2>1, <2>2
<1> HIDE DEF t
<1>3. Rests(t) /\ (Timed(t) <=> Timed(s))
  BY <1>2, WireRests
<1> QED BY <1>2, <1>3 DEF t

LEMMA AnswersRest ==
  ASSUME Rests(remote), server \in [Queries -> 0..MaxVersion], BackendAnswers
  PROVE  /\ Rests(remote') /\ remote'.targets = remote.targets
         /\ Timed(remote) => Timed(remote')
         /\ server' = server /\ refused' = refused
<1> DEFINE m == Head(remote.up)
           q == m.query
           news == IF server[q] > m.known THEN <<Message("Document", q)>> ELSE <<>>
           answer == IF m.type = "Unwatch" THEN <<Message("Removed", q)>>
                     ELSE <<Message("Added", q)>> \o news
                          \o <<Message("Current", q), Message("Snapshot", q)>>
           served == IF m.type = "Unwatch" THEN remote.served \ {q}
                     ELSE remote.served \cup {q}
<1>1. /\ remote \in WatchRec /\ remote.up \in Seq(Request) /\ remote.down \in Seq(Response)
      /\ remote.served \subseteq Queries
  BY DEF Rests, Sound, WatchRec
<1>2. /\ remote.up # <<>> /\ UNCHANGED <<server, faults, refused>>
      /\ remote' = [remote EXCEPT !.up = Tail(remote.up), !.down = remote.down \o answer,
                                  !.served = served]
  BY DEF BackendAnswers
<1>3. m \in Request /\ Tail(remote.up) \in Seq(Request)
  BY <1>1, <1>2, HeadTailProperties
<1>4. q \in Queries
  BY <1>3 DEF Request
<1>5. \A type \in {"Added", "Removed", "Document", "Current", "Snapshot"} :
        Message(type, q) \in Response
  <2>1. server \in [Queries -> Versions]
    BY RemoteWatchAssumption DEF Versions, NotKnown
  <2> QED BY <1>4, <2>1 DEF Message, Response
<1>6. answer \in Seq(Response)
  <2>1. PICK added \in Response, removed \in Response, document \in Response,
             current \in Response, snapshot \in Response :
          /\ added = Message("Added", q) /\ removed = Message("Removed", q)
          /\ document = Message("Document", q) /\ current = Message("Current", q)
          /\ snapshot = Message("Snapshot", q)
    BY <1>5
  <2>2. /\ <<added>> \in Seq(Response) /\ <<removed>> \in Seq(Response)
        /\ <<document>> \in Seq(Response) /\ <<>> \in Seq(Response)
        /\ <<current, snapshot>> \in Seq(Response)
    OBVIOUS
  <2>3. news \in Seq(Response)
    BY <2>1, <2>2
  <2>4. <<added>> \o news \o <<current, snapshot>> \in Seq(Response)
    <3> HIDE DEF news
    <3> QED BY <2>2, <2>3, ConcatProperties
  <2>5. CASE m.type = "Unwatch"
    BY <2>1, <2>2, <2>5
  <2>6. CASE m.type # "Unwatch"
    BY <2>1, <2>4, <2>6
  <2> QED BY <2>5, <2>6
<1>7. served \in SUBSET Queries
  BY <1>1, <1>4
<1> HIDE DEF answer, served
<1>8. PICK up \in Seq(Request), down \in Seq(Response) :
        up = Tail(remote.up) /\ down = remote.down \o answer
  BY <1>1, <1>3, <1>6, ConcatProperties
<1>9. remote' = Wired(remote, up, down, served)
  BY <1>2, <1>8 DEF Wired
<1>10. Rests(remote') /\ (Timed(remote') <=> Timed(remote)) /\ remote'.targets = remote.targets
  BY <1>7, <1>9, BackendRests
<1> QED BY <1>2, <1>10

LEMMA RefusesRest ==
  ASSUME Rests(remote), server \in [Queries -> 0..MaxVersion], refused \subseteq Queries,
         BackendRefuses
  PROVE  /\ Rests(remote') /\ remote'.targets = remote.targets
         /\ Timed(remote) => Timed(remote')
         /\ server' = server /\ refused' \subseteq Queries
<1> DEFINE q == Head(remote.up).query
<1>1. /\ remote \in WatchRec /\ remote.up \in Seq(Request) /\ remote.down \in Seq(Response)
      /\ remote.served \in SUBSET Queries
  BY DEF Rests, Sound, WatchRec
<1>2. /\ remote.up # <<>> /\ server' = server /\ refused' = refused \cup {q}
      /\ remote' = [remote EXCEPT !.up = Tail(remote.up),
                                  !.down = Append(remote.down, Message("Rejected", q))]
  BY DEF BackendRefuses
<1>3. Head(remote.up) \in Request /\ Tail(remote.up) \in Seq(Request)
  BY <1>1, <1>2, HeadTailProperties
<1>4. q \in Queries
  BY <1>3 DEF Request
<1>5. Message("Rejected", q) \in Response
  <2>1. server \in [Queries -> Versions]
    BY RemoteWatchAssumption DEF Versions, NotKnown
  <2> QED BY <1>4, <2>1 DEF Message, Response
<1>6. PICK up \in Seq(Request), down \in Seq(Response), served \in SUBSET Queries :
        /\ up = Tail(remote.up) /\ down = Append(remote.down, Message("Rejected", q))
        /\ served = remote.served
  BY <1>1, <1>3, <1>5, AppendProperties
<1>7. remote' = Wired(remote, up, down, served)
  BY <1>1, <1>2, <1>6 DEF WatchRec, Wired
<1> HIDE DEF q
<1>8. Rests(remote') /\ (Timed(remote') <=> Timed(remote)) /\ remote'.targets = remote.targets
  BY <1>7, BackendRests
<1> QED BY <1>2, <1>4, <1>8

LEMMA ChangesRest ==
  ASSUME Rests(remote), server \in [Queries -> 0..MaxVersion],
         NEW q \in Queries, BackendChanges(q)
  PROVE  /\ Rests(remote') /\ remote'.targets = remote.targets
         /\ Timed(remote) => Timed(remote')
         /\ server' \in [Queries -> 0..MaxVersion] /\ refused' = refused
<1>1. /\ remote \in WatchRec /\ remote.up \in Seq(Request) /\ remote.down \in Seq(Response)
      /\ remote.served \in SUBSET Queries
  BY DEF Rests, Sound, WatchRec
<1>2. /\ server[q] < MaxVersion /\ server' = [server EXCEPT ![q] = server[q] + 1]
      /\ UNCHANGED <<faults, refused>>
  BY DEF BackendChanges
<1>3. server' \in [Queries -> 0..MaxVersion]
  <2>1. server[q] + 1 \in 0..MaxVersion
    BY <1>2, RemoteWatchAssumption
  <2> QED BY <1>2, <2>1
<1>4. CASE q \notin remote.served
  BY <1>2, <1>3, <1>4 DEF BackendChanges
<1>5. CASE q \in remote.served
  <2> DEFINE document == [type |-> "Document", query |-> q, at |-> server']
             snapshot == [type |-> "Snapshot", query |-> q, at |-> server']
  <2>1. remote' = [remote EXCEPT !.down = remote.down \o <<document, snapshot>>]
    BY <1>5 DEF BackendChanges
  <2>2. document \in Response /\ snapshot \in Response
    <3>1. server' \in [Queries -> Versions]
      BY <1>3, RemoteWatchAssumption DEF Versions, NotKnown
    <3> QED BY <3>1 DEF Response
  <2> HIDE DEF document, snapshot
  <2>3. <<document, snapshot>> \in Seq(Response)
    BY <2>2
  <2>4. PICK up \in Seq(Request), down \in Seq(Response), served \in SUBSET Queries :
          /\ up = remote.up /\ down = remote.down \o <<document, snapshot>>
          /\ served = remote.served
    BY <1>1, <2>3, ConcatProperties
  <2>5. remote' = Wired(remote, up, down, served)
    BY <1>1, <2>1, <2>4 DEF WatchRec, Wired
  <2>6. Rests(remote') /\ (Timed(remote') <=> Timed(remote)) /\ remote'.targets = remote.targets
    BY <2>5, BackendRests
  <2> QED BY <1>2, <1>3, <2>6
<1> QED BY <1>4, <1>5

-----------------------------------------------------------------------------
(* What the stream reads *)

LEMMA MessageTaken ==
  ASSUME Rests(remote), remote.down # <<>>
  PROVE  LET s == [remote EXCEPT !.down = Tail(@)]
         IN  /\ Rests(s) /\ s \in WatchRec /\ s.targets = remote.targets
             /\ Head(remote.down) \in Response
<1> DEFINE s == [remote EXCEPT !.down = Tail(@)]
<1>1. remote \in WatchRec /\ remote.down \in Seq(Response)
  BY DEF Rests, Sound, WatchRec
<1>2. Head(remote.down) \in Response /\ Tail(remote.down) \in Seq(Response)
  BY <1>1, HeadTailProperties
<1>3. PICK down \in Seq(Response) : down = Tail(remote.down)
  BY <1>2
<1>4. s = [remote EXCEPT !.down = down]
  BY <1>3
<1> HIDE DEF s
<1>5. s \in WatchRec
  BY <1>1, <1>4 DEF WatchRec
<1>6. Alike(remote, s) /\ s.idle = remote.idle /\ s.targets = remote.targets
  BY <1>1, <1>4 DEF WatchRec, Alike
<1>7. Rests(s)
  BY <1>5, <1>6, WireRests
<1> QED BY <1>2, <1>5, <1>6, <1>7 DEF s

LEMMA UpdatesTyped ==
  ASSUME NEW s \in WatchRec
  PROVE  /\ DocumentUpdates(s) \in [Queries -> Versions]
         /\ DOMAIN TargetChanges(s) \subseteq Listening(s) \cap Queries
         /\ \A q \in DOMAIN TargetChanges(s) : TargetChanges(s)[q] \in BOOLEAN
<1>1. s.aggregator \in Aggregators
  BY DEF WatchRec
<1>2. /\ s.aggregator.updates \in [Queries -> Versions]
      /\ \A q \in Queries : s.aggregator.states[q].current \in BOOLEAN
  <2>1. /\ s.aggregator.updates \in [Queries -> Versions]
        /\ s.aggregator.states \in [Queries -> TargetState]
    BY <1>1 DEF Aggregators
  <2> QED BY <2>1 DEF TargetState
<1>3. 0 \in Versions
  BY RemoteWatchAssumption DEF Versions, NotKnown
<1>4. DocumentUpdates(s) \in [Queries -> Versions]
  BY <1>2, <1>3 DEF DocumentUpdates
<1>5. DOMAIN TargetChanges(s) \subseteq Listening(s) \cap Queries
  BY DEF TargetChanges, IsActiveTarget
<1>6. \A q \in DOMAIN TargetChanges(s) : TargetChanges(s)[q] \in BOOLEAN
  BY <1>2 DEF TargetChanges
<1> QED BY <1>4, <1>5, <1>6

\* A snapshot leaves the cache with the newer of what it had and what it got.
LEMMA AppliedTyped ==
  ASSUME NEW s \in WatchRec, ApplyRemoteEvent(s), stored \in Results, views \in Views,
         remote' \in WatchRec, Listening(s) \subseteq Listening(remote')
  PROVE  stored' \in Results /\ views' \in Views /\ DOMAIN views' = DOMAIN views
<1> DEFINE changes == TargetChanges(s)
           updates == DocumentUpdates(s)
           seen == [q \in Queries |-> Max({stored.cache[q], updates[q]})]
           resume == [q \in Queries |-> IF q \in DOMAIN changes THEN remote'.targets[q]
                                        ELSE stored.resume[q]]
<1>1. /\ stored' = [cache |-> seen, resume |-> resume]
      /\ views' = [q \in DOMAIN views |-> IF q \in DOMAIN changes THEN changes[q]
                                          ELSE views[q]]
  BY DEF ApplyRemoteEvent
<1>2. /\ updates \in [Queries -> Versions]
      /\ DOMAIN changes \subseteq Listening(s) \cap Queries
      /\ \A q \in DOMAIN changes : changes[q] \in BOOLEAN
  BY UpdatesTyped
<1> HIDE DEF changes, updates
<1>3. stored.cache \in [Queries -> Versions] /\ stored.resume \in [Queries -> Versions]
  BY DEF Results
<1>4. seen \in [Queries -> Versions]
  <2>1. ASSUME NEW q \in Queries PROVE Max({stored.cache[q], updates[q]}) \in Versions
    <3>1. PICK a \in Versions, b \in Versions : a = stored.cache[q] /\ b = updates[q]
      BY <1>2, <1>3
    <3>2. Max({a, b}) \in {a, b}
      BY MaxOfTwo, VersionsAreInts
    <3> QED BY <3>1, <3>2
  <2> QED BY <2>1
<1>5. resume \in [Queries -> Versions]
  <2>1. remote'.targets \in Targets
    BY DEF WatchRec
  <2>2. \A q \in DOMAIN remote'.targets : remote'.targets[q] \in Versions
    BY <2>1, TargetsAre
  <2> QED BY <1>2, <1>3, <2>2 DEF Listening
<1> HIDE DEF seen, resume
<1>6. stored' \in Results
  BY <1>1, <1>4, <1>5 DEF Results
<1>7. DOMAIN views \subseteq Queries /\ views \in [DOMAIN views -> BOOLEAN]
  BY ViewsAre
<1>8. views' \in [DOMAIN views -> BOOLEAN] /\ DOMAIN views' = DOMAIN views
  BY <1>1, <1>2, <1>7
<1>9. views' \in Views
  BY <1>7, <1>8 DEF Views
<1> QED BY <1>6, <1>8, <1>9

LEMMA WithoutTyped ==
  ASSUME views \in Views, NEW q, views' = Without(q)
  PROVE  views' \in Views /\ DOMAIN views' = DOMAIN views \ {q}
<1>1. DOMAIN views \subseteq Queries /\ views \in [DOMAIN views -> BOOLEAN]
  BY ViewsAre
<1>2. /\ views' \in [DOMAIN views \ {q} -> BOOLEAN]
      /\ DOMAIN views \ {q} \in SUBSET Queries
      /\ DOMAIN views' = DOMAIN views \ {q}
  BY <1>1 DEF Without
<1> QED BY <1>2 DEF Views

\* What a message that is no refused listen changes is told to listeners that
\* stay what they are.
LEMMA ToldKeeps ==
  ASSUME WatchInv, Rests(remote'), Timed(remote'), Listening(remote') = Listening(remote),
         UNCHANGED <<server, refused, worker, answers, opened>>,
         stored' \in Results, views' \in Views, DOMAIN views' = DOMAIN views,
         Raise(reads, <<>>)
  PROVE  WatchInv'
<1>1. /\ Typed /\ TablesFirst /\ \A r \in Reads : ReadInv(r)
      /\ Listening(remote) = DOMAIN views /\ DOMAIN views = Listened(reads)
  BY DEF WatchInv, AnswersInv, ReadInv
<1>2. /\ \A r \in Reads : ReadInv(r)'
      /\ reads' \in [Reads -> Listener] /\ executor' \in Seq(Delivery)
      /\ \A r \in Reads : reads'[r].state = reads[r].state
  BY <1>1, UnchangedAnswers
<1>3. remote' \in WatchRec
  BY DEF Rests, Sound
<1>4. Typed'
  BY <1>1, <1>2, <1>3 DEF Typed
<1>5. TablesFirst'
  BY <1>1, <1>2, TablesSame, DocumentReadsAssumption
<1>6. Listened(reads') = Listened(reads)
  BY <1>2, ListenedSame
<1>7. TablesTimed'
  BY DEF TablesTimed
<1> QED BY <1>1, <1>2, <1>4, <1>5, <1>6, <1>7 DEF WatchInv, AnswersInv, ReadInv

\* A refused listen ends the listeners of the query, each with one error.
LEMMA RejectedKeeps ==
  ASSUME WatchInv, NEW q \in Queries, Rests(remote'), Timed(remote'),
         Listening(remote') = Listening(remote) \ {q},
         UNCHANGED <<server, refused, worker, answers, opened>>,
         HandleRejectedListen(q)
  PROVE  WatchInv'
<1> DEFINE failed == ListenersOf(q, reads)
           rs == [r \in Reads |-> IF r \in failed THEN [reads[r] EXCEPT !.state = "gone"]
                                  ELSE reads[r]]
           Told(r) == [read |-> r, event |-> Refused]
           T == {Told(r) : r \in failed}
           queued == SetToSeq(T)
<1>1. /\ Typed /\ TablesFirst /\ \A r \in Reads : ReadInv(r)
      /\ Listening(remote) = DOMAIN views /\ DOMAIN views = Listened(reads)
  BY DEF WatchInv, AnswersInv, ReadInv
<1>2. views' = Without(q) /\ stored' = stored /\ Raise(rs, queued)
  BY DEF HandleRejectedListen
<1>3. /\ reads \in [Reads -> Listener] /\ views \in Views /\ stored \in Results
      /\ WorkerStep
  <2>1. worker' = worker
    OBVIOUS
  <2> QED BY <1>1, <2>1 DEF Typed, WorkerStep
<1>4. failed \subseteq Reads /\ IsFiniteSet(failed)
      /\ \A r \in failed : reads[r].state = "listening" /\ QueryOf[r] = q
  <2>1. failed \subseteq Reads /\ \A r \in failed : reads[r].state = "listening" /\ QueryOf[r] = q
    BY DEF ListenersOf
  <2> HIDE DEF failed
  <2> QED BY <2>1, DocumentReadsAssumption, FS_Subset
<1>5. \A r \in Reads :
        /\ rs[r].state = IF r \in failed THEN "gone" ELSE reads[r].state
        /\ rs[r].muted = reads[r].muted /\ rs[r] \in Listener
  BY <1>3, <1>4 DEF Listener
<1>6. rs \in [Reads -> Listener]
  BY <1>5
<1>7. \A r \in Reads : QueryOf[r] = q => rs[r].state # "listening"
  BY <1>5 DEF ListenersOf
<1>8. IsFiniteSet(T) /\ T \subseteq Delivery
  <2>1. Refused \in Event
    BY VersionsAreInts DEF Refused, Event
  <2>2. T \subseteq Delivery
    BY <1>4, <2>1 DEF Delivery
  <2> DEFINE f == [r \in failed |-> Told(r)]
  <2>3. f \in Surjection(failed, T)
    BY DEF Surjection
  <2> HIDE DEF f, T, failed
  <2>4. IsFiniteSet(T)
    BY <1>4, <2>3, FS_Surjection
  <2> QED BY <2>2, <2>4
<1>9. \A x \in T : x.event.kind = "refused" /\ x.read \in failed /\ x = Told(x.read)
  BY DEF Refused
<1>10. queued \in Seq(Delivery) /\ Errors(queued, rs)
  <2> HIDE DEF T, failed, rs
  <2>1. /\ queued \in Seq(T)
        /\ \A i, j \in DOMAIN queued : queued[i] = queued[j] => i = j
    BY <1>8, SetToSeqIs
  <2>2. queued \in Seq(Delivery)
    BY <1>8, <2>1, SeqMonotonic
  <2>3. \A i \in DOMAIN queued : queued[i] \in T
    BY <2>1, ElementOfSeq, LenProperties
  <2> HIDE DEF queued
  <2>4. \A i \in DOMAIN queued :
          /\ queued[i].event.kind = "refused"
          /\ reads[queued[i].read].state = "listening" /\ rs[queued[i].read].state = "gone"
    BY <1>4, <1>5, <1>9, <2>3
  <2>5. ASSUME NEW i \in DOMAIN queued, NEW j \in DOMAIN queued,
               queued[i].read = queued[j].read
        PROVE  i = j
    <3>1. queued[i] = Told(queued[i].read) /\ queued[j] = Told(queued[j].read)
      BY <1>9, <2>3
    <3>2. queued[i] = queued[j]
      BY <2>5, <3>1
    <3> QED BY <2>1, <3>2
  <2> QED BY <2>2, <2>4, <2>5 DEF Errors
<1> HIDE DEF rs, queued, T
<1>11. \A r \in Reads : ReadInv(r) /\ Legal(r, rs)
  BY <1>1, <1>4, <1>5 DEF Legal
<1>12. views' \in Views /\ DOMAIN views' = DOMAIN views \ {q}
  BY <1>2, <1>3, WithoutTyped
<1>13. stored' \in Results /\ answers' = answers
  BY <1>2, <1>3
<1>14. /\ \A r \in Reads : ReadInv(r)'
       /\ reads' \in [Reads -> Listener] /\ executor' \in Seq(Delivery)
       /\ \A r \in Reads : reads'[r].state = rs[r].state
  BY <1>1, <1>2, <1>3, <1>6, <1>10, <1>11, <1>12, <1>13, RaisedAnswers
<1>15. remote' \in WatchRec
  BY DEF Rests, Sound
<1>16. Typed'
  BY <1>1, <1>12, <1>13, <1>14, <1>15 DEF Typed
<1>17. TablesFirst'
  <2>1. \A r \in Tables : reads'[r].state = reads[r].state \/ reads'[r].state = "gone"
    BY <1>5, <1>14, DocumentReadsAssumption
  <2> QED BY <1>1, <2>1, TablesSame
<1>18. Listened(reads') = Listened(reads) \ {q}
  <2>1. Listened(reads') = Listened(rs)
    BY <1>14, ListenedSame
  <2>2. \A r \in Reads : rs[r].state = "listening" <=>
          (reads[r].state = "listening" /\ QueryOf[r] # q)
    BY <1>5 DEF ListenersOf
  <2> QED BY <2>1, <2>2 DEF Listened
<1>19. TablesTimed'
  BY DEF TablesTimed
<1> QED BY <1>1, <1>12, <1>14, <1>16, <1>17, <1>18, <1>19 DEF WatchInv, AnswersInv, ReadInv

LEMMA StreamReadKeeps ==
  ASSUME WatchInv, StreamRead
  PROVE  WatchInv'
<1> DEFINE m == Head(remote.down)
           s == [remote EXCEPT !.down = Tail(@)]
<1>1. /\ remote.down # <<>> /\ remote' = OnWatchStreamChange(s, m)
      /\ CASE m.type = "Snapshot" -> ApplyRemoteEvent(s)
           [] m.type = "Rejected" /\ m.query \in Listening(s) ->
                HandleRejectedListen(m.query)
           [] OTHER -> UNCHANGED <<views, stored>> /\ Raise(reads, <<>>)
      /\ UNCHANGED <<server, refused, worker, answers, opened>>
  BY DEF StreamRead
<1>2. Rests(remote) /\ stored \in Results /\ views \in Views
  BY DEF WatchInv, AnswersInv, Typed
<1>3. /\ Rests(s) /\ s \in WatchRec /\ s.targets = remote.targets /\ m \in Response
  BY <1>1, <1>2, MessageTaken
<1> HIDE DEF s, m
<1>4. m.query \in Queries /\ Listening(s) = Listening(remote)
  BY <1>3 DEF Response, Listening
<1>5. /\ Rests(remote') /\ Timed(remote')
      /\ Listening(remote') = IF m.type = "Rejected" THEN Listening(s) \ {m.query}
                              ELSE Listening(s)
  BY <1>1, <1>3, HeardRests
<1>6. CASE m.type = "Snapshot"
  <2>1. ApplyRemoteEvent(s) /\ Listening(remote') = Listening(remote)
    BY <1>1, <1>4, <1>5, <1>6
  <2>2. remote' \in WatchRec
    BY <1>5 DEF Rests, Sound
  <2>3. stored' \in Results /\ views' \in Views /\ DOMAIN views' = DOMAIN views
    BY <1>2, <1>3, <1>4, <2>1, <2>2, AppliedTyped
  <2>4. Raise(reads, <<>>)
    BY <2>1 DEF ApplyRemoteEvent
  <2> QED BY <1>1, <1>5, <2>1, <2>3, <2>4, ToldKeeps
<1>7. CASE m.type = "Rejected" /\ m.query \in Listening(s)
  <2>1. HandleRejectedListen(m.query)
    BY <1>1, <1>7
  <2>2. Listening(remote') = Listening(remote) \ {m.query}
    BY <1>4, <1>5, <1>7
  <2> QED BY <1>1, <1>4, <1>5, <2>1, <2>2, RejectedKeeps
<1>8. CASE m.type # "Snapshot" /\ ~(m.type = "Rejected" /\ m.query \in Listening(s))
  <2>1. UNCHANGED <<views, stored>> /\ Raise(reads, <<>>)
    BY <1>1, <1>8
  <2>2. Listening(remote') = Listening(remote)
    BY <1>4, <1>5, <1>8
  <2>3. stored' \in Results /\ views' \in Views /\ DOMAIN views' = DOMAIN views
    BY <1>2, <2>1
  <2> QED BY <1>1, <1>5, <2>1, <2>2, <2>3, ToldKeeps
<1> QED BY <1>6, <1>7, <1>8

-----------------------------------------------------------------------------
(* The worker *)

\* Another view is opened.
LEMMA OpenedView ==
  ASSUME views \in Views, NEW q \in Queries, views' = Put(views, q, FALSE)
  PROVE  views' \in Views /\ DOMAIN views' = DOMAIN views \cup {q}
<1>1. DOMAIN views \subseteq Queries /\ views \in [DOMAIN views -> BOOLEAN]
  BY ViewsAre
<1>2. /\ views' \in [DOMAIN views \cup {q} -> BOOLEAN]
      /\ DOMAIN views \cup {q} \in SUBSET Queries
      /\ DOMAIN views' = DOMAIN views \cup {q}
  BY <1>1 DEF Put
<1> QED BY <1>2 DEF Views

\* The operation that is taken is the only one that adds its listener.
LEMMA TakenOnce ==
  ASSUME worker \in Seq(Operations), worker # <<>>, worker' = Tail(worker),
         NEW c \in Reads, AddedOnce(c), Adds(1, c)
  PROVE  reads[c].state = "asked" /\ \A i \in Nat : ~Adds(i, c)'
<1>1. reads[c].state = "asked"
  BY DEF AddedOnce
<1>2. ASSUME NEW i \in Nat, Adds(i, c)' PROVE FALSE
  <2>1. i >= 1
    BY <1>2, WorkerShifts
  <2>2. PICK k \in Nat : k = i + 1
    OBVIOUS
  <2>3. Adds(k, c)
    BY <1>2, <2>1, <2>2, WorkerShifts
  <2>4. k = 1
    BY <2>3 DEF AddedOnce
  <2> QED BY <2>1, <2>2, <2>4
<1> QED BY <1>1, <1>2

\* The first listener of a query lets RemoteStore listen to it.
LEMMA AddBooks ==
  ASSUME WatchInv, NEW c \in Reads, reads[c].state = "asked", AddQueryListener(c)
  PROVE  LET q == QueryOf[c]
         IN  /\ Rests(remote') /\ Listening(remote') = Listening(remote) \cup {q}
             /\ Timed(remote) => Timed(remote')
             /\ views' \in Views /\ DOMAIN views' = DOMAIN views \cup {q}
             /\ opened' \in [Queries -> 0..MaxVersion] /\ stored' = stored
<1> DEFINE q == QueryOf[c]
<1>1. /\ Rests(remote) /\ Listening(remote) = DOMAIN views /\ DOMAIN views = Listened(reads)
      /\ stored \in Results /\ views \in Views
      /\ opened \in [Queries -> 0..MaxVersion] /\ server \in [Queries -> 0..MaxVersion]
  BY DEF WatchInv, AnswersInv, Typed
<1>2. q \in Queries /\ stored.resume[q] \in Versions
  BY <1>1, DocumentReadsAssumption DEF Results
<1>3. ListenersOf(q, reads) = {} <=> q \notin DOMAIN views
  BY <1>1 DEF ListenersOf, Listened
<1>4. CASE ListenersOf(q, reads) = {}
  <2>1. /\ remote' = Listen(Check(remote, q \notin DOMAIN views, "already listening"),
                            q, stored.resume[q])
        /\ views' = Put(views, q, FALSE)
        /\ opened' = [opened EXCEPT ![q] = server[q]] /\ stored' = stored
    BY <1>4 DEF AddQueryListener
  <2>2. remote' = Listen(remote, q, stored.resume[q])
    BY <1>3, <1>4, <2>1 DEF Check
  <2>3. q \notin Listening(remote)
    BY <1>1, <1>3, <1>4
  <2> HIDE DEF q
  <2>4. /\ Rests(remote') /\ Listening(remote') = Listening(remote) \cup {q}
        /\ Timed(remote) => Timed(remote')
    BY <1>1, <1>2, <2>2, <2>3, ListenRests
  <2>5. views' \in Views /\ DOMAIN views' = DOMAIN views \cup {q}
    BY <1>1, <1>2, <2>1, OpenedView
  <2>6. opened' \in [Queries -> 0..MaxVersion]
    BY <1>1, <1>2, <2>1
  <2> QED BY <2>1, <2>4, <2>5, <2>6 DEF q
<1>5. CASE ListenersOf(q, reads) # {}
  <2>1. UNCHANGED <<remote, views, opened>> /\ stored' = stored
    BY <1>5 DEF AddQueryListener
  <2>2. q \in DOMAIN views
    BY <1>3, <1>5
  <2> HIDE DEF q
  <2> QED BY <1>1, <2>1, <2>2 DEF q
<1> QED BY <1>4, <1>5

LEMMA AddKeeps ==
  ASSUME WatchInv, worker # <<>>, worker' = Tail(worker),
         NEW c \in Reads, Head(worker) = Operation("Add", c), AddQueryListener(c),
         UNCHANGED <<server, refused, answers>>
  PROVE  WatchInv'
<1> DEFINE q == QueryOf[c]
           rs == [reads EXCEPT ![c].state = "listening", ![c].since = opened'[q]]
<1>1. /\ Typed /\ TablesFirst /\ TablesTimed /\ \A r \in Reads : ReadInv(r)
      /\ Listening(remote) = DOMAIN views /\ DOMAIN views = Listened(reads)
  BY DEF WatchInv, AnswersInv, ReadInv
<1>2. worker \in Seq(Operations) /\ reads \in [Reads -> Listener] /\ stored \in Results
  BY <1>1 DEF Typed
<1>3. Adds(1, c) /\ worker' \in Seq(Operations)
  BY <1>2, WorkerShifts DEF Adds
<1>4. reads[c].state = "asked" /\ \A i \in Nat : ~Adds(i, c)'
  BY <1>1, <1>2, <1>3, TakenOnce DEF ReadInv
<1>5. /\ Rests(remote') /\ Listening(remote') = Listening(remote) \cup {q}
      /\ Timed(remote) => Timed(remote')
      /\ views' \in Views /\ DOMAIN views' = DOMAIN views \cup {q}
      /\ opened' \in [Queries -> 0..MaxVersion] /\ stored' = stored
  BY <1>4, AddBooks
<1>6. q \in Queries
  BY DocumentReadsAssumption
<1>7. Raise(rs, <<>>)
  BY DEF AddQueryListener
<1>8. opened'[q] \in Versions
  <2>1. opened'[q] \in 0..MaxVersion
    BY <1>5, <1>6
  <2> QED BY <2>1, RemoteWatchAssumption DEF Versions, NotKnown
<1>9. /\ rs \in [Reads -> Listener]
      /\ rs[c].state = "listening" /\ rs[c].muted = reads[c].muted
      /\ \A r \in Reads : r # c => rs[r] = reads[r]
  <2> DEFINE since == opened'[q]
  <2>1. since \in Versions
    BY <1>8
  <2> HIDE DEF since
  <2>2. rs = [reads EXCEPT ![c] = [reads[c] EXCEPT !.state = "listening", !.since = since]]
    BY <1>2 DEF since
  <2>3. /\ [reads[c] EXCEPT !.state = "listening", !.since = since] \in Listener
        /\ [reads[c] EXCEPT !.state = "listening", !.since = since].state = "listening"
        /\ [reads[c] EXCEPT !.state = "listening", !.since = since].muted = reads[c].muted
    BY <1>2, <2>1 DEF Listener
  <2> HIDE DEF rs
  <2> QED BY <1>2, <2>2, <2>3
<1> HIDE DEF rs
<1>10. \A r \in Reads : ReadInv(r) /\ Legal(r, rs)
  BY <1>1, <1>4, <1>9 DEF Legal
<1>11. WorkerStep /\ answers' = answers /\ stored' \in Results
  <2>1. answers' = answers
    OBVIOUS
  <2> QED BY <1>2, <1>5, <2>1 DEF WorkerStep
<1>12. /\ \A r \in Reads : ReadInv(r)'
       /\ reads' \in [Reads -> Listener] /\ executor' \in Seq(Delivery)
       /\ \A r \in Reads : reads'[r].state = rs[r].state
  BY <1>1, <1>5, <1>7, <1>9, <1>10, <1>11, NoErrors, RaisedAnswers
<1>13. remote' \in WatchRec
  BY <1>5 DEF Rests, Sound
<1>14. Typed'
  BY <1>1, <1>3, <1>5, <1>11, <1>12, <1>13 DEF Typed
<1>15. TablesFirst'
  <2>1. ASSUME NEW r \in Tables
        PROVE  \/ reads'[r].state = reads[r].state /\ ~Adds(1, r)
               \/ reads'[r].state \in {"listening", "gone"}
    <3>1. r \in Reads
      BY DocumentReadsAssumption
    <3>2. CASE r = c
      BY <1>9, <1>12, <3>2
    <3>3. CASE r # c
      <4>1. ~Adds(1, r)
        BY <1>3, <3>3 DEF Adds, Operation
      <4> QED BY <1>9, <1>12, <3>1, <3>3, <4>1
    <3> QED BY <3>2, <3>3
  <2> QED BY <1>1, <1>2, <2>1, TablesTaken
<1>16. Listened(reads') = Listened(reads) \cup {q}
  <2>1. Listened(reads') = Listened(rs)
    BY <1>12, ListenedSame
  <2>2. \A r \in Reads : rs[r].state = "listening" <=> reads[r].state = "listening" \/ r = c
    BY <1>9
  <2> QED BY <2>1, <2>2 DEF Listened
<1>17. TablesTimed'
  <2>1. \A r \in Reads : reads'[r].state \in {"asked", "listening"} =>
          reads[r].state \in {"asked", "listening"}
    BY <1>4, <1>9, <1>12
  <2> QED BY <1>1, <1>5, <2>1, DocumentReadsAssumption DEF TablesTimed
<1> QED BY <1>1, <1>5, <1>12, <1>14, <1>15, <1>16, <1>17 DEF WatchInv, AnswersInv, ReadInv

\* The last listener of a query lets RemoteStore stop.
LEMMA RemoveBooks ==
  ASSUME WatchInv, NEW c \in Reads, reads[c].state \in {"listening", "gone"},
         RemoveQueryListener(c)
  PROVE  LET left == [reads EXCEPT ![c].state = "gone"]
         IN  /\ Rests(remote') /\ Listening(remote') = Listened(left)
             /\ Timed(remote) /\ Listened(left) # {} => Timed(remote')
             /\ views' \in Views /\ DOMAIN views' = Listened(left)
             /\ stored' = stored /\ opened' = opened
<1> DEFINE q == QueryOf[c]
           left == [reads EXCEPT ![c].state = "gone"]
<1>1. /\ Rests(remote) /\ Listening(remote) = DOMAIN views /\ DOMAIN views = Listened(reads)
      /\ views \in Views /\ reads \in [Reads -> Listener]
  BY DEF WatchInv, AnswersInv, Typed
<1>2. q \in Queries
  BY DocumentReadsAssumption
<1>3. /\ left[c].state = "gone" /\ \A r \in Reads : r # c => left[r] = reads[r]
  BY <1>1 DEF Listener
<1>4. /\ stored' = stored /\ opened' = opened
      /\ IF reads[c].state = "listening" /\ ListenersOf(q, left) = {}
         THEN /\ remote' = StopListening(Check(remote, q \in DOMAIN views,
                                               "query not found"), q)
              /\ views' = Without(q)
         ELSE UNCHANGED <<remote, views>>
  BY DEF RemoveQueryListener
<1> HIDE DEF left
<1>5. CASE reads[c].state = "listening" /\ ListenersOf(q, left) = {}
  <2>1. q \in DOMAIN views
    BY <1>1, <1>5 DEF Listened
  <2>2. remote' = StopListening(remote, q) /\ views' = Without(q)
    BY <1>4, <1>5, <2>1 DEF Check
  <2>3. Listened(left) = Listened(reads) \ {q}
    BY <1>3, <1>5 DEF Listened, ListenersOf
  <2> HIDE DEF q
  <2>4. /\ Rests(remote') /\ Listening(remote') = Listening(remote) \ {q}
        /\ Timed(remote) /\ Listening(remote') # {} => Timed(remote')
    BY <1>1, <1>2, <2>1, <2>2, StopRests
  <2>5. views' \in Views /\ DOMAIN views' = DOMAIN views \ {q}
    BY <1>1, <2>2, WithoutTyped
  <2> QED BY <1>1, <1>4, <2>3, <2>4, <2>5 DEF left
<1>6. CASE ~(reads[c].state = "listening" /\ ListenersOf(q, left) = {})
  <2>1. UNCHANGED <<remote, views>>
    BY <1>4, <1>6
  <2>2. Listened(left) = Listened(reads)
    <3>1. CASE reads[c].state = "gone"
      BY <1>3, <3>1 DEF Listened
    <3>2. CASE reads[c].state = "listening"
      <4>1. PICK r \in Reads : QueryOf[r] = q /\ left[r].state = "listening"
        BY <1>6, <3>2 DEF ListenersOf
      <4>2. r # c /\ reads[r].state = "listening"
        BY <1>3, <4>1
      <4> QED BY <1>3, <4>1, <4>2 DEF Listened
    <3> QED BY <3>1, <3>2
  <2> QED BY <1>1, <1>4, <2>1, <2>2 DEF left
<1> QED BY <1>5, <1>6

LEMMA RemoveKeeps ==
  ASSUME WatchInv, worker # <<>>, worker' = Tail(worker),
         NEW c \in Reads, Head(worker) = Operation("Remove", c), RemoveQueryListener(c),
         UNCHANGED <<server, refused, answers>>
  PROVE  WatchInv'
<1> DEFINE left == [reads EXCEPT ![c].state = "gone"]
<1>1. /\ Typed /\ TablesFirst /\ TablesTimed /\ \A r \in Reads : ReadInv(r)
      /\ Listening(remote) = DOMAIN views /\ DOMAIN views = Listened(reads)
  BY DEF WatchInv, AnswersInv, ReadInv
<1>2. worker \in Seq(Operations) /\ reads \in [Reads -> Listener] /\ stored \in Results
  BY <1>1 DEF Typed
<1>3. /\ Removes(1, c) /\ worker' \in Seq(Operations)
      /\ worker[1].op = "Remove"
  <2>1. /\ worker[1] = Operation("Remove", c) /\ 1 \in DOMAIN worker
        /\ worker' \in Seq(Operations)
    BY <1>2, WorkerShifts
  <2> QED BY <2>1 DEF Removes, Operation
<1>4. reads[c].state \in {"listening", "gone"}
  BY <1>1, <1>3 DEF ReadInv, AddedOnce
<1>5. /\ Rests(remote') /\ Listening(remote') = Listened(left)
      /\ Timed(remote) /\ Listened(left) # {} => Timed(remote')
      /\ views' \in Views /\ DOMAIN views' = Listened(left)
      /\ stored' = stored /\ opened' = opened
  BY <1>4, RemoveBooks
<1>6. Raise(left, <<>>)
  BY DEF RemoveQueryListener
<1>7. /\ left \in [Reads -> Listener]
      /\ left[c].state = "gone" /\ left[c].muted = reads[c].muted
      /\ \A r \in Reads : r # c => left[r] = reads[r]
  BY <1>2 DEF Listener
<1> HIDE DEF left
<1>8. \A r \in Reads : ReadInv(r) /\ Legal(r, left)
  BY <1>1, <1>4, <1>7 DEF Legal
<1>9. WorkerStep /\ answers' = answers /\ stored' \in Results
  <2>1. answers' = answers
    OBVIOUS
  <2> QED BY <1>2, <1>5, <2>1 DEF WorkerStep
<1>10. /\ \A r \in Reads : ReadInv(r)'
       /\ reads' \in [Reads -> Listener] /\ executor' \in Seq(Delivery)
       /\ \A r \in Reads : reads'[r].state = left[r].state
  BY <1>1, <1>5, <1>6, <1>7, <1>8, <1>9, NoErrors, RaisedAnswers
<1>11. remote' \in WatchRec
  BY <1>5 DEF Rests, Sound
<1>12. Typed'
  BY <1>1, <1>3, <1>5, <1>9, <1>10, <1>11 DEF Typed
<1>13. \A r \in Tables : reads[r].state # "asked"
  <2>1. ASSUME NEW r \in Tables, NEW j \in Nat, Adds(j, r) PROVE FALSE
    <3>1. j \in 1..Len(worker)
      BY <1>2, <2>1, LenProperties DEF Adds
    <3>2. 1 \in 1..j
      BY <3>1
    <3> QED BY <1>1, <1>3, <2>1, <3>2 DEF TablesFirst
  <2> QED BY <1>1, <2>1 DEF TablesFirst
<1>14. TablesFirst'
  <2>1. ASSUME NEW r \in Tables
        PROVE  \/ reads'[r].state = reads[r].state /\ ~Adds(1, r)
               \/ reads'[r].state \in {"listening", "gone"}
    <3>1. r \in Reads /\ ~Adds(1, r)
      BY <1>3, DocumentReadsAssumption DEF Adds, Operation
    <3> QED BY <1>7, <1>10, <3>1
  <2> QED BY <1>1, <1>2, <2>1, TablesTaken
<1>15. Listened(reads') = Listened(left)
  BY <1>10, ListenedSame
<1>16. TablesTimed'
  <2> SUFFICES ASSUME NEW r \in Tables, reads'[r].state \in {"asked", "listening"}
               PROVE  Timed(remote')
    BY DEF TablesTimed
  <2>1. r \in Reads /\ r # c /\ left[r].state = "listening" /\ reads[r].state = "listening"
    BY <1>7, <1>10, <1>13, DocumentReadsAssumption
  <2>2. QueryOf[r] \in Listened(left)
    BY <2>1 DEF Listened
  <2>3. Timed(remote)
    BY <1>1, <2>1 DEF TablesTimed
  <2> QED BY <1>5, <2>2, <2>3
<1> QED BY <1>1, <1>5, <1>10, <1>12, <1>14, <1>15, <1>16 DEF WatchInv, AnswersInv, ReadInv

LEMMA WorkerKeeps ==
  ASSUME WatchInv, RunWorker
  PROVE  WatchInv'
<1>1. /\ worker # <<>> /\ worker' = Tail(worker)
      /\ UNCHANGED <<server, refused, answers>>
      /\ IF Head(worker).op = "Add" THEN AddQueryListener(Head(worker).read)
         ELSE RemoveQueryListener(Head(worker).read)
  BY DEF RunWorker
<1>2. Head(worker) \in Operations
  <2>1. worker \in Seq(Operations)
    BY DEF WatchInv, AnswersInv, Typed
  <2> QED BY <1>1, <2>1, WorkerShifts
<1>3. PICK c \in Reads : c = Head(worker).read
  BY <1>2 DEF Operations
<1>4. CASE Head(worker).op = "Add"
  <2>1. Head(worker) = Operation("Add", c)
    BY <1>2, <1>3, <1>4 DEF Operations, Operation
  <2>2. AddQueryListener(c)
    BY <1>1, <1>3, <1>4
  <2> QED BY <1>1, <2>1, <2>2, AddKeeps
<1>5. CASE Head(worker).op = "Remove"
  <2>1. Head(worker) = Operation("Remove", c)
    BY <1>2, <1>3, <1>5 DEF Operations, Operation
  <2>2. RemoveQueryListener(c)
    BY <1>1, <1>3, <1>5
  <2> QED BY <1>1, <2>1, <2>2, RemoveKeeps
<1> QED BY <1>2, <1>4, <1>5 DEF Operations

-----------------------------------------------------------------------------
(* The beginning and every step *)

LEMMA FirstRecord ==
  ASSUME Init
  PROVE  /\ Rests(remote) /\ Timed(remote) /\ Listening(remote) = {}
         /\ server \in [Queries -> 0..MaxVersion] /\ refused = {}
<1>1. /\ remote = [stream |-> "Initial", closes |-> 0, tokens |-> {},
                   backoff |-> FALSE, idle |-> FALSE, enabled |-> TRUE,
                   online |-> "Unknown", failures |-> 0, timer |-> FALSE,
                   targets |-> <<>>, aggregator |-> NewAggregator,
                   up |-> <<>>, down |-> <<>>, served |-> {}, broken |-> {}]
      /\ server = [q \in Queries |-> 0] /\ refused = {}
  BY DEF Init, RemoteInit
<1>2. <<>> \in Targets
  <2>1. <<>> \in [{} -> Versions]
    OBVIOUS
  <2> QED BY <2>1 DEF Targets
<1>3. <<>> \in Seq(Request) /\ <<>> \in Seq(Response)
  OBVIOUS
<1>4. remote \in WatchRec
  BY <1>1, <1>2, <1>3, NewAggregatorTyped DEF WatchRec
<1>5. ~IsStarted(remote) /\ ~IsOpen(remote) /\ Listening(remote) = {}
  BY <1>1 DEF IsStarted, IsOpen, Listening
<1>6. Rests(remote) /\ Timed(remote)
  BY <1>1, <1>4, <1>5 DEF Rests, Sound, Timed
<1>7. server \in [Queries -> 0..MaxVersion]
  BY <1>1, RemoteWatchAssumption
<1> QED BY <1>1, <1>5, <1>6, <1>7

\* The tables are asked for once each.
LEMMA FirstOperations ==
  ASSUME Init
  PROVE  /\ worker \in Seq(Operations)
         /\ \A i \in DOMAIN worker : \E r \in Tables : worker[i] = Operation("Add", r)
         /\ \A i, j \in DOMAIN worker : worker[i] = worker[j] => i = j
         /\ \A r \in Tables : \E i \in DOMAIN worker : worker[i] = Operation("Add", r)
<1> DEFINE T == {Operation("Add", r) : r \in Tables}
<1>1. worker = SetToSeq(T)
  BY DEF Init
<1>2. Tables \subseteq Reads /\ IsFiniteSet(Tables)
  BY DocumentReadsAssumption, FS_Subset
<1>3. T \subseteq Operations
  BY <1>2 DEF Operation, Operations
<1>4. IsFiniteSet(T)
  <2> DEFINE f == [r \in Tables |-> Operation("Add", r)]
  <2>1. f \in Surjection(Tables, T)
    BY DEF Surjection
  <2> HIDE DEF f, T
  <2> QED BY <1>2, <2>1, FS_Surjection
<1>5. \A r \in Tables : Operation("Add", r) \in T
  OBVIOUS
<1>6. \A x \in T : \E r \in Tables : x = Operation("Add", r)
  OBVIOUS
<1> HIDE DEF T
<1>7. /\ worker \in Seq(T)
      /\ \A i, j \in DOMAIN worker : worker[i] = worker[j] => i = j
      /\ \A x \in T : \E i \in DOMAIN worker : worker[i] = x
  BY <1>1, <1>4, SetToSeqIs
<1>8. worker \in Seq(Operations)
  BY <1>3, <1>7, SeqMonotonic
<1>9. \A i \in DOMAIN worker : worker[i] \in T
  BY <1>7, ElementOfSeq, LenProperties
<1> QED BY <1>5, <1>6, <1>7, <1>8, <1>9

LEMMA InitWatch ==
  ASSUME Init
  PROVE  WatchInv
<1>1. /\ Rests(remote) /\ Timed(remote) /\ Listening(remote) = {}
      /\ server \in [Queries -> 0..MaxVersion] /\ refused = {}
  BY FirstRecord
<1>2. /\ worker \in Seq(Operations)
      /\ \A i \in DOMAIN worker : \E r \in Tables : worker[i] = Operation("Add", r)
      /\ \A i, j \in DOMAIN worker : worker[i] = worker[j] => i = j
      /\ \A r \in Tables : \E i \in DOMAIN worker : worker[i] = Operation("Add", r)
  BY FirstOperations
<1>3. /\ reads = [r \in Reads |->
                    [state |-> IF r \in Tables THEN "asked" ELSE "idle",
                     raised |-> FALSE, muted |-> FALSE, since |-> 0]]
      /\ views = <<>> /\ executor = <<>> /\ answers = [r \in Reads |-> <<>>]
      /\ opened = server
  BY DEF Init
<1>4. stored \in Results
  BY DEF Init, Results
<1>5. reads \in [Reads -> Listener]
  <2>1. 0 \in Versions
    BY RemoteWatchAssumption DEF Versions, NotKnown
  <2> QED BY <1>3, <2>1 DEF Listener
<1>6. \A r \in Reads : /\ reads[r].state = IF r \in Tables THEN "asked" ELSE "idle"
                       /\ ~reads[r].muted /\ answers[r] = <<>>
  BY <1>3
<1>7. views \in Views /\ DOMAIN views = {}
  <2>1. <<>> \in [{} -> BOOLEAN] /\ DOMAIN <<>> = {}
    OBVIOUS
  <2> QED BY <1>3, <2>1 DEF Views
<1>8. executor \in Seq(Delivery) /\ answers \in [Reads -> Seq(Event)]
  BY <1>3
<1>9. remote \in WatchRec
  BY <1>1 DEF Rests, Sound
<1>10. Typed
  BY <1>1, <1>2, <1>3, <1>4, <1>5, <1>7, <1>8, <1>9 DEF Typed
<1>11. ASSUME NEW r \in Reads PROVE AddedOnce(r) /\ ErrorIsLast(r) /\ AnsweredThenSilent(r)
  <2>1. \A i \in Nat : ~Tells(i, r)
    BY <1>3 DEF Tells
  <2>2. \A i \in Nat : ~Removes(i, r)
    BY <1>2 DEF Removes, Operation
  <2>3. \A i, j \in Nat : Adds(i, r) /\ Adds(j, r) => i = j
    BY <1>2 DEF Adds
  <2>4. \A i \in Nat : Adds(i, r) => reads[r].state = "asked"
    BY <1>2, <1>6 DEF Adds, Operation
  <2>5. AddedOnce(r)
    BY <1>6, <2>1, <2>2, <2>3, <2>4 DEF AddedOnce
  <2> QED BY <1>6, <2>1, <2>5 DEF ErrorIsLast, AnsweredThenSilent
<1>12. TablesFirst
  <2>1. \A r \in Tables : reads[r].state # "idle"
    BY <1>6, DocumentReadsAssumption
  <2>2. ASSUME NEW r \in Tables PROVE \E i \in Nat : Adds(i, r)
    <3>1. PICK i \in DOMAIN worker : worker[i] = Operation("Add", r)
      BY <1>2
    <3>2. i \in Nat
      BY <1>2, <3>1, LenProperties
    <3> QED BY <3>1, <3>2 DEF Adds
  <2>3. ASSUME NEW i \in Nat, NEW j \in Nat, NEW r \in Tables, Adds(j, r), i \in 1..j
        PROVE  worker[i].op = "Add"
    <3>1. i \in DOMAIN worker
      BY <1>2, <2>3, LenProperties DEF Adds
    <3> QED BY <1>2, <3>1 DEF Operation
  <2> QED BY <2>1, <2>2, <2>3 DEF TablesFirst
<1>13. Listened(reads) = {}
  BY <1>6 DEF Listened
<1>14. TablesTimed
  BY <1>1 DEF TablesTimed
<1> QED BY <1>1, <1>7, <1>10, <1>11, <1>12, <1>13, <1>14 DEF WatchInv, AnswersInv

LEMMA StepKeepsWatch ==
  ASSUME WatchInv, [Next]_vars
  PROVE  WatchInv'
<1>1. /\ Rests(remote) /\ server \in [Queries -> 0..MaxVersion] /\ refused \subseteq Queries
  BY DEF WatchInv, AnswersInv, Typed
<1>2. ASSUME NEW r \in Reads, GetDocument(r) PROVE WatchInv'
  BY <1>2, AskedKeeps
<1>3. CASE RunWorker
  BY <1>3, WorkerKeeps
<1>4. CASE RunExecutor
  BY <1>4, DeliveredKeeps
<1>5. CASE StreamRead
  BY <1>5, StreamReadKeeps
<1>6. CASE ClientSteps /\ HandleOnlineStateChange
  <2>1. /\ Rests(remote') /\ remote'.targets = remote.targets
        /\ Timed(remote) => Timed(remote')
        /\ server' = server /\ refused' = refused
    BY <1>1, <1>6, ClientRests
  <2>2. Listening(remote') = Listening(remote)
    BY <2>1 DEF Listening
  <2> QED BY <1>1, <1>6, <2>1, <2>2, ClientStep
<1>7. CASE BackendAnswers /\ HandleOnlineStateChange
  <2>1. /\ Rests(remote') /\ remote'.targets = remote.targets
        /\ Timed(remote) => Timed(remote')
        /\ server' = server /\ refused' = refused
    BY <1>1, <1>7, AnswersRest
  <2>2. Listening(remote') = Listening(remote)
    BY <2>1 DEF Listening
  <2> QED BY <1>1, <1>7, <2>1, <2>2, ClientStep
<1>8. CASE BackendRefuses /\ HandleOnlineStateChange
  <2>1. /\ Rests(remote') /\ remote'.targets = remote.targets
        /\ Timed(remote) => Timed(remote')
        /\ server' = server /\ refused' \subseteq Queries
    BY <1>1, <1>8, RefusesRest
  <2>2. Listening(remote') = Listening(remote)
    BY <2>1 DEF Listening
  <2> QED BY <1>1, <1>8, <2>1, <2>2, ClientStep
<1>9. ASSUME NEW q \in Queries, BackendChanges(q), HandleOnlineStateChange
      PROVE  WatchInv'
  <2>1. /\ Rests(remote') /\ remote'.targets = remote.targets
        /\ Timed(remote) => Timed(remote')
        /\ server' \in [Queries -> 0..MaxVersion] /\ refused' = refused
    BY <1>1, <1>9, ChangesRest
  <2>2. Listening(remote') = Listening(remote)
    BY <2>1 DEF Listening
  <2> QED BY <1>1, <1>9, <2>1, <2>2, ClientStep
<1>10. CASE UNCHANGED vars
  <2>1. /\ remote' = remote /\ server' = server /\ refused' = refused /\ reads' = reads
        /\ views' = views /\ stored' = stored /\ worker' = worker
        /\ executor' = executor /\ answers' = answers /\ opened' = opened
    BY <1>10 DEF vars, remoteVars, readVars
  <2>2. \A i \in Nat : \A r : /\ Adds(i, r)' <=> Adds(i, r)
                              /\ Removes(i, r)' <=> Removes(i, r)
                              /\ Tells(i, r)' <=> Tells(i, r)
    BY <2>1 DEF Adds, Removes, Tells
  <2>3. Typed'
    BY <2>1 DEF WatchInv, AnswersInv, Typed
  <2>4. ASSUME NEW r \in Reads
        PROVE  AddedOnce(r)' /\ ErrorIsLast(r)' /\ AnsweredThenSilent(r)'
    <3>1. AddedOnce(r) /\ ErrorIsLast(r) /\ AnsweredThenSilent(r)
      BY DEF WatchInv, AnswersInv
    <3>2. AddedOnce(r)'
      BY <2>1, <2>2, <3>1 DEF AddedOnce
    <3>3. ErrorIsLast(r)'
      BY <2>1, <2>2, <3>1 DEF ErrorIsLast
    <3>4. AnsweredThenSilent(r)'
      BY <2>1, <2>2, <3>1 DEF AnsweredThenSilent
    <3> QED BY <3>2, <3>3, <3>4
  <2>5. TablesFirst'
    BY <2>1, TablesSame DEF WatchInv
  <2>6. TablesTimed'
    BY <2>1 DEF WatchInv, TablesTimed
  <2> QED BY <2>1, <2>3, <2>4, <2>5, <2>6 DEF WatchInv, AnswersInv
<1> QED
  BY <1>2, <1>3, <1>4, <1>5, <1>6, <1>7, <1>8, <1>9, <1>10
  DEF Next, OnClient, ClientSteps

-----------------------------------------------------------------------------
(* What a wire holds *)

\* How many messages of a wire are among these.
Places(wire, ms)  == {i \in DOMAIN wire : wire[i] \in ms}
CountIn(wire, ms) == Cardinality(Places(wire, ms))

LEMMA PlacesFinite ==
  ASSUME NEW X, NEW wire \in Seq(X), NEW ms
  PROVE  IsFiniteSet(Places(wire, ms)) /\ CountIn(wire, ms) \in Nat
<1>1. Len(wire) \in Nat /\ DOMAIN wire = 1..Len(wire)
  BY LenProperties
<1>2. IsFiniteSet(1..Len(wire))
  BY <1>1, FS_Interval
<1>3. Places(wire, ms) \subseteq 1..Len(wire)
  BY <1>1 DEF Places
<1>4. IsFiniteSet(Places(wire, ms))
  BY <1>2, <1>3, FS_Subset
<1> QED BY <1>4, FS_CardinalityType DEF CountIn

LEMMA CountNone ==
  ASSUME NEW wire, NEW ms, \A i \in DOMAIN wire : wire[i] \notin ms
  PROVE  CountIn(wire, ms) = 0
<1>1. Places(wire, ms) = {}
  BY DEF Places
<1> QED BY <1>1, FS_EmptySet DEF CountIn

LEMMA CountOnce ==
  ASSUME NEW wire, NEW ms, NEW i \in DOMAIN wire, wire[i] \in ms,
         \A j \in DOMAIN wire : wire[j] \in ms => j = i
  PROVE  CountIn(wire, ms) = 1
<1>1. Places(wire, ms) = {i}
  BY DEF Places
<1> QED BY <1>1, FS_Singleton DEF CountIn

LEMMA CountBoth ==
  ASSUME NEW X, NEW a \in Seq(X), NEW b \in Seq(X), NEW ms
  PROVE  CountIn(a \o b, ms) = CountIn(a, ms) + CountIn(b, ms)
<1> DEFINE A == Places(a, ms)
           B == Places(b, ms)
           n == Len(a)
           f == [k \in B |-> n + k]
           C == {n + k : k \in B}
<1>1. /\ n \in Nat /\ Len(b) \in Nat /\ DOMAIN a = 1..n /\ DOMAIN b = 1..Len(b)
      /\ a \o b \in Seq(X) /\ Len(a \o b) = n + Len(b)
      /\ \A i \in 1..(n + Len(b)) : (a \o b)[i] = IF i <= n THEN a[i] ELSE b[i - n]
  BY LenProperties, ConcatProperties
<1>2. DOMAIN (a \o b) = 1..(n + Len(b))
  BY <1>1, LenProperties
<1>3. IsFiniteSet(A) /\ IsFiniteSet(B) /\ Cardinality(A) \in Nat /\ Cardinality(B) \in Nat
  BY PlacesFinite DEF CountIn
<1>4. A \subseteq 1..n /\ B \subseteq 1..Len(b)
  BY <1>1 DEF Places
<1>5. Places(a \o b, ms) = A \cup C
  <2>1. ASSUME NEW i \in Places(a \o b, ms) PROVE i \in A \cup C
    <3>1. i \in 1..(n + Len(b)) /\ (a \o b)[i] \in ms
      BY <1>2 DEF Places
    <3>2. CASE i <= n
      BY <1>1, <3>1, <3>2 DEF Places
    <3>3. CASE i > n
      <4>1. i - n \in 1..Len(b) /\ b[i - n] \in ms
        BY <1>1, <3>1, <3>3
      <4>2. PICK k \in 1..Len(b) : k = i - n
        BY <4>1
      <4>3. k \in B /\ i = n + k
        BY <1>1, <3>1, <4>1, <4>2 DEF Places
      <4> QED BY <4>3
    <3> QED BY <1>1, <3>1, <3>2, <3>3
  <2>2. ASSUME NEW i \in A PROVE i \in Places(a \o b, ms)
    BY <1>1, <1>2 DEF Places
  <2>3. ASSUME NEW k \in B PROVE n + k \in Places(a \o b, ms)
    <3>1. k \in 1..Len(b) /\ b[k] \in ms
      BY <1>1 DEF Places
    <3>2. PICK i \in Nat : i = n + k
      BY <1>1, <3>1
    <3>3. i \in 1..(n + Len(b)) /\ i > n /\ i - n = k
      BY <1>1, <3>1, <3>2
    <3>4. (a \o b)[i] = b[k]
      BY <1>1, <3>3
    <3> QED BY <1>2, <3>1, <3>2, <3>3, <3>4 DEF Places
  <2> QED BY <2>1, <2>2, <2>3
<1>6. A \cap C = {}
  BY <1>1, <1>4
<1>7. f \in Bijection(B, C)
  <2>1. f \in [B -> C]
    OBVIOUS
  <2>2. \A k, l \in B : f[k] = f[l] => k = l
    BY <1>1, <1>4
  <2>3. \A c \in C : \E k \in B : f[k] = c
    OBVIOUS
  <2> QED BY <2>1, <2>2, <2>3 DEF Bijection, Injection, Surjection, IsInjective
<1> HIDE DEF f, C, A, B
<1>8. IsFiniteSet(C) /\ Cardinality(C) = Cardinality(B)
  BY <1>3, <1>7, FS_Bijection DEF ExistsBijection
<1>9. Cardinality(A \cup C) = Cardinality(A) + Cardinality(C) - Cardinality(A \cap C)
  BY <1>3, <1>8, FS_Union
<1>10. Cardinality(A \cap C) = 0
  BY <1>6, FS_EmptySet
<1> QED BY <1>3, <1>5, <1>8, <1>9, <1>10 DEF CountIn, A, B

LEMMA CountSingle ==
  ASSUME NEW m, NEW ms
  PROVE  CountIn(<<m>>, ms) = IF m \in ms THEN 1 ELSE 0
<1>1. DOMAIN <<m>> = {1} /\ <<m>>[1] = m
  OBVIOUS
<1>2. CASE m \in ms
  BY <1>1, <1>2, CountOnce
<1>3. CASE m \notin ms
  BY <1>1, <1>3, CountNone
<1> QED BY <1>2, <1>3

LEMMA CountHead ==
  ASSUME NEW X, NEW wire \in Seq(X), wire # <<>>, NEW ms
  PROVE  CountIn(wire, ms) =
           CountIn(Tail(wire), ms) + IF Head(wire) \in ms THEN 1 ELSE 0
<1>1. PICK h \in X, t \in Seq(X) : h = Head(wire) /\ t = Tail(wire)
  BY HeadTailProperties
<1>2. <<h>> \in Seq(X)
  OBVIOUS
<1>3. wire = <<h>> \o t
  BY <1>1, ConcatProperties, HeadTailProperties
<1>4. CountIn(<<h>> \o t, ms) = CountIn(<<h>>, ms) + CountIn(t, ms)
  BY <1>2, CountBoth
<1>5. CountIn(<<h>>, ms) = IF h \in ms THEN 1 ELSE 0
  BY CountSingle
<1>6. CountIn(t, ms) \in Nat
  BY PlacesFinite
<1>7. CountIn(wire, ms) = CountIn(t, ms) + IF h \in ms THEN 1 ELSE 0
  <2>1. CountIn(wire, ms) = CountIn(<<h>>, ms) + CountIn(t, ms)
    BY <1>3, <1>4
  <2> QED BY <1>5, <1>6, <2>1
<1> QED BY <1>1, <1>7

-----------------------------------------------------------------------------
(* The responses that are still to come *)

Asks(q)    == {m \in Request : m.query = q}
Replies(q) == {m \in Response : m.query = q /\ m.type \in {"Added", "Removed"}}
Awaited(s, q) == CountIn(s.up, Asks(q)) + CountIn(s.down, Replies(q))
Pending(s, q) == s.aggregator.states[q].pending

\* On an open stream the aggregator counts what the wires hold; of the queries
\* in qs a listen was refused.
Counted(s, qs) ==
  /\ ~IsOpen(s) => s.up = <<>> /\ s.down = <<>> /\ s.served = {}
  /\ s.stream \in {"Starting", "Backoff"} => \A q \in Queries : Pending(s, q) = 0
  /\ IsOpen(s) => \A q \in Queries \ qs : Pending(s, q) = Awaited(s, q)
  /\ \A i \in DOMAIN s.down : s.down[i].type = "Rejected" => s.down[i].query \in qs

LEMMA CountedSame ==
  ASSUME NEW s, NEW t, NEW qs, Counted(s, qs), t.stream = s.stream, t.up = s.up,
         t.down = s.down, t.served = s.served, t.aggregator = s.aggregator
  PROVE  Counted(t, qs)
BY DEF Counted, IsOpen, Awaited, Pending

\* A stream that starts waits for the credentials of its attempt.
Starting(s) == s.stream = "Starting" => s.closes \in s.tokens

\* A stream that is not open, with nothing on its wires and, once it is
\* started, nothing to wait for but its credentials.
Fresh(s) ==
  /\ s.up = <<>> /\ s.down = <<>> /\ s.served = {} /\ ~IsOpen(s)
  /\ IsStarted(s) => s.aggregator = NewAggregator
  /\ Starting(s)

LEMMA FreshCounted == ASSUME NEW s, Fresh(s), NEW qs PROVE Counted(s, qs)
<1>1. /\ s.up = <<>> /\ s.down = <<>>
      /\ s.served = {} /\ ~IsOpen(s) /\ DOMAIN s.down = {}
      /\ IsStarted(s) => s.aggregator = NewAggregator
  BY DEF Fresh
<1>2. \A q \in Queries : NewAggregator.states[q].pending = 0
  BY DEF NewAggregator, NoTargetState
<1>3. s.stream \in {"Starting", "Backoff"} => \A q \in Queries : Pending(s, q) = 0
  BY <1>1, <1>2 DEF IsStarted, Pending
<1> QED BY <1>1, <1>3 DEF Counted

\* An assertion that fails touches nothing that counts.
Failing(s, name) == [s EXCEPT !.broken = @ \cup {name}]

LEMMA FailingSame ==
  ASSUME NEW s \in WatchRec, NEW name \in Assertions
  PROVE  LET t == Failing(s, name)
         IN  /\ t \in WatchRec /\ t.stream = s.stream /\ t.up = s.up /\ t.down = s.down
             /\ t.served = s.served
             /\ t.aggregator = s.aggregator /\ t.enabled = s.enabled
             /\ t.targets = s.targets /\ (Starting(t) <=> Starting(s))
<1> DEFINE broken == s.broken \cup {name}
           t == [s EXCEPT !.broken = broken]
<1>1. Failing(s, name) = t
  BY DEF Failing
<1>2. broken \in SUBSET Assertions
  BY DEF WatchRec
<1> HIDE DEF broken
<1>3. t \in WatchRec
  BY <1>2 DEF WatchRec
<1>4. /\ t.stream = s.stream /\ t.up = s.up /\ t.down = s.down
      /\ t.served = s.served
      /\ t.aggregator = s.aggregator /\ t.enabled = s.enabled /\ t.targets = s.targets
      /\ (Starting(t) <=> Starting(s))
  BY DEF WatchRec, Starting
<1> QED BY <1>1, <1>3, <1>4

LEMMA StartsFresh ==
  ASSUME NEW s \in WatchRec, ~IsStarted(s), s.up = <<>>, s.down = <<>>, s.served = {},
         ShouldStartWatchStream(s)
  PROVE  Fresh(StartWatchStream(s))
<1> DEFINE a == [s EXCEPT !.aggregator = NewAggregator]
           b == Start(a)
           t == StartWatchStream(s)
<1>1. s.stream \in {"Initial", "Error"}
  BY NoneStarted
<1>2. t = HandleWatchStreamStart(b)
  BY DEF StartWatchStream, Check
<1>3. /\ a \in WatchRec /\ a.stream = s.stream /\ a.aggregator = NewAggregator
      /\ a.up = <<>> /\ a.down = <<>> /\ a.served = {}
  BY NewAggregatorTyped DEF WatchRec
<1> HIDE DEF a, t
<1>4. /\ b \in WatchRec /\ b.stream \in {"Starting", "Backoff"} /\ b.up = <<>>
      /\ b.down = <<>> /\ b.served = {} /\ b.aggregator = NewAggregator
      /\ Starting(b)
  <2>1. CASE a.stream = "Error"
    <3>1. b = [a EXCEPT !.stream = "Backoff", !.backoff = TRUE]
      BY <2>1 DEF Start
    <3> HIDE DEF b
    <3>2. b \in WatchRec
      BY <1>3, <3>1 DEF WatchRec
    <3> QED BY <1>3, <3>1, <3>2 DEF WatchRec, Starting
  <2>2. CASE a.stream = "Initial"
    <3> DEFINE c == [a EXCEPT !.stream = "Starting"]
    <3>1. b = [c EXCEPT !.tokens = c.tokens \cup {c.closes}]
      BY <2>2 DEF Start, RequestCredentials, Check
    <3>2. /\ c \in WatchRec /\ c.stream = "Starting" /\ c.up = <<>> /\ c.down = <<>>
          /\ c.served = {}
          /\ c.aggregator = NewAggregator
      BY <1>3 DEF WatchRec
    <3> HIDE DEF b, c
    <3>3. PICK tokens \in SUBSET Nat : tokens = c.tokens \cup {c.closes}
      BY <3>2 DEF WatchRec
    <3>4. b = [c EXCEPT !.tokens = tokens]
      BY <3>1, <3>3
    <3>5. b \in WatchRec
      BY <3>2, <3>4 DEF WatchRec
    <3>6. b.closes \in b.tokens
      BY <3>2, <3>3, <3>4 DEF WatchRec
    <3> QED BY <3>2, <3>4, <3>5, <3>6 DEF WatchRec, Starting
  <2> QED BY <1>1, <1>3, <2>1, <2>2
<1> HIDE DEF b
<1>5. CASE b.failures # 0
  BY <1>2, <1>4, <1>5 DEF HandleWatchStreamStart, Fresh, IsOpen, t
<1>6. CASE b.failures = 0
  <2> DEFINE c == Check(b, ~b.timer, "online timer started twice")
  <2>1. t = [c EXCEPT !.online = "Unknown", !.timer = TRUE]
    BY <1>2, <1>6 DEF HandleWatchStreamStart
  <2>2. /\ c \in WatchRec /\ c.stream = b.stream /\ c.up = b.up /\ c.down = b.down
        /\ c.served = b.served
        /\ c.aggregator = b.aggregator /\ (Starting(c) <=> Starting(b))
    <3>1. c = b \/ c = Failing(b, "online timer started twice")
      BY DEF Check, Failing
    <3> HIDE DEF c
    <3>2. "online timer started twice" \in Assertions
      BY DEF Assertions
    <3>3. CASE c = Failing(b, "online timer started twice")
      BY <1>4, <3>2, <3>3, FailingSame
    <3> QED BY <1>4, <3>1, <3>3
  <2> HIDE DEF c
  <2>3. /\ t.stream = b.stream /\ t.up = b.up /\ t.down = b.down
        /\ t.served = b.served
        /\ t.aggregator = b.aggregator /\ (Starting(t) <=> Starting(c))
    BY <2>1, <2>2 DEF WatchRec, Starting
  <2> QED BY <1>4, <2>2, <2>3 DEF Fresh, IsOpen, t
<1> QED BY <1>5, <1>6

LEMMA ClosedFresh ==
  ASSUME NEW s \in WatchRec, ~IsStarted(s), s.up = <<>>, s.down = <<>>, s.served = {}, NEW g
  PROVE  Fresh(OnWatchStreamClose(s, g))
<1> DEFINE c == Check(s, g => ~ShouldStartWatchStream(s), "stopped while still needed")
           t == OnWatchStreamClose(s, g)
           u == HandleWatchStreamFailure(c)
<1>1. t = IF ShouldStartWatchStream(c) THEN StartWatchStream(u)
          ELSE UpdateState(c, "Unknown")
  BY DEF OnWatchStreamClose
<1>2. c \in WatchRec /\ c.stream = s.stream /\ c.up = <<>> /\ c.down = <<>>
        /\ c.served = {}
  <2>1. c = s \/ c = Failing(s, "stopped while still needed")
    BY DEF Check, Failing
  <2> HIDE DEF c
  <2>2. "stopped while still needed" \in Assertions
    BY DEF Assertions
  <2>3. CASE c = Failing(s, "stopped while still needed")
    BY <2>2, <2>3, FailingSame
  <2> QED BY <2>1, <2>3
<1> HIDE DEF c, t
<1>3. ~IsStarted(c) /\ ~IsOpen(c)
  BY <1>2 DEF IsStarted, IsOpen
<1>4. CASE ShouldStartWatchStream(c)
  <2>1. /\ u \in WatchRec /\ u.stream = c.stream /\ u.up = <<>> /\ u.down = <<>>
        /\ u.served = {}
        /\ u.enabled = c.enabled /\ u.targets = c.targets
    <3>1. CASE c.online = "Online"
      <4> DEFINE d == Check(c, c.failures = 0 /\ ~c.timer, "online with failures")
      <4>1. u = [d EXCEPT !.online = "Unknown"]
        BY <3>1 DEF HandleWatchStreamFailure
      <4>2. /\ d \in WatchRec /\ d.stream = c.stream /\ d.up = c.up /\ d.down = c.down
            /\ d.served = c.served
            /\ d.enabled = c.enabled /\ d.targets = c.targets
        <5>1. d = c \/ d = Failing(c, "online with failures")
          BY DEF Check, Failing
        <5> HIDE DEF d
        <5>2. "online with failures" \in Assertions
          BY DEF Assertions
        <5>3. CASE d = Failing(c, "online with failures")
          BY <1>2, <5>2, <5>3, FailingSame
        <5> QED BY <1>2, <5>1, <5>3
      <4> HIDE DEF d, u
      <4>4. u \in WatchRec
        BY <4>1, <4>2 DEF WatchRec
      <4> QED BY <1>2, <4>1, <4>2, <4>4 DEF WatchRec
    <3>2. CASE c.online # "Online"
      <4>1. u = [c EXCEPT !.failures = 1, !.timer = FALSE, !.online = "Offline"]
        BY <3>2 DEF HandleWatchStreamFailure
      <4> HIDE DEF u
      <4>2. u \in WatchRec
        BY <1>2, <4>1 DEF WatchRec
      <4> QED BY <1>2, <4>1, <4>2 DEF WatchRec
    <3> QED BY <3>1, <3>2
  <2> HIDE DEF u
  <2>2. ShouldStartWatchStream(u) /\ ~IsStarted(u)
    BY <1>3, <1>4, <2>1 DEF ShouldStartWatchStream, IsStarted, Listening
  <2>3. t = StartWatchStream(u)
    BY <1>1, <1>4
  <2> QED BY <2>1, <2>2, <2>3, StartsFresh DEF t
<1>5. CASE ~ShouldStartWatchStream(c)
  <2>1. t = UpdateState(c, "Unknown")
    BY <1>1, <1>5
  <2>2. t.stream = c.stream /\ t.up = <<>> /\ t.down = <<>> /\ t.served = {}
    BY <1>2, <2>1, UpdateStateIs
  <2> QED BY <1>3, <2>2 DEF Fresh, Starting, IsStarted, IsOpen, t
<1> QED BY <1>4, <1>5

LEMMA CloseFresh ==
  ASSUME NEW s \in WatchRec, NEW g
  PROVE  Fresh(Close(s, g))
<1> DEFINE final == IF g THEN "Initial" ELSE "Error"
           d == Check(s, IsStarted(s), "closing a stopped stream")
           c == [TearDown(s, g) EXCEPT !.served = {}]
<1>1. Close(s, g) = OnWatchStreamClose(c, g)
  BY DEF Close
<1>2. c = [d EXCEPT !.idle = FALSE, !.backoff = FALSE, !.closes = d.closes + 1,
                    !.stream = final, !.up = <<>>, !.down = <<>>, !.served = {}]
  BY DEF TearDown
<1>3. d \in WatchRec /\ final \in {"Initial", "Error"}
  <2>1. d = s \/ d = Failing(s, "closing a stopped stream")
    BY DEF Check, Failing
  <2> HIDE DEF d
  <2>2. "closing a stopped stream" \in Assertions
    BY DEF Assertions
  <2> QED BY <2>1, <2>2, FailingSame
<1> HIDE DEF c, d, final
<1>4. PICK closes \in Nat : closes = d.closes + 1
  BY <1>3 DEF WatchRec
<1>5. c = [d EXCEPT !.idle = FALSE, !.backoff = FALSE, !.closes = closes,
                    !.stream = final, !.up = <<>>, !.down = <<>>, !.served = {}]
  BY <1>2, <1>4
<1>6. c \in WatchRec
  <2>1. <<>> \in Seq(Request) /\ <<>> \in Seq(Response)
    OBVIOUS
  <2> QED BY <1>3, <1>5, <2>1 DEF WatchRec
<1>7. c.stream = final /\ c.up = <<>> /\ c.down = <<>> /\ c.served = {}
  BY <1>3, <1>5 DEF WatchRec
<1>8. ~IsStarted(c)
  BY <1>3, <1>7 DEF IsStarted
<1> QED BY <1>1, <1>6, <1>7, <1>8, ClosedFresh

LEMMA RestartFresh ==
  ASSUME NEW s, Rests(s), ~IsOpen(s) => s.up = <<>> /\ s.down = <<>>
    /\ s.served = {}
  PROVE  Fresh(RestartNetwork(s))
<1> DEFINE disabled == [s EXCEPT !.enabled = FALSE]
           stopped == Stop(disabled)
           down == UpdateState(stopped, "Unknown")
           up == [InhibitBackoff(down) EXCEPT !.enabled = TRUE]
           t == RestartNetwork(s)
<1>1. t = IF ShouldStartWatchStream(up) THEN StartWatchStream(up)
          ELSE UpdateState(up, "Unknown")
  BY DEF RestartNetwork
<1>2. Sound(stopped) /\ ~IsStarted(stopped)
  BY DisabledStops
<1>3. stopped.up = <<>> /\ stopped.down = <<>> /\ stopped.served = {}
  <2>1. CASE IsStarted(disabled)
    <3>1. disabled \in WatchRec
      BY DEF Rests, Sound, WatchRec
    <3> HIDE DEF disabled
    <3>2. stopped = Close(disabled, TRUE)
      BY <2>1 DEF Stop
    <3> HIDE DEF stopped
    <3> QED BY <3>1, <3>2, CloseFresh DEF Fresh
  <2>2. CASE ~IsStarted(disabled)
    <3>1. disabled.stream = s.stream /\ disabled.up = s.up /\ disabled.down = s.down
            /\ disabled.served = s.served
      BY DEF Rests, Sound, WatchRec
    <3> HIDE DEF disabled
    <3>2. stopped = disabled /\ ~IsOpen(s)
      BY <2>2, <3>1 DEF Stop, IsStarted, IsOpen
    <3> QED BY <3>1, <3>2
  <2> QED BY <2>1, <2>2
<1> HIDE DEF stopped, t
<1>4. /\ Sound(down) /\ down.stream = stopped.stream
      /\ down.up = <<>> /\ down.down = <<>> /\ down.served = {}
  <2>1. stopped \in WatchRec
    BY <1>2 DEF Sound
  <2> QED BY <1>2, <1>3, <2>1, UpdateSound, UpdateStateIs
<1> HIDE DEF down
<1>5. ~IsStarted(down) /\ down \in WatchRec
  BY <1>2, <1>4 DEF IsStarted, Sound
<1>6. up = [down EXCEPT !.stream = "Initial", !.enabled = TRUE]
  BY <1>5 DEF InhibitBackoff, Check
<1> HIDE DEF up
<1>7. up \in WatchRec /\ up.stream = "Initial" /\ up.up = <<>> /\ up.down = <<>>
        /\ up.served = {}
  BY <1>4, <1>5, <1>6 DEF WatchRec
<1>8. ~IsStarted(up)
  BY <1>7 DEF IsStarted
<1>9. CASE ShouldStartWatchStream(up)
  BY <1>1, <1>7, <1>8, <1>9, StartsFresh DEF t
<1>10. CASE ~ShouldStartWatchStream(up)
  <2>1. t.stream = up.stream /\ t.up = <<>> /\ t.down = <<>> /\ t.served = {}
    BY <1>1, <1>7, <1>10, UpdateStateIs
  <2> QED BY <1>7, <2>1 DEF Fresh, Starting, IsStarted, IsOpen, t
<1> QED BY <1>9, <1>10

\* Exactly one of the requests is about each of these queries.
Matches(ms, qs) ==
  \A q \in Queries : CountIn(ms, Asks(q)) = IF q \in qs THEN 1 ELSE 0

LEMMA CountsAreInts ==
  ASSUME NEW s \in WatchRec, NEW q \in Queries
  PROVE  /\ CountIn(s.up, Asks(q)) \in Nat /\ CountIn(s.down, Replies(q)) \in Nat
         /\ Awaited(s, q) \in Nat /\ Pending(s, q) \in Int
<1>1. s.up \in Seq(Request) /\ s.down \in Seq(Response) /\ s.aggregator \in Aggregators
  BY DEF WatchRec
<1>2. CountIn(s.up, Asks(q)) \in Nat /\ CountIn(s.down, Replies(q)) \in Nat
  BY <1>1, PlacesFinite
<1>3. Pending(s, q) \in Int
  BY <1>1 DEF Aggregators, TargetState, Pending
<1> QED BY <1>2, <1>3 DEF Awaited

LEMMA RequestsAdded ==
  ASSUME NEW s \in WatchRec, NEW qs \in SUBSET Queries, NEW q \in Queries
  PROVE  Pending(RecordPendingTargetRequests(s, qs), q)
           = Pending(s, q) + IF q \in qs THEN 1 ELSE 0
<1> DEFINE after == [p \in Queries |->
                       IF p \in qs
                       THEN RecordPendingTargetRequest(s.aggregator.states[p])
                       ELSE s.aggregator.states[p]]
           a == [s.aggregator EXCEPT !.states = after]
           t == RecordPendingTargetRequests(s, qs)
<1>1. s.aggregator \in Aggregators
  BY DEF WatchRec
<1>2. s.aggregator.states[q] \in TargetState
  BY <1>1 DEF Aggregators
<1>3. after[q].pending = Pending(s, q) + IF q \in qs THEN 1 ELSE 0
  BY <1>2 DEF TargetState, RecordPendingTargetRequest, Pending
<1>4. t = [s EXCEPT !.aggregator = a]
  BY DEF RecordPendingTargetRequests
<1> HIDE DEF t, after
<1>5. a.states = after
  BY <1>1 DEF Aggregators
<1> HIDE DEF a
<1>6. t.aggregator = a
  BY <1>4 DEF WatchRec
<1> QED BY <1>3, <1>5, <1>6 DEF Pending, t

LEMMA SentCounted ==
  ASSUME NEW s \in WatchRec, IsOpen(s), NEW qs \in SUBSET Queries,
         NEW ms \in Seq(Request), Matches(ms, qs), NEW R, Counted(s, R)
  PROVE  Counted(Send(RecordPendingTargetRequests(s, qs), ms), R)
<1> DEFINE a == RecordPendingTargetRequests(s, qs)
           t == Send(a, ms)
<1>1. a \in WatchRec /\ Alike(s, a) /\ a.up = s.up /\ a.down = s.down
  BY RequestsPending
<1>2. \A q \in Queries : Pending(a, q) = Pending(s, q) + IF q \in qs THEN 1 ELSE 0
  BY RequestsAdded
<1> HIDE DEF a
<1>3. IsOpen(a)
  BY <1>1 DEF IsOpen, Alike
<1>4. t = [a EXCEPT !.idle = FALSE, !.up = a.up \o ms]
  BY <1>3 DEF Send, Check
<1> HIDE DEF t
<1>5. /\ t.up = s.up \o ms /\ t.down = s.down /\ t.stream = s.stream
      /\ t.aggregator = a.aggregator
  BY <1>1, <1>4 DEF WatchRec, Alike
<1>6. s.up \in Seq(Request)
  BY DEF WatchRec
<1>7. ASSUME NEW q \in Queries \ R PROVE Pending(t, q) = Awaited(t, q)
  <2>1. CountIn(t.up, Asks(q)) = CountIn(s.up, Asks(q)) + CountIn(ms, Asks(q))
    BY <1>5, <1>6, CountBoth
  <2>2. CountIn(ms, Asks(q)) = IF q \in qs THEN 1 ELSE 0
    BY DEF Matches
  <2>3. Pending(s, q) = CountIn(s.up, Asks(q)) + CountIn(s.down, Replies(q))
    BY DEF Counted, Awaited
  <2>4. Pending(t, q) = Pending(s, q) + IF q \in qs THEN 1 ELSE 0
    BY <1>2, <1>5 DEF Pending
  <2>5. CountIn(s.up, Asks(q)) \in Nat /\ CountIn(s.down, Replies(q)) \in Nat
    BY CountsAreInts
  <2>6. CountIn(t.down, Replies(q)) = CountIn(s.down, Replies(q))
    BY <1>5
  <2>7. Awaited(t, q) = CountIn(t.up, Asks(q)) + CountIn(t.down, Replies(q))
    BY DEF Awaited
  <2> HIDE DEF t, a
  <2> QED BY <2>1, <2>2, <2>3, <2>4, <2>5, <2>6, <2>7
<1>8. t.stream \notin {"Starting", "Backoff"} /\ IsOpen(t)
  BY <1>5 DEF IsOpen
<1>9. \A i \in DOMAIN t.down : t.down[i].type = "Rejected" => t.down[i].query \in R
  BY <1>5 DEF Counted
<1> QED BY <1>7, <1>8, <1>9 DEF Counted, t, a

LEMMA WatchRequestsCounted ==
  ASSUME NEW s \in WatchRec, IsOpen(s), NEW qs \in SUBSET Listening(s),
         NEW R, Counted(s, R)
  PROVE  Counted(SendWatchRequests(s, qs), R)
<1> DEFINE T == {WatchRequest(s, q) : q \in qs}
           ms == SetToSeq(T)
<1>1. s.targets \in Targets
  BY DEF WatchRec
<1>2. qs \in SUBSET Queries /\ IsFiniteSet(qs) /\ \A q \in qs : s.targets[q] \in Versions
  BY <1>1, TargetsAre, FS_Subset DEF Listening
<1>3. T \subseteq Request
  BY <1>2 DEF WatchRequest, Request
<1>4. IsFiniteSet(T)
  <2> DEFINE f == [q \in qs |-> WatchRequest(s, q)]
  <2>1. f \in Surjection(qs, T)
    BY DEF Surjection
  <2> HIDE DEF f, T
  <2> QED BY <1>2, <2>1, FS_Surjection
<1>5. \A q \in Queries : \A m \in T : m \in Asks(q) <=> m = WatchRequest(s, q)
  BY <1>3 DEF WatchRequest, Asks
<1>6. \A q \in Queries : WatchRequest(s, q) \in T <=> q \in qs
  BY DEF WatchRequest
<1> HIDE DEF T
<1>7. ms \in Seq(T) /\ ms \in Seq(Request)
  BY <1>3, <1>4, SetToSeqIs, SeqMonotonic
<1>8. Matches(ms, qs)
  <2> SUFFICES ASSUME NEW q \in Queries
               PROVE  CountIn(ms, Asks(q)) = IF q \in qs THEN 1 ELSE 0
    BY DEF Matches
  <2>1. \A i \in DOMAIN ms : ms[i] \in T
    BY <1>7, ElementOfSeq, LenProperties
  <2>2. CASE q \in qs
    <3>1. WatchRequest(s, q) \in T /\ WatchRequest(s, q) \in Asks(q)
      BY <1>5, <1>6, <2>2
    <3>2. PICK i \in DOMAIN ms : ms[i] = WatchRequest(s, q)
      BY <1>4, <3>1, SetToSeqIs
    <3>3. \A j \in DOMAIN ms : ms[j] \in Asks(q) => j = i
      BY <1>4, <1>5, <2>1, <3>2, SetToSeqIs
    <3> HIDE DEF ms
    <3> QED BY <2>2, <3>1, <3>2, <3>3, CountOnce
  <2>3. CASE q \notin qs
    <3>1. \A i \in DOMAIN ms : ms[i] \notin Asks(q)
      BY <1>5, <1>6, <2>1, <2>3
    <3> HIDE DEF ms
    <3> QED BY <2>3, <3>1, CountNone
  <2> QED BY <2>2, <2>3
<1>9. SendWatchRequests(s, qs) = Send(RecordPendingTargetRequests(s, qs), ms)
  BY DEF SendWatchRequests, T
<1> QED BY <1>2, <1>7, <1>8, <1>9, SentCounted

LEMMA UnwatchCounted ==
  ASSUME NEW s \in WatchRec, IsOpen(s), NEW q \in Queries, NEW R, Counted(s, R)
  PROVE  Counted(SendUnwatchRequest(s, q), R)
<1> DEFINE m == [type |-> "Unwatch", query |-> q]
<1>1. m \in Request /\ \A p \in Queries : m \in Asks(p) <=> p \in {q}
  BY DEF Request, Asks
<1>2. SendUnwatchRequest(s, q) = Send(RecordPendingTargetRequests(s, {q}), <<m>>)
  BY DEF SendUnwatchRequest
<1> HIDE DEF m
<1>3. <<m>> \in Seq(Request)
  BY <1>1
<1>4. Matches(<<m>>, {q})
  BY <1>1, CountSingle DEF Matches
<1> QED BY <1>2, <1>3, <1>4, SentCounted

LEMMA ListenCounted ==
  ASSUME NEW s, Rests(s), NEW q \in Queries, q \notin Listening(s),
         NEW known \in Versions, NEW R, Counted(s, R)
  PROVE  Counted(Listen(s, q, known), R)
<1> DEFINE targets == Put(s.targets, q, known)
           added == [s EXCEPT !.targets = targets]
           t == Listen(s, q, known)
<1>1. s \in WatchRec
  BY DEF Rests, Sound
<1>2. targets \in Targets /\ DOMAIN targets = Listening(s) \cup {q}
  <2>1. s.targets \in Targets
    BY <1>1 DEF WatchRec
  <2> QED BY <2>1, AddedTargets DEF Listening
<1>3. t = IF ShouldStartWatchStream(added) THEN StartWatchStream(added)
          ELSE IF IsOpen(added) THEN SendWatchRequests(added, {q}) ELSE added
  BY DEF Listen
<1> HIDE DEF targets, t
<1>4. /\ added \in WatchRec /\ added.stream = s.stream /\ added.up = s.up
      /\ added.down = s.down
      /\ added.served = s.served /\ added.aggregator = s.aggregator /\ added.targets = targets
  BY <1>1, <1>2 DEF WatchRec
<1> HIDE DEF added
<1>5. Counted(added, R)
  BY <1>4, CountedSame
<1>6. CASE ShouldStartWatchStream(added)
  <2>1. ~IsStarted(added) /\ ~IsOpen(s)
    BY <1>4, <1>6 DEF ShouldStartWatchStream, IsStarted, IsOpen
  <2>2. added.up = <<>> /\ added.down = <<>> /\ added.served = {}
    BY <1>4, <2>1 DEF Counted
  <2> QED BY <1>3, <1>4, <1>6, <2>1, <2>2, StartsFresh, FreshCounted DEF t
<1>7. CASE ~ShouldStartWatchStream(added) /\ IsOpen(added)
  <2>1. {q} \in SUBSET Listening(added)
    BY <1>2, <1>4 DEF Listening
  <2> QED BY <1>3, <1>4, <1>5, <1>7, <2>1, WatchRequestsCounted DEF t
<1>8. CASE ~ShouldStartWatchStream(added) /\ ~IsOpen(added)
  BY <1>3, <1>5, <1>8 DEF t
<1> QED BY <1>6, <1>7, <1>8

LEMMA StopCounted ==
  ASSUME NEW s, Rests(s), NEW q \in Queries, q \in Listening(s), NEW R, Counted(s, R)
  PROVE  Counted(StopListening(s, q), R)
<1> DEFINE erased == Erase(s, q)
           told == IF IsOpen(s) THEN SendUnwatchRequest(erased, q) ELSE erased
           t == StopListening(s, q)
<1>1. s \in WatchRec
  BY DEF Rests, Sound
<1>2. t = IF Listening(told) # {} THEN told
          ELSE IF IsOpen(told) THEN MarkIdle(told) ELSE UpdateState(told, "Unknown")
  BY DEF StopListening, Check
<1>3. /\ erased \in WatchRec /\ erased.stream = s.stream /\ erased.up = s.up
      /\ erased.down = s.down
      /\ erased.served = s.served /\ erased.aggregator = s.aggregator
  <2>1. erased \in WatchRec
    BY <1>1, ErasedAlike
  <2>2. /\ erased.stream = s.stream /\ erased.up = s.up /\ erased.down = s.down
        /\ erased.served = s.served
        /\ erased.aggregator = s.aggregator
    BY <1>1 DEF WatchRec, Erase
  <2> QED BY <2>1, <2>2
<1> HIDE DEF erased, t
<1>4. Counted(erased, R)
  BY <1>3, CountedSame
<1>5. told \in WatchRec /\ Counted(told, R)
  <2>1. CASE IsOpen(s)
    <3>1. told = SendUnwatchRequest(erased, q) /\ IsOpen(erased)
      BY <1>3, <2>1 DEF IsOpen
    <3> HIDE DEF told
    <3> QED BY <1>3, <1>4, <3>1, UnwatchRequestSent, UnwatchCounted
  <2>2. CASE ~IsOpen(s)
    BY <1>3, <1>4, <2>2
  <2> QED BY <2>1, <2>2
<1> HIDE DEF told
<1>6. CASE t = told
  BY <1>5, <1>6 DEF t
<1>7. CASE t = MarkIdle(told) /\ IsOpen(told)
  <2>1. t = [told EXCEPT !.idle = TRUE]
    BY <1>7 DEF MarkIdle
  <2>2. /\ t.stream = told.stream /\ t.up = told.up /\ t.down = told.down
        /\ t.served = told.served
        /\ t.aggregator = told.aggregator
    BY <1>5, <2>1 DEF WatchRec
  <2> QED BY <1>5, <2>2, CountedSame DEF t
<1>8. CASE t = UpdateState(told, "Unknown")
  <2>1. /\ t.stream = told.stream /\ t.up = told.up /\ t.down = told.down
        /\ t.served = told.served
        /\ t.aggregator = told.aggregator
    BY <1>5, <1>8, UpdateStateIs
  <2> QED BY <1>5, <2>1, CountedSame DEF t
<1> QED BY <1>2, <1>6, <1>7, <1>8

LEMMA OpenCounted ==
  ASSUME NEW s, Rests(s), s.stream = "Starting", NEW R, Counted(s, R)
  PROVE  Counted(OnWatchStreamOpen(OnStreamStart(s)), R)
<1> DEFINE o == OnStreamStart(s)
<1>1. s \in WatchRec
  BY DEF Rests, Sound
<1>2. o = [s EXCEPT !.stream = "Open"]
  BY DEF OnStreamStart, Check
<1> HIDE DEF o
<1>3. /\ o \in WatchRec /\ o.stream = "Open" /\ o.up = s.up /\ o.down = s.down
      /\ o.served = s.served
      /\ o.aggregator = s.aggregator
  BY <1>1, <1>2 DEF WatchRec
<1>4. s.up = <<>> /\ s.down = <<>>
        /\ s.served = {} /\ \A q \in Queries : Pending(s, q) = 0
  BY DEF Counted, IsOpen
<1>5. \A q \in Queries : CountIn(<<>>, Asks(q)) = 0 /\ CountIn(<<>>, Replies(q)) = 0
  BY CountNone
<1>6. Counted(o, R)
  <2>1. IsOpen(o) /\ o.stream \notin {"Starting", "Backoff"} /\ DOMAIN o.down = {}
    BY <1>3, <1>4 DEF IsOpen
  <2>2. \A q \in Queries : Pending(o, q) = 0 /\ Awaited(o, q) = 0
    BY <1>3, <1>4, <1>5 DEF Pending, Awaited
  <2> QED BY <2>1, <2>2 DEF Counted
<1>7. OnWatchStreamOpen(o) = SendWatchRequests(o, Listening(o))
  BY DEF OnWatchStreamOpen
<1>8. IsOpen(o) /\ Listening(o) \in SUBSET Listening(o)
  BY <1>3 DEF IsOpen
<1> QED BY <1>3, <1>6, <1>7, <1>8, WatchRequestsCounted DEF o

LEMMA ResumeCounted ==
  ASSUME NEW s, Rests(s), s.backoff, NEW R, Counted(s, R)
  PROVE  Counted(Resume(s), R)
<1> DEFINE t == Resume(s)
<1>1. s \in WatchRec /\ s.stream = "Backoff"
  BY DEF Rests, Sound
<1>2. t = [s EXCEPT !.backoff = FALSE, !.stream = "Starting", !.tokens = s.tokens \cup {s.closes}]
  BY <1>1 DEF Resume, Start, RequestCredentials, Check, WatchRec
<1> HIDE DEF t
<1>3. /\ t.stream = "Starting" /\ t.up = s.up /\ t.down = s.down
      /\ t.served = s.served
      /\ t.aggregator = s.aggregator
  BY <1>1, <1>2 DEF WatchRec
<1> QED BY <1>1, <1>3 DEF Counted, IsOpen, Pending, t

\* A target in another state, nothing else.
Restated(s, q, state) ==
  [s EXCEPT !.aggregator =
     [s.aggregator EXCEPT !.states = [s.aggregator.states EXCEPT ![q] = state]]]

\* The stream and its wires are as they were.
SameWires(s, t) == t.stream = s.stream /\ t.up = s.up /\ t.down = s.down
  /\ t.served = s.served

LEMMA RestatedIs ==
  ASSUME NEW s \in WatchRec, NEW q \in Queries, NEW state
  PROVE  LET t == Restated(s, q, state)
         IN  /\ SameWires(s, t) /\ Pending(t, q) = state.pending
             /\ \A p \in Queries \ {q} : Pending(t, p) = Pending(s, p)
<1> DEFINE states == [s.aggregator.states EXCEPT ![q] = state]
           a == [s.aggregator EXCEPT !.states = states]
           t == Restated(s, q, state)
<1>1. t = [s EXCEPT !.aggregator = a]
  BY DEF Restated
<1>2. /\ states[q] = state
      /\ \A p \in Queries \ {q} : states[p] = s.aggregator.states[p]
  BY DEF WatchRec, Aggregators
<1> HIDE DEF states, t
<1>3. a.states = states
  BY DEF WatchRec, Aggregators
<1> HIDE DEF a
<1>4. t.aggregator = a /\ t.stream = s.stream /\ t.up = s.up /\ t.down = s.down
        /\ t.served = s.served
  BY <1>1 DEF WatchRec
<1>5. Pending(t, q) = state.pending
  BY <1>2, <1>3, <1>4 DEF Pending
<1>6. \A p \in Queries \ {q} : Pending(t, p) = Pending(s, p)
  BY <1>2, <1>3, <1>4 DEF Pending
<1> QED BY <1>4, <1>5, <1>6 DEF SameWires, t

\* Only an answer to a request is counted, and a refusal ends the count.
LEMMA HeardPending ==
  ASSUME NEW s \in WatchRec, NEW m \in Response
  PROVE  LET t == OnWatchStreamChange(s, m)
         IN  /\ SameWires(s, t)
             /\ \A p \in Queries :
                  (m.type = "Rejected" => p # m.query)
                    => Pending(t, p) = Pending(s, p) - IF m \in Replies(p) THEN 1 ELSE 0
<1> DEFINE o == UpdateState(s, "Online")
           q == m.query
           was == o.aggregator.states[q]
           answered == was.pending - 1
           t == OnWatchStreamChange(s, m)
           Goal == /\ SameWires(s, t)
                   /\ \A p \in Queries :
                        (m.type = "Rejected" => p # m.query)
                          => Pending(t, p) = Pending(s, p) - IF m \in Replies(p) THEN 1 ELSE 0
<1> SUFFICES Goal
  OBVIOUS
<1>1. /\ q \in Queries
      /\ m.type \in {"Added", "Removed", "Rejected", "Document", "Current", "Snapshot"}
  BY DEF Response
<1>2. /\ o \in WatchRec /\ SameWires(s, o)
      /\ \A p \in Queries : Pending(o, p) = Pending(s, p) /\ Pending(s, p) \in Int
  BY UpdateStateIs, CountsAreInts DEF SameWires, Pending
<1>3. t = CASE m.type = "Added" ->
                 [o EXCEPT !.aggregator.states[q].pending = answered]
            [] m.type = "Removed" ->
                 IF answered = 0
                 THEN [o EXCEPT !.aggregator.states[q] = NoTargetState]
                 ELSE [o EXCEPT !.aggregator.states[q].pending = answered]
            [] m.type = "Rejected" ->
                 IF q \in Listening(s)
                 THEN [Erase(o, q) EXCEPT !.aggregator.states[q] = NoTargetState]
                 ELSE o
            [] m.type = "Document" ->
                 IF IsActiveTarget(s, q)
                 THEN [o EXCEPT !.aggregator.updates[q] = m.at[q]] ELSE o
            [] m.type = "Current" ->
                 IF IsActiveTarget(s, q)
                 THEN [o EXCEPT !.aggregator.states[q].current = TRUE] ELSE o
            [] m.type = "Snapshot" -> RaiseWatchSnapshot(o, m.at)
  BY DEF OnWatchStreamChange
<1> HIDE DEF o, t
<1>4. \A p \in Queries : m \in Replies(p) <=> m.type \in {"Added", "Removed"} /\ p = q
  BY DEF Replies
<1>5. was \in TargetState /\ was.pending = Pending(o, q)
  BY <1>1, <1>2 DEF WatchRec, Aggregators, Pending
<1>6. ASSUME NEW state, t = Restated(o, q, state),
             state.pending = Pending(s, q) - IF m \in Replies(q) THEN 1 ELSE 0
      PROVE  Goal
  <2>1. /\ SameWires(o, t) /\ Pending(t, q) = state.pending
        /\ \A p \in Queries \ {q} : Pending(t, p) = Pending(o, p)
    BY <1>1, <1>2, <1>6, RestatedIs
  <2> QED BY <1>2, <1>4, <1>6, <2>1 DEF SameWires
<1>7. ASSUME t = o, m.type \notin {"Added", "Removed"}
      PROVE  Goal
  BY <1>2, <1>4, <1>7
<1>8. CASE m.type \in {"Added", "Removed"}
  <2>1. m \in Replies(q)
    BY <1>1, <1>4, <1>8
  <2>2. \/ t = [o EXCEPT !.aggregator.states[q].pending = answered]
        \/ answered = 0 /\ t = [o EXCEPT !.aggregator.states[q] = NoTargetState]
    BY <1>3, <1>8
  <2>3. CASE t = [o EXCEPT !.aggregator.states[q].pending = answered]
    <3> DEFINE state == [was EXCEPT !.pending = answered]
    <3>1. t = Restated(o, q, state)
      BY <2>3 DEF Restated
    <3>2. state.pending = answered
      BY <1>5 DEF TargetState
    <3> HIDE DEF state
    <3> QED BY <1>1, <1>2, <1>5, <1>6, <2>1, <3>1, <3>2
  <2>4. CASE answered = 0 /\ t = [o EXCEPT !.aggregator.states[q] = NoTargetState]
    <3>1. t = Restated(o, q, NoTargetState)
      BY <2>4 DEF Restated
    <3>2. NoTargetState.pending = answered
      BY <2>4 DEF NoTargetState
    <3> QED BY <1>1, <1>2, <1>5, <1>6, <2>1, <3>1, <3>2
  <2> QED BY <2>2, <2>3, <2>4
<1>9. CASE m.type = "Rejected"
  <2>1. CASE q \in Listening(s)
    <3> DEFINE e == Erase(o, q)
    <3>1. t = Restated(e, q, NoTargetState)
      BY <1>3, <1>9, <2>1 DEF Restated
    <3>2. e \in WatchRec /\ e.aggregator = o.aggregator
      BY <1>2, ErasedAlike
    <3>3. SameWires(o, e)
      BY <1>2 DEF WatchRec, SameWires, Erase
    <3> HIDE DEF e
    <3>4. SameWires(e, t) /\ \A p \in Queries \ {q} : Pending(t, p) = Pending(e, p)
      BY <1>1, <3>1, <3>2, RestatedIs
    <3> QED BY <1>2, <1>4, <1>9, <3>2, <3>3, <3>4 DEF SameWires, Pending
  <2>2. CASE q \notin Listening(s)
    BY <1>3, <1>7, <1>9, <2>2
  <2> QED BY <2>1, <2>2
<1>10. CASE m.type = "Document"
  <2>1. CASE IsActiveTarget(s, q)
    <3> DEFINE updates == [o.aggregator.updates EXCEPT ![q] = m.at[q]]
               a == [o.aggregator EXCEPT !.updates = updates]
    <3>1. t = [o EXCEPT !.aggregator = a]
      BY <1>3, <1>10, <2>1
    <3> HIDE DEF updates
    <3>2. a.states = o.aggregator.states
      BY <1>2 DEF WatchRec, Aggregators
    <3> HIDE DEF a
    <3>3. SameWires(o, t) /\ t.aggregator = a
      BY <1>2, <3>1 DEF WatchRec, SameWires
    <3> QED BY <1>2, <1>4, <1>10, <3>2, <3>3 DEF SameWires, Pending
  <2>2. CASE ~IsActiveTarget(s, q)
    BY <1>3, <1>7, <1>10, <2>2
  <2> QED BY <2>1, <2>2
<1>11. CASE m.type = "Current"
  <2>1. CASE IsActiveTarget(s, q)
    <3> DEFINE state == [was EXCEPT !.current = TRUE]
    <3>1. t = Restated(o, q, state)
      BY <1>3, <1>11, <2>1 DEF Restated
    <3>2. state.pending = was.pending
      BY <1>5 DEF TargetState
    <3>3. m \notin Replies(q)
      BY <1>1, <1>4, <1>11
    <3> HIDE DEF state
    <3> QED BY <1>1, <1>2, <1>5, <1>6, <3>1, <3>2, <3>3
  <2>2. CASE ~IsActiveTarget(s, q)
    BY <1>3, <1>7, <1>11, <2>2
  <2> QED BY <2>1, <2>2
<1>12. CASE m.type = "Snapshot"
  <2> DEFINE f == [p \in Listening(o) |-> IF p \in DOMAIN TargetChanges(o) THEN m.at[p]
                                          ELSE o.targets[p]]
             updates == [p \in Queries |-> NotKnown]
             a == [o.aggregator EXCEPT !.updates = updates]
  <2>1. t = [o EXCEPT !.targets = f, !.aggregator = a]
    <3>1. t = [o EXCEPT !.targets = f, !.aggregator.updates = updates]
      BY <1>3, <1>12 DEF RaiseWatchSnapshot
    <3> HIDE DEF f, updates
    <3> QED BY <1>2, <3>1 DEF WatchRec
  <2> HIDE DEF f, updates
  <2>2. a.states = o.aggregator.states
    BY <1>2 DEF WatchRec, Aggregators
  <2> HIDE DEF a
  <2>3. SameWires(o, t) /\ t.aggregator = a
    BY <1>2, <2>1 DEF WatchRec, SameWires
  <2> QED BY <1>2, <1>4, <1>12, <2>2, <2>3 DEF SameWires, Pending
<1> HIDE DEF Goal
<1> QED BY <1>1, <1>8, <1>9, <1>10, <1>11, <1>12

LEMMA HeardCounted ==
  ASSUME NEW r, Rests(r), r.down # <<>>, NEW R, Counted(r, R)
  PROVE  LET s == [r EXCEPT !.down = Tail(@)]
         IN  Counted(OnWatchStreamChange(s, Head(r.down)), R)
<1> DEFINE s == [r EXCEPT !.down = Tail(@)]
           m == Head(r.down)
           t == OnWatchStreamChange(s, m)
<1>1. r \in WatchRec /\ r.down \in Seq(Response) /\ r.aggregator \in Aggregators
  BY DEF Rests, Sound, WatchRec
<1>2. m \in Response /\ Tail(r.down) \in Seq(Response) /\ m = r.down[1] /\ 1 \in DOMAIN r.down
  BY <1>1, HeadTailProperties, LenProperties, EmptySeq
<1>3. PICK down \in Seq(Response) : down = Tail(r.down)
  BY <1>2
<1>4. s = [r EXCEPT !.down = down]
  BY <1>3
<1> HIDE DEF s
<1>5. s \in WatchRec /\ s.stream = r.stream /\ s.up = r.up /\ s.down = down
      /\ s.aggregator = r.aggregator
  BY <1>1, <1>4 DEF WatchRec
<1>6. IsOpen(r)
  BY DEF Counted
<1>7. /\ SameWires(s, t)
      /\ \A p \in Queries :
           (m.type = "Rejected" => p # m.query)
             => Pending(t, p) = Pending(s, p) - IF m \in Replies(p) THEN 1 ELSE 0
  BY <1>2, <1>5, HeardPending
<1> HIDE DEF m, t
<1>8. m.type = "Rejected" => m.query \in R
  BY <1>2 DEF Counted
<1>9. ASSUME NEW p \in Queries \ R PROVE Pending(t, p) = Awaited(t, p)
  <2>1. Pending(r, p) = CountIn(r.up, Asks(p)) + CountIn(r.down, Replies(p))
    BY <1>6 DEF Counted, Awaited
  <2>2. CountIn(r.down, Replies(p)) =
          CountIn(down, Replies(p)) + IF m \in Replies(p) THEN 1 ELSE 0
    BY <1>1, <1>3, CountHead DEF m
  <2>3. CountIn(r.up, Asks(p)) \in Nat /\ CountIn(down, Replies(p)) \in Nat
    BY <1>1, CountsAreInts, PlacesFinite
  <2>4. Pending(t, p) = Pending(r, p) - IF m \in Replies(p) THEN 1 ELSE 0
    BY <1>5, <1>7, <1>8 DEF Pending
  <2>5. Awaited(t, p) = CountIn(r.up, Asks(p)) + CountIn(down, Replies(p))
    BY <1>5, <1>7 DEF Awaited, SameWires
  <2> QED BY <2>1, <2>2, <2>3, <2>4, <2>5
<1>10. \A i \in DOMAIN t.down : t.down[i].type = "Rejected" => t.down[i].query \in R
  <2>1. t.down = down
    BY <1>5, <1>7 DEF SameWires
  <2> SUFFICES ASSUME NEW i \in DOMAIN down, down[i].type = "Rejected"
               PROVE  down[i].query \in R
    BY <2>1
  <2>2. PICK j \in DOMAIN r.down : r.down[j] = down[i]
    <3>1. i \in Nat /\ i + 1 \in DOMAIN r.down /\ down[i] = r.down[i + 1]
      BY <1>1, <1>3, HeadTailProperties, LenProperties
    <3> QED BY <3>1
  <2> QED BY <2>2 DEF Counted
<1>11. IsOpen(t) /\ t.stream \notin {"Starting", "Backoff"}
  BY <1>5, <1>6, <1>7 DEF SameWires, IsOpen
<1> QED BY <1>9, <1>10, <1>11 DEF Counted, s, m, t

\* What the backend takes off one wire and writes on the other: a response for
\* each request, and refusals of the queries in Q alone.
Exchanged(before, up, more, Q) ==
  /\ \A i \in DOMAIN more : more[i].type = "Rejected" => more[i].query \in Q
  /\ \A q \in Queries \ Q :
       CountIn(before, Asks(q)) = CountIn(up, Asks(q)) + CountIn(more, Replies(q))

LEMMA WiredCounted ==
  ASSUME NEW s \in WatchRec, IsOpen(s), NEW R, Counted(s, R), NEW Q, R \subseteq Q,
         NEW up \in Seq(Request), NEW more \in Seq(Response), NEW served,
         Exchanged(s.up, up, more, Q)
  PROVE  Counted(Wired(s, up, s.down \o more, served), Q)
<1> DEFINE t == Wired(s, up, s.down \o more, served)
<1>1. /\ t.stream = s.stream /\ t.up = up /\ t.down = s.down \o more
      /\ t.aggregator = s.aggregator
  BY DEF Wired, WatchRec
<1>2. s.down \in Seq(Response)
  BY DEF WatchRec
<1> HIDE DEF t
<1>3. ASSUME NEW q \in Queries \ Q PROVE Pending(t, q) = Awaited(t, q)
  <2>1. Pending(s, q) = CountIn(s.up, Asks(q)) + CountIn(s.down, Replies(q))
    BY DEF Counted, Awaited
  <2>2. CountIn(s.down \o more, Replies(q)) = CountIn(s.down, Replies(q)) + CountIn(more, Replies(q))
    BY <1>2, CountBoth
  <2>3. /\ CountIn(up, Asks(q)) \in Nat /\ CountIn(s.down, Replies(q)) \in Nat
        /\ CountIn(more, Replies(q)) \in Nat
    BY <1>2, PlacesFinite
  <2>4. Awaited(t, q) = CountIn(up, Asks(q)) + CountIn(s.down \o more, Replies(q))
    BY <1>1 DEF Awaited
  <2>5. Pending(t, q) = Pending(s, q)
    BY <1>1 DEF Pending
  <2>6. CountIn(s.up, Asks(q)) = CountIn(up, Asks(q)) + CountIn(more, Replies(q))
    BY DEF Exchanged
  <2> QED BY <2>1, <2>2, <2>3, <2>4, <2>5, <2>6
<1>4. \A i \in DOMAIN t.down : t.down[i].type = "Rejected" => t.down[i].query \in Q
  <2> SUFFICES ASSUME NEW i \in DOMAIN (s.down \o more),
                      (s.down \o more)[i].type = "Rejected"
               PROVE  (s.down \o more)[i].query \in Q
    BY <1>1
  <2>1. \/ \E j \in DOMAIN s.down : s.down[j] = (s.down \o more)[i]
        \/ \E j \in DOMAIN more : more[j] = (s.down \o more)[i]
    BY <1>2, ConcatProperties, LenProperties
  <2> QED BY <2>1 DEF Counted, Exchanged
<1>5. IsOpen(t) /\ t.stream \notin {"Starting", "Backoff"}
  BY <1>1 DEF IsOpen
<1> QED BY <1>3, <1>4, <1>5 DEF Counted, t

LEMMA OpenWires ==
  ASSUME NEW s, NEW R, Counted(s, R), s.up # <<>> \/ s.down # <<>>
  PROVE  IsOpen(s)
BY DEF Counted

\* A request is answered by one response, whatever else is told with it.
LEMMA AnswersCounted ==
  ASSUME Rests(remote), server \in [Queries -> 0..MaxVersion], BackendAnswers,
         NEW R, Counted(remote, R)
  PROVE  Counted(remote', R)
<1> DEFINE m == Head(remote.up)
           q == m.query
           news == IF server[q] > m.known THEN <<Message("Document", q)>> ELSE <<>>
           answer == IF m.type = "Unwatch" THEN <<Message("Removed", q)>>
                     ELSE <<Message("Added", q)>> \o news
                          \o <<Message("Current", q), Message("Snapshot", q)>>
           served == IF m.type = "Unwatch" THEN remote.served \ {q}
                     ELSE remote.served \cup {q}
<1>1. /\ remote \in WatchRec /\ remote.up \in Seq(Request) /\ remote.down \in Seq(Response)
  BY DEF Rests, Sound, WatchRec
<1>2. /\ remote.up # <<>>
      /\ remote' = [remote EXCEPT !.up = Tail(remote.up), !.down = remote.down \o answer,
                                  !.served = served]
  BY DEF BackendAnswers
<1>3. m \in Request /\ Tail(remote.up) \in Seq(Request)
  BY <1>1, <1>2, HeadTailProperties
<1>4. q \in Queries /\ \A p \in Queries : m \in Asks(p) <=> p = q
  BY <1>3 DEF Request, Asks
<1>5. PICK added \in Response, removed \in Response, document \in Response,
           current \in Response, snapshot \in Response :
        /\ added = Message("Added", q) /\ removed = Message("Removed", q)
        /\ document = Message("Document", q) /\ current = Message("Current", q)
        /\ snapshot = Message("Snapshot", q)
  <2>1. server \in [Queries -> Versions]
    BY RemoteWatchAssumption DEF Versions, NotKnown
  <2>2. \A type \in {"Added", "Removed", "Document", "Current", "Snapshot"} :
          Message(type, q) \in Response
    BY <1>4, <2>1 DEF Message, Response
  <2> QED BY <2>2
<1>6. /\ added.type = "Added" /\ removed.type = "Removed" /\ document.type = "Document"
      /\ current.type = "Current" /\ snapshot.type = "Snapshot"
      /\ \A p \in Queries : /\ (added \in Replies(p) <=> p = q)
                            /\ (removed \in Replies(p) <=> p = q)
                            /\ document \notin Replies(p) /\ current \notin Replies(p)
                            /\ snapshot \notin Replies(p)
  BY <1>5 DEF Message, Replies
<1> HIDE DEF m, q
<1> DEFINE Kept == {x \in Response : x.type # "Rejected"}
<1>7. /\ answer \in Seq(Kept)
      /\ \A p \in Queries : CountIn(answer, Replies(p)) = IF p = q THEN 1 ELSE 0
  <2>1. /\ added \in Kept /\ removed \in Kept /\ document \in Kept
        /\ current \in Kept /\ snapshot \in Kept
    BY <1>6
  <2> HIDE DEF Kept
  <2>2. CASE m.type = "Unwatch"
    <3>1. answer = <<removed>> /\ <<removed>> \in Seq(Kept)
      BY <1>5, <2>1, <2>2
    <3> HIDE DEF answer
    <3> QED BY <1>6, <3>1, CountSingle
  <2>3. CASE m.type # "Unwatch"
    <3> DEFINE a == <<added>>
               c == <<current>>
               d == <<snapshot>>
    <3>1. /\ answer = a \o news \o <<current, snapshot>>
          /\ <<current, snapshot>> = c \o d
          /\ news = <<>> \/ news = <<document>>
      BY <1>5, <2>3
    <3>2. /\ a \in Seq(Kept) /\ c \in Seq(Kept) /\ d \in Seq(Kept)
          /\ <<>> \in Seq(Kept) /\ <<document>> \in Seq(Kept)
      BY <2>1
    <3>3. ASSUME NEW p \in Queries
          PROVE  /\ CountIn(a, Replies(p)) = IF p = q THEN 1 ELSE 0
                 /\ CountIn(c, Replies(p)) = 0 /\ CountIn(d, Replies(p)) = 0
                 /\ CountIn(<<>>, Replies(p)) = 0 /\ CountIn(<<document>>, Replies(p)) = 0
      BY <1>6, CountSingle, CountNone
    <3> HIDE DEF a, c, d, news, answer
    <3>4. news \in Seq(Kept) /\ \A p \in Queries : CountIn(news, Replies(p)) = 0
      BY <3>1, <3>2, <3>3
    <3>5. a \o news \in Seq(Kept) /\ c \o d \in Seq(Kept)
      BY <3>2, <3>4, ConcatProperties
    <3>6. answer \in Seq(Kept)
      BY <3>1, <3>5, ConcatProperties
    <3>7. ASSUME NEW p \in Queries
          PROVE  CountIn(answer, Replies(p)) = IF p = q THEN 1 ELSE 0
      <4>1. CountIn(a \o news, Replies(p)) = CountIn(a, Replies(p)) + CountIn(news, Replies(p))
        BY <3>2, <3>4, CountBoth
      <4>2. CountIn(c \o d, Replies(p)) = CountIn(c, Replies(p)) + CountIn(d, Replies(p))
        BY <3>2, CountBoth
      <4>3. CountIn((a \o news) \o (c \o d), Replies(p))
              = CountIn(a \o news, Replies(p)) + CountIn(c \o d, Replies(p))
        <5>1. PICK x \in Seq(Kept), y \in Seq(Kept) : x = a \o news /\ y = c \o d
          BY <3>5
        <5>2. CountIn(x \o y, Replies(p)) = CountIn(x, Replies(p)) + CountIn(y, Replies(p))
          BY CountBoth
        <5> QED BY <5>1, <5>2
      <4>4. answer = (a \o news) \o (c \o d)
        BY <3>1
      <4> QED BY <3>3, <3>4, <4>1, <4>2, <4>3, <4>4
    <3> QED BY <3>6, <3>7
  <2> QED BY <2>2, <2>3
<1> HIDE DEF answer, served
<1>8. answer \in Seq(Response) /\ \A i \in DOMAIN answer : answer[i].type # "Rejected"
  <2>1. Seq(Kept) \subseteq Seq(Response)
    BY SeqMonotonic
  <2>2. \A i \in DOMAIN answer : answer[i] \in Kept
    <3> HIDE DEF Kept
    <3> QED BY <1>7, ElementOfSeq, LenProperties
  <2> QED BY <1>7, <2>1, <2>2
<1> HIDE DEF Kept
<1>9. Exchanged(remote.up, Tail(remote.up), answer, R)
  <2>1. \A p \in Queries : CountIn(remote.up, Asks(p)) =
          CountIn(Tail(remote.up), Asks(p)) + IF m \in Asks(p) THEN 1 ELSE 0
    BY <1>1, <1>2, CountHead DEF m
  <2> QED BY <1>4, <1>7, <1>8, <2>1 DEF Exchanged
<1>10. remote' = Wired(remote, Tail(remote.up), remote.down \o answer, served)
  BY <1>2 DEF Wired
<1>11. IsOpen(remote)
  BY <1>2, OpenWires
<1> QED BY <1>1, <1>3, <1>8, <1>9, <1>10, <1>11, WiredCounted

LEMMA RefusesCounted ==
  ASSUME Rests(remote), server \in [Queries -> 0..MaxVersion], BackendRefuses,
         Counted(remote, refused)
  PROVE  Counted(remote', refused')
<1> DEFINE q == Head(remote.up).query
           no == Message("Rejected", q)
<1>1. /\ remote \in WatchRec /\ remote.up \in Seq(Request) /\ remote.down \in Seq(Response)
  BY DEF Rests, Sound, WatchRec
<1>2. /\ remote.up # <<>> /\ refused' = refused \cup {q}
      /\ remote' = [remote EXCEPT !.up = Tail(remote.up),
                                  !.down = Append(remote.down, no)]
  BY DEF BackendRefuses
<1>3. Head(remote.up) \in Request /\ Tail(remote.up) \in Seq(Request)
  BY <1>1, <1>2, HeadTailProperties
<1>4. q \in Queries /\ \A p \in Queries : Head(remote.up) \in Asks(p) <=> p = q
  BY <1>3 DEF Request, Asks
<1>5. no \in Response /\ no.query = q /\ \A p \in Queries : no \notin Replies(p)
  <2>1. server \in [Queries -> Versions]
    BY RemoteWatchAssumption DEF Versions, NotKnown
  <2> QED BY <1>4, <2>1 DEF Message, Response, Replies
<1> HIDE DEF q, no
<1>6. /\ <<no>> \in Seq(Response) /\ DOMAIN <<no>> = {1} /\ <<no>>[1] = no
      /\ Append(remote.down, no) = remote.down \o <<no>>
  BY <1>1, <1>5, AppendIsConcat
<1>7. Exchanged(remote.up, Tail(remote.up), <<no>>, refused')
  <2>1. \A p \in Queries : CountIn(remote.up, Asks(p)) =
          CountIn(Tail(remote.up), Asks(p)) + IF Head(remote.up) \in Asks(p) THEN 1 ELSE 0
    BY <1>1, <1>2, CountHead
  <2>2. \A p \in Queries : CountIn(<<no>>, Replies(p)) = 0
    BY <1>5, CountSingle
  <2>3. q \in refused'
    BY <1>2
  <2>4. \A p \in Queries \ refused' : CountIn(remote.up, Asks(p)) =
          CountIn(Tail(remote.up), Asks(p)) + CountIn(<<no>>, Replies(p))
    BY <1>4, <2>1, <2>2, <2>3
  <2>5. \A i \in DOMAIN <<no>> : <<no>>[i].query \in refused'
    BY <1>5, <1>6, <2>3
  <2> QED BY <2>4, <2>5 DEF Exchanged
<1>8. remote' = Wired(remote, Tail(remote.up), remote.down \o <<no>>, remote.served)
  BY <1>1, <1>2, <1>6 DEF WatchRec, Wired
<1>9. IsOpen(remote) /\ refused \subseteq refused'
  BY <1>2, OpenWires
<1> QED BY <1>1, <1>3, <1>6, <1>7, <1>8, <1>9, WiredCounted

LEMMA ChangesCounted ==
  ASSUME Rests(remote), server \in [Queries -> 0..MaxVersion],
         NEW q \in Queries, BackendChanges(q), NEW R, Counted(remote, R)
  PROVE  Counted(remote', R)
<1>1. /\ remote \in WatchRec /\ remote.up \in Seq(Request) /\ remote.down \in Seq(Response)
  BY DEF Rests, Sound, WatchRec
<1>2. CASE q \notin remote.served
  BY <1>2 DEF BackendChanges
<1>3. CASE q \in remote.served
  <2> DEFINE document == [type |-> "Document", query |-> q, at |-> server']
             snapshot == [type |-> "Snapshot", query |-> q, at |-> server']
  <2>1. remote' = [remote EXCEPT !.down = remote.down \o <<document, snapshot>>]
    BY <1>3 DEF BackendChanges
  <2>2. document \in Response /\ snapshot \in Response
    <3>1. server' \in [Queries -> Versions]
      <4>1. server' \in [Queries -> 0..MaxVersion]
        BY ChangesRest
      <4> QED BY <4>1, RemoteWatchAssumption DEF Versions, NotKnown
    <3> QED BY <3>1 DEF Response
  <2>3. /\ document.type # "Rejected" /\ snapshot.type # "Rejected"
        /\ \A p \in Queries : document \notin Replies(p) /\ snapshot \notin Replies(p)
    BY DEF Replies
  <2> HIDE DEF document, snapshot
  <2>4. PICK more \in Seq(Response) : more = <<document, snapshot>>
    <3>1. <<document, snapshot>> \in Seq(Response)
      BY <2>2
    <3> QED BY <3>1
  <2>5. \A i \in DOMAIN more : more[i] \in {document, snapshot}
    BY <2>4
  <2>6. \A p \in Queries : CountIn(more, Replies(p)) = 0
    BY <2>3, <2>5, CountNone
  <2>7. \A p \in Queries : CountIn(remote.up, Asks(p)) \in Nat
    BY <1>1, PlacesFinite
  <2>8. Exchanged(remote.up, remote.up, more, R)
    BY <2>3, <2>5, <2>6, <2>7 DEF Exchanged
  <2>9. remote' = Wired(remote, remote.up, remote.down \o more, remote.served)
    BY <1>1, <2>1, <2>4 DEF WatchRec, Wired
  <2>10. IsOpen(remote)
    BY <1>3 DEF Counted
  <2> QED BY <1>1, <2>8, <2>9, <2>10, WiredCounted
<1> QED BY <1>2, <1>3

LEMMA ClientCounted ==
  ASSUME Rests(remote), ClientSteps, NEW R, Counted(remote, R)
  PROVE  Counted(remote', R)
<1>1. remote \in WatchRec
  BY DEF Rests, Sound
<1>2. ASSUME NEW c \in remote.tokens
      PROVE  LET s == [remote EXCEPT !.tokens = @ \ {c}]
             IN  /\ Rests(s) /\ s \in WatchRec /\ Counted(s, R) /\ s.closes = remote.closes
                 /\ (c = remote.closes => s.stream = "Starting")
  <2> DEFINE s == [remote EXCEPT !.tokens = @ \ {c}]
  <2>1. /\ Rests(s) /\ s.closes = remote.closes /\ s.stream = remote.stream
    BY TokenTaken
  <2>2. /\ s.up = remote.up /\ s.down = remote.down /\ s.served = remote.served
        /\ s.aggregator = remote.aggregator
    BY <1>1 DEF WatchRec
  <2> HIDE DEF s
  <2>3. Counted(s, R) /\ s \in WatchRec
    BY <2>1, <2>2, CountedSame DEF Rests, Sound
  <2>4. c = remote.closes => s.stream = "Starting"
    BY <2>1 DEF Rests, Sound
  <2> QED BY <2>1, <2>3, <2>4 DEF s
<1>3. CASE CredentialsArrive
  <2>1. PICK c \in remote.tokens : CredentialsAnswer(c)
    BY <1>3 DEF CredentialsArrive
  <2> DEFINE s == [remote EXCEPT !.tokens = @ \ {c}]
  <2>2. remote' = IF c # remote.closes THEN s ELSE OnWatchStreamOpen(OnStreamStart(s))
    BY <2>1 DEF CredentialsAnswer
  <2>3. /\ Rests(s) /\ Counted(s, R) /\ (c = remote.closes => s.stream = "Starting")
    BY <1>2
  <2> HIDE DEF s
  <2> QED BY <2>2, <2>3, OpenCounted
<1>4. CASE CredentialsLost
  <2>1. PICK c \in remote.tokens : CredentialsFail(c)
    BY <1>4 DEF CredentialsLost
  <2> DEFINE s == [remote EXCEPT !.tokens = @ \ {c}]
  <2>2. remote' = IF c # remote.closes THEN s ELSE Close(s, FALSE)
    BY <2>1 DEF CredentialsFail
  <2>3. s \in WatchRec /\ Counted(s, R)
    BY <1>2
  <2> HIDE DEF s
  <2> QED BY <2>2, <2>3, CloseFresh, FreshCounted
<1>5. CASE StreamBreaks
  <2>1. remote' = Close(remote, FALSE)
    BY <1>5 DEF StreamBreaks
  <2> QED BY <1>1, <2>1, CloseFresh, FreshCounted
<1>6. CASE BackoffElapses
  <2>1. remote' = Resume(remote) /\ remote.backoff
    BY <1>6 DEF BackoffElapses
  <2> QED BY <2>1, ResumeCounted
<1>7. CASE IdleElapses
  <2>1. remote' = Stop(remote) /\ remote.idle
    BY <1>7 DEF IdleElapses
  <2>2. remote' = Close(remote, TRUE) \/ remote' = remote
    BY <2>1 DEF Stop
  <2> QED BY <1>1, <2>2, CloseFresh, FreshCounted
<1>8. CASE OnlineTimeout
  <2> DEFINE t == [remote EXCEPT !.timer = FALSE, !.online = "Offline"]
  <2>1. remote.online = "Unknown"
    BY <1>8 DEF OnlineTimeout, Rests, Sound
  <2>2. remote' = t
    BY <1>8, <2>1 DEF OnlineTimeout, Check
  <2>3. /\ t.stream = remote.stream /\ t.up = remote.up /\ t.down = remote.down
        /\ t.served = remote.served /\ t.aggregator = remote.aggregator
    BY <1>1 DEF WatchRec
  <2> HIDE DEF t
  <2> QED BY <2>2, <2>3, CountedSame
<1>9. CASE ConnectivityChanges
  <2>1. remote' = RestartNetwork(remote)
    BY <1>9 DEF ConnectivityChanges
  <2>2. ~IsOpen(remote) => remote.up = <<>> /\ remote.down = <<>> /\ remote.served = {}
    BY DEF Counted
  <2> QED BY <2>1, <2>2, RestartFresh, FreshCounted
<1> QED BY <1>3, <1>4, <1>5, <1>6, <1>7, <1>8, <1>9 DEF ClientSteps

LEMMA WorkerCounted ==
  ASSUME WatchInv, RunWorker, NEW R, Counted(remote, R)
  PROVE  Counted(remote', R)
<1>1. /\ Rests(remote) /\ Listening(remote) = DOMAIN views /\ DOMAIN views = Listened(reads)
      /\ worker \in Seq(Operations) /\ reads \in [Reads -> Listener] /\ stored \in Results
  BY DEF WatchInv, AnswersInv, Typed
<1>2. /\ worker # <<>> /\ Head(worker) \in Operations
      /\ IF Head(worker).op = "Add" THEN AddQueryListener(Head(worker).read)
         ELSE RemoveQueryListener(Head(worker).read)
  BY <1>1, WorkerShifts DEF RunWorker
<1>3. PICK c \in Reads : c = Head(worker).read
  BY <1>2 DEF Operations
<1> DEFINE q == QueryOf[c]
<1>4. q \in Queries /\ stored.resume[q] \in Versions
  BY <1>1, DocumentReadsAssumption DEF Results
<1>5. CASE AddQueryListener(c)
  <2>1. CASE ListenersOf(q, reads) = {}
    <3>1. q \notin DOMAIN views
      BY <1>1, <2>1 DEF ListenersOf, Listened
    <3>2. remote' = Listen(Check(remote, q \notin DOMAIN views, "already listening"),
                           q, stored.resume[q])
      BY <1>5, <2>1 DEF AddQueryListener
    <3>3. remote' = Listen(remote, q, stored.resume[q])
      BY <3>1, <3>2 DEF Check
    <3> HIDE DEF q
    <3> QED BY <1>1, <1>4, <3>1, <3>3, ListenCounted
  <2>2. CASE ListenersOf(q, reads) # {}
    BY <1>5, <2>2 DEF AddQueryListener
  <2> QED BY <2>1, <2>2
<1>6. CASE RemoveQueryListener(c)
  <2> DEFINE left == [reads EXCEPT ![c].state = "gone"]
  <2>1. CASE reads[c].state = "listening" /\ ListenersOf(q, left) = {}
    <3>1. q \in DOMAIN views
      BY <1>1, <2>1 DEF Listened
    <3>2. remote' = StopListening(Check(remote, q \in DOMAIN views, "query not found"), q)
      BY <1>6, <2>1 DEF RemoveQueryListener
    <3>3. remote' = StopListening(remote, q)
      BY <3>1, <3>2 DEF Check
    <3> HIDE DEF q
    <3> QED BY <1>1, <1>4, <3>1, <3>3, StopCounted
  <2>2. CASE ~(reads[c].state = "listening" /\ ListenersOf(q, left) = {})
    BY <1>6, <2>2 DEF RemoveQueryListener
  <2> QED BY <2>1, <2>2
<1> QED BY <1>2, <1>3, <1>5, <1>6

LEMMA InitCounted ==
  ASSUME Init
  PROVE  Counted(remote, refused)
<1>1. /\ remote.stream = "Initial" /\ remote.up = <<>> /\ remote.down = <<>>
      /\ remote.served = {}
  BY DEF Init, RemoteInit
<1>2. Fresh(remote)
  BY <1>1 DEF Fresh, Starting, IsOpen, IsStarted
<1> QED BY <1>2, FreshCounted

\* Every handler that changes what is awaited counts it.
LEMMA StepCounted ==
  ASSUME WatchInv, Counted(remote, refused), [Next]_vars
  PROVE  Counted(remote, refused)'
<1>1. /\ Rests(remote) /\ server \in [Queries -> 0..MaxVersion]
  BY DEF WatchInv, AnswersInv, Typed
<1>2. ASSUME remote' = remote, refused' = refused PROVE Counted(remote, refused)'
  BY <1>2
<1>3. ASSUME NEW r \in Reads, GetDocument(r) PROVE Counted(remote, refused)'
  BY <1>2, <1>3 DEF GetDocument, remoteVars
<1>4. CASE RunWorker
  <2>1. refused' = refused
    BY <1>4 DEF RunWorker
  <2> QED BY <1>4, <2>1, WorkerCounted
<1>5. CASE RunExecutor
  BY <1>2, <1>5 DEF RunExecutor, remoteVars
<1>6. CASE StreamRead
  <2>1. /\ remote.down # <<>> /\ refused' = refused
        /\ remote' = OnWatchStreamChange([remote EXCEPT !.down = Tail(@)], Head(remote.down))
    BY <1>6 DEF StreamRead
  <2> QED BY <1>1, <2>1, HeardCounted
<1>7. CASE ClientSteps
  <2>1. refused' = refused
    BY <1>1, <1>7, ClientRests
  <2> QED BY <1>1, <1>7, <2>1, ClientCounted
<1>8. CASE BackendAnswers
  <2>1. refused' = refused
    BY <1>8 DEF BackendAnswers
  <2> QED BY <1>1, <1>8, <2>1, AnswersCounted
<1>9. CASE BackendRefuses
  BY <1>1, <1>9, RefusesCounted
<1>10. ASSUME NEW q \in Queries, BackendChanges(q) PROVE Counted(remote, refused)'
  <2>1. refused' = refused
    BY <1>10 DEF BackendChanges
  <2> QED BY <1>1, <1>10, <2>1, ChangesCounted
<1>11. CASE UNCHANGED vars
  BY <1>2, <1>11 DEF vars, remoteVars
<1> QED
  BY <1>3, <1>4, <1>5, <1>6, <1>7, <1>8, <1>9, <1>10, <1>11
  DEF Next, OnClient, ClientSteps

LEMMA CountedOutstanding ==
  ASSUME Rests(remote), Counted(remote, refused)
  PROVE  ResponsesCounted
<1>1. remote \in WatchRec /\ remote.up \in Seq(Request) /\ remote.down \in Seq(Response)
  BY DEF Rests, Sound, WatchRec
<1>2. ASSUME NEW q \in Queries PROVE Outstanding(q) = Awaited(remote, q)
  <2>1. \A i \in DOMAIN remote.up : remote.up[i] \in Request
    BY <1>1, ElementOfSeq, LenProperties
  <2>2. \A i \in DOMAIN remote.down : remote.down[i] \in Response
    BY <1>1, ElementOfSeq, LenProperties
  <2>3. {i \in DOMAIN remote.up : remote.up[i].query = q} = Places(remote.up, Asks(q))
    BY <2>1 DEF Places, Asks
  <2>4. {i \in DOMAIN remote.down : /\ remote.down[i].query = q
                                    /\ remote.down[i].type \in {"Added", "Removed"}}
          = Places(remote.down, Replies(q))
    BY <2>2 DEF Places, Replies
  <2> QED BY <2>3, <2>4 DEF Outstanding, Awaited, CountIn
<1> QED BY <1>2 DEF ResponsesCounted, Counted, Pending

-----------------------------------------------------------------------------
(* What is told about one target: q, of which c is the version in the cache, *)
(* v the backend's, o the one its view was opened at, b whether that is      *)
(* synced                                                                    *)

IsReply(m, q) == m.query = q /\ m.type \in {"Added", "Removed"}

\* Nothing from place i on answers a request about the target.
Silent(down, q, i) == \A k \in DOMAIN down : IsReply(down[k], q) => k < i

AskedAt(s, q, i) == i \in DOMAIN s.up /\ s.up[i].query = q
Asked(s, q)      == \E i \in Nat : AskedAt(s, q, i)

\* What is heard about the target at place i.
Hears(s, q, i, type) ==
  /\ i \in DOMAIN s.down /\ s.down[i].query = q /\ s.down[i].type = type
  /\ Silent(s.down, q, i)

Updated(s, q) == s.aggregator.updates[q]

\* Before place n the client has, or hears of, a version no older than x.
Told(s, q, c, x, n) ==
  \/ x <= c \/ x <= Updated(s, q)
  \/ \E j \in Nat : j < n /\ Hears(s, q, j, "Document") /\ x <= s.down[j].at[q]

\* Before place n the target is current, or is told so.
Ready(s, q, n) ==
  \/ s.aggregator.states[q].current /\ Silent(s.down, q, 1)
  \/ \E j \in Nat : j < n /\ Hears(s, q, j, "Current")

\* Responses come in the order of the backend's versions.
Ordered(s, q, v) ==
  /\ Updated(s, q) <= v
  /\ \A i \in DOMAIN s.down : /\ Updated(s, q) <= s.down[i].at[q]
                              /\ s.down[i].at[q] <= v
                              /\ \A j \in DOMAIN s.down :
                                   i < j => s.down[i].at[q] <= s.down[j].at[q]

\* The request that counts is a listen.
AskedLast(s, q) ==
  \E i \in Nat : /\ AskedAt(s, q, i) /\ s.up[i].type = "Watch"
                 /\ \A k \in Nat : AskedAt(s, q, k) => k <= i

HeardWell(s, q, c, o, i) ==
  /\ o <= s.down[i].at[q]
  /\ s.down[i].type = "Snapshot" => Told(s, q, c, s.down[i].at[q], i) /\ Ready(s, q, i)

\* A listen that is answered: what the backend has now is told before the end.
Heard(s, q, c, v, o, b) ==
  LET end == Len(s.down) + 1
  IN  /\ q \in s.served
      /\ Told(s, q, c, v, end) /\ Ready(s, q, end)
      /\ \A i \in DOMAIN s.down : Silent(s.down, q, i) => HeardWell(s, q, c, o, i)
      /\ ~b \/ s.timer =>
           \E i \in DOMAIN s.down : Silent(s.down, q, i) /\ s.down[i].type = "Snapshot"

Resumed(s, q, c) == q \in Listening(s) => s.targets[q] <= c
Quoted(s, q, c) ==
  \A i \in DOMAIN s.up : s.up[i].query = q /\ s.up[i].type = "Watch" => s.up[i].known <= c

Kept(s, q, c, v, o, b) ==
  /\ Resumed(s, q, c) /\ Quoted(s, q, c)
  /\ s.stream \in {"Starting", "Backoff"} => Updated(s, q) = NotKnown
  /\ IsOpen(s) => Ordered(s, q, v)
  /\ IsOpen(s) /\ q \in Listening(s) =>
       IF Asked(s, q) THEN AskedLast(s, q) ELSE Heard(s, q, c, v, o, b)

Synced(q) == q \in DOMAIN views /\ views[q]

\* What the books say of a target none of whose listens was refused.
TargetKept(q) ==
  /\ opened[q] <= server[q]
  /\ Synced(q) => opened[q] <= stored.cache[q]
  /\ stored.resume[q] <= stored.cache[q]
  /\ Kept(remote, q, stored.cache[q], server[q], opened[q], Synced(q))

TargetsKept == \A q \in Queries \ refused : TargetKept(q)

Fair(r, e) == QueryOf[r] \notin refused /\ e.synced => reads[r].since <= e.version

\* No answer of the backend is older than the listen it is told to.
EventsFair ==
  /\ \A r \in Reads : reads[r].state = "listening" => reads[r].since = opened[QueryOf[r]]
  /\ \A d \in Range(executor) : Fair(d.read, d.event)
  /\ \A r \in Reads : \A e \in Range(answers[r]) : Fair(r, e)

Sent(r) == answers[r] # <<>> \/ \E d \in Range(executor) : d.read = r

\* A call waits for what is still to be done.
Waits(r) ==
  /\ reads[r].state = "asked" => Operation("Add", r) \in Range(worker)
  /\ Operation("Remove", r) \in Range(worker) => answers[r] # <<>>
  /\ reads[r].muted => answers[r] # <<>>
  /\ reads[r].raised \/ reads[r].state = "gone" => QueryOf[r] \in refused \/ Sent(r)
  /\ reads[r].state = "listening" /\ ~reads[r].raised =>
       ~views[QueryOf[r]] /\ remote.online # "Offline"

CallsWait == Starting(remote) /\ \A r \in Reads \ Tables : Waits(r)

-----------------------------------------------------------------------------
IsCurrent(s, q) == s.aggregator.states[q].current

\* Nothing that matters to q is changed.
SameFor(s, t, q) ==
  /\ SameWires(s, t) /\ Updated(t, q) = Updated(s, q) /\ IsCurrent(t, q) = IsCurrent(s, q)
  /\ q \in Listening(t) => q \in Listening(s) /\ t.targets[q] = s.targets[q]

LEMMA SameKept ==
  ASSUME NEW s, NEW t, NEW q, NEW c, NEW v, NEW o, NEW b, NEW b2,
         Kept(s, q, c, v, o, b), SameFor(s, t, q),
         ~b2 \/ t.timer => ~b \/ s.timer
  PROVE  Kept(t, q, c, v, o, b2)
<1>1. /\ t.up = s.up /\ t.down = s.down /\ t.stream = s.stream /\ t.served = s.served
      /\ Updated(t, q) = Updated(s, q)
      /\ t.aggregator.states[q].current = s.aggregator.states[q].current
      /\ q \in Listening(t) => q \in Listening(s) /\ t.targets[q] = s.targets[q]
  BY DEF SameFor, SameWires, IsCurrent
<1>2. Resumed(t, q, c) /\ Quoted(t, q, c)
  BY <1>1 DEF Kept, Resumed, Quoted
<1>3. \A i : AskedAt(t, q, i) <=> AskedAt(s, q, i)
  BY <1>1 DEF AskedAt
<1>4. \A i, type : Hears(t, q, i, type) <=> Hears(s, q, i, type)
  BY <1>1 DEF Hears
<1>5. \A x, n : Told(t, q, c, x, n) <=> Told(s, q, c, x, n)
  BY <1>1, <1>4 DEF Told
<1>6. \A n : Ready(t, q, n) <=> Ready(s, q, n)
  BY <1>1, <1>4 DEF Ready
<1>7. \A i : HeardWell(t, q, c, o, i) <=> HeardWell(s, q, c, o, i)
  BY <1>1, <1>5, <1>6 DEF HeardWell
<1>8. Heard(s, q, c, v, o, b) => Heard(t, q, c, v, o, b2)
  BY <1>1, <1>5, <1>6, <1>7 DEF Heard
<1>9. (Asked(t, q) <=> Asked(s, q)) /\ (AskedLast(t, q) <=> AskedLast(s, q))
  BY <1>1, <1>3 DEF Asked, AskedLast
<1>10. Ordered(s, q, v) => Ordered(t, q, v)
  BY <1>1 DEF Ordered
<1> QED BY <1>1, <1>2, <1>8, <1>9, <1>10 DEF Kept, IsOpen

LEMMA FreshKept ==
  ASSUME NEW t, Fresh(t), NEW q \in Queries, NEW c, Resumed(t, q, c), NEW v, NEW o, NEW b
  PROVE  Kept(t, q, c, v, o, b)
<1>1. t.up = <<>> /\ ~IsOpen(t) /\ (IsStarted(t) => t.aggregator = NewAggregator)
  BY DEF Fresh
<1>2. Quoted(t, q, c)
  <2>1. DOMAIN t.up = {}
    BY <1>1
  <2> QED BY <2>1 DEF Quoted
<1>3. t.stream \in {"Starting", "Backoff"} => Updated(t, q) = NotKnown
  BY <1>1 DEF IsStarted, Updated, NewAggregator
<1> QED BY <1>1, <1>2, <1>3 DEF Kept

\* The cache grows; a message of another target may be on the wire.
LEMMA RequestsSame ==
  ASSUME NEW s \in WatchRec, NEW qs \in SUBSET Queries, NEW q \in Queries
  PROVE  LET t == RecordPendingTargetRequests(s, qs)
         IN  /\ SameFor(s, t, q) /\ t.timer = s.timer
<1> DEFINE after == [p \in Queries |->
                       IF p \in qs
                       THEN RecordPendingTargetRequest(s.aggregator.states[p])
                       ELSE s.aggregator.states[p]]
           a == [s.aggregator EXCEPT !.states = after]
           t == RecordPendingTargetRequests(s, qs)
<1>1. s.aggregator \in Aggregators
  BY DEF WatchRec
<1>2. s.aggregator.states[q] \in TargetState
  BY <1>1 DEF Aggregators
<1>3. after[q].current = s.aggregator.states[q].current
  BY <1>2 DEF TargetState, RecordPendingTargetRequest
<1>4. t = [s EXCEPT !.aggregator = a]
  BY DEF RecordPendingTargetRequests
<1> HIDE DEF t, after
<1>5. a.states = after /\ a.updates = s.aggregator.updates
  BY <1>1 DEF Aggregators
<1> HIDE DEF a
<1>6. /\ t.aggregator = a /\ t.targets = s.targets /\ t.timer = s.timer
      /\ SameWires(s, t)
  BY <1>4 DEF WatchRec, SameWires
<1> QED BY <1>3, <1>5, <1>6 DEF SameFor, Updated, IsCurrent, t, Listening

LEMMA WireJoined ==
  ASSUME NEW X, NEW a \in Seq(X), NEW b \in Seq(X)
  PROVE  LET ab == a \o b
             n == Len(a)
         IN  /\ ab \in Seq(X) /\ n \in Nat /\ Len(ab) = n + Len(b)
             /\ \A i \in Nat : i \in DOMAIN a => i \in DOMAIN ab /\ i <= n /\ ab[i] = a[i]
             /\ \A i \in Nat : i \in DOMAIN b => n + i \in DOMAIN ab /\ i >= 1 /\ ab[n + i] = b[i]
             /\ \A i \in DOMAIN ab : /\ i \in Nat
                                     /\ \/ i \in DOMAIN a /\ ab[i] = a[i]
                                        \/ \E k \in Nat : k \in DOMAIN b /\ i = n + k /\ ab[i] = b[k]
<1> DEFINE n == Len(a)
           ab == a \o b
<1>1. /\ n \in Nat /\ Len(b) \in Nat /\ DOMAIN a = 1..n /\ DOMAIN b = 1..Len(b)
      /\ ab \in Seq(X) /\ Len(ab) = n + Len(b)
      /\ \A i \in 1..(n + Len(b)) : ab[i] = IF i <= n THEN a[i] ELSE b[i - n]
  BY LenProperties, ConcatProperties
<1>2. DOMAIN ab = 1..(n + Len(b))
  BY <1>1, LenProperties
<1> HIDE DEF n, ab
<1>3. ASSUME NEW i \in DOMAIN b
      PROVE  i \in Nat /\ n + i \in DOMAIN ab /\ i >= 1 /\ ab[n + i] = b[i]
  <2>1. PICK k \in Nat : k = n + i
    BY <1>1
  <2>2. k \in 1..(n + Len(b)) /\ ~(k <= n) /\ k - n = i
    BY <1>1, <2>1
  <2>3. ab[k] = b[i]
    BY <1>1, <2>2
  <2> QED BY <1>1, <1>2, <2>1, <2>2, <2>3
<1>4. ASSUME NEW i \in DOMAIN ab
      PROVE  /\ i \in Nat
             /\ \/ i \in DOMAIN a /\ ab[i] = a[i]
                \/ \E k \in Nat : k \in DOMAIN b /\ i = n + k /\ ab[i] = b[k]
  <2>1. CASE i <= n
    BY <1>1, <1>2, <2>1
  <2>2. CASE ~(i <= n)
    <3>1. PICK k \in Nat : k = i - n
      BY <1>1, <1>2, <2>2
    <3>2. k \in DOMAIN b /\ i = n + k /\ ab[i] = b[k]
      BY <1>1, <1>2, <2>2, <3>1
    <3> QED BY <1>2, <3>2
  <2> QED BY <2>1, <2>2
<1>5. \A i \in Nat : i \in DOMAIN a => i \in DOMAIN ab /\ i <= n /\ ab[i] = a[i]
  BY <1>1, <1>2
<1> QED BY <1>1, <1>3, <1>4, <1>5 DEF n, ab

LEMMA WireGrown ==
  ASSUME NEW X, NEW a \in Seq(X), NEW b \in Seq(X), NEW ab, ab = a \o b, NEW k \in DOMAIN ab
  PROVE  /\ k \in Nat
         /\ \/ k \in DOMAIN a /\ ab[k] = a[k]
            \/ \E x \in Nat : x \in DOMAIN b /\ k = Len(a) + x /\ ab[k] = b[x]
BY WireJoined

\* Requests of others do not change what is asked about q; a listen becomes the
\* last request.
LEMMA SentKept ==
  ASSUME NEW s \in WatchRec, NEW t, NEW q, NEW c, NEW v, NEW o, NEW b, NEW o2, NEW b2,
         Kept(s, q, c, v, o, b), IsOpen(s),
         NEW ms \in Seq(Request), t.up = s.up \o ms,
         t.stream = s.stream, t.down = s.down, t.served = s.served,
         Updated(t, q) = Updated(s, q), IsCurrent(t, q) = IsCurrent(s, q),
         Resumed(t, q, c), t.timer => s.timer,
         \A i \in DOMAIN ms : ms[i].query = q /\ ms[i].type = "Watch" => ms[i].known <= c,
         \/ q \notin Listening(t)
         \/ /\ q \in Listening(s) /\ o2 = o /\ b2 = b
            /\ \A i \in DOMAIN ms : ms[i].query # q
         \/ \E i \in DOMAIN ms : /\ ms[i].query = q /\ ms[i].type = "Watch"
                                 /\ \A k \in DOMAIN ms : ms[k].query = q => k = i
  PROVE  Kept(t, q, c, v, o2, b2)
<1> DEFINE n == Len(s.up)
<1>1. s.up \in Seq(Request)
  BY DEF WatchRec
<1>2. /\ n \in Nat
      /\ \A i \in Nat : i \in DOMAIN s.up => i \in DOMAIN t.up /\ i <= n /\ t.up[i] = s.up[i]
      /\ \A i \in Nat : i \in DOMAIN ms => n + i \in DOMAIN t.up /\ i >= 1 /\ t.up[n + i] = ms[i]
      /\ \A i \in DOMAIN t.up :
           /\ i \in Nat
           /\ \/ i \in DOMAIN s.up /\ t.up[i] = s.up[i]
              \/ \E k \in Nat : k \in DOMAIN ms /\ i = n + k /\ t.up[i] = ms[k]
  BY <1>1, WireJoined
<1> HIDE DEF n
<1>3. Quoted(t, q, c)
  BY <1>2 DEF Quoted, Kept
<1>4. Ordered(t, q, v)
  BY DEF Ordered, Kept
<1>5. ~(t.stream \in {"Starting", "Backoff"}) /\ IsOpen(t)
  BY DEF IsOpen
<1>6. CASE q \notin Listening(t)
  BY <1>3, <1>4, <1>5, <1>6 DEF Kept
<1>7. CASE q \in Listening(s) /\ o2 = o /\ b2 = b /\ \A i \in DOMAIN ms : ms[i].query # q
  <2>1. \A i \in Nat : AskedAt(t, q, i) <=> AskedAt(s, q, i)
    BY <1>2, <1>7 DEF AskedAt
  <2>2. \A i \in Nat : AskedAt(s, q, i) => t.up[i] = s.up[i]
    BY <1>2 DEF AskedAt
  <2>3. (Asked(t, q) <=> Asked(s, q)) /\ (AskedLast(s, q) => AskedLast(t, q))
    BY <2>1, <2>2 DEF Asked, AskedLast
  <2>4. \A i, type : Hears(t, q, i, type) <=> Hears(s, q, i, type)
    BY DEF Hears
  <2>5. \A x, k : Told(t, q, c, x, k) <=> Told(s, q, c, x, k)
    BY <2>4 DEF Told
  <2>6. \A k : Ready(t, q, k) <=> Ready(s, q, k)
    BY <2>4 DEF Ready, IsCurrent
  <2>7. \A i : HeardWell(t, q, c, o, i) <=> HeardWell(s, q, c, o, i)
    BY <2>5, <2>6 DEF HeardWell
  <2>8. Heard(s, q, c, v, o, b) => Heard(t, q, c, v, o, b)
    BY <2>5, <2>6, <2>7 DEF Heard
  <2> QED BY <1>3, <1>4, <1>5, <1>7, <2>3, <2>8 DEF Kept
<1>8. ASSUME NEW i \in DOMAIN ms, ms[i].query = q, ms[i].type = "Watch",
             \A k \in DOMAIN ms : ms[k].query = q => k = i
      PROVE  Kept(t, q, c, v, o2, b2)
  <2>1. i \in Nat
    BY LenProperties
  <2>2. PICK j \in Nat : j = n + i
    BY <1>2, <2>1
  <2>3. j \in DOMAIN t.up /\ t.up[j] = ms[i]
    BY <1>2, <2>1, <2>2
  <2>4. AskedAt(t, q, j) /\ t.up[j].type = "Watch"
    BY <1>8, <2>3 DEF AskedAt
  <2>5. ASSUME NEW k \in Nat, AskedAt(t, q, k) PROVE k <= j
    <3>1. k \in DOMAIN t.up /\ t.up[k].query = q
      BY <2>5 DEF AskedAt
    <3>2. CASE k \in DOMAIN s.up
      BY <1>2, <2>1, <2>2, <3>2
    <3>3. ASSUME NEW l \in Nat, l \in DOMAIN ms, k = n + l, t.up[k] = ms[l] PROVE k <= j
      BY <1>2, <1>8, <2>1, <2>2, <3>1, <3>3
    <3> QED BY <1>2, <3>1, <3>2, <3>3
  <2>6. Asked(t, q) /\ AskedLast(t, q)
    BY <2>4, <2>5 DEF Asked, AskedLast
  <2> QED BY <1>3, <1>4, <1>5, <2>6 DEF Kept
<1> QED BY <1>6, <1>7, <1>8

LEMMA WatchRequestsKept ==
  ASSUME NEW s \in WatchRec, IsOpen(s), NEW qs \in SUBSET Listening(s), NEW q \in Queries,
         NEW c, NEW v, NEW o, NEW b, NEW o2, NEW b2, NEW r, Kept(r, q, c, v, o, b), IsOpen(r), r \in WatchRec,
         SameWires(r, s), Updated(s, q) = Updated(r, q), IsCurrent(s, q) = IsCurrent(r, q),
         s.timer = r.timer, Resumed(s, q, c),
         q \in Listening(s) => (q \in Listening(r) /\ o2 = o /\ b2 = b) \/ q \in qs
  PROVE  Kept(SendWatchRequests(s, qs), q, c, v, o2, b2)
<1> DEFINE T == {WatchRequest(s, p) : p \in qs}
           ms == SetToSeq(T)
           a == RecordPendingTargetRequests(s, qs)
           t == SendWatchRequests(s, qs)
<1>1. s.targets \in Targets
  BY DEF WatchRec
<1>2. qs \in SUBSET Queries /\ IsFiniteSet(qs) /\ \A p \in qs : s.targets[p] \in Versions
  BY <1>1, TargetsAre, FS_Subset DEF Listening
<1>3. T \subseteq Request
  BY <1>2 DEF WatchRequest, Request
<1>4. IsFiniteSet(T)
  <2> DEFINE f == [p \in qs |-> WatchRequest(s, p)]
  <2>1. f \in Surjection(qs, T)
    BY DEF Surjection
  <2> HIDE DEF f, T
  <2> QED BY <1>2, <2>1, FS_Surjection
<1>5. \A m \in T : /\ m.query = q => m = WatchRequest(s, q) /\ q \in qs
                   /\ m.query = q /\ m.type = "Watch" => m.known <= c
  BY DEF WatchRequest, Resumed
<1>6. q \in qs => WatchRequest(s, q) \in T
  OBVIOUS
<1>7. WatchRequest(s, q).query = q /\ WatchRequest(s, q).type = "Watch"
  BY DEF WatchRequest
<1>8. t = Send(a, ms)
  BY DEF SendWatchRequests
<1> HIDE DEF T, t
<1>9. ms \in Seq(T) /\ ms \in Seq(Request)
  BY <1>3, <1>4, SetToSeqIs, SeqMonotonic
<1>10. \A i \in DOMAIN ms : ms[i] \in T
  BY <1>9, ElementOfSeq, LenProperties
<1>11. a \in WatchRec /\ SameFor(s, a, q) /\ a.timer = s.timer /\ a.targets = s.targets
  BY <1>2, RequestsSame, RequestsPending
<1> HIDE DEF a
<1>12. IsOpen(a)
  BY <1>11 DEF SameFor, SameWires, IsOpen
<1>13. t = [a EXCEPT !.idle = FALSE, !.up = a.up \o ms]
  BY <1>8, <1>12 DEF Send, Check
<1>14. /\ t.up = r.up \o ms /\ t.stream = r.stream /\ t.down = r.down /\ t.served = r.served
       /\ t.timer = r.timer /\ t.targets = s.targets /\ t.aggregator = a.aggregator
  BY <1>11, <1>13 DEF WatchRec, SameFor, SameWires
<1>15. Updated(t, q) = Updated(r, q) /\ IsCurrent(t, q) = IsCurrent(r, q)
  BY <1>11, <1>14 DEF SameFor, Updated, IsCurrent
<1>16. Resumed(t, q, c) /\ (q \in Listening(t) <=> q \in Listening(s))
  BY <1>14 DEF Resumed, Listening
<1>17. \A i \in DOMAIN ms : ms[i].query = q /\ ms[i].type = "Watch" => ms[i].known <= c
  BY <1>5, <1>10
<1>18. CASE q \in qs
  <2>1. PICK i \in DOMAIN ms : ms[i] = WatchRequest(s, q)
    BY <1>4, <1>6, <1>18, SetToSeqIs
  <2>2. \A k \in DOMAIN ms : ms[k].query = q => k = i
    <3>1. \A k \in DOMAIN ms : ms[k].query = q => ms[k] = ms[i]
      BY <1>5, <1>10, <2>1
    <3> QED BY <1>4, <3>1, SetToSeqIs
  <2>3. ms[i].query = q /\ ms[i].type = "Watch"
    BY <1>7, <2>1
  <2> HIDE DEF ms
  <2> QED BY <1>9, <1>14, <1>15, <1>16, <1>17, <2>2, <2>3, SentKept DEF t
<1>19. CASE q \notin qs
  <2>1. \A i \in DOMAIN ms : ms[i].query # q
    BY <1>5, <1>10, <1>19
  <2> HIDE DEF ms
  <2> QED BY <1>9, <1>14, <1>15, <1>16, <1>17, <1>19, <2>1, SentKept DEF t
<1> QED BY <1>18, <1>19

LEMMA UnwatchKept ==
  ASSUME NEW s \in WatchRec, IsOpen(s), NEW p \in Queries, p \notin Listening(s),
         NEW q \in Queries, NEW c, NEW v, NEW o, NEW b, Kept(s, q, c, v, o, b)
  PROVE  Kept(SendUnwatchRequest(s, p), q, c, v, o, b)
<1> DEFINE m == [type |-> "Unwatch", query |-> p]
           ms == <<m>>
           a == RecordPendingTargetRequests(s, {p})
           t == SendUnwatchRequest(s, p)
<1>1. t = Send(a, ms)
  BY DEF SendUnwatchRequest
<1>2. ms \in Seq(Request) /\ \A i \in DOMAIN ms : ms[i] = m
  <2>1. m \in Request
    BY DEF Request
  <2> HIDE DEF m
  <2> QED BY <2>1
<1>3. m.type = "Unwatch" /\ m.query = p
  OBVIOUS
<1> HIDE DEF t, m, ms
<1>4. a \in WatchRec /\ SameFor(s, a, q) /\ a.timer = s.timer /\ a.targets = s.targets
  <2>1. {p} \in SUBSET Queries
    OBVIOUS
  <2> QED BY <2>1, RequestsSame, RequestsPending
<1> HIDE DEF a
<1>5. IsOpen(a)
  BY <1>4 DEF SameFor, SameWires, IsOpen
<1>6. t = [a EXCEPT !.idle = FALSE, !.up = a.up \o ms]
  BY <1>1, <1>5 DEF Send, Check
<1>7. /\ t.up = s.up \o ms /\ t.stream = s.stream /\ t.down = s.down /\ t.served = s.served
      /\ t.timer = s.timer /\ t.targets = s.targets /\ t.aggregator = a.aggregator
  BY <1>4, <1>6 DEF WatchRec, SameFor, SameWires
<1>8. Updated(t, q) = Updated(s, q) /\ IsCurrent(t, q) = IsCurrent(s, q)
  BY <1>4, <1>7 DEF SameFor, Updated, IsCurrent
<1>9. Resumed(t, q, c) /\ (q \in Listening(t) <=> q \in Listening(s))
  BY <1>7 DEF Resumed, Listening, Kept
<1>10. \A i \in DOMAIN ms : ms[i].query = q /\ ms[i].type = "Watch" => ms[i].known <= c
  BY <1>2, <1>3
<1>11. q \notin Listening(t) \/ (q \in Listening(s) /\ \A i \in DOMAIN ms : ms[i].query # q)
  BY <1>2, <1>3, <1>9
<1> QED BY <1>2, <1>7, <1>8, <1>9, <1>10, <1>11, SentKept DEF t

LEMMA ListenKept ==
  ASSUME NEW s, Rests(s), NEW p \in Queries, p \notin Listening(s),
         NEW known \in Versions, NEW R, Counted(s, R),
         NEW q \in Queries, NEW c, NEW v, NEW o, NEW b, NEW o2, NEW b2,
         Kept(s, q, c, v, o, b),
         q = p => known <= c,
         q # p => o2 = o /\ b2 = b
  PROVE  Kept(Listen(s, p, known), q, c, v, o2, b2)
<1> DEFINE targets == Put(s.targets, p, known)
           added == [s EXCEPT !.targets = targets]
           t == Listen(s, p, known)
<1>1. s \in WatchRec
  BY DEF Rests, Sound
<1>2. targets \in Targets /\ DOMAIN targets = Listening(s) \cup {p}
  <2>1. s.targets \in Targets
    BY <1>1 DEF WatchRec
  <2> QED BY <2>1, AddedTargets DEF Listening
<1>3. /\ targets[p] = known
      /\ \A x \in Listening(s) \ {p} : targets[x] = s.targets[x]
  BY DEF Put, Listening
<1>4. t = IF ShouldStartWatchStream(added) THEN StartWatchStream(added)
          ELSE IF IsOpen(added) THEN SendWatchRequests(added, {p}) ELSE added
  BY DEF Listen
<1> HIDE DEF targets, t
<1>5. /\ added \in WatchRec /\ added.stream = s.stream /\ added.up = s.up
      /\ added.down = s.down /\ added.timer = s.timer
      /\ added.served = s.served /\ added.aggregator = s.aggregator /\ added.targets = targets
  BY <1>1, <1>2 DEF WatchRec
<1>10. /\ added.closes = s.closes /\ added.tokens = s.tokens /\ added.idle = s.idle
       /\ added.backoff = s.backoff /\ added.enabled = s.enabled /\ added.online = s.online
       /\ added.failures = s.failures /\ added.timer = s.timer /\ added.broken = s.broken
       /\ added.stream = s.stream
  BY <1>1, <1>2 DEF WatchRec
<1> HIDE DEF added
<1>6. Resumed(added, q, c) /\ Listening(added) = Listening(s) \cup {p}
  <2>1. Listening(added) = Listening(s) \cup {p}
    BY <1>2, <1>5 DEF Listening
  <2>2. Resumed(s, q, c)
    BY DEF Kept
  <2> QED BY <1>3, <1>5, <2>1, <2>2 DEF Resumed
<1>7. CASE ShouldStartWatchStream(added)
  <2>1. ~IsStarted(added) /\ ~IsOpen(s)
    BY <1>5, <1>7 DEF ShouldStartWatchStream, IsStarted, IsOpen
  <2>2. added.up = <<>> /\ added.down = <<>> /\ added.served = {}
    BY <1>5, <2>1 DEF Counted
  <2>3. Fresh(t) /\ t.targets = added.targets
    <3>1. Fresh(t)
      BY <1>4, <1>5, <1>7, <2>1, <2>2, StartsFresh
    <3>2. t.targets = added.targets
      <4>1. s.enabled /\ ~s.timer /\ ~s.idle /\ Sound(s)
        BY <2>1, <1>5 DEF Rests, Sound, IsStarted
      <4>2. Alike(s, added) /\ added.idle = s.idle
        BY <1>1, <1>10 DEF Alike
      <4>3. Sound(added)
        BY <1>5, <4>1, <4>2, AlikeSound
      <4>4. added.enabled /\ Listening(added) # {} /\ ~added.timer
        BY <1>5, <1>6, <4>1, <4>2 DEF Alike
      <4> QED BY <1>4, <1>7, <2>1, <4>3, <4>4, StartsSound
    <3> QED BY <3>1, <3>2
  <2>4. Resumed(t, q, c)
    BY <1>6, <2>3 DEF Resumed, Listening
  <2> QED BY <2>3, <2>4, FreshKept DEF t
<1>8. CASE ~ShouldStartWatchStream(added) /\ IsOpen(added)
  <2>1. {p} \in SUBSET Listening(added) /\ IsOpen(s)
    BY <1>5, <1>6, <1>8 DEF IsOpen
  <2>2. SameWires(s, added) /\ Updated(added, q) = Updated(s, q)
        /\ IsCurrent(added, q) = IsCurrent(s, q)
    BY <1>5 DEF SameWires, Updated, IsCurrent
  <2>3. t = SendWatchRequests(added, {p})
    BY <1>4, <1>8
  <2> QED BY <1>1, <1>5, <1>6, <1>8, <2>1, <2>2, <2>3, WatchRequestsKept DEF t
<1>9. CASE ~ShouldStartWatchStream(added) /\ ~IsOpen(added)
  <2>1. t = added
    BY <1>4, <1>9
  <2>2. Quoted(t, q, c) /\ Updated(t, q) = Updated(s, q)
    BY <1>5, <2>1 DEF Quoted, Kept, Updated
  <2> QED BY <1>5, <1>6, <1>9, <2>1, <2>2 DEF Kept, t
<1> QED BY <1>7, <1>8, <1>9

LEMMA StopKept ==
  ASSUME NEW s, Rests(s), NEW p \in Queries, p \in Listening(s),
         NEW q \in Queries, NEW c, NEW v, NEW o, NEW b, Kept(s, q, c, v, o, b),
         NEW b2, q # p => b2 = b
  PROVE  Kept(StopListening(s, p), q, c, v, o, b2)
<1> DEFINE erased == Erase(s, p)
           told == IF IsOpen(s) THEN SendUnwatchRequest(erased, p) ELSE erased
           t == StopListening(s, p)
<1>1. s \in WatchRec
  BY DEF Rests, Sound
<1>2. t = IF Listening(told) # {} THEN told
          ELSE IF IsOpen(told) THEN MarkIdle(told) ELSE UpdateState(told, "Unknown")
  BY DEF StopListening, Check
<1>3. /\ erased \in WatchRec /\ SameWires(s, erased) /\ erased.aggregator = s.aggregator
      /\ Listening(erased) = Listening(s) \ {p} /\ erased.timer = s.timer
      /\ \A x \in Listening(erased) : erased.targets[x] = s.targets[x]
  <2>1. /\ erased \in WatchRec /\ Listening(erased) = Listening(s) \ {p}
        /\ erased.aggregator = s.aggregator
    BY <1>1, ErasedAlike
  <2>2. /\ SameWires(s, erased) /\ erased.timer = s.timer
        /\ \A x \in Listening(erased) : erased.targets[x] = s.targets[x]
    BY <1>1 DEF WatchRec, Erase, SameWires, Listening
  <2> QED BY <2>1, <2>2
<1> HIDE DEF erased, t
<1>4. Kept(erased, q, c, v, o, b2)
  <2>1. Updated(erased, q) = Updated(s, q) /\ IsCurrent(erased, q) = IsCurrent(s, q)
    BY <1>3 DEF Updated, IsCurrent
  <2>2. SameFor(s, erased, q)
    BY <1>3, <2>1 DEF SameFor
  <2>3. Kept(erased, q, c, v, o, b)
    BY <1>3, <2>2, SameKept
  <2>4. CASE q = p
    <3>1. q \notin Listening(erased)
      BY <1>3, <2>4
    <3> QED BY <2>3, <3>1 DEF Kept
  <2> QED BY <2>3, <2>4
<1>5. told \in WatchRec /\ Kept(told, q, c, v, o, b2)
  <2>1. CASE IsOpen(s)
    <3>1. told = SendUnwatchRequest(erased, p) /\ IsOpen(erased) /\ p \notin Listening(erased)
      BY <1>3, <2>1 DEF IsOpen, SameWires
    <3> HIDE DEF told
    <3>2. told \in WatchRec
      BY <1>3, <3>1, UnwatchRequestSent
    <3> QED BY <1>3, <1>4, <3>1, <3>2, UnwatchKept
  <2>2. CASE ~IsOpen(s)
    BY <1>3, <1>4, <2>2
  <2> QED BY <2>1, <2>2
<1> HIDE DEF told
<1>6. CASE t = told
  BY <1>5, <1>6 DEF t
<1>7. CASE t = MarkIdle(told) /\ IsOpen(told)
  <2>1. t = [told EXCEPT !.idle = TRUE]
    BY <1>7 DEF MarkIdle
  <2>2. SameFor(told, t, q) /\ t.timer = told.timer
    BY <1>5, <2>1 DEF WatchRec, SameFor, SameWires, Updated, IsCurrent, Listening
  <2> QED BY <1>5, <2>2, SameKept DEF t
<1>8. CASE t = UpdateState(told, "Unknown")
  <2>1. SameFor(told, t, q) /\ ~t.timer
    BY <1>5, <1>8, UpdateStateIs DEF SameFor, SameWires, Updated, IsCurrent, Listening
  <2> QED BY <1>5, <2>1, SameKept DEF t
<1> QED BY <1>2, <1>6, <1>7, <1>8

LEMMA OpenKept ==
  ASSUME NEW s, Rests(s), s.stream = "Starting", NEW R, Counted(s, R),
         NEW q \in Queries, NEW c \in Versions, NEW v \in 0..MaxVersion, NEW o, NEW b,
         Kept(s, q, c, v, o, b)
  PROVE  Kept(OnWatchStreamOpen(OnStreamStart(s)), q, c, v, o, b)
<1> DEFINE u == OnStreamStart(s)
           w == [u EXCEPT !.targets = <<>>]
<1>1. s \in WatchRec
  BY DEF Rests, Sound
<1>2. u = [s EXCEPT !.stream = "Open"]
  BY DEF OnStreamStart, Check
<1> HIDE DEF u
<1>3. /\ u \in WatchRec /\ u.stream = "Open" /\ u.up = s.up /\ u.down = s.down
      /\ u.served = s.served /\ u.targets = s.targets
      /\ u.aggregator = s.aggregator
  BY <1>1, <1>2 DEF WatchRec
<1>4. s.up = <<>> /\ s.down = <<>>
  BY DEF Counted, IsOpen
<1>5. /\ w \in WatchRec /\ SameWires(w, u) /\ IsOpen(w) /\ Listening(w) = {}
      /\ w.aggregator = u.aggregator /\ w.timer = u.timer
  <2>1. <<>> \in Targets
    <3>1. <<>> \in [{} -> Versions] /\ {} \in SUBSET Queries
      OBVIOUS
    <3> QED BY <3>1 DEF Targets
  <2>2. DOMAIN <<>> = {}
    OBVIOUS
  <2> QED BY <1>3, <2>1, <2>2 DEF WatchRec, SameWires, IsOpen, Listening
<1> HIDE DEF w
<1>6. Kept(w, q, c, v, o, b)
  <2>1. Updated(w, q) = NotKnown
    BY <1>3, <1>5 DEF Updated, Kept
  <2>2. Ordered(w, q, v)
    <3>1. DOMAIN w.down = {}
      BY <1>3, <1>4, <1>5 DEF SameWires
    <3>2. NotKnown <= v
      BY RemoteWatchAssumption DEF NotKnown
    <3> QED BY <2>1, <3>1, <3>2 DEF Ordered
  <2>3. Quoted(w, q, c)
    <3>1. DOMAIN w.up = {}
      BY <1>3, <1>4, <1>5 DEF SameWires
    <3> QED BY <3>1 DEF Quoted
  <2> QED BY <1>5, <2>1, <2>2, <2>3 DEF Kept, Resumed
<1>7. OnWatchStreamOpen(u) = SendWatchRequests(u, Listening(u)) /\ IsOpen(u)
  BY <1>3 DEF OnWatchStreamOpen, IsOpen
<1>8. Resumed(u, q, c)
  BY <1>3 DEF Resumed, Kept, Listening
<1>9. Updated(u, q) = Updated(w, q) /\ IsCurrent(u, q) = IsCurrent(w, q)
  BY <1>5 DEF Updated, IsCurrent
<1> QED BY <1>3, <1>5, <1>6, <1>7, <1>8, <1>9, WatchRequestsKept DEF u

LEMMA OpenOnline ==
  ASSUME NEW s, Rests(s), s.stream = "Starting"
  PROVE  LET t == OnWatchStreamOpen(OnStreamStart(s))
         IN  t.online = s.online /\ t.tokens = s.tokens /\ t.closes = s.closes
                /\ t.stream = "Open"
<1> DEFINE u == OnStreamStart(s)
<1>1. s \in WatchRec
  BY DEF Rests, Sound
<1>2. u = [s EXCEPT !.stream = "Open"]
  BY DEF OnStreamStart, Check
<1> HIDE DEF u
<1>3. /\ u \in WatchRec /\ u.stream = "Open" /\ u.online = s.online
      /\ u.tokens = s.tokens /\ u.closes = s.closes
  BY <1>1, <1>2 DEF WatchRec
<1>4. OnWatchStreamOpen(u) = SendWatchRequests(u, Listening(u)) /\ IsOpen(u)
  BY <1>3 DEF OnWatchStreamOpen, IsOpen
<1>5. Alike(u, OnWatchStreamOpen(u))
  BY <1>3, <1>4, WatchRequestsSent
<1> QED BY <1>3, <1>5 DEF u, Alike

LEMMA ClosedKept ==
  ASSUME NEW s \in WatchRec, NEW t, Fresh(t), t.targets = s.targets,
         NEW q \in Queries, NEW c, NEW v, NEW o, NEW b, Kept(s, q, c, v, o, b), NEW b2
  PROVE  Kept(t, q, c, v, o, b2)
<1>1. Resumed(t, q, c)
  BY DEF Kept, Resumed, Listening
<1> QED BY <1>1, FreshKept

\* A view loses what it had only when the client goes offline.
LEMMA ClientKept ==
  ASSUME Rests(remote), ClientSteps, NEW R, Counted(remote, R),
         NEW q \in Queries, NEW c \in Versions, NEW v \in 0..MaxVersion, NEW o, NEW b,
         Kept(remote, q, c, v, o, b),
         NEW b2, b2 = b \/ (remote'.online = "Offline" /\ remote.online # "Offline")
  PROVE  Kept(remote', q, c, v, o, b2)
<1>1. remote \in WatchRec
  BY DEF Rests, Sound
<1>2. remote'.targets = remote.targets /\ Rests(remote')
  BY ClientRests
<1>3. ASSUME NEW c2 \in remote.tokens
      PROVE  LET s == [remote EXCEPT !.tokens = @ \ {c2}]
             IN  /\ Rests(s) /\ s \in WatchRec /\ Counted(s, R) /\ s.closes = remote.closes
                 /\ (c2 = remote.closes => s.stream = "Starting")
                 /\ Kept(s, q, c, v, o, b) /\ s.online = remote.online
  <2> DEFINE s == [remote EXCEPT !.tokens = @ \ {c2}]
  <2>1. /\ Rests(s) /\ s.closes = remote.closes /\ s.stream = remote.stream
        /\ s.online = remote.online /\ s.targets = remote.targets
    BY TokenTaken
  <2>2. /\ s.up = remote.up /\ s.down = remote.down /\ s.served = remote.served
        /\ s.aggregator = remote.aggregator /\ s.timer = remote.timer
    BY <1>1 DEF WatchRec
  <2> HIDE DEF s
  <2>3. Counted(s, R) /\ s \in WatchRec
    BY <2>1, <2>2, CountedSame DEF Rests, Sound
  <2>4. c2 = remote.closes => s.stream = "Starting"
    BY <2>1 DEF Rests, Sound
  <2>5. SameFor(remote, s, q)
    BY <2>1, <2>2 DEF SameFor, SameWires, Updated, IsCurrent, Listening
  <2>6. Kept(s, q, c, v, o, b)
    BY <2>2, <2>5, SameKept
  <2> QED BY <2>1, <2>3, <2>4, <2>6 DEF s
<1>4. CASE CredentialsArrive
  <2>1. PICK c2 \in remote.tokens : CredentialsAnswer(c2)
    BY <1>4 DEF CredentialsArrive
  <2> DEFINE s == [remote EXCEPT !.tokens = @ \ {c2}]
  <2>2. remote' = IF c2 # remote.closes THEN s ELSE OnWatchStreamOpen(OnStreamStart(s))
    BY <2>1 DEF CredentialsAnswer
  <2>3. /\ Rests(s) /\ Counted(s, R) /\ (c2 = remote.closes => s.stream = "Starting")
        /\ Kept(s, q, c, v, o, b) /\ s.online = remote.online
    BY <1>3
  <2> HIDE DEF s
  <2>4. CASE c2 # remote.closes
    BY <2>2, <2>3, <2>4
  <2>5. CASE c2 = remote.closes
    <3>1. remote' = OnWatchStreamOpen(OnStreamStart(s)) /\ s.stream = "Starting"
      BY <2>2, <2>3, <2>5
    <3>2. remote'.online = s.online
      BY <2>3, <3>1, OpenOnline
    <3>3. Kept(remote', q, c, v, o, b)
      BY <2>3, <3>1, OpenKept
    <3> QED BY <2>3, <3>2, <3>3
  <2> QED BY <2>4, <2>5
<1>5. CASE CredentialsLost
  <2>1. PICK c2 \in remote.tokens : CredentialsFail(c2)
    BY <1>5 DEF CredentialsLost
  <2> DEFINE s == [remote EXCEPT !.tokens = @ \ {c2}]
  <2>2. remote' = IF c2 # remote.closes THEN s ELSE Close(s, FALSE)
    BY <2>1 DEF CredentialsFail
  <2>3. s \in WatchRec /\ Kept(s, q, c, v, o, b) /\ s.online = remote.online
    BY <1>3
  <2> HIDE DEF s
  <2>4. CASE c2 # remote.closes
    BY <2>2, <2>3, <2>4
  <2>5. CASE c2 = remote.closes
    <3>1. Fresh(remote')
      BY <2>2, <2>3, <2>5, CloseFresh
    <3> QED BY <1>1, <1>2, <3>1, ClosedKept
  <2> QED BY <2>4, <2>5
<1>6. CASE StreamBreaks
  <2>1. remote' = Close(remote, FALSE)
    BY <1>6 DEF StreamBreaks
  <2> QED BY <1>1, <1>2, <2>1, CloseFresh, ClosedKept
<1>7. CASE BackoffElapses
  <2>1. remote.stream = "Backoff"
    BY <1>7 DEF BackoffElapses, Rests, Sound
  <2>2. remote' = [remote EXCEPT !.backoff = FALSE, !.stream = "Starting",
                                 !.tokens = remote.tokens \cup {remote.closes}]
    BY <1>1, <1>7, <2>1 DEF BackoffElapses, Resume, Start, RequestCredentials, Check, WatchRec
  <2>3. /\ remote'.stream = "Starting" /\ remote'.up = remote.up
        /\ remote'.aggregator = remote.aggregator /\ remote'.online = remote.online
    BY <1>1, <2>2 DEF WatchRec
  <2>4. Resumed(remote', q, c) /\ Quoted(remote', q, c) /\ Updated(remote', q) = NotKnown
    BY <1>2, <2>1, <2>3 DEF Kept, Resumed, Quoted, Updated, Listening
  <2>5. ~IsOpen(remote')
    BY <2>3 DEF IsOpen
  <2> QED BY <2>4, <2>5 DEF Kept
<1>8. CASE IdleElapses
  <2>1. remote' = Stop(remote) /\ remote.idle
    BY <1>8 DEF IdleElapses
  <2>2. IsStarted(remote)
    BY <2>1 DEF Rests, Sound, IsOpen, IsStarted
  <2>3. remote' = Close(remote, TRUE)
    BY <2>1, <2>2 DEF Stop
  <2> QED BY <1>1, <1>2, <2>3, CloseFresh, ClosedKept
<1>9. CASE OnlineTimeout
  <2> DEFINE t == [remote EXCEPT !.timer = FALSE, !.online = "Offline"]
  <2>1. remote.online = "Unknown" /\ remote.timer
    BY <1>9 DEF OnlineTimeout, Rests, Sound
  <2>2. remote' = t
    BY <1>9, <2>1 DEF OnlineTimeout, Check
  <2>3. SameFor(remote, t, q)
    BY <1>1 DEF WatchRec, SameFor, SameWires, Updated, IsCurrent, Listening
  <2> HIDE DEF t
  <2>4. SameFor(remote, remote', q)
    BY <2>2, <2>3
  <2> QED BY <2>1, <2>4, SameKept
<1>10. CASE ConnectivityChanges
  <2>1. remote' = RestartNetwork(remote)
    BY <1>10 DEF ConnectivityChanges
  <2>2. ~IsOpen(remote) => remote.up = <<>> /\ remote.down = <<>> /\ remote.served = {}
    BY DEF Counted
  <2>3. Fresh(remote')
    BY <2>1, <2>2, RestartFresh
  <2> QED BY <1>1, <1>2, <2>3, ClosedKept
<1> QED BY <1>4, <1>5, <1>6, <1>7, <1>8, <1>9, <1>10 DEF ClientSteps

\* What the backend adds to a wire is heard behind the last answer.
LEMMA MoreHears ==
  ASSUME NEW s, NEW t, s.down \in Seq(Response), NEW more \in Seq(Response),
         t.down = s.down \o more, NEW q, NEW z \in Nat,
         \A k \in DOMAIN more : IsReply(more[k], q) => k <= z
  PROVE  LET n == Len(s.down)
         IN  /\ \A k \in Nat : k > z => Silent(t.down, q, n + k)
             /\ \A k \in Nat : k > z /\ k \in DOMAIN more /\ more[k].query = q
                                 => Hears(t, q, n + k, more[k].type)
             /\ z = 0 => \A i \in Nat : Silent(s.down, q, i) => Silent(t.down, q, i)
             /\ z = 0 => \A i \in Nat : \A type : Hears(s, q, i, type) => Hears(t, q, i, type)
             /\ \A i : Silent(t.down, q, i) => Silent(s.down, q, i)
<1> DEFINE n == Len(s.down)
<1>1. /\ n \in Nat
      /\ \A i \in Nat : i \in DOMAIN s.down => i \in DOMAIN t.down /\ i <= n /\ t.down[i] = s.down[i]
      /\ \A i \in Nat : i \in DOMAIN more => n + i \in DOMAIN t.down /\ i >= 1 /\ t.down[n + i] = more[i]
      /\ \A i \in DOMAIN t.down :
           /\ i \in Nat
           /\ \/ i \in DOMAIN s.down /\ t.down[i] = s.down[i]
              \/ \E k \in Nat : k \in DOMAIN more /\ i = n + k /\ t.down[i] = more[k]
      /\ \A i \in DOMAIN s.down : i \in Nat
  BY WireJoined, LenProperties, SMTT(30)
<1> HIDE DEF n
<1>2. ASSUME NEW k \in Nat, k > z PROVE Silent(t.down, q, n + k)
  <2> SUFFICES ASSUME NEW i \in DOMAIN t.down, IsReply(t.down[i], q) PROVE i < n + k
    BY DEF Silent
  <2>1. i \in Nat
    BY <1>1
  <2>2. CASE i \in DOMAIN s.down
    BY <1>1, <1>2, <2>1, <2>2
  <2>3. ASSUME NEW l \in Nat, l \in DOMAIN more, i = n + l, t.down[i] = more[l] PROVE i < n + k
    <3>1. l <= z
      BY <2>3
    <3> QED BY <1>1, <1>2, <2>3, <3>1
  <2> QED BY <1>1, <2>2, <2>3
<1>3. ASSUME NEW k \in Nat, k > z, k \in DOMAIN more, more[k].query = q
      PROVE  Hears(t, q, n + k, more[k].type)
  <2>1. PICK i \in Nat : i = n + k
    BY <1>1
  <2>2. i \in DOMAIN t.down /\ t.down[i] = more[k] /\ Silent(t.down, q, i)
    BY <1>1, <1>2, <1>3, <2>1
  <2> QED BY <1>3, <2>1, <2>2 DEF Hears
<1>4. ASSUME z = 0, NEW i \in Nat, Silent(s.down, q, i) PROVE Silent(t.down, q, i)
  <2> SUFFICES ASSUME NEW k \in DOMAIN t.down, IsReply(t.down[k], q) PROVE k < i
    BY DEF Silent
  <2>1. CASE k \in DOMAIN s.down
    BY <1>1, <1>4, <2>1 DEF Silent
  <2>2. ASSUME NEW l \in Nat, l \in DOMAIN more, k = n + l, t.down[k] = more[l] PROVE FALSE
    <3>1. l <= 0 /\ l >= 1
      BY <1>1, <1>4, <2>2
    <3> QED BY <3>1
  <2> QED BY <1>1, <2>1, <2>2
<1>5. ASSUME z = 0, NEW i \in Nat, NEW type, Hears(s, q, i, type) PROVE Hears(t, q, i, type)
  BY <1>1, <1>4, <1>5 DEF Hears
<1>6. ASSUME NEW i, Silent(t.down, q, i) PROVE Silent(s.down, q, i)
  BY <1>1, <1>6 DEF Silent
<1> QED BY <1>2, <1>3, <1>4, <1>5, <1>6 DEF n

LEMMA OrderedMore ==
  ASSUME NEW s \in WatchRec, NEW t, NEW q \in Queries, NEW v \in Int, NEW v2 \in Int, v <= v2,
         Ordered(s, q, v), NEW more \in Seq(Response), t.down = s.down \o more,
         Updated(t, q) = Updated(s, q), \A k \in DOMAIN more : more[k].at[q] = v2
  PROVE  Ordered(t, q, v2)
<1> DEFINE n == Len(s.down)
<1>1. /\ s.down \in Seq(Response) /\ s.aggregator \in Aggregators
  BY DEF WatchRec
<1>2. /\ n \in Nat
      /\ \A i \in Nat : i \in DOMAIN s.down => i \in DOMAIN t.down /\ i <= n /\ t.down[i] = s.down[i]
      /\ \A i \in Nat : i \in DOMAIN more => n + i \in DOMAIN t.down /\ i >= 1 /\ t.down[n + i] = more[i]
      /\ \A i \in DOMAIN t.down :
           /\ i \in Nat
           /\ \/ i \in DOMAIN s.down /\ t.down[i] = s.down[i]
              \/ \E k \in Nat : k \in DOMAIN more /\ i = n + k /\ t.down[i] = more[k]
  <2>1. \A i \in Nat : i \in DOMAIN more => n + i \in DOMAIN t.down /\ i >= 1 /\ t.down[n + i] = more[i]
    BY <1>1, WireJoined
  <2>2. /\ n \in Nat
        /\ \A i \in Nat : i \in DOMAIN s.down => i \in DOMAIN t.down /\ i <= n /\ t.down[i] = s.down[i]
        /\ \A i \in DOMAIN t.down :
             /\ i \in Nat
             /\ \/ i \in DOMAIN s.down /\ t.down[i] = s.down[i]
                \/ \E k \in Nat : k \in DOMAIN more /\ i = n + k /\ t.down[i] = more[k]
    BY <1>1, WireJoined
  <2> HIDE DEF n
  <2> QED BY <2>1, <2>2
<1> HIDE DEF n
<1>3. Updated(s, q) \in Int
  BY <1>1, VersionsAreInts DEF Aggregators, Updated
<1>4. \A i \in DOMAIN s.down : s.down[i].at[q] \in Int
  <2>1. \A i \in DOMAIN s.down : s.down[i] \in Response
    BY <1>1, ElementOfSeq, LenProperties
  <2> QED BY <2>1, VersionsAreInts DEF Response
<1>5. \A i \in DOMAIN s.down : Updated(s, q) <= s.down[i].at[q] /\ s.down[i].at[q] <= v
  BY DEF Ordered
<1>6. Updated(s, q) <= v2
  BY <1>3 DEF Ordered
<1>7. \A i \in DOMAIN s.down : s.down[i].at[q] <= v2
  BY <1>4, <1>5
<1>8. \A i \in DOMAIN t.down : Updated(s, q) <= t.down[i].at[q] /\ t.down[i].at[q] <= v2
  BY <1>2, <1>5, <1>6, <1>7
<1>9. ASSUME NEW i \in DOMAIN t.down, NEW j \in DOMAIN t.down, i < j
      PROVE  t.down[i].at[q] <= t.down[j].at[q]
  <2>1. CASE i \in DOMAIN s.down /\ j \in DOMAIN s.down
    BY <1>2, <1>9, <2>1 DEF Ordered
  <2>2. ASSUME NEW k \in Nat, k \in DOMAIN more, j = n + k, t.down[j] = more[k]
        PROVE  t.down[i].at[q] <= t.down[j].at[q]
    BY <1>8, <2>2
  <2>3. ASSUME NEW k \in Nat, k \in DOMAIN more, i = n + k, j \in DOMAIN s.down PROVE FALSE
    <3>1. i > n /\ j <= n /\ j \in Nat
      BY <1>2, <2>3
    <3> QED BY <1>2, <1>9, <3>1
  <2> QED BY <1>2, <2>1, <2>2, <2>3
<1> QED BY <1>6, <1>8, <1>9 DEF Ordered

\* News of a moment at the backend, for a target that is heard already.
LEMMA HeardMore ==
  ASSUME NEW s \in WatchRec, NEW t, NEW q \in Queries, NEW c, NEW v \in Int, NEW v2 \in Int,
         NEW o \in Int, o <= v2, NEW b, Heard(s, q, c, v, o, b),
         NEW more \in Seq(Response), t.down = s.down \o more,
         Updated(t, q) = Updated(s, q), IsCurrent(t, q) = IsCurrent(s, q),
         t.timer = s.timer, q \in t.served,
         \A k \in DOMAIN more : ~IsReply(more[k], q) /\ more[k].at[q] = v2,
         \/ v2 = v
         \/ \E j \in DOMAIN more : /\ more[j].query = q /\ more[j].type = "Document"
                                   /\ \A k \in DOMAIN more : more[k].type = "Snapshot" => j < k
  PROVE  Heard(t, q, c, v2, o, b)
<1> DEFINE n == Len(s.down)
           m == Len(more)
<1>1. s.down \in Seq(Response) /\ 0 \in Nat
  BY DEF WatchRec
<1>2. /\ n \in Nat /\ m \in Nat /\ Len(t.down) = n + m
      /\ \A i \in Nat : i \in DOMAIN s.down => i \in DOMAIN t.down /\ i <= n /\ t.down[i] = s.down[i]
      /\ \A i \in Nat : i \in DOMAIN more => n + i \in DOMAIN t.down /\ i >= 1 /\ i <= m /\ t.down[n + i] = more[i]
      /\ \A i \in DOMAIN t.down :
           /\ i \in Nat
           /\ \/ i \in DOMAIN s.down /\ t.down[i] = s.down[i]
              \/ \E k \in Nat : k \in DOMAIN more /\ i = n + k /\ t.down[i] = more[k]
      /\ \A i \in DOMAIN s.down : i \in Nat
      /\ \A i \in DOMAIN more : i \in Nat
  <2>1. m \in Nat /\ DOMAIN more = 1..m /\ DOMAIN s.down = 1..n
    BY <1>1, LenProperties
  <2>2. \A i \in Nat : i \in DOMAIN more => n + i \in DOMAIN t.down /\ i >= 1 /\ t.down[n + i] = more[i]
    BY <1>1, WireJoined
  <2>3. /\ n \in Nat /\ Len(t.down) = n + m
        /\ \A i \in Nat : i \in DOMAIN s.down => i \in DOMAIN t.down /\ i <= n /\ t.down[i] = s.down[i]
        /\ \A i \in DOMAIN t.down :
             /\ i \in Nat
             /\ \/ i \in DOMAIN s.down /\ t.down[i] = s.down[i]
                \/ \E k \in Nat : k \in DOMAIN more /\ i = n + k /\ t.down[i] = more[k]
    BY <1>1, WireJoined
  <2> HIDE DEF n, m
  <2>4. \A i \in Nat : i \in DOMAIN more => i <= m
    BY <2>1
  <2>5. (\A i \in DOMAIN s.down : i \in Nat) /\ (\A i \in DOMAIN more : i \in Nat)
    BY <2>1
  <2> QED BY <2>1, <2>2, <2>3, <2>4, <2>5
<1>3. /\ \A k \in Nat : k > 0 => Silent(t.down, q, n + k)
      /\ \A k \in Nat : k > 0 /\ k \in DOMAIN more /\ more[k].query = q
                          => Hears(t, q, n + k, more[k].type)
      /\ \A i \in Nat : Silent(s.down, q, i) => Silent(t.down, q, i)
      /\ \A i \in Nat : \A type : Hears(s, q, i, type) => Hears(t, q, i, type)
      /\ \A i : Silent(t.down, q, i) => Silent(s.down, q, i)
  BY <1>1, MoreHears
<1> HIDE DEF n, m
<1>4. \A j \in Nat : \A type : Hears(s, q, j, type) => t.down[j] = s.down[j]
  BY <1>2 DEF Hears
<1>5. ASSUME NEW x, NEW i \in Nat, NEW k \in Nat, i <= k, Told(s, q, c, x, i)
      PROVE  Told(t, q, c, x, k)
  <2>1. CASE x <= c \/ x <= Updated(s, q)
    BY <2>1 DEF Told
  <2>2. ASSUME NEW j \in Nat, j < i, Hears(s, q, j, "Document"), x <= s.down[j].at[q]
        PROVE  Told(t, q, c, x, k)
    <3>1. Hears(t, q, j, "Document") /\ t.down[j] = s.down[j]
      BY <1>3, <1>4, <2>2
    <3>2. j < k
      BY <1>5, <2>2
    <3> QED BY <2>2, <3>1, <3>2 DEF Told
  <2> QED BY <1>5, <2>1, <2>2 DEF Told
<1>6. ASSUME NEW i \in Nat, NEW k \in Nat, i <= k, Ready(s, q, i)
      PROVE  Ready(t, q, k)
  <2>1. Silent(s.down, q, 1) => Silent(t.down, q, 1)
    BY <1>3
  <2> QED BY <1>3, <1>6, <2>1 DEF Ready, IsCurrent
<1>7. Told(s, q, c, v, n + 1) /\ Ready(s, q, n + 1)
  BY DEF Heard, n
<1>8. ASSUME NEW k \in Nat, k > 0,
             \A j \in DOMAIN more : /\ more[j].query = q /\ more[j].type = "Document"
                                    /\ \A l \in DOMAIN more : more[l].type = "Snapshot" => j < l
                                    => j < k
      PROVE  Told(t, q, c, v2, n + k) /\ Ready(t, q, n + k)
  <2>1. PICK p \in Nat : p = n + k
    BY <1>2
  <2>2. n + 1 <= p /\ n + 1 \in Nat
    BY <1>2, <1>8, <2>1
  <2>3. Ready(t, q, p)
    BY <1>6, <1>7, <2>2
  <2>4. CASE v2 = v
    BY <1>5, <1>7, <2>1, <2>2, <2>3, <2>4
  <2>5. ASSUME NEW j \in DOMAIN more, more[j].query = q, more[j].type = "Document",
               \A l \in DOMAIN more : more[l].type = "Snapshot" => j < l
        PROVE  Told(t, q, c, v2, p)
    <3>1. j < k /\ j \in Nat /\ j > 0
      BY <1>2, <1>8, <2>5
    <3>2. PICK i \in Nat : i = n + j
      BY <1>2, <3>1
    <3>3. Hears(t, q, i, "Document") /\ t.down[i] = more[j] /\ i < p
      <4>1. Hears(t, q, n + j, more[j].type)
        BY <1>3, <2>5, <3>1
      <4>2. t.down[n + j] = more[j]
        BY <1>2, <2>5, <3>1
      <4>3. n + j < n + k
        BY <1>2, <3>1
      <4> QED BY <2>1, <2>5, <3>2, <4>1, <4>2, <4>3
    <3>4. v2 <= t.down[i].at[q]
      BY <3>3
    <3> QED BY <3>3, <3>4 DEF Told
  <2> QED BY <2>1, <2>3, <2>4, <2>5
<1>9. Told(t, q, c, v2, Len(t.down) + 1) /\ Ready(t, q, Len(t.down) + 1)
  <2>1. PICK k \in Nat : k = m + 1
    BY <1>2
  <2>2. \A j \in DOMAIN more : j < k
    <3>1. \A j \in DOMAIN more : j \in Nat /\ j <= m
      BY <1>2
    <3> QED BY <1>2, <2>1, <3>1
  <2>3. Len(t.down) + 1 = n + k /\ k > 0
    BY <1>2, <2>1
  <2> QED BY <1>8, <2>2, <2>3
<1>10. ASSUME NEW i \in DOMAIN t.down, Silent(t.down, q, i) PROVE HeardWell(t, q, c, o, i)
  <2>1. CASE i \in DOMAIN s.down
    <3>1. Silent(s.down, q, i)
      BY <1>3, <1>10
    <3>2. HeardWell(s, q, c, o, i)
      BY <2>1, <3>1 DEF Heard
    <3>3. t.down[i] = s.down[i] /\ i \in Nat
      BY <1>2, <2>1
    <3> QED BY <1>5, <1>6, <3>2, <3>3 DEF HeardWell
  <2>2. ASSUME NEW k \in Nat, k \in DOMAIN more, i = n + k, t.down[i] = more[k]
        PROVE  HeardWell(t, q, c, o, i)
    <3>1. t.down[i].at[q] = v2
      BY <2>2
    <3>2. t.down[i].type = "Snapshot" => Told(t, q, c, v2, n + k) /\ Ready(t, q, n + k)
      BY <1>2, <1>8, <2>2
    <3> QED BY <2>2, <3>1, <3>2 DEF HeardWell
  <2> QED BY <1>2, <2>1, <2>2
<1>11. ~b \/ t.timer =>
         \E i \in DOMAIN t.down : Silent(t.down, q, i) /\ t.down[i].type = "Snapshot"
  <2>1. ASSUME ~b \/ t.timer
        PROVE  \E i \in DOMAIN t.down : Silent(t.down, q, i) /\ t.down[i].type = "Snapshot"
    <3>1. PICK i \in DOMAIN s.down : Silent(s.down, q, i) /\ s.down[i].type = "Snapshot"
      BY <2>1 DEF Heard
    <3> QED BY <1>2, <1>3, <3>1
  <2> QED BY <2>1
<1> QED BY <1>9, <1>10, <1>11 DEF Heard

\* The first request is taken: the last one is still to come, or it was that.
LEMMA TailAsked ==
  ASSUME NEW s, s.up \in Seq(Request), s.up # <<>>, NEW t, t.up = Tail(s.up), NEW q
  PROVE  LET m == Head(s.up)
         IN  /\ m \in Request /\ m = s.up[1] /\ 1 \in DOMAIN s.up
             /\ \A c : Quoted(s, q, c) => Quoted(t, q, c)
             /\ (Asked(s, q) => AskedLast(s, q)) =>
                  /\ Asked(t, q) => AskedLast(t, q)
                  /\ \/ Asked(t, q)
                     \/ ~Asked(s, q) /\ m.query # q
                     \/ m.query = q /\ m.type = "Watch"
<1>1. /\ Head(s.up) \in Request /\ Head(s.up) = s.up[1] /\ 1 \in DOMAIN s.up
      /\ DOMAIN s.up = 1..Len(s.up) /\ Len(s.up) \in Nat /\ Len(s.up) >= 1
      /\ t.up \in Seq(Request) /\ Len(t.up) = Len(s.up) - 1
      /\ \A i \in 1..(Len(s.up) - 1) : t.up[i] = s.up[i + 1]
  BY HeadTailProperties, EmptySeq, LenProperties
<1>2. DOMAIN t.up = 1..(Len(s.up) - 1)
  BY <1>1, LenProperties
<1>3. \A i \in DOMAIN t.up : i + 1 \in DOMAIN s.up /\ t.up[i] = s.up[i + 1]
  BY <1>1, <1>2
<1>4. \A i, k \in Nat : k = i + 1 => (AskedAt(t, q, i) <=> AskedAt(s, q, k) /\ k # 1)
  <2> SUFFICES ASSUME NEW i \in Nat, NEW k \in Nat, k = i + 1
               PROVE  AskedAt(t, q, i) <=> AskedAt(s, q, k) /\ k # 1
    OBVIOUS
  <2>1. i \in DOMAIN t.up <=> k \in DOMAIN s.up /\ k # 1
    BY <1>1, <1>2
  <2>2. i \in DOMAIN t.up => t.up[i] = s.up[k]
    BY <1>3
  <2> QED BY <2>1, <2>2 DEF AskedAt
<1>5. ASSUME NEW c, Quoted(s, q, c) PROVE Quoted(t, q, c)
  BY <1>3, <1>5 DEF Quoted
<1>6. ASSUME Asked(s, q) => AskedLast(s, q)
      PROVE  /\ Asked(t, q) => AskedLast(t, q)
             /\ \/ Asked(t, q)
                \/ ~Asked(s, q) /\ Head(s.up).query # q
                \/ Head(s.up).query = q /\ Head(s.up).type = "Watch"
  <2>1. CASE ~Asked(s, q)
    <3>1. \A i \in Nat : i + 1 \in Nat
      OBVIOUS
    <3>2. ~Asked(t, q)
      BY <1>4, <2>1, <3>1 DEF Asked
    <3>3. Head(s.up).query # q
      BY <1>1, <2>1 DEF Asked, AskedAt
    <3> QED BY <2>1, <3>2, <3>3
  <2>2. CASE Asked(s, q)
    <3>1. PICK i \in Nat : /\ AskedAt(s, q, i) /\ s.up[i].type = "Watch"
                           /\ \A k \in Nat : AskedAt(s, q, k) => k <= i
      BY <1>6, <2>2 DEF AskedLast
    <3>2. CASE i = 1
      <4>1. ASSUME NEW j \in Nat PROVE ~AskedAt(t, q, j)
        <5>1. j + 1 \in Nat /\ ~(j + 1 # 1 /\ j + 1 <= i)
          BY <3>2
        <5> QED BY <1>4, <3>1, <5>1
      <4>2. Head(s.up).query = q /\ Head(s.up).type = "Watch"
        BY <1>1, <3>1, <3>2 DEF AskedAt
      <4> QED BY <4>1, <4>2 DEF Asked
    <3>3. CASE i # 1
      <4>1. i \in 1..Len(s.up)
        BY <1>1, <3>1 DEF AskedAt
      <4>2. PICK j \in Nat : i = j + 1
        <5>1. i - 1 \in Nat /\ i = (i - 1) + 1
          BY <3>3, <4>1
        <5> QED BY <5>1
      <4>3. AskedAt(t, q, j)
        BY <1>4, <3>1, <3>3, <4>2
      <4>4. t.up[j].type = "Watch"
        BY <1>3, <3>1, <4>2, <4>3 DEF AskedAt
      <4>5. ASSUME NEW k \in Nat, AskedAt(t, q, k) PROVE k <= j
        <5>1. k + 1 \in Nat
          OBVIOUS
        <5>2. k + 1 <= i
          BY <1>4, <3>1, <4>5, <5>1
        <5> QED BY <4>2, <5>2
      <4> QED BY <4>3, <4>4, <4>5 DEF Asked, AskedLast
    <3> QED BY <3>2, <3>3
  <2> QED BY <2>1, <2>2
<1> QED BY <1>1, <1>5, <1>6

\* The answer to a listen: what the client does not have, then that it is
\* current, then a snapshot.
LEMMA HeardAnswer ==
  ASSUME NEW s, NEW t, s.down \in Seq(Response), NEW more \in Seq(Response),
         t.down = s.down \o more, NEW q, NEW c, NEW v \in Int, NEW o \in Int, o <= v, NEW b,
         q \in t.served,
         NEW l \in Nat, l = Len(more), l \in DOMAIN more, more[l].type = "Snapshot",
         1 \in DOMAIN more, IsReply(more[1], q),
         \A k \in DOMAIN more : /\ IsReply(more[k], q) => k <= 1
                                /\ more[k].at[q] = v
                                /\ more[k].type = "Snapshot" => k = l,
         NEW i \in Nat, i \in DOMAIN more, 1 < i, i < l,
         more[i].query = q, more[i].type = "Current",
         \/ v <= c
         \/ \E j \in Nat : /\ j \in DOMAIN more /\ 1 < j /\ j < l
                           /\ more[j].query = q /\ more[j].type = "Document"
  PROVE  Heard(t, q, c, v, o, b)
<1> DEFINE n == Len(s.down)
<1>1. /\ n \in Nat /\ Len(t.down) = n + l
      /\ \A k \in Nat : k \in DOMAIN s.down => k <= n
      /\ \A k \in DOMAIN t.down :
           /\ k \in Nat
           /\ \/ k \in DOMAIN s.down /\ t.down[k] = s.down[k]
              \/ \E x \in Nat : x \in DOMAIN more /\ k = n + x /\ t.down[k] = more[x]
  <2>1. n \in Nat /\ Len(t.down) = n + l
    BY WireJoined
  <2>2. \A k \in Nat : k \in DOMAIN s.down => k <= n
    BY WireJoined
  <2>3. ASSUME NEW k \in DOMAIN t.down
        PROVE  /\ k \in Nat
               /\ \/ k \in DOMAIN s.down /\ t.down[k] = s.down[k]
                  \/ \E x \in Nat : x \in DOMAIN more /\ k = n + x /\ t.down[k] = more[x]
    <3>1. PICK ab : ab = s.down \o more /\ ab = t.down
      OBVIOUS
    <3>2. /\ k \in Nat
          /\ \/ k \in DOMAIN s.down /\ ab[k] = s.down[k]
             \/ \E x \in Nat : x \in DOMAIN more /\ k = n + x /\ ab[k] = more[x]
      BY <3>1, WireGrown
    <3> QED BY <3>1, <3>2
  <2> HIDE DEF n
  <2> QED BY <2>1, <2>2, <2>3
<1>2. \A k \in Nat : k \in DOMAIN more => n + k \in DOMAIN t.down /\ k >= 1 /\ t.down[n + k] = more[k]
  BY WireJoined
<1>3. /\ \A k \in Nat : k > 1 => Silent(t.down, q, n + k)
      /\ \A k \in Nat : k > 1 /\ k \in DOMAIN more /\ more[k].query = q
                          => Hears(t, q, n + k, more[k].type)
  <2>1. \A k \in DOMAIN more : IsReply(more[k], q) => k <= 1
    OBVIOUS
  <2>2. 1 \in Nat
    OBVIOUS
  <2> QED BY <2>1, <2>2, MoreHears
<1> HIDE DEF n
<1>4. ASSUME NEW k \in Nat, l <= k
      PROVE  Told(t, q, c, v, n + k) /\ Ready(t, q, n + k)
  <2>1. Ready(t, q, n + k)
    <3>1. Hears(t, q, n + i, "Current")
      BY <1>3
    <3>2. n + i \in Nat /\ n + i < n + k
      BY <1>1, <1>4
    <3> QED BY <3>1, <3>2 DEF Ready
  <2>2. CASE v <= c
    BY <2>1, <2>2 DEF Told
  <2>3. ASSUME NEW j \in Nat, j \in DOMAIN more, 1 < j, j < l,
               more[j].query = q, more[j].type = "Document"
        PROVE  Told(t, q, c, v, n + k)
    <3>1. Hears(t, q, n + j, "Document")
      BY <1>3, <2>3
    <3>2. n + j \in Nat /\ n + j < n + k
      BY <1>1, <1>4, <2>3
    <3>3. t.down[n + j].at[q] = v
      BY <1>2, <2>3
    <3>4. v <= t.down[n + j].at[q]
      BY <3>3
    <3> QED BY <3>1, <3>2, <3>4 DEF Told
  <2> QED BY <2>1, <2>2, <2>3
<1>5. Told(t, q, c, v, Len(t.down) + 1) /\ Ready(t, q, Len(t.down) + 1)
  <2>1. PICK k \in Nat : k = l + 1
    OBVIOUS
  <2>2. Len(t.down) + 1 = n + k /\ l <= k
    BY <1>1, <2>1
  <2> QED BY <1>4, <2>2
<1>6. ASSUME NEW k \in DOMAIN t.down, Silent(t.down, q, k) PROVE HeardWell(t, q, c, o, k)
  <2>1. n + 1 < k /\ k \in Nat
    <3>1. n + 1 \in DOMAIN t.down /\ t.down[n + 1] = more[1]
      BY <1>2
    <3> QED BY <1>1, <1>6, <3>1 DEF Silent
  <2>2. ~(k \in DOMAIN s.down)
    BY <1>1, <2>1
  <2>3. PICK x \in Nat : x \in DOMAIN more /\ k = n + x /\ t.down[k] = more[x]
    BY <1>1, <2>2
  <2>4. t.down[k].at[q] = v
    BY <2>3
  <2>5. ASSUME t.down[k].type = "Snapshot" PROVE Told(t, q, c, v, k) /\ Ready(t, q, k)
    <3>1. x = l
      BY <2>3, <2>5
    <3>2. l <= l /\ k = n + l
      BY <2>3, <3>1
    <3> QED BY <1>4, <3>2
  <2> QED BY <2>4, <2>5 DEF HeardWell
<1>7. \E k \in DOMAIN t.down : Silent(t.down, q, k) /\ t.down[k].type = "Snapshot"
  <2>1. n + l \in DOMAIN t.down /\ t.down[n + l] = more[l]
    BY <1>2
  <2>2. l > 1
    OBVIOUS
  <2>3. Silent(t.down, q, n + l)
    BY <1>3, <2>2
  <2> QED BY <2>1, <2>3
<1> QED BY <1>5, <1>6, <1>7 DEF Heard

\* One sequence is two, one behind the other.
Joins(s, t, u) ==
  /\ Len(u) = Len(s) + Len(t)
  /\ \A i \in 1..Len(s) : u[i] = s[i]
  /\ \A i \in 1..Len(t) : u[Len(s) + i] = t[i]

LEMMA JoinedIs ==
  ASSUME NEW X, NEW s \in Seq(X), NEW t \in Seq(X), NEW u \in Seq(X), Joins(s, t, u)
  PROVE  s \o t = u
<1>1. PICK n \in Nat, m \in Nat : n = Len(s) /\ m = Len(t)
  BY LenProperties
<1>2. s \o t \in Seq(X) /\ Len(s \o t) = n + m 
  BY <1>1, ConcatProperties
<1>3. \A i \in 1..(n + m) : (s \o t)[i] = IF i <= n THEN s[i] ELSE t[i - n]
  BY <1>1, ConcatProperties
<1>4. ASSUME NEW i \in 1..(n + m) PROVE (s \o t)[i] = u[i]
  <2>1. CASE i <= n
    <3>1. i \in 1..Len(s)
      BY <1>1, <2>1
    <3>2. u[i] = s[i]
      BY <3>1 DEF Joins
    <3> QED BY <1>3, <2>1, <3>2
  <2>2. CASE ~(i <= n)
    <3>1. i - n \in 1..m
      BY <2>2
    <3>2. PICK k \in 1..m : k = i - n
      BY <3>1
    <3>3. n + k = i
      BY <3>2
    <3>4. u[n + k] = t[k]
      BY <1>1 DEF Joins
    <3> QED BY <1>3, <2>2, <3>2, <3>3, <3>4
  <2> QED BY <2>1, <2>2
<1>5. Len(u) = n + m
  BY <1>1 DEF Joins
<1> QED BY <1>2, <1>4, <1>5, SeqEqual

LEMMA TuplesJoined ==
  ASSUME NEW a, NEW b, NEW c, NEW d
  PROVE  /\ <<a>> \o <<b>> \o <<c, d>> = <<a, b, c, d>>
         /\ <<a>> \o <<>> \o <<c, d>> = <<a, c, d>>
<1> DEFINE X == {a, b, c, d}
           e == <<a>>
           f == <<b>>
           g == <<c, d>>
           ab == <<a, b>>
           acd == <<a, c, d>>
           abcd == <<a, b, c, d>>
<1>1. /\ e \in Seq(X) /\ f \in Seq(X) /\ g \in Seq(X) /\ ab \in Seq(X)
      /\ acd \in Seq(X) /\ abcd \in Seq(X)
  OBVIOUS
<1>2. Joins(e, f, ab)
  <2>1. Len(e) = 1 /\ Len(f) = 1 /\ Len(ab) = 2 /\ ab[1] = e[1] /\ ab[1 + 1] = f[1]
    OBVIOUS
  <2> HIDE DEF e, f, ab
  <2> QED BY <2>1 DEF Joins
<1>3. Joins(ab, g, abcd)
  BY DEF Joins
<1>4. Joins(e, g, acd)
  BY DEF Joins
<1>5. e \o <<>> = e
  OBVIOUS
<1> HIDE DEF X, e, f, g, ab, acd, abcd
<1>6. e \o f = ab /\ ab \o g = abcd /\ e \o g = acd
  BY <1>1, <1>2, <1>3, <1>4, JoinedIs
<1>7. e \o f \o g = abcd /\ e \o <<>> \o g = acd
  BY <1>5, <1>6
<1> QED BY <1>7 DEF e, f, g, acd, abcd

LEMMA AnswersKept ==
  ASSUME Rests(remote), server \in [Queries -> 0..MaxVersion], BackendAnswers,
         NEW R, Counted(remote, R),
         NEW q \in Queries, NEW c \in Versions, NEW o \in Int, o <= server[q], NEW b,
         Kept(remote, q, c, server[q], o, b)
  PROVE  Kept(remote', q, c, server[q], o, b)
<1> DEFINE m == Head(remote.up)
           p == m.query
           news == IF server[p] > m.known THEN <<Message("Document", p)>> ELSE <<>>
           answer == IF m.type = "Unwatch" THEN <<Message("Removed", p)>>
                     ELSE <<Message("Added", p)>> \o news
                          \o <<Message("Current", p), Message("Snapshot", p)>>
           served == IF m.type = "Unwatch" THEN remote.served \ {p}
                     ELSE remote.served \cup {p}
           v == server[q]
<1>1. /\ remote \in WatchRec /\ remote.up \in Seq(Request) /\ remote.down \in Seq(Response)
  BY DEF Rests, Sound, WatchRec
<1>2. /\ remote.up # <<>>
      /\ remote' = [remote EXCEPT !.up = Tail(remote.up), !.down = remote.down \o answer,
                                  !.served = served]
  BY DEF BackendAnswers
<1>3. m \in Request /\ Tail(remote.up) \in Seq(Request) /\ m = remote.up[1] /\ 1 \in DOMAIN remote.up
  BY <1>1, <1>2, TailAsked, HeadTailProperties
<1>4. p \in Queries /\ (m.type # "Unwatch" => m.type = "Watch" /\ m.known \in Int)
      /\ v \in Int /\ c \in Int
  BY <1>3, VersionsAreInts DEF Request
<1>5. PICK added \in Response, removed \in Response, document \in Response,
           current \in Response, snapshot \in Response :
        /\ added = Message("Added", p) /\ removed = Message("Removed", p)
        /\ document = Message("Document", p) /\ current = Message("Current", p)
        /\ snapshot = Message("Snapshot", p)
  <2>1. server \in [Queries -> Versions]
    BY RemoteWatchAssumption DEF Versions, NotKnown
  <2>2. \A type \in {"Added", "Removed", "Document", "Current", "Snapshot"} :
          Message(type, p) \in Response
    BY <1>4, <2>1 DEF Message, Response
  <2> QED BY <2>2
<1>6. /\ added.type = "Added" /\ removed.type = "Removed" /\ document.type = "Document"
      /\ current.type = "Current" /\ snapshot.type = "Snapshot"
      /\ \A x \in {added, removed, document, current, snapshot} : x.query = p /\ x.at[q] = v
  BY <1>5 DEF Message
<1>7. \/ m.type = "Unwatch" /\ answer = <<removed>>
      \/ m.type = "Watch" /\ server[p] > m.known /\ answer = <<added, document, current, snapshot>>
      \/ m.type = "Watch" /\ ~(server[p] > m.known) /\ answer = <<added, current, snapshot>>
  <2>1. CASE m.type = "Unwatch"
    BY <1>5, <2>1
  <2>2. CASE m.type # "Unwatch" /\ server[p] > m.known
    <3>1. answer = <<added>> \o <<document>> \o <<current, snapshot>>
      BY <1>5, <2>2
    <3>2. <<added>> \o <<document>> \o <<current, snapshot>>
            = <<added, document, current, snapshot>>
      BY TuplesJoined
    <3> QED BY <1>4, <2>2, <3>1, <3>2
  <2>3. CASE m.type # "Unwatch" /\ ~(server[p] > m.known)
    <3>1. answer = <<added>> \o <<>> \o <<current, snapshot>>
      BY <1>5, <2>3
    <3>2. <<added>> \o <<>> \o <<current, snapshot>> = <<added, current, snapshot>>
      BY TuplesJoined
    <3> QED BY <1>4, <2>3, <3>1, <3>2
  <2> QED BY <2>1, <2>2, <2>3
<1> HIDE DEF m, p, news, answer
<1>8. /\ answer \in Seq(Response)
      /\ \A k \in DOMAIN answer : answer[k] \in {added, removed, document, current, snapshot}
  <2>1. CASE answer = <<removed>>
    BY <2>1
  <2>2. CASE answer = <<added, document, current, snapshot>>
    BY <2>2
  <2>3. CASE answer = <<added, current, snapshot>>
    BY <2>3
  <2> QED BY <1>7, <2>1, <2>2, <2>3
<1>9. Updated(remote', q) = Updated(remote, q) /\ IsCurrent(remote', q) = IsCurrent(remote, q)
      /\ remote'.timer = remote.timer /\ remote'.stream = remote.stream
      /\ remote'.targets = remote.targets /\ remote'.up = Tail(remote.up)
      /\ remote'.down = remote.down \o answer /\ remote'.served = served
  BY <1>1, <1>2 DEF WatchRec, Updated, IsCurrent
<1>10. /\ \A k \in DOMAIN answer : answer[k].at[q] = v /\ answer[k].query = p
  BY <1>6, <1>8
<1>11. IsOpen(remote) /\ IsOpen(remote') /\ (q \in Listening(remote') <=> q \in Listening(remote))
       /\ Resumed(remote', q, c)
  <2>1. IsOpen(remote)
    BY <1>2, OpenWires
  <2> QED BY <1>9, <2>1 DEF IsOpen, Listening, Kept, Resumed
<1>12. Ordered(remote', q, v)
  <2>1. Ordered(remote, q, v)
    BY <1>11 DEF Kept
  <2>2. v <= v
    BY <1>4
  <2> HIDE DEF v
  <2>3. \A k \in DOMAIN answer : answer[k].at[q] = v
    BY <1>10
  <2> QED BY <1>1, <1>4, <1>8, <1>9, <2>1, <2>2, <2>3, OrderedMore
<1>13. /\ Quoted(remote', q, c)
       /\ q \in Listening(remote) =>
            /\ Asked(remote', q) => AskedLast(remote', q)
            /\ \/ Asked(remote', q)
               \/ ~Asked(remote, q) /\ p # q
               \/ p = q /\ m.type = "Watch"
  <2>1. Quoted(remote, q, c) /\ (q \in Listening(remote) /\ Asked(remote, q) => AskedLast(remote, q))
    BY <1>11 DEF Kept
  <2>2. remote.up \in Seq(Request) /\ remote.up # <<>> /\ remote'.up = Tail(remote.up)
    BY <1>1, <1>2, <1>9
  <2>3. Quoted(remote, q, c) => Quoted(remote', q, c)
    BY <2>2, TailAsked
  <2>4. (Asked(remote, q) => AskedLast(remote, q)) =>
          /\ Asked(remote', q) => AskedLast(remote', q)
          /\ \/ Asked(remote', q)
             \/ ~Asked(remote, q) /\ Head(remote.up).query # q
             \/ Head(remote.up).query = q /\ Head(remote.up).type = "Watch"
    BY <2>2, TailAsked
  <2> QED BY <2>1, <2>3, <2>4 DEF m, p
<1>14. ASSUME q \in Listening(remote), ~Asked(remote, q), p # q
       PROVE  Heard(remote', q, c, v, o, b)
  <2>1. Heard(remote, q, c, v, o, b) /\ o <= v
    BY <1>11, <1>14 DEF Kept
  <2>2. q \in remote'.served
    BY <1>9, <1>14, <2>1 DEF Heard
  <2>3. \A k \in DOMAIN answer : ~IsReply(answer[k], q) /\ answer[k].at[q] = v
    BY <1>10, <1>14 DEF IsReply
  <2> HIDE DEF v
  <2> QED BY <1>1, <1>4, <1>8, <1>9, <2>1, <2>2, <2>3, HeardMore
<1>15. ASSUME p = q, m.type = "Watch"
       PROVE  Heard(remote', q, c, v, o, b)
  <2>1. q \in remote'.served
    BY <1>9, <1>15
  <2>2. m.known <= c
    BY <1>3, <1>15 DEF Kept, Quoted, p
  <2>3. /\ IsReply(added, q) /\ ~IsReply(document, q) /\ ~IsReply(current, q)
        /\ ~IsReply(snapshot, q)
    BY <1>6, <1>15 DEF IsReply
  <2>4. o <= v
    OBVIOUS
  <2> HIDE DEF v, served
  <2>5. CASE server[p] > m.known
    <3>1. answer = <<added, document, current, snapshot>>
      BY <1>7, <1>15, <2>5
    <3>2. /\ Len(answer) = 4 /\ DOMAIN answer = {1, 2, 3, 4} /\ answer[1] = added
          /\ answer[2] = document /\ answer[3] = current /\ answer[4] = snapshot
      BY <3>1
    <3>3. \A k \in DOMAIN answer : /\ IsReply(answer[k], q) => k <= 1
                                   /\ answer[k].at[q] = v
                                   /\ answer[k].type = "Snapshot" => k = 4
      BY <1>6, <1>10, <2>3, <3>2
    <3>4. \E j \in Nat : /\ j \in DOMAIN answer /\ 1 < j /\ j < 4
                         /\ answer[j].query = q /\ answer[j].type = "Document"
      <4>1. 2 \in Nat /\ 2 \in DOMAIN answer /\ 1 < 2 /\ 2 < 4 /\ answer[2].query = q
            /\ answer[2].type = "Document"
        BY <1>6, <1>15, <3>2
      <4> QED BY <4>1
    <3>5. /\ 4 \in DOMAIN answer /\ answer[4].type = "Snapshot" /\ 1 \in DOMAIN answer
          /\ IsReply(answer[1], q) /\ 3 \in DOMAIN answer /\ 1 < 3 /\ 3 < 4 /\ 3 \in Nat /\ 4 \in Nat
          /\ answer[3].query = q /\ answer[3].type = "Current"
      BY <1>6, <1>15, <2>3, <3>2
    <3> QED BY <1>1, <1>4, <1>8, <1>9, <2>1, <2>4, <3>2, <3>3, <3>4, <3>5, HeardAnswer, ZenonT(40)
  <2>6. CASE ~(server[p] > m.known)
    <3>1. answer = <<added, current, snapshot>>
      BY <1>7, <1>15, <2>6
    <3>2. /\ Len(answer) = 3 /\ DOMAIN answer = {1, 2, 3} /\ answer[1] = added
          /\ answer[2] = current /\ answer[3] = snapshot
      BY <3>1
    <3>3. \A k \in DOMAIN answer : /\ IsReply(answer[k], q) => k <= 1
                                   /\ answer[k].at[q] = v
                                   /\ answer[k].type = "Snapshot" => k = 3
      BY <1>6, <1>10, <2>3, <3>2
    <3>4. v <= c
      BY <1>4, <1>15, <2>2, <2>6 DEF v
    <3>5. /\ 3 \in DOMAIN answer /\ answer[3].type = "Snapshot" /\ 1 \in DOMAIN answer
          /\ IsReply(answer[1], q) /\ 2 \in DOMAIN answer /\ 1 < 2 /\ 2 < 3 /\ 3 \in Nat /\ 2 \in Nat
          /\ answer[2].query = q /\ answer[2].type = "Current"
      BY <1>6, <1>15, <2>3, <3>2
    <3> QED BY <1>1, <1>4, <1>8, <1>9, <2>1, <2>4, <3>2, <3>3, <3>4, <3>5, HeardAnswer
  <2> QED BY <2>5, <2>6
<1>16. ~(remote'.stream \in {"Starting", "Backoff"})
  BY <1>11 DEF IsOpen
<1> HIDE DEF v
<1> QED BY <1>11, <1>12, <1>13, <1>14, <1>15, <1>16 DEF Kept, v

LEMMA RefusesKept ==
  ASSUME Rests(remote), server \in [Queries -> 0..MaxVersion], BackendRefuses,
         NEW R, Counted(remote, R),
         NEW q \in Queries \ refused', NEW c \in Versions, NEW o \in Int, o <= server[q], NEW b,
         Kept(remote, q, c, server[q], o, b)
  PROVE  Kept(remote', q, c, server[q], o, b)
<1> DEFINE p == Head(remote.up).query
           no == Message("Rejected", p)
           v == server[q]
<1>1. /\ remote \in WatchRec /\ remote.up \in Seq(Request) /\ remote.down \in Seq(Response)
  BY DEF Rests, Sound, WatchRec
<1>2. /\ remote.up # <<>> /\ refused' = refused \cup {p}
      /\ remote' = [remote EXCEPT !.up = Tail(remote.up), !.down = Append(remote.down, no)]
  BY DEF BackendRefuses
<1>3. p \in Queries /\ p # q /\ v \in Int
  <2>1. Head(remote.up) \in Request
    BY <1>1, <1>2, HeadTailProperties
  <2> QED BY <1>2, <2>1 DEF Request
<1>4. no \in Response /\ no.query = p /\ no.type = "Rejected" /\ no.at[q] = v
  <2>1. server \in [Queries -> Versions]
    BY RemoteWatchAssumption DEF Versions, NotKnown
  <2> QED BY <1>3, <2>1 DEF Message, Response
<1> HIDE DEF p, no
<1>5. PICK more \in Seq(Response) : /\ Append(remote.down, no) = remote.down \o more
                                    /\ DOMAIN more = {1} /\ more[1] = no
  <2>1. /\ <<no>> \in Seq(Response) /\ DOMAIN <<no>> = {1} /\ <<no>>[1] = no
        /\ Append(remote.down, no) = remote.down \o <<no>>
    BY <1>1, <1>4, AppendIsConcat
  <2> QED BY <2>1
<1>6. \A k \in DOMAIN more : ~IsReply(more[k], q) /\ more[k].at[q] = v
  BY <1>3, <1>4, <1>5 DEF IsReply
<1>7. Updated(remote', q) = Updated(remote, q) /\ IsCurrent(remote', q) = IsCurrent(remote, q)
      /\ remote'.timer = remote.timer /\ remote'.stream = remote.stream
      /\ remote'.targets = remote.targets /\ remote'.up = Tail(remote.up)
      /\ remote'.down = remote.down \o more /\ remote'.served = remote.served
  BY <1>1, <1>2, <1>5 DEF WatchRec, Updated, IsCurrent
<1>8. IsOpen(remote) /\ IsOpen(remote') /\ (q \in Listening(remote') <=> q \in Listening(remote))
       /\ Resumed(remote', q, c)
  <2>1. IsOpen(remote)
    BY <1>2, OpenWires
  <2> QED BY <1>7, <2>1 DEF IsOpen, Listening, Kept, Resumed
<1>9. Ordered(remote', q, v)
  <2>1. Ordered(remote, q, v) /\ v <= v
    BY <1>3, <1>8 DEF Kept
  <2>2. \A k \in DOMAIN more : more[k].at[q] = v
    BY <1>6
  <2> HIDE DEF v
  <2> QED BY <1>1, <1>3, <1>7, <2>1, <2>2, OrderedMore
<1>10. /\ Quoted(remote', q, c)
       /\ q \in Listening(remote) =>
            /\ Asked(remote', q) => AskedLast(remote', q)
            /\ Asked(remote', q) \/ ~Asked(remote, q)
  <2>1. Quoted(remote, q, c) /\ (q \in Listening(remote) /\ Asked(remote, q) => AskedLast(remote, q))
    BY <1>8 DEF Kept
  <2>2. remote.up \in Seq(Request) /\ remote.up # <<>> /\ remote'.up = Tail(remote.up)
    BY <1>1, <1>2, <1>7
  <2>3. Quoted(remote, q, c) => Quoted(remote', q, c)
    BY <2>2, TailAsked
  <2>4. (Asked(remote, q) => AskedLast(remote, q)) =>
          /\ Asked(remote', q) => AskedLast(remote', q)
          /\ \/ Asked(remote', q)
             \/ ~Asked(remote, q) /\ Head(remote.up).query # q
             \/ Head(remote.up).query = q /\ Head(remote.up).type = "Watch"
    BY <2>2, TailAsked
  <2> QED BY <1>3, <2>1, <2>3, <2>4 DEF p
<1>11. ASSUME q \in Listening(remote), ~Asked(remote, q)
       PROVE  Heard(remote', q, c, v, o, b)
  <2>1. Heard(remote, q, c, v, o, b) /\ o <= v
    BY <1>8, <1>11 DEF Kept
  <2>2. q \in remote'.served
    BY <1>7, <2>1 DEF Heard
  <2> HIDE DEF v
  <2> QED BY <1>1, <1>3, <1>6, <1>7, <2>1, <2>2, HeardMore
<1>12. ~(remote'.stream \in {"Starting", "Backoff"})
  BY <1>8 DEF IsOpen
<1> HIDE DEF v
<1> QED BY <1>8, <1>9, <1>10, <1>11, <1>12 DEF Kept, v

LEMMA ChangesKept ==
  ASSUME Rests(remote), server \in [Queries -> 0..MaxVersion],
         NEW p \in Queries, BackendChanges(p), NEW R, Counted(remote, R),
         NEW q \in Queries, NEW c \in Versions, NEW o \in Int, o <= server[q], NEW b,
         Kept(remote, q, c, server[q], o, b)
  PROVE  Kept(remote', q, c, server'[q], o, b)
<1> DEFINE v == server[q]
           w == server'[q]
<1>1. /\ remote \in WatchRec /\ remote.up \in Seq(Request) /\ remote.down \in Seq(Response)
  BY DEF Rests, Sound, WatchRec
<1>2. /\ v \in Int /\ w \in Int /\ v <= w /\ o <= w /\ (q # p => w = v)
      /\ server' \in [Queries -> 0..MaxVersion]
  <2>1. server' = [server EXCEPT ![p] = @ + 1] /\ server' \in [Queries -> 0..MaxVersion]
    BY ChangesRest DEF BackendChanges
  <2>2. v \in Int /\ w \in Int
    BY <2>1
  <2>3. CASE q = p
    BY <2>1, <2>2, <2>3
  <2>4. CASE q # p
    BY <2>1, <2>2, <2>4
  <2> QED BY <2>1, <2>2, <2>3, <2>4
<1> HIDE DEF v, w
<1>3. Kept(remote, q, c, v, o, b)
  BY DEF v
<1>4. CASE p \notin remote.served
  <2>1. remote' = remote
    BY <1>4 DEF BackendChanges
  <2>2. CASE q # p
    BY <1>2, <1>3, <2>1, <2>2 DEF w
  <2>3. CASE q = p
    <3>1. ~Heard(remote, q, c, v, o, b)
      BY <1>4, <2>3 DEF Heard
    <3>2. ASSUME Ordered(remote, q, v) PROVE Ordered(remote, q, w)
      <4>1. <<>> \in Seq(Response) /\ DOMAIN <<>> = {} /\ remote.down = remote.down \o <<>>
        BY <1>1
      <4>2. \A k \in DOMAIN <<>> : <<>>[k].at[q] = w
        BY <4>1
      <4> QED BY <1>1, <1>2, <3>2, <4>1, <4>2, OrderedMore
    <3>3. Kept(remote, q, c, w, o, b)
      BY <1>3, <3>1, <3>2 DEF Kept
    <3> QED BY <2>1, <3>3 DEF w
  <2> QED BY <2>2, <2>3
<1>5. CASE p \in remote.served
  <2> DEFINE document == [type |-> "Document", query |-> p, at |-> server']
             snapshot == [type |-> "Snapshot", query |-> p, at |-> server']
  <2>1. remote' = [remote EXCEPT !.down = remote.down \o <<document, snapshot>>]
    BY <1>5 DEF BackendChanges
  <2>2. document \in Response /\ snapshot \in Response
    <3>1. server' \in [Queries -> Versions]
      BY <1>2, RemoteWatchAssumption DEF Versions, NotKnown
    <3> QED BY <3>1 DEF Response
  <2>3. /\ document.type = "Document" /\ snapshot.type = "Snapshot" /\ document.query = p
        /\ document.at[q] = w /\ snapshot.at[q] = w
        /\ ~IsReply(document, q) /\ ~IsReply(snapshot, q)
    BY DEF IsReply, w
  <2> HIDE DEF document, snapshot
  <2>4. PICK more \in Seq(Response) : /\ more = <<document, snapshot>>
    <3>1. <<document, snapshot>> \in Seq(Response)
      BY <2>2
    <3> QED BY <3>1
  <2>5. DOMAIN more = {1, 2} /\ more[1] = document /\ more[2] = snapshot
    BY <2>4
  <2>6. \A k \in DOMAIN more : ~IsReply(more[k], q) /\ more[k].at[q] = w
    BY <2>3, <2>5
  <2>7. Updated(remote', q) = Updated(remote, q) /\ IsCurrent(remote', q) = IsCurrent(remote, q)
        /\ remote'.timer = remote.timer /\ remote'.stream = remote.stream
        /\ remote'.targets = remote.targets /\ remote'.up = remote.up
        /\ remote'.down = remote.down \o more /\ remote'.served = remote.served
    BY <1>1, <2>1, <2>4 DEF WatchRec, Updated, IsCurrent
  <2>8. IsOpen(remote) /\ IsOpen(remote')
        /\ (q \in Listening(remote') <=> q \in Listening(remote)) /\ Resumed(remote', q, c)
        /\ Quoted(remote', q, c)
    <3>1. IsOpen(remote)
      BY <1>5 DEF Counted
    <3> QED BY <1>3, <2>7, <3>1 DEF IsOpen, Listening, Kept, Resumed, Quoted
  <2>9. Ordered(remote', q, w)
    <3>1. Ordered(remote, q, v)
      BY <1>3, <2>8 DEF Kept
    <3>2. \A k \in DOMAIN more : more[k].at[q] = w
      BY <2>6
    <3> QED BY <1>1, <1>2, <2>7, <3>1, <3>2, OrderedMore
  <2>10. (Asked(remote', q) <=> Asked(remote, q)) /\ (AskedLast(remote', q) <=> AskedLast(remote, q))
    BY <2>7 DEF Asked, AskedAt, AskedLast
  <2>11. ASSUME Heard(remote, q, c, v, o, b) PROVE Heard(remote', q, c, w, o, b)
    <3>1. q \in remote'.served
      BY <2>7, <2>11 DEF Heard
    <3>2. \/ w = v
          \/ \E j \in DOMAIN more : /\ more[j].query = q /\ more[j].type = "Document"
                                    /\ \A k \in DOMAIN more : more[k].type = "Snapshot" => j < k
      <4>1. CASE q = p
        <5>1. 1 \in DOMAIN more /\ more[1].query = q /\ more[1].type = "Document"
          BY <2>3, <2>5, <4>1
        <5>2. \A k \in DOMAIN more : more[k].type = "Snapshot" => 1 < k
          BY <2>3, <2>5
        <5> QED BY <5>1, <5>2
      <4> QED BY <1>2, <4>1
    <3> QED BY <1>1, <1>2, <2>6, <2>7, <2>11, <3>1, <3>2, HeardMore
  <2>12. ~(remote'.stream \in {"Starting", "Backoff"})
    BY <2>8 DEF IsOpen
  <2>13. Kept(remote', q, c, w, o, b)
    BY <1>3, <2>8, <2>9, <2>10, <2>11, <2>12 DEF Kept
  <2> QED BY <2>13 DEF w
<1> QED BY <1>4, <1>5

\* What a message does to the books of a target.
Effect(s, t, m, q) ==
  /\ SameWires(s, t) /\ ~t.timer /\ (q \in Listening(t) <=> q \in Listening(s))
  /\ Updated(t, q) = IF m.type = "Snapshot" THEN NotKnown
                     ELSE IF m.type = "Document" /\ m.query = q /\ IsActiveTarget(s, q)
                          THEN m.at[q] ELSE Updated(s, q)
  /\ q \in Listening(s) =>
       t.targets[q] = IF m.type = "Snapshot" /\ IsActiveTarget(s, q) THEN m.at[q]
                      ELSE s.targets[q]
  /\ ~IsReply(m, q) =>
       (IsCurrent(t, q) <=> \/ IsCurrent(s, q)
                            \/ m.type = "Current" /\ m.query = q /\ IsActiveTarget(s, q))

LEMMA RestatedFor ==
  ASSUME NEW s \in WatchRec, NEW p \in Queries, NEW state, NEW q \in Queries
  PROVE  LET t == Restated(s, p, state)
         IN  /\ SameWires(s, t) /\ t.timer = s.timer /\ t.targets = s.targets
             /\ Updated(t, q) = Updated(s, q)
             /\ IsCurrent(t, q) = IF q = p THEN state.current ELSE IsCurrent(s, q)
<1> DEFINE states == [s.aggregator.states EXCEPT ![p] = state]
           a == [s.aggregator EXCEPT !.states = states]
           t == Restated(s, p, state)
<1>1. t = [s EXCEPT !.aggregator = a]
  BY DEF Restated
<1>2. states[q] = IF q = p THEN state ELSE s.aggregator.states[q]
  BY DEF WatchRec, Aggregators
<1> HIDE DEF states, t
<1>3. a.states = states /\ a.updates = s.aggregator.updates
  BY DEF WatchRec, Aggregators
<1> HIDE DEF a
<1>4. /\ t.aggregator = a /\ t.stream = s.stream /\ t.up = s.up /\ t.down = s.down
      /\ t.served = s.served /\ t.timer = s.timer /\ t.targets = s.targets
  BY <1>1 DEF WatchRec
<1>5. IsCurrent(t, q) = IF q = p THEN state.current ELSE IsCurrent(s, q)
  BY <1>2, <1>3, <1>4 DEF IsCurrent
<1> QED BY <1>3, <1>4, <1>5 DEF SameWires, Updated, t

LEMMA MessageEffect ==
  ASSUME NEW s \in WatchRec, NEW m \in Response, NEW q \in Queries,
         m.type = "Rejected" => m.query # q
  PROVE  Effect(s, OnWatchStreamChange(s, m), m, q)
<1> DEFINE o == UpdateState(s, "Online")
           p == m.query
           was == o.aggregator.states[p]
           answered == was.pending - 1
           t == OnWatchStreamChange(s, m)
<1> SUFFICES Effect(s, t, m, q)
  OBVIOUS
<1>1. /\ p \in Queries
      /\ m.type \in {"Added", "Removed", "Rejected", "Document", "Current", "Snapshot"}
  BY DEF Response
<1>2. /\ o \in WatchRec /\ SameWires(s, o) /\ ~o.timer /\ o.targets = s.targets
      /\ o.aggregator = s.aggregator
  BY UpdateStateIs DEF SameWires
<1>3. t = CASE m.type = "Added" ->
                 [o EXCEPT !.aggregator.states[p].pending = answered]
            [] m.type = "Removed" ->
                 IF answered = 0
                 THEN [o EXCEPT !.aggregator.states[p] = NoTargetState]
                 ELSE [o EXCEPT !.aggregator.states[p].pending = answered]
            [] m.type = "Rejected" ->
                 IF p \in Listening(s)
                 THEN [Erase(o, p) EXCEPT !.aggregator.states[p] = NoTargetState]
                 ELSE o
            [] m.type = "Document" ->
                 IF IsActiveTarget(s, p)
                 THEN [o EXCEPT !.aggregator.updates[p] = m.at[p]] ELSE o
            [] m.type = "Current" ->
                 IF IsActiveTarget(s, p)
                 THEN [o EXCEPT !.aggregator.states[p].current = TRUE] ELSE o
            [] m.type = "Snapshot" -> RaiseWatchSnapshot(o, m.at)
  BY DEF OnWatchStreamChange
<1> HIDE DEF o, t
<1>4. IsReply(m, q) <=> m.type \in {"Added", "Removed"} /\ p = q
  BY DEF IsReply
<1>5. was \in TargetState /\ was.current = IsCurrent(o, p)
  BY <1>1, <1>2 DEF WatchRec, Aggregators, IsCurrent
<1>6. Updated(o, q) = Updated(s, q) /\ IsCurrent(o, q) = IsCurrent(s, q)
      /\ (q \in Listening(o) <=> q \in Listening(s)) /\ IsCurrent(s, q) \in BOOLEAN
  BY <1>2 DEF WatchRec, Aggregators, TargetState, Updated, IsCurrent, Listening
<1>7. ASSUME t = o,
             m.type \notin {"Snapshot"},
             m.type \in {"Document", "Current"} => ~(p = q /\ IsActiveTarget(s, q))
      PROVE  Effect(s, t, m, q)
  BY <1>2, <1>6, <1>7 DEF Effect
<1>8. ASSUME NEW state, t = Restated(o, p, state),
             m.type \in {"Added", "Removed", "Current"},
             m.type = "Current" => state.current = TRUE /\ IsActiveTarget(s, p)
      PROVE  Effect(s, t, m, q)
  <2>1. /\ SameWires(o, t) /\ t.timer = o.timer /\ t.targets = o.targets
        /\ Updated(t, q) = Updated(o, q)
        /\ IsCurrent(t, q) = IF q = p THEN state.current ELSE IsCurrent(o, q)
    <3>1. PICK x \in Queries : x = p
      BY <1>1
    <3>2. /\ SameWires(o, Restated(o, x, state)) /\ Restated(o, x, state).timer = o.timer
          /\ Restated(o, x, state).targets = o.targets
          /\ Updated(Restated(o, x, state), q) = Updated(o, q)
          /\ IsCurrent(Restated(o, x, state), q) = IF q = x THEN state.current ELSE IsCurrent(o, q)
      BY <1>2, RestatedFor
    <3> QED BY <1>8, <3>1, <3>2
  <2>2. SameWires(s, t) /\ ~t.timer /\ (q \in Listening(t) <=> q \in Listening(s))
        /\ t.targets = s.targets
    BY <1>2, <2>1 DEF SameWires, Listening
  <2>3. CASE m.type \in {"Added", "Removed"}
    BY <1>4, <1>6, <2>1, <2>2, <2>3 DEF Effect
  <2>4. CASE m.type = "Current"
    BY <1>6, <1>8, <2>1, <2>2, <2>4 DEF Effect
  <2> QED BY <1>8, <2>3, <2>4
<1>9. CASE m.type \in {"Added", "Removed"}
  <2>1. \/ t = [o EXCEPT !.aggregator.states[p].pending = answered]
        \/ t = [o EXCEPT !.aggregator.states[p] = NoTargetState]
    BY <1>3, <1>9
  <2>2. CASE t = [o EXCEPT !.aggregator.states[p].pending = answered]
    <3> DEFINE state == [was EXCEPT !.pending = answered]
    <3>1. t = Restated(o, p, state)
      BY <2>2 DEF Restated
    <3> HIDE DEF state
    <3> QED BY <1>8, <1>9, <3>1
  <2>3. CASE t = [o EXCEPT !.aggregator.states[p] = NoTargetState]
    <3>1. t = Restated(o, p, NoTargetState)
      BY <2>3 DEF Restated
    <3> QED BY <1>8, <1>9, <3>1
  <2> QED BY <2>1, <2>2, <2>3
<1>10. CASE m.type = "Rejected"
  <2>1. p # q
    BY <1>10
  <2>2. CASE p \in Listening(s)
    <3> DEFINE e == Erase(o, p)
    <3>1. t = Restated(e, p, NoTargetState)
      BY <1>3, <1>10, <2>2 DEF Restated
    <3>2. e \in WatchRec /\ e.aggregator = o.aggregator /\ Listening(e) = Listening(o) \ {p}
      BY <1>2, ErasedAlike
    <3>3. SameWires(o, e) /\ e.timer = o.timer /\ \A x \in Listening(e) : e.targets[x] = o.targets[x]
      BY <1>2 DEF WatchRec, SameWires, Erase, Listening
    <3> HIDE DEF e
    <3>4. /\ SameWires(e, t) /\ t.timer = e.timer /\ t.targets = e.targets
          /\ Updated(t, q) = Updated(e, q)
          /\ IsCurrent(t, q) = IF q = p THEN NoTargetState.current ELSE IsCurrent(e, q)
      BY <1>1, <3>1, <3>2, RestatedFor
    <3>5. /\ SameWires(s, t) /\ ~t.timer /\ (q \in Listening(t) <=> q \in Listening(s))
          /\ Updated(t, q) = Updated(s, q) /\ IsCurrent(t, q) = IsCurrent(s, q)
      BY <1>2, <1>6, <2>1, <3>2, <3>3, <3>4 DEF SameWires, Listening, Updated, IsCurrent
    <3>6. q \in Listening(s) => t.targets[q] = s.targets[q]
      BY <1>2, <1>6, <2>1, <3>2, <3>3, <3>4
    <3> QED BY <1>10, <3>5, <3>6 DEF Effect
  <2>3. CASE p \notin Listening(s)
    BY <1>3, <1>7, <1>10, <2>3
  <2> QED BY <2>2, <2>3
<1>11. CASE m.type = "Document"
  <2>1. CASE IsActiveTarget(s, p)
    <3> DEFINE updates == [o.aggregator.updates EXCEPT ![p] = m.at[p]]
               a == [o.aggregator EXCEPT !.updates = updates]
    <3>1. t = [o EXCEPT !.aggregator = a]
      BY <1>3, <1>11, <2>1
    <3>2. updates[q] = IF p = q THEN m.at[q] ELSE Updated(o, q)
      BY <1>2 DEF WatchRec, Aggregators, Updated
    <3> HIDE DEF updates
    <3>3. a.states = o.aggregator.states /\ a.updates = updates
      BY <1>2 DEF WatchRec, Aggregators
    <3> HIDE DEF a
    <3>4. SameWires(o, t) /\ t.aggregator = a /\ t.timer = o.timer /\ t.targets = o.targets
      BY <1>2, <3>1 DEF WatchRec, SameWires
    <3>5. SameWires(s, t) /\ ~t.timer /\ (q \in Listening(t) <=> q \in Listening(s))
          /\ t.targets = s.targets
      BY <1>2, <3>4 DEF SameWires, Listening
    <3>6. Updated(t, q) = (IF p = q THEN m.at[q] ELSE Updated(o, q)) /\ IsCurrent(t, q) = IsCurrent(o, q)
      BY <3>2, <3>3, <3>4 DEF Updated, IsCurrent
    <3> QED BY <1>6, <1>11, <2>1, <3>5, <3>6 DEF Effect
  <2>2. CASE ~IsActiveTarget(s, p)
    BY <1>3, <1>7, <1>11, <2>2
  <2> QED BY <2>1, <2>2
<1>12. CASE m.type = "Current"
  <2>1. CASE IsActiveTarget(s, p)
    <3> DEFINE state == [was EXCEPT !.current = TRUE]
    <3>1. t = Restated(o, p, state)
      BY <1>3, <1>12, <2>1 DEF Restated
    <3>2. state.current = TRUE
      BY <1>5 DEF TargetState
    <3> HIDE DEF state
    <3> QED BY <1>8, <1>12, <2>1, <3>1, <3>2
  <2>2. CASE ~IsActiveTarget(s, p)
    BY <1>3, <1>7, <1>12, <2>2
  <2> QED BY <2>1, <2>2
<1>13. CASE m.type = "Snapshot"
  <2> DEFINE f == [x \in Listening(o) |-> IF x \in DOMAIN TargetChanges(o) THEN m.at[x]
                                          ELSE o.targets[x]]
             updates == [x \in Queries |-> NotKnown]
             a == [o.aggregator EXCEPT !.updates = updates]
  <2>1. t = [o EXCEPT !.targets = f, !.aggregator = a]
    <3>1. t = [o EXCEPT !.targets = f, !.aggregator.updates = updates]
      BY <1>3, <1>13 DEF RaiseWatchSnapshot
    <3> HIDE DEF f, updates
    <3> QED BY <1>2, <3>1 DEF WatchRec
  <2>2. DOMAIN f = Listening(o) /\ updates[q] = NotKnown
    OBVIOUS
  <2>3. q \in Listening(o) => f[q] = IF IsActiveTarget(s, q) THEN m.at[q] ELSE s.targets[q]
    BY <1>2 DEF TargetChanges, IsActiveTarget, Listening
  <2> HIDE DEF f, updates
  <2>4. a.states = o.aggregator.states /\ a.updates = updates
    BY <1>2 DEF WatchRec, Aggregators
  <2> HIDE DEF a
  <2>5. SameWires(o, t) /\ t.aggregator = a /\ t.timer = o.timer /\ t.targets = f
    BY <1>2, <2>1 DEF WatchRec, SameWires
  <2>6. SameWires(s, t) /\ ~t.timer /\ (q \in Listening(t) <=> q \in Listening(s))
    BY <1>2, <1>6, <2>2, <2>5 DEF SameWires, Listening
  <2>7. Updated(t, q) = NotKnown /\ IsCurrent(t, q) = IsCurrent(o, q)
    BY <2>2, <2>4, <2>5 DEF Updated, IsCurrent
  <2>8. q \in Listening(s) => t.targets[q] = IF IsActiveTarget(s, q) THEN m.at[q] ELSE s.targets[q]
    BY <1>6, <2>3, <2>5
  <2> QED BY <1>6, <1>13, <2>6, <2>7, <2>8 DEF Effect
<1> QED BY <1>1, <1>9, <1>10, <1>11, <1>12, <1>13

\* A target is active when nothing is asked and nothing is to be answered.
LEMMA ActiveIs ==
  ASSUME NEW r \in WatchRec, IsOpen(r), NEW R, Counted(r, R), NEW q \in Queries \ R
  PROVE  IsActiveTarget(r, q) <=>
           q \in Listening(r) /\ ~Asked(r, q) /\ Silent(r.down, q, 1)
<1>1. r.up \in Seq(Request) /\ r.down \in Seq(Response)
  BY DEF WatchRec
<1> DEFINE ups == Places(r.up, Asks(q))
           downs == Places(r.down, Replies(q))
<1>2. IsFiniteSet(ups) /\ IsFiniteSet(downs) /\ Cardinality(ups) \in Nat /\ Cardinality(downs) \in Nat
  BY <1>1, PlacesFinite DEF CountIn
<1>3. Pending(r, q) = Cardinality(ups) + Cardinality(downs)
  BY DEF Counted, Awaited, CountIn
<1>4. ups = {} <=> ~Asked(r, q)
  <2>1. \A i \in DOMAIN r.up : i \in Nat /\ r.up[i] \in Request
    BY <1>1, ElementOfSeq, LenProperties
  <2> QED BY <2>1 DEF Places, Asks, Asked, AskedAt
<1>5. downs = {} <=> Silent(r.down, q, 1)
  <2>1. \A i \in DOMAIN r.down : i \in Nat /\ ~(i < 1) /\ r.down[i] \in Response
    BY <1>1, ElementOfSeq, LenProperties
  <2>2. \A i \in DOMAIN r.down : r.down[i] \in Replies(q) <=> IsReply(r.down[i], q)
    BY <2>1 DEF Replies, IsReply
  <2>3. downs = {} <=> \A i \in DOMAIN r.down : ~IsReply(r.down[i], q)
    BY <2>2 DEF Places
  <2> QED BY <2>1, <2>3 DEF Silent
<1> HIDE DEF ups, downs
<1>6. Pending(r, q) = 0 <=> Cardinality(ups) = 0 /\ Cardinality(downs) = 0
  BY <1>2, <1>3
<1>7. Pending(r, q) = 0 <=> ups = {} /\ downs = {}
  BY <1>2, <1>6, FS_EmptySet
<1> QED BY <1>4, <1>5, <1>7 DEF IsActiveTarget, Pending

\* The first response is taken, the others move up.
LEMMA TailIs ==
  ASSUME NEW r, r.down \in Seq(Response), r.down # <<>>, NEW t, t.down = Tail(r.down)
  PROVE  /\ Head(r.down) \in Response /\ Head(r.down) = r.down[1] /\ 1 \in DOMAIN r.down
         /\ t.down \in Seq(Response) /\ Len(t.down) \in Nat /\ Len(r.down) = Len(t.down) + 1
         /\ \A i \in DOMAIN r.down : i \in Nat /\ i >= 1
         /\ \A i \in DOMAIN t.down : i \in Nat /\ i >= 1
         /\ \A i, k \in Nat : k = i + 1 /\ i >= 1 =>
              /\ i \in DOMAIN t.down <=> k \in DOMAIN r.down
              /\ i \in DOMAIN t.down => t.down[i] = r.down[k]
<1>1. /\ Head(r.down) \in Response /\ Head(r.down) = r.down[1] /\ 1 \in DOMAIN r.down
      /\ DOMAIN r.down = 1..Len(r.down) /\ Len(r.down) \in Nat /\ Len(r.down) >= 1
      /\ t.down \in Seq(Response) /\ Len(t.down) = Len(r.down) - 1
      /\ \A i \in 1..(Len(r.down) - 1) : t.down[i] = r.down[i + 1]
  BY HeadTailProperties, EmptySeq, LenProperties
<1>2. DOMAIN t.down = 1..(Len(r.down) - 1)
  BY <1>1, LenProperties
<1>3. ASSUME NEW i \in Nat, NEW k \in Nat, k = i + 1, i >= 1
      PROVE  /\ i \in DOMAIN t.down <=> k \in DOMAIN r.down
             /\ i \in DOMAIN t.down => t.down[i] = r.down[k]
  BY <1>1, <1>2, <1>3
<1>4. Len(t.down) \in Nat /\ Len(r.down) = Len(t.down) + 1
  BY <1>1
<1>5. /\ \A i \in DOMAIN r.down : i \in Nat /\ i >= 1
      /\ \A i \in DOMAIN t.down : i \in Nat /\ i >= 1
  BY <1>1, <1>2
<1> QED BY <1>1, <1>3, <1>4, <1>5

LEMMA TailHears ==
  ASSUME NEW r, r.down \in Seq(Response), r.down # <<>>, NEW t, t.down = Tail(r.down), NEW q,
         NEW i \in Nat, NEW k \in Nat, k = i + 1, i >= 1
  PROVE  /\ Silent(t.down, q, i) <=> Silent(r.down, q, k)
         /\ \A type : Hears(t, q, i, type) <=> Hears(r, q, k, type)
         /\ Silent(r.down, q, 1) => Silent(t.down, q, 1)
<1>1. /\ 1 \in DOMAIN r.down
      /\ \A j \in DOMAIN r.down : j \in Nat /\ j >= 1
      /\ \A j \in DOMAIN t.down : j \in Nat /\ j >= 1
      /\ \A j, l \in Nat : l = j + 1 /\ j >= 1 =>
           /\ j \in DOMAIN t.down <=> l \in DOMAIN r.down
           /\ j \in DOMAIN t.down => t.down[j] = r.down[l]
  BY TailIs, ZenonT(40)
<1>2. ASSUME Silent(t.down, q, i), NEW l \in DOMAIN r.down, IsReply(r.down[l], q)
      PROVE  l < k
  <2>1. l \in Nat /\ l >= 1
    BY <1>1
  <2>2. CASE l = 1
    BY <2>2
  <2>3. CASE l # 1
    <3>1. l - 1 \in Nat /\ l = (l - 1) + 1 /\ l - 1 >= 1
      BY <2>1, <2>3
    <3>2. l - 1 \in DOMAIN t.down /\ t.down[l - 1] = r.down[l]
      BY <1>1, <2>1, <3>1
    <3>3. l - 1 < i
      BY <1>2, <3>2 DEF Silent
    <3> QED BY <2>1, <3>3
  <2> QED BY <2>2, <2>3
<1>3. ASSUME NEW n \in Nat, NEW p \in Nat, p <= n + 1, Silent(r.down, q, p) PROVE Silent(t.down, q, n)
  <2> SUFFICES ASSUME NEW j \in DOMAIN t.down, IsReply(t.down[j], q) PROVE j < n
    BY DEF Silent
  <2>1. j \in Nat /\ j >= 1 /\ j + 1 \in Nat
    BY <1>1
  <2>2. j + 1 \in DOMAIN r.down /\ t.down[j] = r.down[j + 1]
    BY <1>1, <2>1
  <2>3. j + 1 < p
    BY <1>3, <2>2 DEF Silent
  <2> QED BY <1>3, <2>1, <2>3
<1>4. Silent(t.down, q, i) <=> Silent(r.down, q, k)
  <2>1. k <= i + 1
    OBVIOUS
  <2>2. Silent(r.down, q, k) => Silent(t.down, q, i)
    BY <1>3, <2>1
  <2> QED BY <1>2, <2>2 DEF Silent
<1>5. Silent(r.down, q, 1) => Silent(t.down, q, 1)
  <2>1. 1 \in Nat /\ 1 <= 1 + 1
    OBVIOUS
  <2> QED BY <1>3, <2>1
<1>6. ASSUME NEW type PROVE Hears(t, q, i, type) <=> Hears(r, q, k, type)
  <2>1. /\ i \in DOMAIN t.down <=> k \in DOMAIN r.down
        /\ i \in DOMAIN t.down => t.down[i] = r.down[k]
    BY <1>1
  <2> QED BY <1>4, <2>1 DEF Hears
<1> QED BY <1>4, <1>5, <1>6

\* The first response is taken, from the state r; s is what its handler gets.
Taken(r, s, m) ==
  /\ r.down # <<>> /\ m = Head(r.down)
  /\ s.stream = r.stream /\ s.up = r.up /\ s.down = Tail(r.down)
  /\ s.served = r.served /\ s.aggregator = r.aggregator /\ s.targets = r.targets

\* What a response makes of the version in the cache and of the view.
Applied(r, m, q, c, c2, b, b2) ==
  /\ c <= c2 /\ (m.type = "Snapshot" => Updated(r, q) <= c2)
  /\ b2 = IF m.type = "Snapshot" /\ IsActiveTarget(r, q) THEN IsCurrent(r, q) ELSE b

\* A synced view has what there was when it was opened.
Fresher(b, o, c) == b => o <= c

\* The client takes a response: what it said is in the books now, or, with a
\* snapshot, in the cache and in the view.
LEMMA HeardKept ==
  ASSUME NEW r \in WatchRec, NEW R, Counted(r, R), NEW q \in Queries \ R,
         NEW c \in Int, NEW v \in Int, NotKnown <= v, NEW o \in Int, NEW b,
         Kept(r, q, c, v, o, b),
         NEW s, NEW m, Taken(r, s, m), NEW t, Effect(s, t, m, q),
         NEW c2 \in Int, NEW b2, Applied(r, m, q, c, c2, b, b2)
  PROVE  Kept(t, q, c2, v, o, b2) /\ (Fresher(b, o, c) => Fresher(b2, o, c2))
<1> USE DEF Taken, Applied, Fresher
<1>1. /\ r.up \in Seq(Request) /\ r.down \in Seq(Response) /\ r.aggregator \in Aggregators
      /\ r.targets \in Targets
  BY DEF WatchRec
<1>2. IsOpen(r)
  BY DEF Counted
<1>3. /\ t.stream = r.stream /\ t.up = r.up /\ t.down = Tail(r.down) /\ t.served = r.served
      /\ ~t.timer /\ (q \in Listening(t) <=> q \in Listening(r))
      /\ Updated(s, q) = Updated(r, q) /\ (IsCurrent(s, q) <=> IsCurrent(r, q))
      /\ (IsActiveTarget(s, q) <=> IsActiveTarget(r, q)) /\ s.targets = r.targets
      /\ Listening(s) = Listening(r)
  BY DEF Effect, SameWires, Listening, Updated, IsCurrent, IsActiveTarget
<1>4. /\ Updated(t, q) = IF m.type = "Snapshot" THEN NotKnown
                         ELSE IF m.type = "Document" /\ m.query = q /\ IsActiveTarget(r, q)
                              THEN m.at[q] ELSE Updated(r, q)
      /\ q \in Listening(r) =>
           t.targets[q] = IF m.type = "Snapshot" /\ IsActiveTarget(r, q) THEN m.at[q]
                          ELSE r.targets[q]
      /\ ~IsReply(m, q) =>
           (IsCurrent(t, q) <=> \/ IsCurrent(r, q)
                                \/ m.type = "Current" /\ m.query = q /\ IsActiveTarget(r, q))
  BY <1>3 DEF Effect
<1>5. IsActiveTarget(r, q) <=> q \in Listening(r) /\ ~Asked(r, q) /\ Silent(r.down, q, 1)
  BY <1>2, ActiveIs
<1>6. /\ m \in Response /\ m = r.down[1] /\ 1 \in DOMAIN r.down
      /\ t.down \in Seq(Response) /\ Len(t.down) \in Nat /\ Len(r.down) = Len(t.down) + 1
      /\ \A i \in DOMAIN r.down : i \in Nat /\ i >= 1
      /\ \A i \in DOMAIN t.down : i \in Nat /\ i >= 1
      /\ \A i, k \in Nat : k = i + 1 /\ i >= 1 =>
           /\ i \in DOMAIN t.down <=> k \in DOMAIN r.down
           /\ i \in DOMAIN t.down => t.down[i] = r.down[k]
  <2>1. /\ Head(r.down) \in Response /\ Head(r.down) = r.down[1] /\ 1 \in DOMAIN r.down
        /\ t.down \in Seq(Response) /\ Len(t.down) \in Nat /\ Len(r.down) = Len(t.down) + 1
        /\ \A i \in DOMAIN r.down : i \in Nat /\ i >= 1
        /\ \A i \in DOMAIN t.down : i \in Nat /\ i >= 1
    BY <1>1, <1>3, TailIs, ZenonT(40)
  <2>2. \A i, k \in Nat : k = i + 1 /\ i >= 1 =>
           /\ i \in DOMAIN t.down <=> k \in DOMAIN r.down
           /\ i \in DOMAIN t.down => t.down[i] = r.down[k]
    BY <1>1, <1>3, TailIs, ZenonT(40)
  <2> QED BY <2>1, <2>2
<1>7. /\ \A i, k \in Nat : k = i + 1 /\ i >= 1 =>
           /\ Silent(t.down, q, i) <=> Silent(r.down, q, k)
           /\ \A type : Hears(t, q, i, type) <=> Hears(r, q, k, type)
      /\ Silent(r.down, q, 1) => Silent(t.down, q, 1)
  <2>1. ASSUME NEW i \in Nat, NEW k \in Nat, k = i + 1, i >= 1
        PROVE  /\ Silent(t.down, q, i) <=> Silent(r.down, q, k)
               /\ \A type : Hears(t, q, i, type) <=> Hears(r, q, k, type)
               /\ Silent(r.down, q, 1) => Silent(t.down, q, 1)
    BY <1>1, <1>3, <2>1, TailHears
  <2>2. 1 \in Nat /\ 2 \in Nat /\ 2 = 1 + 1 /\ 1 >= 1
    OBVIOUS
  <2> QED BY <2>1, <2>2
<1>8. /\ Updated(r, q) \in Int /\ NotKnown \in Int /\ m.at[q] \in Int
      /\ \A i \in DOMAIN r.down : r.down[i].at[q] \in Int /\ NotKnown <= r.down[i].at[q]
  <2>1. \A x \in Versions : x \in Int /\ NotKnown <= x
    BY RemoteWatchAssumption DEF Versions, NotKnown
  <2>2. Updated(r, q) \in Versions
    BY <1>1 DEF Aggregators, Updated
  <2>3. \A i \in DOMAIN r.down : r.down[i] \in Response
    BY <1>1, ElementOfSeq, LenProperties
  <2>4. \A i \in DOMAIN r.down : r.down[i].at[q] \in Versions
    BY <2>3 DEF Response
  <2> QED BY <1>6, <2>1, <2>2, <2>4, VersionsAreInts
<1>9. (Asked(t, q) <=> Asked(r, q)) /\ (AskedLast(t, q) <=> AskedLast(r, q))
  BY <1>3 DEF Asked, AskedAt, AskedLast
<1>10. Quoted(t, q, c2)
  <2> SUFFICES ASSUME NEW i \in DOMAIN r.up, r.up[i].query = q, r.up[i].type = "Watch"
               PROVE  r.up[i].known <= c2
    BY <1>3 DEF Quoted
  <2>1. r.up[i].known <= c
    BY DEF Kept, Quoted
  <2>2. r.up[i] \in Request
    BY <1>1, ElementOfSeq, LenProperties
  <2>3. r.up[i].known \in Int
    BY <2>2, VersionsAreInts DEF Request
  <2> QED BY <2>1, <2>3
<1>11. Ordered(r, q, v)
  BY <1>2 DEF Kept
<1>12. Ordered(t, q, v)
  <2>1. Updated(t, q) \in {NotKnown, m.at[q], Updated(r, q)}
    BY <1>4
  <2>2. ASSUME NEW i \in DOMAIN t.down
        PROVE  /\ t.down[i].at[q] \in Int /\ NotKnown <= t.down[i].at[q]
               /\ Updated(r, q) <= t.down[i].at[q] /\ t.down[i].at[q] <= v
               /\ m.at[q] <= t.down[i].at[q]
    <3>1. PICK k \in Nat : k = i + 1 /\ i \in Nat /\ i >= 1
      <4>1. i \in Nat /\ i >= 1
        BY <1>6
      <4>2. i + 1 \in Nat
        BY <4>1
      <4> QED BY <4>1, <4>2
    <3>2. k \in DOMAIN r.down /\ t.down[i] = r.down[k] /\ 1 < k
      <4>1. 1 < k
        BY <3>1
      <4>2. k \in DOMAIN r.down /\ t.down[i] = r.down[k]
        BY <1>6, <3>1
      <4> QED BY <4>1, <4>2
    <3>3. Updated(r, q) <= r.down[k].at[q] /\ r.down[k].at[q] <= v /\ r.down[1].at[q] <= r.down[k].at[q]
      BY <1>6, <1>11, <3>2 DEF Ordered
    <3> QED BY <1>6, <1>8, <3>2, <3>3
  <2>3. Updated(t, q) <= v
    <3>1. m.at[q] <= v /\ Updated(r, q) <= v
      BY <1>6, <1>11 DEF Ordered
    <3> QED BY <2>1, <3>1
  <2>4. ASSUME NEW i \in DOMAIN t.down, NEW j \in DOMAIN t.down, i < j
        PROVE  t.down[i].at[q] <= t.down[j].at[q]
    <3>0. i \in Nat /\ j \in Nat /\ i >= 1 /\ j >= 1
      BY <1>6
    <3>1. PICK k \in Nat, l \in Nat : k = i + 1 /\ l = j + 1
      BY <3>0
    <3>2. k \in DOMAIN r.down /\ t.down[i] = r.down[k] /\ l \in DOMAIN r.down /\ t.down[j] = r.down[l]
      BY <1>6, <3>0, <3>1
    <3>3. k < l
      BY <2>4, <3>0, <3>1
    <3> QED BY <1>11, <3>2, <3>3 DEF Ordered
  <2> QED BY <2>1, <2>2, <2>3, <2>4 DEF Ordered
<1>13. ASSUME q \in Listening(r), ~Asked(r, q),
              NEW x \in Int, NEW i \in Nat, NEW k \in Nat, k = i + 1, Told(r, q, c, x, k)
       PROVE  Told(t, q, c2, x, i)
  <2>1. CASE x <= c
    BY <2>1 DEF Told
  <2>2. CASE x <= Updated(r, q)
    <3>1. CASE m.type = "Snapshot"
      BY <1>8, <2>2, <3>1 DEF Told
    <3>2. CASE m.type # "Snapshot"
      <4>1. Updated(r, q) <= m.at[q]
        BY <1>6, <1>11 DEF Ordered
      <4>2. x <= m.at[q]
        BY <1>8, <2>2, <4>1
      <4> QED BY <1>4, <2>2, <3>2, <4>2 DEF Told
    <3> QED BY <3>1, <3>2
  <2>3. ASSUME NEW j \in Nat, j < k, Hears(r, q, j, "Document"), x <= r.down[j].at[q]
        PROVE  Told(t, q, c2, x, i)
    <3>1. j \in DOMAIN r.down /\ j >= 1
      BY <1>6, <2>3 DEF Hears
    <3>2. CASE j = 1
      <4>1. m.type = "Document" /\ m.query = q /\ IsActiveTarget(r, q)
        BY <1>5, <1>6, <1>13, <2>3, <3>2 DEF Hears
      <4>2. Updated(t, q) = m.at[q]
        BY <1>4, <4>1
      <4> QED BY <1>6, <2>3, <3>2, <4>2 DEF Told
    <3>3. CASE j # 1
      <4>1. PICK l \in Nat : j = l + 1 /\ l >= 1
        <5>1. j - 1 \in Nat /\ j = (j - 1) + 1 /\ j - 1 >= 1
          BY <3>1, <3>3
        <5> QED BY <5>1
      <4>2. Hears(t, q, l, "Document") /\ t.down[l] = r.down[j]
        BY <1>6, <1>7, <2>3, <3>1, <4>1
      <4>3. l < i
        BY <1>13, <2>3, <4>1
      <4> QED BY <2>3, <4>2, <4>3 DEF Told
    <3> QED BY <3>2, <3>3
  <2> QED BY <1>13, <2>1, <2>2, <2>3 DEF Told
<1>14. ASSUME q \in Listening(r), ~Asked(r, q),
              NEW i \in Nat, NEW k \in Nat, k = i + 1, Ready(r, q, k)
       PROVE  Ready(t, q, i)
  <2>1. CASE IsCurrent(r, q) /\ Silent(r.down, q, 1)
    <3>1. ~IsReply(m, q)
      BY <1>6, <2>1 DEF Silent
    <3> QED BY <1>4, <1>7, <2>1, <3>1 DEF Ready, IsCurrent
  <2>2. ASSUME NEW j \in Nat, j < k, Hears(r, q, j, "Current")
        PROVE  Ready(t, q, i)
    <3>1. j \in DOMAIN r.down /\ j >= 1
      BY <1>6, <2>2 DEF Hears
    <3>2. CASE j = 1
      <4>1. m.type = "Current" /\ m.query = q /\ Silent(r.down, q, 1) /\ IsActiveTarget(r, q)
        BY <1>5, <1>6, <1>14, <2>2, <3>2 DEF Hears
      <4>2. ~IsReply(m, q)
        BY <4>1 DEF IsReply
      <4> QED BY <1>4, <1>7, <4>1, <4>2 DEF Ready, IsCurrent
    <3>3. CASE j # 1
      <4>1. PICK l \in Nat : j = l + 1 /\ l >= 1
        <5>1. j - 1 \in Nat /\ j = (j - 1) + 1 /\ j - 1 >= 1
          BY <3>1, <3>3
        <5> QED BY <5>1
      <4>2. Hears(t, q, l, "Current")
        BY <1>7, <2>2, <4>1
      <4>3. l < i
        BY <1>14, <2>2, <4>1
      <4> QED BY <4>2, <4>3 DEF Ready
    <3> QED BY <3>2, <3>3
  <2> QED BY <1>14, <2>1, <2>2 DEF Ready, IsCurrent
<1>15. ASSUME m.type = "Snapshot", IsActiveTarget(r, q)
       PROVE  m.at[q] <= c2 /\ o <= m.at[q] /\ IsCurrent(r, q)
  <2>1. q \in Listening(r) /\ ~Asked(r, q) /\ Silent(r.down, q, 1)
    BY <1>5, <1>15
  <2>2. Heard(r, q, c, v, o, b)
    BY <1>2, <2>1 DEF Kept
  <2>3. HeardWell(r, q, c, o, 1)
    BY <1>6, <2>1, <2>2 DEF Heard
  <2>4. o <= m.at[q] /\ Told(r, q, c, m.at[q], 1) /\ Ready(r, q, 1)
    BY <1>6, <1>15, <2>3 DEF HeardWell
  <2>5. \A j \in Nat : \A type : Hears(r, q, j, type) => ~(j < 1)
    BY <1>6 DEF Hears
  <2>6. m.at[q] <= c \/ m.at[q] <= Updated(r, q)
    BY <2>4, <2>5 DEF Told
  <2>7. IsCurrent(r, q)
    BY <2>4, <2>5 DEF Ready, IsCurrent
  <2> QED BY <1>8, <1>15, <2>4, <2>6, <2>7
<1>16. ASSUME q \in Listening(r), ~Asked(r, q)
       PROVE  Heard(t, q, c2, v, o, b2)
  <2>1. Heard(r, q, c, v, o, b)
    BY <1>2, <1>16 DEF Kept
  <2>2. Told(t, q, c2, v, Len(t.down) + 1) /\ Ready(t, q, Len(t.down) + 1)
    <3>1. PICK i \in Nat, k \in Nat : i = Len(t.down) + 1 /\ k = i + 1
      BY <1>6
    <3>2. k = Len(r.down) + 1
      BY <1>6, <3>1
    <3>3. Told(r, q, c, v, k) /\ Ready(r, q, k)
      BY <2>1, <3>2 DEF Heard
    <3> QED BY <1>13, <1>14, <1>16, <3>1, <3>3
  <2>3. ASSUME NEW i \in DOMAIN t.down, Silent(t.down, q, i) PROVE HeardWell(t, q, c2, o, i)
    <3>1. PICK k \in Nat : k = i + 1 /\ i \in Nat /\ i >= 1
      <4>1. i \in Nat /\ i >= 1
        BY <1>6
      <4>2. i + 1 \in Nat
        BY <4>1
      <4> QED BY <4>1, <4>2
    <3>2. k \in DOMAIN r.down /\ t.down[i] = r.down[k] /\ Silent(r.down, q, k)
      BY <1>6, <1>7, <2>3, <3>1
    <3>3. HeardWell(r, q, c, o, k)
      BY <2>1, <3>2 DEF Heard
    <3>4. r.down[k].at[q] \in Int
      BY <1>8, <3>2
    <3>5. ASSUME t.down[i].type = "Snapshot"
          PROVE  Told(t, q, c2, t.down[i].at[q], i) /\ Ready(t, q, i)
      <4>1. Told(r, q, c, r.down[k].at[q], k) /\ Ready(r, q, k)
        BY <3>2, <3>3, <3>5 DEF HeardWell
      <4> QED BY <1>13, <1>14, <1>16, <3>1, <3>2, <3>4, <4>1
    <3> QED BY <3>2, <3>3, <3>5 DEF HeardWell
  <2>4. ASSUME ~b2
        PROVE  \E i \in DOMAIN t.down : Silent(t.down, q, i) /\ t.down[i].type = "Snapshot"
    <3>1. ~b /\ (m.type = "Snapshot" => ~IsActiveTarget(r, q))
      BY <1>15, <2>4
    <3>2. PICK k \in DOMAIN r.down : Silent(r.down, q, k) /\ r.down[k].type = "Snapshot"
      BY <2>1, <3>1 DEF Heard
    <3>3. k # 1
      BY <1>5, <1>6, <1>16, <3>1, <3>2
    <3>4. PICK i \in Nat : k = i + 1 /\ i >= 1
      <4>1. k \in Nat /\ k >= 1
        BY <1>6
      <4>2. k - 1 \in Nat /\ k = (k - 1) + 1 /\ k - 1 >= 1
        BY <3>3, <4>1
      <4> QED BY <4>2
    <3>5. k \in Nat
      BY <1>6
    <3>6. i \in DOMAIN t.down /\ Silent(t.down, q, i) /\ t.down[i] = r.down[k]
      BY <1>6, <1>7, <3>2, <3>4, <3>5
    <3> QED BY <3>2, <3>6
  <2>5. q \in t.served
    BY <1>3, <2>1 DEF Heard
  <2> QED BY <1>3, <2>2, <2>3, <2>4, <2>5 DEF Heard
<1>17. Resumed(t, q, c2)
  <2> SUFFICES ASSUME q \in Listening(r) PROVE t.targets[q] <= c2
    BY <1>3 DEF Resumed
  <2>1. CASE m.type = "Snapshot" /\ IsActiveTarget(r, q)
    BY <1>4, <1>15, <2>1
  <2>2. CASE ~(m.type = "Snapshot" /\ IsActiveTarget(r, q))
    <3>1. t.targets[q] = r.targets[q]
      BY <1>4, <2>2
    <3>2. r.targets[q] <= c
      BY DEF Kept, Resumed
    <3>3. r.targets[q] \in Int
      BY <1>1, TargetsAre, VersionsAreInts DEF Listening
    <3> QED BY <3>1, <3>2, <3>3
  <2> QED BY <2>1, <2>2
<1>18. (b => o <= c) => (b2 => o <= c2)
  <2>1. CASE m.type = "Snapshot" /\ IsActiveTarget(r, q)
    BY <1>8, <1>15, <2>1
  <2>2. CASE ~(m.type = "Snapshot" /\ IsActiveTarget(r, q))
    <3>1. b2 = b
      BY <2>2
    <3>2. o <= c => o <= c2
      OBVIOUS
    <3> QED BY <3>1, <3>2
  <2> QED BY <2>1, <2>2
<1>19. IsOpen(t) /\ ~(t.stream \in {"Starting", "Backoff"})
  BY <1>2, <1>3 DEF IsOpen
<1>20. q \in Listening(t) /\ Asked(t, q) => AskedLast(t, q)
  BY <1>2, <1>3, <1>9 DEF Kept
<1> QED BY <1>3, <1>9, <1>10, <1>12, <1>16, <1>17, <1>18, <1>19, <1>20 DEF Kept

\* What is known of a target, of which nothing is assumed on the wires.
LEMMA TargetValues ==
  ASSUME WatchInv, NEW q \in Queries
  PROVE  /\ stored.cache[q] \in Versions /\ stored.resume[q] \in Versions
         /\ server[q] \in 0..MaxVersion /\ opened[q] \in 0..MaxVersion
         /\ stored.cache[q] \in Int /\ stored.resume[q] \in Int
         /\ server[q] \in Int /\ opened[q] \in Int /\ NotKnown <= server[q]
<1>1. stored \in Results /\ server \in [Queries -> 0..MaxVersion]
      /\ opened \in [Queries -> 0..MaxVersion]
  BY DEF WatchInv, AnswersInv, Typed
<1>2. stored.cache[q] \in Versions /\ stored.resume[q] \in Versions
  BY <1>1 DEF Results
<1>3. server[q] \in 0..MaxVersion /\ opened[q] \in 0..MaxVersion
  BY <1>1
<1>4. stored.cache[q] \in Int /\ stored.resume[q] \in Int
  BY <1>2, VersionsAreInts
<1>5. \A x \in 0..MaxVersion : x \in Int /\ NotKnown <= x
  BY RemoteWatchAssumption DEF NotKnown
<1> QED BY <1>2, <1>3, <1>4, <1>5

\* Going offline unsyncs every view.
LEMMA OnlineViews ==
  ASSUME WatchInv, HandleOnlineStateChange, NEW q \in Queries
  PROVE  /\ stored' = stored /\ opened' = opened
         /\ Synced(q)' => Synced(q)
         /\ Synced(q)' = Synced(q) \/ (remote'.online = "Offline" /\ remote.online # "Offline")
         /\ remote'.online = remote.online => Synced(q)' = Synced(q)
<1>1. stored' = stored /\ opened' = opened
  BY DEF HandleOnlineStateChange
<1>2. views' = IF remote'.online = "Offline" /\ remote.online # "Offline"
               THEN [p \in DOMAIN views |-> FALSE] ELSE views
  BY DEF HandleOnlineStateChange
<1>3. CASE remote'.online = "Offline" /\ remote.online # "Offline"
  <2>1. ~Synced(q)'
    BY <1>2, <1>3 DEF Synced
  <2> QED BY <1>1, <1>3, <2>1
<1>4. CASE ~(remote'.online = "Offline" /\ remote.online # "Offline")
  <2>1. views' = views
    BY <1>2, <1>4
  <2>2. Synced(q)' = Synced(q)
    BY <2>1 DEF Synced
  <2> QED BY <1>1, <2>2
<1> QED BY <1>3, <1>4

LEMMA ClientTargetsKept ==
  ASSUME WatchInv, Counted(remote, refused), TargetsKept, ClientSteps, HandleOnlineStateChange
  PROVE  TargetsKept'
<1>1. Rests(remote)
  BY DEF WatchInv
<1>2. server' = server /\ refused' = refused
  BY <1>1, ClientRests
<1> SUFFICES ASSUME NEW q \in Queries \ refused PROVE TargetKept(q)'
  BY <1>2 DEF TargetsKept
<1>3. TargetKept(q)
  BY DEF TargetsKept
<1>4. stored.cache[q] \in Versions /\ server[q] \in 0..MaxVersion
  BY TargetValues
<1>5. /\ stored' = stored /\ opened' = opened
      /\ Synced(q)' => Synced(q)
      /\ Synced(q)' = Synced(q) \/ (remote'.online = "Offline" /\ remote.online # "Offline")
  BY OnlineViews
<1>6. Kept(remote', q, stored.cache[q], server[q], opened[q], Synced(q)')
  <2>1. Kept(remote, q, stored.cache[q], server[q], opened[q], Synced(q))
    BY <1>3 DEF TargetKept
  <2> QED BY <1>1, <1>4, <1>5, <2>1, ClientKept
<1> QED BY <1>2, <1>3, <1>5, <1>6 DEF TargetKept

LEMMA BackendTargetsKept ==
  ASSUME WatchInv, Counted(remote, refused), TargetsKept, HandleOnlineStateChange,
         \/ BackendAnswers
         \/ BackendRefuses
         \/ \E p \in Queries : BackendChanges(p)
  PROVE  TargetsKept'
<1>1. Rests(remote) /\ server \in [Queries -> 0..MaxVersion] /\ remote \in WatchRec
  BY DEF WatchInv, AnswersInv, Typed, Rests, Sound
<1>2. remote'.online = remote.online /\ refused \subseteq refused'
  <2>1. CASE BackendAnswers
    BY <1>1, <2>1 DEF BackendAnswers, WatchRec
  <2>2. CASE BackendRefuses
    BY <1>1, <2>2 DEF BackendRefuses, WatchRec
  <2>3. ASSUME NEW p \in Queries, BackendChanges(p)
        PROVE  remote'.online = remote.online /\ refused \subseteq refused'
    BY <1>1, <2>3 DEF BackendChanges, WatchRec
  <2> QED BY <2>1, <2>2, <2>3
<1> SUFFICES ASSUME NEW q \in Queries \ refused' PROVE TargetKept(q)'
  BY DEF TargetsKept
<1>3. q \in Queries \ refused /\ TargetKept(q)
  BY <1>2 DEF TargetsKept
<1>4. /\ stored.cache[q] \in Versions /\ server[q] \in Int /\ opened[q] \in Int
      /\ opened[q] <= server[q]
  BY <1>3, TargetValues DEF TargetKept
<1>5. stored' = stored /\ opened' = opened /\ Synced(q)' = Synced(q)
  BY <1>2, OnlineViews
<1>6. Kept(remote, q, stored.cache[q], server[q], opened[q], Synced(q))
  BY <1>3 DEF TargetKept
<1>7. /\ Kept(remote', q, stored.cache[q], server'[q], opened[q], Synced(q))
      /\ server[q] <= server'[q] /\ server'[q] \in Int
  <2>1. CASE BackendAnswers
    <3>1. server' = server
      BY <2>1 DEF BackendAnswers
    <3> QED BY <1>1, <1>3, <1>4, <1>6, <2>1, <3>1, AnswersKept
  <2>2. CASE BackendRefuses
    <3>1. server' = server
      BY <2>2 DEF BackendRefuses
    <3> QED BY <1>1, <1>3, <1>4, <1>6, <2>2, <3>1, RefusesKept
  <2>3. ASSUME NEW p \in Queries, BackendChanges(p)
        PROVE  /\ Kept(remote', q, stored.cache[q], server'[q], opened[q], Synced(q))
               /\ server[q] <= server'[q] /\ server'[q] \in Int
    <3>1. server'[q] = IF q = p THEN server[q] + 1 ELSE server[q]
      BY <1>1, <2>3 DEF BackendChanges
    <3> QED BY <1>1, <1>3, <1>4, <1>6, <2>3, <3>1, ChangesKept
  <2> QED BY <2>1, <2>2, <2>3
<1> QED BY <1>3, <1>4, <1>5, <1>6, <1>7 DEF TargetKept

\* What a snapshot brings into the cache, the resumable results and the views.
LEMMA AppliedTo ==
  ASSUME WatchInv, NEW s \in WatchRec, s.targets = remote.targets,
         s.aggregator = remote.aggregator, ApplyRemoteEvent(s), NEW q \in Queries
  PROVE  /\ stored'.cache[q] \in Int /\ stored.cache[q] <= stored'.cache[q]
         /\ Updated(remote, q) <= stored'.cache[q]
         /\ stored'.resume[q] = IF IsActiveTarget(remote, q) THEN remote'.targets[q]
                                ELSE stored.resume[q]
         /\ Synced(q)' = IF IsActiveTarget(remote, q) THEN IsCurrent(remote, q) ELSE Synced(q)
<1> DEFINE changes == TargetChanges(s)
           updates == DocumentUpdates(s)
<1>1. /\ stored' = [cache |-> [p \in Queries |-> Max({stored.cache[p], updates[p]})],
                    resume |-> [p \in Queries |-> IF p \in DOMAIN changes THEN remote'.targets[p]
                                                  ELSE stored.resume[p]]]
      /\ views' = [p \in DOMAIN views |-> IF p \in DOMAIN changes THEN changes[p] ELSE views[p]]
  BY DEF ApplyRemoteEvent
<1>2. IsActiveTarget(s, q) <=> IsActiveTarget(remote, q)
  BY DEF IsActiveTarget, Listening
<1>3. /\ q \in DOMAIN changes <=> IsActiveTarget(remote, q)
      /\ IsActiveTarget(remote, q) => changes[q] = IsCurrent(remote, q)
  BY <1>2 DEF TargetChanges, IsCurrent
<1>4. /\ Updated(remote, q) \in Int /\ IsCurrent(remote, q) \in BOOLEAN
      /\ updates[q] \in {0, Updated(remote, q)} /\ (updates[q] = 0 \/ updates[q] = Updated(remote, q))
      /\ updates[q] # Updated(remote, q) => Updated(remote, q) = NotKnown
  <2>1. s.aggregator \in Aggregators
    BY DEF WatchRec
  <2>2. Updated(remote, q) \in Versions /\ IsCurrent(remote, q) \in BOOLEAN
    BY <2>1 DEF Aggregators, TargetState, Updated, IsCurrent
  <2>3. (updates[q] = 0 /\ Updated(remote, q) = NotKnown) \/ updates[q] = Updated(remote, q)
    BY DEF DocumentUpdates, Updated
  <2> QED BY <2>2, <2>3, VersionsAreInts
<1> HIDE DEF changes, updates
<1>5. stored.cache[q] \in Int /\ updates[q] \in Int
  BY <1>4, TargetValues
<1>6. stored'.cache[q] = Max({stored.cache[q], updates[q]})
  BY <1>1
<1>7. /\ stored'.cache[q] \in {stored.cache[q], updates[q]}
      /\ stored'.cache[q] >= stored.cache[q] /\ stored'.cache[q] >= updates[q]
  BY <1>5, <1>6, MaxOfTwo
<1>8. Updated(remote, q) <= stored'.cache[q]
  BY <1>4, <1>5, <1>7 DEF NotKnown
<1>9. stored'.resume[q] = IF IsActiveTarget(remote, q) THEN remote'.targets[q] ELSE stored.resume[q]
  BY <1>1, <1>3
<1>10. Synced(q)' = IF IsActiveTarget(remote, q) THEN IsCurrent(remote, q) ELSE Synced(q)
  <2>1. CASE IsActiveTarget(remote, q)
    <3>1. q \in DOMAIN views
      BY <2>1 DEF IsActiveTarget, WatchInv
    <3>2. q \in DOMAIN views' /\ views'[q] = IsCurrent(remote, q)
      BY <1>1, <1>3, <2>1, <3>1
    <3> QED BY <1>4, <2>1, <3>2 DEF Synced
  <2>2. CASE ~IsActiveTarget(remote, q)
    <3>1. q \in DOMAIN views' <=> q \in DOMAIN views
      BY <1>1
    <3>2. q \in DOMAIN views => views'[q] = views[q]
      BY <1>1, <1>3, <2>2
    <3> QED BY <2>2, <3>1, <3>2 DEF Synced
  <2> QED BY <2>1, <2>2
<1> QED BY <1>5, <1>7, <1>8, <1>9, <1>10

\* What a response brings there.
LEMMA ReadEffect ==
  ASSUME WatchInv, Counted(remote, refused), StreamRead, NEW q \in Queries \ refused
  PROVE  LET m == Head(remote.down)
             s == [remote EXCEPT !.down = Tail(@)]
         IN  /\ Effect(s, remote', m, q)
             /\ stored'.cache[q] \in Int /\ stored.cache[q] <= stored'.cache[q]
             /\ m.type = "Snapshot" => Updated(remote, q) <= stored'.cache[q]
             /\ \/ stored'.resume[q] = stored.resume[q]
                \/ stored'.resume[q] = remote'.targets[q] /\ q \in Listening(remote')
             /\ Synced(q)' = IF m.type = "Snapshot" /\ IsActiveTarget(remote, q)
                             THEN IsCurrent(remote, q) ELSE Synced(q)
<1> DEFINE m == Head(remote.down)
           s == [remote EXCEPT !.down = Tail(@)]
<1>1. /\ remote.down # <<>> /\ remote' = OnWatchStreamChange(s, m)
      /\ CASE m.type = "Snapshot" -> ApplyRemoteEvent(s)
           [] m.type = "Rejected" /\ m.query \in Listening(s) ->
                HandleRejectedListen(m.query)
           [] OTHER -> UNCHANGED <<views, stored>> /\ Raise(reads, <<>>)
  BY DEF StreamRead
<1>2. Rests(remote) /\ remote \in WatchRec /\ remote.down \in Seq(Response)
  BY DEF WatchInv, Rests, Sound, WatchRec
<1>3. s \in WatchRec /\ s.targets = remote.targets /\ m \in Response
  BY <1>1, <1>2, MessageTaken
<1>4. s.aggregator = remote.aggregator
  BY <1>2 DEF WatchRec
<1>5. m.type = "Rejected" => m.query \in refused
  <2>1. m = remote.down[1] /\ 1 \in DOMAIN remote.down
    BY <1>1, <1>2
  <2> QED BY <2>1 DEF Counted
<1> SUFFICES
      /\ Effect(s, remote', m, q)
      /\ stored'.cache[q] \in Int /\ stored.cache[q] <= stored'.cache[q]
      /\ m.type = "Snapshot" => Updated(remote, q) <= stored'.cache[q]
      /\ \/ stored'.resume[q] = stored.resume[q]
         \/ stored'.resume[q] = remote'.targets[q] /\ q \in Listening(remote')
      /\ Synced(q)' = IF m.type = "Snapshot" /\ IsActiveTarget(remote, q)
                      THEN IsCurrent(remote, q) ELSE Synced(q)
  OBVIOUS
<1> HIDE DEF s, m
<1>6. Effect(s, remote', m, q)
  BY <1>1, <1>3, <1>5, MessageEffect
<1>7. stored.cache[q] \in Int
  BY TargetValues
<1>8. CASE m.type = "Snapshot"
  <2>1. ApplyRemoteEvent(s)
    BY <1>1, <1>8
  <2>2. /\ stored'.cache[q] \in Int /\ stored.cache[q] <= stored'.cache[q]
        /\ Updated(remote, q) <= stored'.cache[q]
        /\ stored'.resume[q] = IF IsActiveTarget(remote, q) THEN remote'.targets[q]
                               ELSE stored.resume[q]
        /\ Synced(q)' = IF IsActiveTarget(remote, q) THEN IsCurrent(remote, q) ELSE Synced(q)
    BY <1>3, <1>4, <2>1, AppliedTo
  <2>3. IsActiveTarget(remote, q) => q \in Listening(remote')
    BY <1>3, <1>6 DEF IsActiveTarget, Effect, Listening
  <2> QED BY <1>6, <1>8, <2>2, <2>3
<1>9. CASE m.type # "Snapshot"
  <2>1. stored' = stored /\ (views' = views \/ (m.query # q /\ views' = Without(m.query)))
    BY <1>1, <1>5, <1>9 DEF HandleRejectedListen
  <2>2. Synced(q)' = Synced(q)
    <3>1. CASE views' = views
      BY <3>1 DEF Synced
    <3>2. CASE m.query # q /\ views' = Without(m.query)
      <4>1. (q \in DOMAIN views' <=> q \in DOMAIN views) /\ (q \in DOMAIN views => views'[q] = views[q])
        BY <3>2 DEF Without
      <4> QED BY <4>1 DEF Synced
    <3> QED BY <2>1, <3>1, <3>2
  <2> QED BY <1>6, <1>7, <1>9, <2>1, <2>2
<1> QED BY <1>8, <1>9

LEMMA ReadTargetsKept ==
  ASSUME WatchInv, Counted(remote, refused), TargetsKept, StreamRead
  PROVE  TargetsKept'
<1> DEFINE m == Head(remote.down)
           s == [remote EXCEPT !.down = Tail(@)]
<1>1. remote.down # <<>> /\ server' = server /\ refused' = refused /\ opened' = opened
  BY DEF StreamRead
<1>2. remote \in WatchRec
  BY DEF WatchInv, Rests, Sound
<1>3. /\ s.stream = remote.stream /\ s.up = remote.up /\ s.down = Tail(remote.down)
      /\ s.served = remote.served /\ s.aggregator = remote.aggregator
      /\ s.targets = remote.targets
  BY <1>2 DEF WatchRec
<1> SUFFICES ASSUME NEW q \in Queries \ refused PROVE TargetKept(q)'
  BY <1>1 DEF TargetsKept
<1>4. TargetKept(q)
  BY DEF TargetsKept
<1>5. /\ stored.cache[q] \in Int /\ stored.resume[q] \in Int /\ server[q] \in Int
      /\ opened[q] \in Int /\ NotKnown <= server[q]
  BY TargetValues
<1>6. /\ Effect(s, remote', m, q)
      /\ stored'.cache[q] \in Int /\ stored.cache[q] <= stored'.cache[q]
      /\ m.type = "Snapshot" => Updated(remote, q) <= stored'.cache[q]
      /\ \/ stored'.resume[q] = stored.resume[q]
         \/ stored'.resume[q] = remote'.targets[q] /\ q \in Listening(remote')
      /\ Synced(q)' = IF m.type = "Snapshot" /\ IsActiveTarget(remote, q)
                      THEN IsCurrent(remote, q) ELSE Synced(q)
  BY ReadEffect
<1>7. m = Head(remote.down)
  OBVIOUS
<1> HIDE DEF s, m
<1>8. /\ Kept(remote', q, stored'.cache[q], server[q], opened[q], Synced(q)')
      /\ (Synced(q) => opened[q] <= stored.cache[q]) => (Synced(q)' => opened[q] <= stored'.cache[q])
  <2>1. Kept(remote, q, stored.cache[q], server[q], opened[q], Synced(q))
    BY <1>4 DEF TargetKept
  <2>2. PICK c \in Int, c2 \in Int, v \in Int, o \in Int :
          c = stored.cache[q] /\ c2 = stored'.cache[q] /\ v = server[q] /\ o = opened[q]
    BY <1>5, <1>6
  <2>3. PICK b, b2 : b = Synced(q) /\ b2 = Synced(q)'
    OBVIOUS
  <2>4. NotKnown <= v /\ Kept(remote, q, c, v, o, b) /\ c <= c2
        /\ (m.type = "Snapshot" => Updated(remote, q) <= c2)
        /\ b2 = IF m.type = "Snapshot" /\ IsActiveTarget(remote, q) THEN IsCurrent(remote, q)
                ELSE b
    BY <1>5, <1>6, <2>1, <2>2, <2>3
  <2>5. Effect(s, remote', m, q)
    BY <1>6
  <2>6. Taken(remote, s, m) /\ Applied(remote, m, q, c, c2, b, b2)
    BY <1>1, <1>3, <1>7, <2>4 DEF Taken, Applied
  <2>7. Kept(remote', q, c2, v, o, b2) /\ (Fresher(b, o, c) => Fresher(b2, o, c2))
    BY <1>2, <2>4, <2>5, <2>6, HeardKept
  <2> QED BY <2>2, <2>3, <2>7 DEF Fresher
<1>9. stored'.resume[q] <= stored'.cache[q]
  <2>1. stored.resume[q] <= stored.cache[q]
    BY <1>4 DEF TargetKept
  <2>2. q \in Listening(remote') => remote'.targets[q] <= stored'.cache[q]
    BY <1>8 DEF Kept, Resumed
  <2> QED BY <1>5, <1>6, <2>1, <2>2
<1> QED BY <1>1, <1>4, <1>8, <1>9 DEF TargetKept

LEMMA AddTargetsKept ==
  ASSUME WatchInv, Counted(remote, refused), TargetsKept, NEW c \in Reads, AddQueryListener(c),
         server' = server, refused' = refused
  PROVE  TargetsKept'
<1> DEFINE p == QueryOf[c]
<1>1. /\ Rests(remote) /\ Listening(remote) = DOMAIN views /\ DOMAIN views = Listened(reads)
      /\ stored' = stored
  BY DEF WatchInv, AddQueryListener
<1>2. p \in Queries /\ stored.resume[p] \in Versions
  BY DocumentReadsAssumption, TargetValues
<1> SUFFICES ASSUME NEW q \in Queries \ refused PROVE TargetKept(q)'
  BY DEF TargetsKept
<1>3. TargetKept(q)
  BY DEF TargetsKept
<1>4. CASE ListenersOf(p, reads) = {}
  <2>1. p \notin DOMAIN views
    BY <1>1, <1>4 DEF ListenersOf, Listened
  <2>2. /\ remote' = Listen(remote, p, stored.resume[p])
        /\ views' = Put(views, p, FALSE) /\ opened' = [opened EXCEPT ![p] = server[p]]
    BY <1>4, <2>1 DEF AddQueryListener, Check
  <2> HIDE DEF p
  <2>3. opened'[q] = IF q = p THEN server[q] ELSE opened[q]
    <3>1. opened \in [Queries -> 0..MaxVersion]
      BY DEF WatchInv, AnswersInv, Typed
    <3> QED BY <2>2, <3>1
  <2>4. q # p => Synced(q)' = Synced(q)
    BY <2>2 DEF Put, Synced
  <2>5. q = p => ~Synced(q)'
    BY <2>2 DEF Put, Synced
  <2>6. q = p => stored.resume[p] <= stored.cache[q]
    BY <1>3 DEF TargetKept
  <2>7. Kept(remote', q, stored.cache[q], server[q], opened'[q], Synced(q)')
    <3>1. Kept(remote, q, stored.cache[q], server[q], opened[q], Synced(q))
      BY <1>3 DEF TargetKept
    <3> QED BY <1>1, <1>2, <2>1, <2>2, <2>3, <2>4, <2>6, <3>1, ListenKept
  <2>8. opened'[q] <= server[q]
    <3>1. opened[q] <= server[q] /\ server[q] \in Int
      BY <1>3, TargetValues DEF TargetKept
    <3> QED BY <2>3, <3>1
  <2> QED BY <1>1, <1>3, <2>3, <2>4, <2>5, <2>7, <2>8 DEF TargetKept
<1>5. CASE ListenersOf(p, reads) # {}
  <2>1. UNCHANGED <<remote, views, opened>>
    BY <1>5 DEF AddQueryListener
  <2> QED BY <1>1, <1>3, <2>1 DEF TargetKept, Synced
<1> QED BY <1>4, <1>5

LEMMA RemoveTargetsKept ==
  ASSUME WatchInv, Counted(remote, refused), TargetsKept, NEW c \in Reads,
         RemoveQueryListener(c), server' = server, refused' = refused
  PROVE  TargetsKept'
<1> DEFINE p == QueryOf[c]
           left == [reads EXCEPT ![c].state = "gone"]
<1>1. /\ Rests(remote) /\ Listening(remote) = DOMAIN views /\ DOMAIN views = Listened(reads)
      /\ stored' = stored /\ opened' = opened
  BY DEF WatchInv, RemoveQueryListener
<1>2. p \in Queries
  BY DocumentReadsAssumption
<1> SUFFICES ASSUME NEW q \in Queries \ refused PROVE TargetKept(q)'
  BY DEF TargetsKept
<1>3. TargetKept(q)
  BY DEF TargetsKept
<1>4. CASE reads[c].state = "listening" /\ ListenersOf(p, left) = {}
  <2>1. p \in DOMAIN views
    BY <1>1, <1>4 DEF Listened
  <2>2. remote' = StopListening(remote, p) /\ views' = Without(p)
    BY <1>4, <2>1 DEF RemoveQueryListener, Check
  <2> HIDE DEF p
  <2>3. q # p => Synced(q)' = Synced(q)
    BY <2>2 DEF Without, Synced
  <2>4. q = p => ~Synced(q)'
    BY <2>2 DEF Without, Synced
  <2>5. Kept(remote', q, stored.cache[q], server[q], opened[q], Synced(q)')
    <3>1. Kept(remote, q, stored.cache[q], server[q], opened[q], Synced(q))
      BY <1>3 DEF TargetKept
    <3> QED BY <1>1, <1>2, <2>1, <2>2, <2>3, <3>1, StopKept
  <2> QED BY <1>1, <1>3, <2>3, <2>4, <2>5 DEF TargetKept
<1>5. CASE ~(reads[c].state = "listening" /\ ListenersOf(p, left) = {})
  <2>1. UNCHANGED <<remote, views>>
    BY <1>5 DEF RemoveQueryListener
  <2> QED BY <1>1, <1>3, <2>1 DEF TargetKept, Synced
<1> QED BY <1>4, <1>5

\* Every handler keeps what is known of the targets.
LEMMA StepTargetsKept ==
  ASSUME WatchInv, Counted(remote, refused), TargetsKept, [Next]_vars
  PROVE  TargetsKept'
<1>1. ASSUME UNCHANGED <<remote, server, refused, views, stored, opened>> PROVE TargetsKept'
  BY <1>1 DEF TargetsKept, TargetKept, Synced
<1>2. ASSUME NEW r \in Reads, GetDocument(r) PROVE TargetsKept'
  BY <1>1, <1>2 DEF GetDocument, remoteVars
<1>3. CASE RunWorker
  <2>1. /\ server' = server /\ refused' = refused /\ worker \in Seq(Operations)
        /\ worker # <<>>
        /\ IF Head(worker).op = "Add" THEN AddQueryListener(Head(worker).read)
           ELSE RemoveQueryListener(Head(worker).read)
    BY <1>3 DEF RunWorker, WatchInv, AnswersInv, Typed
  <2>2. Head(worker) \in Operations
    BY <2>1, WorkerShifts DEF RunWorker
  <2>3. PICK c \in Reads : c = Head(worker).read
    BY <2>2 DEF Operations
  <2> QED BY <2>1, <2>3, AddTargetsKept, RemoveTargetsKept
<1>4. CASE RunExecutor
  BY <1>1, <1>4 DEF RunExecutor, remoteVars
<1>5. CASE StreamRead
  BY <1>5, ReadTargetsKept
<1>6. CASE ClientSteps /\ HandleOnlineStateChange
  BY <1>6, ClientTargetsKept
<1>7. CASE /\ HandleOnlineStateChange
           /\ BackendAnswers \/ BackendRefuses \/ \E p \in Queries : BackendChanges(p)
  BY <1>7, BackendTargetsKept
<1>8. CASE UNCHANGED vars
  BY <1>1, <1>8 DEF vars, remoteVars, readVars
<1> QED
  BY <1>2, <1>3, <1>4, <1>5, <1>6, <1>7, <1>8 DEF Next, OnClient, ClientSteps

LEMMA InitTargetsKept ==
  ASSUME Init
  PROVE  TargetsKept
<1> SUFFICES ASSUME NEW q \in Queries PROVE TargetKept(q)
  BY DEF TargetsKept
<1>1. /\ remote.stream = "Initial" /\ remote.targets = <<>> /\ remote.up = <<>>
      /\ server = [p \in Queries |-> 0] /\ views = <<>> /\ opened = server
  BY DEF Init, RemoteInit
<1>2. PICK known \in [Queries -> Versions] :
        /\ \A p \in Queries : known[p] <= server[p]
        /\ stored = [cache |-> known, resume |-> known]
  BY DEF Init
<1>3. stored.resume[q] <= stored.cache[q] /\ opened[q] <= server[q]
  <2>1. known[q] \in Int
    BY <1>2, VersionsAreInts
  <2> QED BY <1>1, <1>2, <2>1
<1>4. ~Synced(q) /\ q \notin Listening(remote)
  BY <1>1 DEF Synced, Listening
<1>5. Quoted(remote, q, stored.cache[q])
  BY <1>1 DEF Quoted
<1>6. ~IsOpen(remote) /\ remote.stream \notin {"Starting", "Backoff"}
  BY <1>1 DEF IsOpen
<1> QED BY <1>3, <1>4, <1>5, <1>6 DEF TargetKept, Kept, Resumed

-----------------------------------------------------------------------------
(* What is in the two queues *)

LEMMA RangeOfConcat ==
  ASSUME NEW S, NEW a \in Seq(S), NEW b \in Seq(S)
  PROVE  Range(a \o b) = Range(a) \cup Range(b)
<1>1. PICK m \in Nat, n \in Nat : m = Len(a) /\ n = Len(b)
  BY LenProperties
<1>2. /\ Len(a \o b) = m + n /\ a \o b \in Seq(S)
      /\ \A k \in 1..(m + n) : (a \o b)[k] = IF k <= m THEN a[k] ELSE b[k - m]
  BY <1>1, ConcatProperties
<1>3. DOMAIN a = 1..m /\ DOMAIN b = 1..n /\ DOMAIN (a \o b) = 1..(m + n)
  BY <1>1, <1>2, LenProperties
<1>4. ASSUME NEW x \in Range(a \o b) PROVE x \in Range(a) \cup Range(b)
  <2>1. PICK k \in 1..(m + n) : x = (a \o b)[k]
    BY <1>3 DEF Range
  <2>2. CASE k <= m
    <3>1. k \in DOMAIN a /\ x = a[k]
      BY <1>2, <1>3, <2>1, <2>2
    <3> QED BY <3>1 DEF Range
  <2>3. CASE ~(k <= m)
    <3>1. k - m \in DOMAIN b /\ x = b[k - m]
      BY <1>2, <1>3, <2>1, <2>3
    <3> QED BY <3>1 DEF Range
  <2> QED BY <2>2, <2>3
<1>5. ASSUME NEW i \in DOMAIN a PROVE a[i] \in Range(a \o b)
  <2>1. i \in DOMAIN (a \o b) /\ (a \o b)[i] = a[i]
    BY <1>2, <1>3
  <2> QED BY <2>1 DEF Range
<1>6. ASSUME NEW i \in DOMAIN b PROVE b[i] \in Range(a \o b)
  <2>1. PICK k \in 1..(m + n) : k = m + i /\ i \in 1..n
    BY <1>3
  <2>2. (a \o b)[k] = b[k - m] /\ k - m = i
    BY <1>2, <2>1
  <2> QED BY <1>3, <2>1, <2>2 DEF Range
<1>7. \A x \in Range(a) \cup Range(b) : x \in Range(a \o b)
  BY <1>5, <1>6 DEF Range
<1> QED BY <1>4, <1>7

LEMMA RangeOfSetToSeq ==
  ASSUME NEW S, IsFiniteSet(S)
  PROVE  Range(SetToSeq(S)) = S
<1>1. PICK s \in Seq(S) : s = SetToSeq(S) /\ \A x \in S : \E i \in DOMAIN s : s[i] = x
  BY SetToSeqIs
<1>2. \A i \in DOMAIN s : s[i] \in S
  BY ElementOfSeq, LenProperties
<1> QED BY <1>1, <1>2 DEF Range

LEMMA RangeOfTail ==
  ASSUME NEW S, NEW s \in Seq(S), s # <<>>
  PROVE  Range(s) = Range(Tail(s)) \cup {Head(s)}
<1>1. PICK n \in Nat : n = Len(s) /\ n >= 1 /\ DOMAIN s = 1..n
  BY LenProperties, EmptySeq
<1>2. /\ Head(s) = s[1] /\ Tail(s) \in Seq(S) /\ Len(Tail(s)) = n - 1
      /\ \A i \in 1..(n - 1) : Tail(s)[i] = s[i + 1]
  BY <1>1, HeadTailProperties
<1>3. DOMAIN Tail(s) = 1..(n - 1)
  BY <1>2, LenProperties
<1>4. ASSUME NEW i \in 1..n PROVE s[i] \in Range(Tail(s)) \cup {Head(s)}
  <2>1. CASE i = 1
    BY <1>2, <2>1
  <2>2. CASE i # 1
    <3>1. PICK k \in 1..(n - 1) : i = k + 1
      <4>1. i - 1 \in 1..(n - 1) /\ i = (i - 1) + 1
        BY <2>2
      <4> QED BY <4>1
    <3> QED BY <1>2, <1>3, <3>1 DEF Range
  <2> QED BY <2>1, <2>2
<1>5. ASSUME NEW i \in 1..(n - 1) PROVE Tail(s)[i] \in Range(s)
  <2>1. i + 1 \in 1..n
    OBVIOUS
  <2> QED BY <1>1, <1>2, <2>1 DEF Range
<1>6. Head(s) \in Range(s)
  BY <1>1, <1>2 DEF Range
<1>7. Range(s) \subseteq Range(Tail(s)) \cup {Head(s)}
  BY <1>1, <1>4 DEF Range
<1>8. Range(Tail(s)) \subseteq Range(s)
  BY <1>3, <1>5 DEF Range
<1> QED BY <1>6, <1>7, <1>8

LEMMA RangeOfAppend ==
  ASSUME NEW S, NEW s \in Seq(S), NEW e \in S
  PROVE  Range(Append(s, e)) = Range(s) \cup {e}
<1>1. PICK n \in Nat : n = Len(s) /\ DOMAIN s = 1..n
  BY LenProperties
<1>2. /\ DOMAIN Append(s, e) = 1..(n + 1)
      /\ \A i \in 1..n : Append(s, e)[i] = s[i]
      /\ Append(s, e)[n + 1] = e
  BY <1>1, AppendProperties, LenProperties
<1>3. ASSUME NEW i \in 1..(n + 1) PROVE Append(s, e)[i] \in Range(s) \cup {e}
  BY <1>1, <1>2 DEF Range
<1>4. e \in Range(Append(s, e))
  <2>1. n + 1 \in 1..(n + 1)
    OBVIOUS
  <2> QED BY <1>2, <2>1 DEF Range
<1>5. \A i \in 1..n : i \in 1..(n + 1)
  OBVIOUS
<1>6. Range(s) \subseteq Range(Append(s, e))
  BY <1>1, <1>2, <1>5 DEF Range
<1>7. Range(Append(s, e)) \subseteq Range(s) \cup {e}
  BY <1>2, <1>3 DEF Range
<1> QED BY <1>4, <1>6, <1>7

\* The event of a listener that raises.
EventOf(r) ==
  [read |-> r, event |-> Value(stored'.cache[QueryOf[r]], views'[QueryOf[r]])]

LEMMA RaiseEvents ==
  ASSUME NEW rs \in [Reads -> Listener], NEW queued \in Seq(Delivery), Raise(rs, queued),
         executor \in Seq(Delivery), views' \in Views, stored' \in Results
  PROVE  /\ Range(executor') = Range(executor) \cup Range(queued)
                                 \cup {EventOf(r) : r \in Raising(rs)}
         /\ \A r \in Reads :
              /\ reads'[r].state = rs[r].state /\ reads'[r].muted = rs[r].muted
              /\ reads'[r].since = rs[r].since
              /\ reads'[r].raised <=> rs[r].raised \/ r \in Raising(rs)
<1> DEFINE T == {EventOf(r) : r \in Raising(rs)}
<1>1. /\ reads' = [r \in Reads |-> IF r \in Raising(rs) THEN [rs[r] EXCEPT !.raised = TRUE]
                                   ELSE rs[r]]
      /\ executor' = executor \o queued \o SetToSeq(T)
  BY DEF Raise, EventOf
<1>2. ASSUME NEW r \in Raising(rs) PROVE EventOf(r) \in Delivery
  <2>1. r \in Reads /\ QueryOf[r] \in DOMAIN views'
    BY DEF Raising
  <2>2. stored'.cache[QueryOf[r]] \in Versions /\ views'[QueryOf[r]] \in BOOLEAN
    BY <2>1, DocumentReadsAssumption DEF Results, Views
  <2> QED BY <2>1, <2>2 DEF EventOf, Delivery, Event, Value
<1>3. T \subseteq Delivery
  BY <1>2
<1>4. IsFiniteSet(T)
  <2>1. IsFiniteSet(Raising(rs))
    BY DocumentReadsAssumption, FS_Subset DEF Raising
  <2> DEFINE f == [r \in Raising(rs) |-> EventOf(r)]
  <2>2. f \in Surjection(Raising(rs), T)
    BY DEF Surjection
  <2> HIDE DEF f, T
  <2> QED BY <2>1, <2>2, FS_Surjection
<1>5. \A r \in Reads :
        /\ reads'[r].state = rs[r].state /\ reads'[r].muted = rs[r].muted
        /\ reads'[r].since = rs[r].since
        /\ reads'[r].raised <=> rs[r].raised \/ r \in Raising(rs)
  BY <1>1 DEF Listener
<1> HIDE DEF T
<1>6. PICK es : es = SetToSeq(T)
  OBVIOUS
<1>7. es \in Seq(Delivery) /\ Range(es) = T
  <2>1. es \in Seq(T) /\ Range(es) = T
    BY <1>4, <1>6, SetToSeqIs, RangeOfSetToSeq
  <2> QED BY <1>3, <2>1, SeqMonotonic
<1>8. executor \o queued \in Seq(Delivery) /\ Range(executor \o queued) = Range(executor) \cup Range(queued)
  BY ConcatProperties, RangeOfConcat
<1>9. Range(executor') = Range(executor) \cup Range(queued) \cup T
  <2>1. executor' = (executor \o queued) \o es
    BY <1>1, <1>6
  <2>2. PICK first \in Seq(Delivery) : first = executor \o queued
    BY <1>8
  <2>3. Range(first \o es) = Range(first) \cup Range(es)
    BY <1>7, RangeOfConcat
  <2> QED BY <1>7, <1>8, <2>1, <2>2, <2>3
<1> QED BY <1>5, <1>9 DEF T

-----------------------------------------------------------------------------
(* What a step of the worker does to the listeners before it raises *)

Moved(r, rs, queued) ==
  /\ rs[r].muted = reads[r].muted /\ rs[r].raised = reads[r].raised
  /\ rs[r].since = reads[r].since \/ ~Sent(r)
  /\ rs[r].state = "listening" => rs[r].since = opened'[QueryOf[r]]
  /\ rs[r].state = "asked" =>
       /\ reads[r].state = "asked"
       /\ Operation("Add", r) \in Range(worker) => Operation("Add", r) \in Range(worker')
  /\ rs[r].state = "gone" =>
       \/ reads[r].state = "gone"
       \/ Operation("Remove", r) \in Range(worker)
       \/ \E d \in Range(queued) : d.read = r

Rising(rs, queued) ==
  /\ rs \in [Reads -> Listener] /\ queued \in Seq(Delivery) /\ Raise(rs, queued)
  /\ Range(worker') \subseteq Range(worker)
  /\ \A d \in Range(queued) : ~d.event.synced
  /\ \A r \in Reads : Moved(r, rs, queued)

LEMMA NoneQueued == <<>> \in Seq(Delivery) /\ Range(<<>>) = {}
BY DEF Range

LEMMA SameRising ==
  ASSUME WatchInv, EventsFair, Raise(reads, <<>>), opened' = opened, worker' = worker
  PROVE  \E rs, queued : Rising(rs, queued)
<1>1. reads \in [Reads -> Listener]
  BY DEF WatchInv, AnswersInv, Typed
<1>2. \A r \in Reads : Moved(r, reads, <<>>)
  BY DEF Moved, EventsFair
<1>3. Range(worker') \subseteq Range(worker)
  OBVIOUS
<1>4. Rising(reads, <<>>)
  BY <1>1, <1>2, <1>3, NoneQueued DEF Rising
<1> QED BY <1>4

LEMMA AddRising ==
  ASSUME WatchInv, EventsFair, worker # <<>>, worker' = Tail(worker),
         NEW c \in Reads, Head(worker) = Operation("Add", c), AddQueryListener(c)
  PROVE  \E rs, queued : Rising(rs, queued)
<1> DEFINE q == QueryOf[c]
           rs == [reads EXCEPT ![c].state = "listening", ![c].since = opened'[q]]
<1>1. /\ reads \in [Reads -> Listener] /\ worker \in Seq(Operations)
      /\ executor \in Seq(Delivery) /\ AddedOnce(c) /\ opened \in [Queries -> 0..MaxVersion]
      /\ q \in Queries
  BY DocumentReadsAssumption DEF WatchInv, AnswersInv, Typed
<1>2. Adds(1, c)
  BY <1>1, WorkerShifts DEF Adds
<1>3. reads[c].state = "asked"
  BY <1>1, <1>2, TakenOnce
<1>4. ~Sent(c)
  <2>1. answers[c] = <<>> /\ \A i \in Nat : ~Tells(i, c)
    BY <1>1, <1>3 DEF AddedOnce
  <2>2. \A i \in DOMAIN executor : i \in Nat
    BY <1>1, LenProperties
  <2> QED BY <2>1, <2>2 DEF Sent, Range, Tells
<1>5. /\ opened' \in [Queries -> 0..MaxVersion]
      /\ \A r \in Reads : reads[r].state = "listening" => opened'[QueryOf[r]] = opened[QueryOf[r]]
  <2>1. opened' \in [Queries -> 0..MaxVersion]
    BY <1>3, AddBooks
  <2>2. CASE ListenersOf(q, reads) = {}
    <3>1. opened' = [opened EXCEPT ![q] = server[q]]
      BY <2>2 DEF AddQueryListener
    <3>2. \A r \in Reads : reads[r].state = "listening" => QueryOf[r] # q
      BY <2>2 DEF ListenersOf
    <3> HIDE DEF q
    <3> QED BY <1>1, <2>1, <3>1, <3>2, DocumentReadsAssumption
  <2>3. CASE ListenersOf(q, reads) # {}
    <3>1. opened' = opened
      BY <2>3 DEF AddQueryListener
    <3> QED BY <2>1, <3>1
  <2> QED BY <2>2, <2>3
<1>6. opened'[q] \in Versions
  BY <1>1, <1>5, RemoteWatchAssumption DEF Versions, NotKnown
<1>7. /\ rs \in [Reads -> Listener]
      /\ rs[c].state = "listening" /\ rs[c].since = opened'[q]
      /\ rs[c].muted = reads[c].muted /\ rs[c].raised = reads[c].raised
      /\ \A r \in Reads : r # c => rs[r] = reads[r]
  BY <1>1, <1>6 DEF Listener
<1>8. Raise(rs, <<>>)
  BY DEF AddQueryListener
<1> HIDE DEF rs
<1>9. Range(worker) = Range(worker') \cup {Operation("Add", c)}
  BY <1>1, RangeOfTail
<1>10. ASSUME NEW r \in Reads PROVE Moved(r, rs, <<>>)
  <2>1. CASE r = c
    BY <1>4, <1>7, <2>1 DEF Moved
  <2>2. CASE r # c
    <3>1. rs[r] = reads[r] /\ Operation("Add", r) # Operation("Add", c)
      BY <1>7, <2>2 DEF Operation
    <3>2. reads[r].state = "listening" => reads[r].since = opened'[QueryOf[r]]
      BY <1>5 DEF EventsFair
    <3> QED BY <1>9, <3>1, <3>2 DEF Moved
  <2> QED BY <2>1, <2>2
<1>11. Rising(rs, <<>>)
  BY <1>7, <1>8, <1>9, <1>10, NoneQueued DEF Rising
<1> QED BY <1>11

LEMMA RemoveRising ==
  ASSUME WatchInv, EventsFair, worker # <<>>, worker' = Tail(worker),
         NEW c \in Reads, Head(worker) = Operation("Remove", c), RemoveQueryListener(c)
  PROVE  \E rs, queued : Rising(rs, queued)
<1> DEFINE left == [reads EXCEPT ![c].state = "gone"]
<1>1. /\ reads \in [Reads -> Listener] /\ worker \in Seq(Operations)
  BY DEF WatchInv, AnswersInv, Typed
<1>2. Raise(left, <<>>) /\ opened' = opened
  BY DEF RemoveQueryListener
<1>3. /\ left \in [Reads -> Listener]
      /\ left[c].state = "gone" /\ left[c].since = reads[c].since
      /\ left[c].muted = reads[c].muted /\ left[c].raised = reads[c].raised
      /\ \A r \in Reads : r # c => left[r] = reads[r]
  BY <1>1 DEF Listener
<1> HIDE DEF left
<1>4. Range(worker) = Range(worker') \cup {Operation("Remove", c)}
  BY <1>1, RangeOfTail
<1>5. ASSUME NEW r \in Reads PROVE Moved(r, left, <<>>)
  <2>1. CASE r = c
    BY <1>3, <1>4, <2>1 DEF Moved
  <2>2. CASE r # c
    <3>1. left[r] = reads[r] /\ Operation("Add", r) # Operation("Remove", c)
      BY <1>3, <2>2 DEF Operation
    <3>2. reads[r].state = "listening" => reads[r].since = opened'[QueryOf[r]]
      BY <1>2 DEF EventsFair
    <3> QED BY <1>4, <3>1, <3>2 DEF Moved
  <2> QED BY <2>1, <2>2
<1>6. Rising(left, <<>>)
  BY <1>2, <1>3, <1>4, <1>5, NoneQueued DEF Rising
<1> QED BY <1>6

LEMMA RejectedRising ==
  ASSUME WatchInv, EventsFair, NEW q \in Queries, HandleRejectedListen(q),
         opened' = opened, worker' = worker
  PROVE  \E rs, queued : Rising(rs, queued)
<1> DEFINE failed == ListenersOf(q, reads)
           rs == [r \in Reads |-> IF r \in failed THEN [reads[r] EXCEPT !.state = "gone"]
                                  ELSE reads[r]]
           T == {[read |-> r, event |-> Refused] : r \in failed}
           queued == SetToSeq(T)
<1>1. reads \in [Reads -> Listener]
  BY DEF WatchInv, AnswersInv, Typed
<1>2. Raise(rs, queued)
  BY DEF HandleRejectedListen
<1>3. failed \subseteq Reads
  BY DEF ListenersOf
<1> HIDE DEF failed
<1>4. rs \in [Reads -> Listener] /\ \A r \in Reads :
        /\ rs[r].state = IF r \in failed THEN "gone" ELSE reads[r].state
        /\ rs[r].muted = reads[r].muted /\ rs[r].raised = reads[r].raised
        /\ rs[r].since = reads[r].since
  BY <1>1 DEF Listener
<1>5. T \subseteq Delivery
  <2>1. Refused \in Event
    BY VersionsAreInts DEF Refused, Event
  <2> QED BY <1>3, <2>1 DEF Delivery
<1>6. IsFiniteSet(T)
  <2>1. IsFiniteSet(failed)
    BY <1>3, DocumentReadsAssumption, FS_Subset
  <2> DEFINE f == [r \in failed |-> [read |-> r, event |-> Refused]]
  <2>2. f \in Surjection(failed, T)
    BY DEF Surjection
  <2> HIDE DEF f, T
  <2> QED BY <2>1, <2>2, FS_Surjection
<1>7. \A d \in T : ~d.event.synced
  BY DEF Refused
<1>8. ASSUME NEW r \in failed PROVE \E d \in T : d.read = r
  <2>1. [read |-> r, event |-> Refused] \in T
    OBVIOUS
  <2> HIDE DEF T
  <2> QED BY <2>1
<1> HIDE DEF T, rs
<1>9. queued \in Seq(Delivery) /\ Range(queued) = T
  <2>1. queued \in Seq(T) /\ Range(queued) = T
    BY <1>6, SetToSeqIs, RangeOfSetToSeq
  <2> QED BY <1>5, <2>1, SeqMonotonic
<1> HIDE DEF queued
<1>10. ASSUME NEW r \in Reads PROVE Moved(r, rs, queued)
  <2>1. reads[r].state = "listening" => reads[r].since = opened'[QueryOf[r]]
    BY DEF EventsFair
  <2> QED BY <1>4, <1>8, <1>9, <2>1 DEF Moved
<1>11. Rising(rs, queued)
  BY <1>2, <1>4, <1>7, <1>9, <1>10 DEF Rising
<1> QED BY <1>11

\* Every step of the worker raises, after what it has done to the listeners.
LEMMA WorkerRising ==
  ASSUME WatchInv, EventsFair, RunWorker \/ StreamRead \/ (HandleOnlineStateChange)
  PROVE  \E rs, queued : Rising(rs, queued)
<1>1. CASE RunWorker
  <2>1. /\ worker # <<>> /\ worker' = Tail(worker) /\ worker \in Seq(Operations)
        /\ IF Head(worker).op = "Add" THEN AddQueryListener(Head(worker).read)
           ELSE RemoveQueryListener(Head(worker).read)
    BY <1>1 DEF RunWorker, WatchInv, AnswersInv, Typed
  <2>2. Head(worker) \in Operations
    BY <2>1, WorkerShifts
  <2>3. PICK c \in Reads : c = Head(worker).read
    BY <2>2 DEF Operations
  <2>4. CASE Head(worker).op = "Add"
    <3>1. Head(worker) = Operation("Add", c) /\ AddQueryListener(c)
      BY <2>1, <2>2, <2>3, <2>4 DEF Operations, Operation
    <3> QED BY <2>1, <3>1, AddRising
  <2>5. CASE Head(worker).op = "Remove"
    <3>1. Head(worker) = Operation("Remove", c) /\ RemoveQueryListener(c)
      BY <2>1, <2>2, <2>3, <2>5 DEF Operations, Operation
    <3> QED BY <2>1, <3>1, RemoveRising
  <2> QED BY <2>2, <2>4, <2>5 DEF Operations
<1>2. CASE StreamRead
  <2> DEFINE m == Head(remote.down)
             s == [remote EXCEPT !.down = Tail(@)]
  <2>1. /\ remote.down # <<>>
        /\ CASE m.type = "Snapshot" -> ApplyRemoteEvent(s)
             [] m.type = "Rejected" /\ m.query \in Listening(s) ->
                  HandleRejectedListen(m.query)
             [] OTHER -> UNCHANGED <<views, stored>> /\ Raise(reads, <<>>)
        /\ worker' = worker /\ opened' = opened
    BY <1>2 DEF StreamRead
  <2>2. m \in Response
    BY <2>1, MessageTaken DEF WatchInv
  <2> HIDE DEF m, s
  <2>3. m.query \in Queries
    BY <2>2 DEF Response
  <2>4. CASE Raise(reads, <<>>)
    BY <2>1, <2>4, SameRising
  <2>5. CASE HandleRejectedListen(m.query)
    BY <2>1, <2>3, <2>5, RejectedRising
  <2> QED BY <2>1, <2>4, <2>5 DEF ApplyRemoteEvent
<1>3. CASE HandleOnlineStateChange
  BY <1>3, SameRising DEF HandleOnlineStateChange
<1> QED BY <1>1, <1>2, <1>3

-----------------------------------------------------------------------------
(* Answers that are no older than the listen *)

LEMMA RaisedFair ==
  ASSUME WatchInv, WatchInv', EventsFair, TargetsKept', refused \subseteq refused',
         answers' = answers, NEW rs, NEW queued, Rising(rs, queued)
  PROVE  EventsFair'
<1>1. /\ executor \in Seq(Delivery) /\ views' \in Views /\ stored' \in Results
      /\ answers \in [Reads -> Seq(Event)]
  BY DEF WatchInv, AnswersInv, Typed
<1>2. /\ rs \in [Reads -> Listener] /\ queued \in Seq(Delivery) /\ Raise(rs, queued)
      /\ \A d \in Range(queued) : ~d.event.synced
      /\ \A r \in Reads : Moved(r, rs, queued)
  BY DEF Rising
<1>3. /\ Range(executor') = Range(executor) \cup Range(queued)
                              \cup {EventOf(r) : r \in Raising(rs)}
      /\ \A r \in Reads : reads'[r].state = rs[r].state /\ reads'[r].since = rs[r].since
  BY <1>1, <1>2, RaiseEvents
<1>4. \A r \in Reads : reads'[r].state = "listening" => reads'[r].since = opened'[QueryOf[r]]
  BY <1>2, <1>3 DEF Moved
<1>5. ASSUME NEW r \in Reads, Sent(r), NEW e, Fair(r, e) PROVE Fair(r, e)'
  <2>1. reads'[r].since = reads[r].since
    BY <1>2, <1>3, <1>5 DEF Moved
  <2> QED BY <1>5, <2>1 DEF Fair
<1>6. \A d \in Range(executor) : d.read \in Reads
  <2>1. \A i \in DOMAIN executor : executor[i] \in Delivery
    BY <1>1, ElementOfSeq, LenProperties
  <2> QED BY <2>1 DEF Range, Delivery
<1>7. ASSUME NEW d \in Range(executor') PROVE Fair(d.read, d.event)'
  <2>1. CASE d \in Range(executor)
    <3>1. Sent(d.read) /\ Fair(d.read, d.event)
      BY <2>1 DEF Sent, EventsFair
    <3>2. PICK r, e : r \in Reads /\ r = d.read /\ e = d.event
      BY <1>6, <2>1
    <3> QED BY <1>5, <3>1, <3>2
  <2>2. CASE d \in Range(queued)
    BY <1>2, <2>2 DEF Fair
  <2>3. ASSUME NEW r \in Raising(rs), d = EventOf(r)
        PROVE  Fair(d.read, d.event)'
    <3>1. /\ d.read = r /\ d.event.synced = views'[QueryOf[r]]
          /\ d.event.version = stored'.cache[QueryOf[r]]
      BY <2>3 DEF EventOf, Value
    <3>2. r \in Reads /\ rs[r].state = "listening" /\ QueryOf[r] \in DOMAIN views'
      BY DEF Raising
    <3> SUFFICES ASSUME QueryOf[r] \notin refused', views'[QueryOf[r]]
                 PROVE  reads'[r].since <= stored'.cache[QueryOf[r]]
      BY <3>1 DEF Fair
    <3>3. TargetKept(QueryOf[r])'
      BY <3>2, DocumentReadsAssumption DEF TargetsKept
    <3>4. opened'[QueryOf[r]] <= stored'.cache[QueryOf[r]]
      BY <3>2, <3>3 DEF TargetKept, Synced
    <3>5. reads'[r].since = opened'[QueryOf[r]]
      BY <1>2, <1>3, <3>2 DEF Moved
    <3> QED BY <3>4, <3>5
  <2> QED BY <1>3, <2>1, <2>2, <2>3
<1>8. ASSUME NEW r \in Reads, NEW e \in Range(answers[r]) PROVE Fair(r, e)'
  <2>1. answers[r] # <<>>
    BY <1>8 DEF Range
  <2>2. Sent(r) /\ Fair(r, e)
    BY <2>1 DEF Sent, EventsFair
  <2> QED BY <1>5, <2>2
<1> QED BY <1>4, <1>7, <1>8 DEF EventsFair

\* The answer of a call is the event, or tells that nothing is known.
LEMMA DeliveredFair ==
  ASSUME WatchInv, EventsFair, RunExecutor
  PROVE  EventsFair'
<1> DEFINE d == Head(executor)
<1>1. /\ executor \in Seq(Delivery) /\ reads \in [Reads -> Listener]
      /\ answers \in [Reads -> Seq(Event)]
  BY DEF WatchInv, AnswersInv, Typed
<1>2. /\ executor # <<>> /\ executor' = Tail(executor) /\ refused' = refused /\ opened' = opened
      /\ IF reads[d.read].muted \/ d.read \in Tables
         THEN UNCHANGED <<reads, worker, answers>>
         ELSE OnEvent(d.read, d.event)
  BY DEF RunExecutor, remoteVars
<1>3. Range(executor) = Range(executor') \cup {d} /\ d \in Delivery
  BY <1>1, <1>2, RangeOfTail, HeadTailProperties
<1> HIDE DEF d
<1>4. d.read \in Reads /\ d.event \in Event /\ Fair(d.read, d.event)
  BY <1>3 DEF Delivery, EventsFair
<1>5. \A r \in Reads : reads'[r].state = reads[r].state /\ reads'[r].since = reads[r].since
  <2>1. \/ reads' = reads
        \/ reads' = [reads EXCEPT ![d.read].muted = TRUE]
    BY <1>2 DEF OnEvent, MuteAndRemove
  <2>2. ASSUME reads' = [reads EXCEPT ![d.read].muted = TRUE], NEW r \in Reads
        PROVE  reads'[r].state = reads[r].state /\ reads'[r].since = reads[r].since
    <3>1. reads[r] \in Listener
      BY <1>1
    <3>2. CASE r = d.read
      <4>1. reads'[r] = [reads[r] EXCEPT !.muted = TRUE]
        BY <1>1, <2>2, <3>2
      <4> QED BY <3>1, <4>1 DEF Listener
    <3>3. CASE r # d.read
      BY <1>1, <2>2, <3>3
    <3> QED BY <3>2, <3>3
  <2> QED BY <2>1, <2>2
<1>6. ASSUME NEW r \in Reads, NEW e, Fair(r, e) PROVE Fair(r, e)'
  BY <1>2, <1>5, <1>6 DEF Fair
<1>7. ASSUME NEW x \in Range(executor') PROVE Fair(x.read, x.event)'
  <2>1. x.read \in Reads
    <3>1. \A i \in DOMAIN executor : executor[i] \in Delivery
      BY <1>1, ElementOfSeq, LenProperties
    <3> QED BY <1>3, <3>1 DEF Range, Delivery
  <2>2. Fair(x.read, x.event)
    BY <1>3 DEF EventsFair
  <2>3. PICK r, e : r \in Reads /\ r = x.read /\ e = x.event
    BY <2>1
  <2> QED BY <1>6, <2>2, <2>3
<1>8. ASSUME NEW r \in Reads, NEW e \in Range(answers'[r]) PROVE Fair(r, e)'
  <2>1. CASE answers' = answers
    <3>1. Fair(r, e)
      BY <1>8, <2>1 DEF EventsFair
    <3> QED BY <1>6, <3>1
  <2>2. CASE OnEvent(d.read, d.event)
    <3> DEFINE a == AnswerTo(d.event)
    <3>1. answers' = [answers EXCEPT ![d.read] = Append(@, a)]
      BY <2>2 DEF OnEvent
    <3>2. a \in Event /\ Fair(d.read, a)
      <4>1. a = d.event \/ a = Unavailable
        BY DEF AnswerTo
      <4>2. Unavailable \in Event /\ ~Unavailable.synced
        BY VersionsAreInts DEF Unavailable, Event
      <4> QED BY <1>4, <4>1, <4>2 DEF Fair
    <3> HIDE DEF a
    <3>3. CASE r = d.read
      <4>1. answers'[r] = Append(answers[r], a) /\ answers[r] \in Seq(Event)
        BY <1>1, <3>1, <3>3
      <4>2. Range(answers'[r]) = Range(answers[r]) \cup {a}
        BY <3>2, <4>1, RangeOfAppend
      <4>3. Fair(r, e)
        BY <1>8, <3>2, <3>3, <4>2 DEF EventsFair
      <4> QED BY <1>6, <4>3
    <3>4. CASE r # d.read
      <4>1. answers'[r] = answers[r]
        BY <1>1, <3>1, <3>4
      <4>2. Fair(r, e)
        BY <1>8, <4>1 DEF EventsFair
      <4> QED BY <1>6, <4>2
    <3> QED BY <3>3, <3>4
  <2> QED BY <1>2, <2>1, <2>2
<1>9. \A r \in Reads : reads'[r].state = "listening" => reads'[r].since = opened'[QueryOf[r]]
  BY <1>2, <1>5 DEF EventsFair
<1> QED BY <1>7, <1>8, <1>9 DEF EventsFair

LEMMA NothingTold ==
  ASSUME EventsFair, UNCHANGED <<refused, opened, executor, answers>>,
         \A r \in Reads : /\ reads'[r].since = reads[r].since
                          /\ reads'[r].state = "listening" => reads[r].state = "listening",
         WatchInv
  PROVE  EventsFair'
<1>1. executor \in Seq(Delivery)
  BY DEF WatchInv, AnswersInv, Typed
<1>2. \A d \in Range(executor) : d.read \in Reads
  <2>1. \A i \in DOMAIN executor : executor[i] \in Delivery
    BY <1>1, ElementOfSeq, LenProperties
  <2> QED BY <2>1 DEF Range, Delivery
<1> QED BY <1>2 DEF EventsFair, Fair

\* Queries whose listen was refused stay refused.
LEMMA RefusedStays ==
  ASSUME [Next]_vars, Rests(remote)
  PROVE  refused \subseteq refused'
<1>1. CASE ClientSteps
  BY <1>1, ClientRests
<1>2. CASE BackendRefuses
  BY <1>2 DEF BackendRefuses
<1>3. ASSUME ~ClientSteps, ~BackendRefuses PROVE refused' = refused
  BY <1>3 DEF Next, OnClient, ClientSteps, GetDocument, RunWorker, RunExecutor, StreamRead,
              BackendAnswers, BackendChanges, vars, remoteVars
<1> QED BY <1>1, <1>2, <1>3

LEMMA StepEventsFair ==
  ASSUME WatchInv, WatchInv', TargetsKept', EventsFair, [Next]_vars
  PROVE  EventsFair'
<1>1. refused \subseteq refused'
  BY RefusedStays DEF WatchInv
<1>2. CASE RunWorker \/ StreamRead \/ HandleOnlineStateChange
  <2>1. answers' = answers
    BY <1>2 DEF RunWorker, StreamRead, HandleOnlineStateChange
  <2>2. PICK rs, queued : Rising(rs, queued)
    BY <1>2, WorkerRising
  <2> QED BY <1>1, <2>1, <2>2, RaisedFair
<1>3. ASSUME NEW r \in Reads, GetDocument(r) PROVE EventsFair'
  <2>1. reads \in [Reads -> Listener]
    BY DEF WatchInv, AnswersInv, Typed
  <2>2. /\ reads' = [reads EXCEPT ![r].state = "asked"]
        /\ UNCHANGED <<refused, opened, executor, answers>>
    BY <1>3 DEF GetDocument, remoteVars
  <2>3. \A x \in Reads : /\ reads'[x].since = reads[x].since
                         /\ reads'[x].state = "listening" => reads[x].state = "listening"
    BY <2>1, <2>2 DEF Listener
  <2> QED BY <2>2, <2>3, NothingTold
<1>4. CASE RunExecutor
  BY <1>4, DeliveredFair
<1>5. CASE UNCHANGED vars
  BY <1>5, NothingTold DEF vars, readVars, remoteVars
<1> QED BY <1>2, <1>3, <1>4, <1>5 DEF Next, OnClient

LEMMA InitEventsFair ==
  ASSUME Init
  PROVE  EventsFair
<1>1. /\ executor = <<>> /\ answers = [r \in Reads |-> <<>>]
      /\ \A r \in Reads : reads[r].state # "listening"
  BY DEF Init
<1> QED BY <1>1 DEF EventsFair, Range

-----------------------------------------------------------------------------
(* A stream that starts waits for its credentials *)

LEMMA SameStarting ==
  ASSUME NEW s, NEW t, Starting(s), t.stream = s.stream, t.closes = s.closes,
         t.tokens = s.tokens
  PROVE  Starting(t)
BY DEF Starting

LEMMA ListenStarting ==
  ASSUME NEW s, Rests(s), NEW q \in Queries, q \notin Listening(s),
         NEW known \in Versions, NEW R, Counted(s, R), Starting(s)
  PROVE  Starting(Listen(s, q, known))
<1> DEFINE targets == Put(s.targets, q, known)
           added == [s EXCEPT !.targets = targets]
           t == Listen(s, q, known)
<1>1. s \in WatchRec
  BY DEF Rests, Sound
<1>2. targets \in Targets /\ DOMAIN targets = Listening(s) \cup {q}
  <2>1. s.targets \in Targets
    BY <1>1 DEF WatchRec
  <2> QED BY <2>1, AddedTargets DEF Listening
<1>3. t = IF ShouldStartWatchStream(added) THEN StartWatchStream(added)
          ELSE IF IsOpen(added) THEN SendWatchRequests(added, {q}) ELSE added
  BY DEF Listen
<1> HIDE DEF targets, t
<1>4. /\ added \in WatchRec /\ added.stream = s.stream /\ added.up = s.up
      /\ added.down = s.down /\ added.served = s.served /\ added.targets = targets
      /\ added.closes = s.closes /\ added.tokens = s.tokens
  BY <1>1, <1>2 DEF WatchRec
<1> HIDE DEF added
<1>5. Starting(added)
  BY <1>4, SameStarting
<1>6. CASE ShouldStartWatchStream(added)
  <2>1. ~IsStarted(added) /\ ~IsOpen(s)
    BY <1>4, <1>6 DEF ShouldStartWatchStream, IsStarted, IsOpen
  <2>2. added.up = <<>> /\ added.down = <<>> /\ added.served = {}
    BY <1>4, <2>1 DEF Counted
  <2>3. Fresh(t)
    BY <1>3, <1>4, <1>6, <2>1, <2>2, StartsFresh
  <2> QED BY <2>3 DEF Fresh, t
<1>7. CASE ~ShouldStartWatchStream(added) /\ IsOpen(added)
  <2>1. {q} \in SUBSET Listening(added)
    BY <1>2, <1>4 DEF Listening
  <2>2. t = SendWatchRequests(added, {q})
    BY <1>3, <1>7
  <2>3. Alike(added, t)
    BY <1>4, <1>7, <2>1, <2>2, WatchRequestsSent
  <2> QED BY <1>5, <2>3, SameStarting DEF Alike, t
<1>8. CASE ~ShouldStartWatchStream(added) /\ ~IsOpen(added)
  BY <1>3, <1>5, <1>8 DEF t
<1> QED BY <1>6, <1>7, <1>8

LEMMA StopStarting ==
  ASSUME NEW s, Rests(s), NEW q \in Queries, q \in Listening(s), Starting(s)
  PROVE  Starting(StopListening(s, q))
<1> DEFINE erased == Erase(s, q)
           told == IF IsOpen(s) THEN SendUnwatchRequest(erased, q) ELSE erased
           t == StopListening(s, q)
<1>1. s \in WatchRec
  BY DEF Rests, Sound
<1>2. t = IF Listening(told) # {} THEN told
          ELSE IF IsOpen(told) THEN MarkIdle(told) ELSE UpdateState(told, "Unknown")
  BY DEF StopListening, Check
<1>3. erased \in WatchRec /\ Alike(s, erased)
  BY <1>1, ErasedAlike
<1> HIDE DEF erased, t
<1>4. told \in WatchRec /\ Alike(s, told)
  <2>1. CASE IsOpen(s)
    <3>1. IsOpen(erased) /\ told = SendUnwatchRequest(erased, q)
      BY <1>3, <2>1 DEF IsOpen, Alike
    <3> HIDE DEF told
    <3>2. told \in WatchRec /\ Alike(erased, told)
      BY <1>3, <3>1, UnwatchRequestSent
    <3> QED BY <1>3, <3>2, AlikeTwice
  <2>2. CASE ~IsOpen(s)
    BY <1>3, <2>2
  <2> QED BY <2>1, <2>2
<1> HIDE DEF told
<1>5. t = told \/ t = [told EXCEPT !.idle = TRUE] \/ t = UpdateState(told, "Unknown")
  BY <1>2 DEF MarkIdle
<1>6. t.stream = told.stream /\ t.closes = told.closes /\ t.tokens = told.tokens
  <2>1. CASE t = [told EXCEPT !.idle = TRUE]
    BY <1>4, <2>1 DEF WatchRec
  <2>2. CASE t = UpdateState(told, "Unknown")
    BY <1>4, <2>2, UpdateStateIs
  <2> QED BY <1>5, <2>1, <2>2
<1> QED BY <1>4, <1>6, SameStarting DEF Alike, t

\* With another token taken, the stream still waits for its own.
LEMMA ClientStarting ==
  ASSUME Rests(remote), ClientSteps, NEW R, Counted(remote, R), Starting(remote)
  PROVE  Starting(remote')
<1>1. remote \in WatchRec
  BY DEF Rests, Sound
<1>2. ASSUME NEW c \in remote.tokens
      PROVE  LET s == [remote EXCEPT !.tokens = @ \ {c}]
             IN  /\ Rests(s) /\ s \in WatchRec
                 /\ (c = remote.closes => s.stream = "Starting" /\ s.closes \notin s.tokens)
                 /\ (c # remote.closes => Starting(s))
  <2> DEFINE tokens == remote.tokens \ {c}
             s == [remote EXCEPT !.tokens = tokens]
  <2>1. [remote EXCEPT !.tokens = @ \ {c}] = s
    OBVIOUS
  <2>2. /\ Rests(s) /\ s.closes = remote.closes /\ s.stream = remote.stream
        /\ s.tokens = tokens
    <3>1. s.tokens = tokens
      BY <1>1 DEF WatchRec
    <3> QED BY <3>1, <2>1, TokenTaken
  <2>3. c \in remote.tokens /\ tokens = remote.tokens \ {c}
    OBVIOUS
  <2> HIDE DEF s, tokens
  <2>4. c # remote.closes => Starting(s)
    BY <2>2, <2>3 DEF Starting
  <2>5. c = remote.closes => s.stream = "Starting" /\ s.closes \notin s.tokens
    BY <2>2, <2>3 DEF Rests, Sound
  <2>6. s \in WatchRec
    BY <2>2 DEF Rests, Sound
  <2> QED BY <2>1, <2>2, <2>4, <2>5, <2>6
<1>3. CASE CredentialsArrive
  <2>1. PICK c \in remote.tokens : CredentialsAnswer(c)
    BY <1>3 DEF CredentialsArrive
  <2> DEFINE s == [remote EXCEPT !.tokens = @ \ {c}]
  <2>2. remote' = IF c # remote.closes THEN s ELSE OnWatchStreamOpen(OnStreamStart(s))
    BY <2>1 DEF CredentialsAnswer
  <2>3. /\ s \in WatchRec
        /\ (c = remote.closes => s.stream = "Starting") /\ (c # remote.closes => Starting(s))
    BY <1>2
  <2> HIDE DEF s
  <2>4. CASE c = remote.closes
    <3> DEFINE o == OnStreamStart(s)
    <3>1. o = [s EXCEPT !.stream = "Open"]
      BY <2>3, <2>4 DEF OnStreamStart, Check
    <3>2. remote' = SendWatchRequests(o, Listening(o))
      BY <2>2, <2>4 DEF OnWatchStreamOpen
    <3> HIDE DEF o
    <3>3. o \in WatchRec /\ o.stream = "Open"
      BY <2>3, <3>1 DEF WatchRec
    <3>4. Alike(o, remote')
      BY <3>2, <3>3, WatchRequestsSent DEF IsOpen
    <3> QED BY <3>3, <3>4 DEF Starting, Alike
  <2>5. CASE c # remote.closes
    BY <2>2, <2>3, <2>5
  <2> QED BY <2>4, <2>5
<1>4. CASE CredentialsLost
  <2>1. PICK c \in remote.tokens : CredentialsFail(c)
    BY <1>4 DEF CredentialsLost
  <2> DEFINE s == [remote EXCEPT !.tokens = @ \ {c}]
  <2>2. remote' = IF c # remote.closes THEN s ELSE Close(s, FALSE)
    BY <2>1 DEF CredentialsFail
  <2>3. s \in WatchRec /\ (c # remote.closes => Starting(s))
    BY <1>2
  <2> HIDE DEF s
  <2> QED BY <2>2, <2>3, CloseFresh DEF Fresh
<1>5. CASE StreamBreaks
  <2>1. remote' = Close(remote, FALSE)
    BY <1>5 DEF StreamBreaks
  <2> QED BY <1>1, <2>1, CloseFresh DEF Fresh
<1>6. CASE BackoffElapses
  <2>1. remote' = Resume(remote) /\ remote.backoff
    BY <1>6 DEF BackoffElapses
  <2>2. remote.stream = "Backoff"
    BY <2>1 DEF Rests, Sound
  <2> DEFINE tokens == remote.tokens \cup {remote.closes}
  <2>3. remote' = [remote EXCEPT !.backoff = FALSE, !.stream = "Starting", !.tokens = tokens]
    BY <1>1, <2>1, <2>2 DEF Resume, Start, RequestCredentials, Check, WatchRec
  <2>4. remote.closes \in tokens
    OBVIOUS
  <2> HIDE DEF tokens
  <2>5. remote'.closes = remote.closes /\ remote'.tokens = tokens
    BY <1>1, <2>3 DEF WatchRec
  <2> QED BY <2>4, <2>5 DEF Starting
<1>7. CASE IdleElapses
  <2>1. remote' = Close(remote, TRUE) \/ remote' = remote
    BY <1>7 DEF IdleElapses, Stop
  <2> QED BY <1>1, <2>1, CloseFresh DEF Fresh
<1>8. CASE OnlineTimeout
  <2> DEFINE t == [remote EXCEPT !.timer = FALSE, !.online = "Offline"]
  <2>1. remote.online = "Unknown"
    BY <1>8 DEF OnlineTimeout, Rests, Sound
  <2>2. remote' = t
    BY <1>8, <2>1 DEF OnlineTimeout, Check
  <2>3. t.stream = remote.stream /\ t.closes = remote.closes /\ t.tokens = remote.tokens
    BY <1>1 DEF WatchRec
  <2> HIDE DEF t
  <2> QED BY <2>2, <2>3, SameStarting
<1>9. CASE ConnectivityChanges
  <2>1. remote' = RestartNetwork(remote)
    BY <1>9 DEF ConnectivityChanges
  <2>2. ~IsOpen(remote) => remote.up = <<>> /\ remote.down = <<>> /\ remote.served = {}
    BY DEF Counted
  <2> QED BY <2>1, <2>2, RestartFresh DEF Fresh
<1> QED BY <1>3, <1>4, <1>5, <1>6, <1>7, <1>8, <1>9 DEF ClientSteps

LEMMA WorkerStarting ==
  ASSUME WatchInv, RunWorker, NEW R, Counted(remote, R), Starting(remote)
  PROVE  Starting(remote')
<1>1. /\ Rests(remote) /\ Listening(remote) = DOMAIN views /\ DOMAIN views = Listened(reads)
      /\ worker \in Seq(Operations) /\ reads \in [Reads -> Listener] /\ stored \in Results
  BY DEF WatchInv, AnswersInv, Typed
<1>2. /\ worker # <<>> /\ Head(worker) \in Operations
      /\ IF Head(worker).op = "Add" THEN AddQueryListener(Head(worker).read)
         ELSE RemoveQueryListener(Head(worker).read)
  BY <1>1, WorkerShifts DEF RunWorker
<1>3. PICK c \in Reads : c = Head(worker).read
  BY <1>2 DEF Operations
<1> DEFINE q == QueryOf[c]
<1>4. q \in Queries /\ stored.resume[q] \in Versions
  BY <1>1, DocumentReadsAssumption DEF Results
<1>5. CASE AddQueryListener(c)
  <2>1. CASE ListenersOf(q, reads) = {}
    <3>1. q \notin DOMAIN views
      BY <1>1, <2>1 DEF ListenersOf, Listened
    <3>2. remote' = Listen(Check(remote, q \notin DOMAIN views, "already listening"),
                           q, stored.resume[q])
      BY <1>5, <2>1 DEF AddQueryListener
    <3>3. remote' = Listen(remote, q, stored.resume[q])
      BY <3>1, <3>2 DEF Check
    <3> HIDE DEF q
    <3> QED BY <1>1, <1>4, <3>1, <3>3, ListenStarting
  <2>2. CASE ListenersOf(q, reads) # {}
    BY <1>5, <2>2 DEF AddQueryListener
  <2> QED BY <2>1, <2>2
<1>6. CASE RemoveQueryListener(c)
  <2> DEFINE left == [reads EXCEPT ![c].state = "gone"]
  <2>1. CASE reads[c].state = "listening" /\ ListenersOf(q, left) = {}
    <3>1. q \in DOMAIN views
      BY <1>1, <2>1 DEF Listened
    <3>2. remote' = StopListening(Check(remote, q \in DOMAIN views, "query not found"), q)
      BY <1>6, <2>1 DEF RemoveQueryListener
    <3>3. remote' = StopListening(remote, q)
      BY <3>1, <3>2 DEF Check
    <3> HIDE DEF q
    <3> QED BY <1>1, <1>4, <3>1, <3>3, StopStarting
  <2>2. CASE ~(reads[c].state = "listening" /\ ListenersOf(q, left) = {})
    BY <1>6, <2>2 DEF RemoveQueryListener
  <2> QED BY <2>1, <2>2
<1> QED BY <1>2, <1>3, <1>5, <1>6

LEMMA StepStarting ==
  ASSUME WatchInv, Counted(remote, refused), [Next]_vars, Starting(remote)
  PROVE  Starting(remote')
<1>1. Rests(remote) /\ remote \in WatchRec /\ remote.down \in Seq(Response)
  BY DEF WatchInv, Rests, Sound, WatchRec
<1>2. CASE StreamRead
  <2> DEFINE s == [remote EXCEPT !.down = Tail(@)]
             m == Head(remote.down)
  <2>1. remote.down # <<>> /\ remote' = OnWatchStreamChange(s, m)
    BY <1>2 DEF StreamRead
  <2>2. IsOpen(remote)
    BY <2>1, OpenWires
  <2>3. m \in Response
    BY <1>1, <2>1, MessageTaken
  <2>4. s \in WatchRec /\ s.stream = remote.stream
    <3>1. PICK down \in Seq(Response) : down = Tail(remote.down)
      BY <1>1, <2>1, HeadTailProperties
    <3>2. s = [remote EXCEPT !.down = down]
      BY <3>1
    <3> HIDE DEF s
    <3> QED BY <1>1, <3>1, <3>2 DEF WatchRec
  <2> HIDE DEF s, m
  <2>5. remote'.stream = s.stream
    BY <2>1, <2>3, <2>4, HeardPending DEF SameWires
  <2> QED BY <2>2, <2>4, <2>5 DEF Starting, IsOpen
<1>3. CASE BackendAnswers
  <2>1. remote.up # <<>>
    BY <1>3 DEF BackendAnswers
  <2>2. remote'.stream = remote.stream /\ IsOpen(remote)
    BY <1>1, <1>3, <2>1, OpenWires DEF BackendAnswers, WatchRec
  <2> QED BY <2>2 DEF Starting, IsOpen
<1>4. CASE BackendRefuses
  <2>1. remote.up # <<>>
    BY <1>4 DEF BackendRefuses
  <2>2. remote'.stream = remote.stream /\ IsOpen(remote)
    BY <1>1, <1>4, <2>1, OpenWires DEF BackendRefuses, WatchRec
  <2> QED BY <2>2 DEF Starting, IsOpen
<1>5. ASSUME NEW q \in Queries, BackendChanges(q) PROVE Starting(remote')
  <2>1. /\ remote'.stream = remote.stream /\ remote'.closes = remote.closes
        /\ remote'.tokens = remote.tokens
    BY <1>1, <1>5 DEF BackendChanges, WatchRec
  <2> QED BY <2>1, SameStarting
<1>6. ASSUME remote' = remote PROVE Starting(remote')
  BY <1>6
<1>7. CASE ClientSteps
  BY <1>1, <1>7, ClientStarting
<1>8. CASE RunWorker
  BY <1>8, WorkerStarting
<1>9. CASE RunExecutor
  BY <1>6, <1>9 DEF RunExecutor, remoteVars
<1>10. ASSUME NEW r \in Reads, GetDocument(r) PROVE Starting(remote')
  BY <1>6, <1>10 DEF GetDocument, remoteVars
<1>11. CASE UNCHANGED vars
  BY <1>6, <1>11 DEF vars, remoteVars
<1> QED
  BY <1>2, <1>3, <1>4, <1>5, <1>7, <1>8, <1>9, <1>10, <1>11
  DEF Next, OnClient, ClientSteps

-----------------------------------------------------------------------------
(* Calls that wait for what is still to be done *)

LEMMA RaisedWaits ==
  ASSUME WatchInv, WatchInv', NEW r \in Reads, Waits(r), refused \subseteq refused',
         answers' = answers, NEW rs, NEW queued, Rising(rs, queued)
  PROVE  Waits(r)'
<1>1. /\ executor \in Seq(Delivery) /\ views' \in Views /\ stored' \in Results
      /\ reads \in [Reads -> Listener]
      /\ reads' \in [Reads -> Listener] /\ DOMAIN views' = Listened(reads')
  BY DEF WatchInv, AnswersInv, Typed
<1>2. /\ rs \in [Reads -> Listener] /\ queued \in Seq(Delivery) /\ Raise(rs, queued)
      /\ Range(worker') \subseteq Range(worker) /\ Moved(r, rs, queued)
  BY DEF Rising
<1>3. /\ Range(executor') = Range(executor) \cup Range(queued)
                              \cup {EventOf(x) : x \in Raising(rs)}
      /\ reads'[r].state = rs[r].state /\ reads'[r].muted = rs[r].muted
      /\ reads'[r].raised <=> rs[r].raised \/ r \in Raising(rs)
  BY <1>1, <1>2, RaiseEvents
<1>4. Sent(r) => Sent(r)'
  BY <1>3 DEF Sent
<1>5. r \in Raising(rs) => Sent(r)'
  <2>1. EventOf(r).read = r
    BY DEF EventOf
  <2> QED BY <1>3, <2>1 DEF Sent
<1>6. reads'[r].state = "asked" => Operation("Add", r) \in Range(worker')
  BY <1>2, <1>3 DEF Moved, Waits
<1>7. Operation("Remove", r) \in Range(worker') => answers'[r] # <<>>
  BY <1>2 DEF Waits
<1>8. reads'[r].muted => answers'[r] # <<>>
  BY <1>2, <1>3 DEF Moved, Waits
<1>9. reads'[r].raised => QueryOf[r] \in refused' \/ Sent(r)'
  BY <1>2, <1>3, <1>4, <1>5 DEF Moved, Waits
<1>10. reads'[r].state = "gone" => QueryOf[r] \in refused' \/ Sent(r)'
  <2> SUFFICES ASSUME reads'[r].state = "gone"
               PROVE  QueryOf[r] \in refused' \/ Sent(r)'
    OBVIOUS
  <2>1. \/ reads[r].state = "gone"
        \/ Operation("Remove", r) \in Range(worker)
        \/ \E d \in Range(queued) : d.read = r
    BY <1>2, <1>3 DEF Moved
  <2>2. CASE reads[r].state = "gone"
    BY <1>4, <2>2 DEF Waits
  <2>3. CASE Operation("Remove", r) \in Range(worker)
    BY <2>3 DEF Waits, Sent
  <2>4. CASE \E d \in Range(queued) : d.read = r
    BY <1>3, <2>4 DEF Sent
  <2> QED BY <2>1, <2>2, <2>3, <2>4
<1>11. ASSUME reads'[r].state = "listening", ~reads'[r].raised
       PROVE  ~views'[QueryOf[r]] /\ remote'.online # "Offline"
  <2>1. QueryOf[r] \in DOMAIN views'
    BY <1>1, <1>11 DEF Listened
  <2>2. ~RaisesInitialEvent(r)
    BY <1>3, <1>11, <2>1 DEF Raising
  <2> QED BY <2>2 DEF RaisesInitialEvent
<1> QED BY <1>6, <1>7, <1>8, <1>9, <1>10, <1>11 DEF Waits

LEMMA AskedWaits ==
  ASSUME WatchInv, NEW c \in Reads, GetDocument(c), NEW r \in Reads, Waits(r)
  PROVE  Waits(r)'
<1>1. reads \in [Reads -> Listener] /\ worker \in Seq(Operations)
  BY DEF WatchInv, AnswersInv, Typed
<1>2. /\ reads' = [reads EXCEPT ![c].state = "asked"]
      /\ worker' = Append(worker, Operation("Add", c))
      /\ UNCHANGED <<remote, refused, views, executor, answers>>
  BY DEF GetDocument, remoteVars
<1>3. /\ reads'[r].raised = reads[r].raised /\ reads'[r].muted = reads[r].muted
      /\ reads'[r].state = IF r = c THEN "asked" ELSE reads[r].state
  BY <1>1, <1>2 DEF Listener
<1>4. Range(worker') = Range(worker) \cup {Operation("Add", c)}
  <2>1. Operation("Add", c) \in Operations
    BY DEF Operation, Operations
  <2> QED BY <1>1, <1>2, <2>1, RangeOfAppend
<1>5. Operation("Remove", r) # Operation("Add", c)
  BY DEF Operation
<1>6. Sent(r)' <=> Sent(r)
  BY <1>2 DEF Sent
<1> QED BY <1>2, <1>3, <1>4, <1>5, <1>6 DEF Waits

LEMMA DeliveredWaits ==
  ASSUME WatchInv, RunExecutor, NEW r \in Reads \ Tables, Waits(r)
  PROVE  Waits(r)'
<1> DEFINE d == Head(executor)
<1>1. /\ executor \in Seq(Delivery) /\ worker \in Seq(Operations)
      /\ reads \in [Reads -> Listener] /\ answers \in [Reads -> Seq(Event)]
  BY DEF WatchInv, AnswersInv, Typed
<1>2. /\ executor # <<>> /\ executor' = Tail(executor)
      /\ UNCHANGED <<remote, refused, views>>
      /\ IF reads[d.read].muted \/ d.read \in Tables
         THEN UNCHANGED <<reads, worker, answers>>
         ELSE OnEvent(d.read, d.event)
  BY DEF RunExecutor, remoteVars
<1>3. Range(executor) = Range(executor') \cup {d} /\ d \in Delivery
  BY <1>1, <1>2, RangeOfTail, HeadTailProperties
<1>4. PICK x, e : x \in Reads /\ e \in Event /\ x = d.read /\ e = d.event
  BY <1>3 DEF Delivery
<1> HIDE DEF d
<1>5. r # x => (Sent(r) => answers[r] # <<>> \/ \E y \in Range(executor') : y.read = r)
  BY <1>3, <1>4 DEF Sent
<1>6. CASE reads[x].muted \/ x \in Tables
  <2>1. UNCHANGED <<reads, worker, answers>>
    BY <1>2, <1>4, <1>6
  <2>2. Sent(r) => Sent(r)'
    BY <1>5, <1>6, <2>1 DEF Sent, Waits
  <2> QED BY <1>2, <2>1, <2>2 DEF Waits
<1>7. CASE ~(reads[x].muted \/ x \in Tables)
  <2>1. OnEvent(x, e)
    BY <1>2, <1>4, <1>7
  <2>2. /\ answers' = [answers EXCEPT ![x] = Append(@, AnswerTo(e))]
        /\ \/ reads' = reads /\ worker' = worker
           \/ /\ reads' = [reads EXCEPT ![x].muted = TRUE]
              /\ worker' = Append(worker, Operation("Remove", x))
    BY <2>1 DEF OnEvent, MuteAndRemove
  <2>3. answers'[x] # <<>> /\ (r # x => answers'[r] = answers[r])
    <3>1. answers'[x] = Append(answers[x], AnswerTo(e)) /\ answers[x] \in Seq(Event)
      BY <1>1, <1>4, <2>2
    <3>2. AnswerTo(e) \in Event
      BY <1>4, VersionsAreInts DEF AnswerTo, Unavailable, Event
    <3>3. Append(answers[x], AnswerTo(e)) # <<>>
      BY <3>1, <3>2, AppendProperties
    <3> QED BY <1>1, <2>2, <3>1, <3>3
  <2>4. /\ reads'[r].raised = reads[r].raised /\ reads'[r].state = reads[r].state
        /\ r # x => reads'[r].muted = reads[r].muted
    <3>1. CASE reads' = reads
      BY <3>1
    <3>2. CASE reads' = [reads EXCEPT ![x].muted = TRUE]
      <4>1. CASE r = x
        <5>1. reads'[r] = [reads[r] EXCEPT !.muted = TRUE] /\ reads[r] \in Listener
          BY <1>1, <3>2, <4>1
        <5> QED BY <4>1, <5>1 DEF Listener
      <4>2. CASE r # x
        BY <1>1, <3>2, <4>2
      <4> QED BY <4>1, <4>2
    <3> QED BY <2>2, <3>1, <3>2
  <2>5. /\ Range(worker) \subseteq Range(worker')
        /\ Range(worker') \subseteq Range(worker) \cup {Operation("Remove", x)}
    <3>1. Operation("Remove", x) \in Operations
      BY <1>4 DEF Operation, Operations
    <3>2. CASE worker' = worker
      BY <3>2
    <3>3. CASE worker' = Append(worker, Operation("Remove", x))
      <4>1. Range(worker') = Range(worker) \cup {Operation("Remove", x)}
        BY <1>1, <3>1, <3>3, RangeOfAppend
      <4> QED BY <4>1
    <3> QED BY <2>2, <3>2, <3>3
  <2>6. r # x => Operation("Remove", r) # Operation("Remove", x)
    BY DEF Operation
  <2>7. Sent(r) => Sent(r)'
    BY <1>5, <2>3 DEF Sent
  <2>8. answers[r] # <<>> => answers'[r] # <<>>
    BY <2>3
  <2> QED BY <1>2, <2>3, <2>4, <2>5, <2>6, <2>7, <2>8 DEF Waits
<1> QED BY <1>6, <1>7

LEMMA StepCallsWait ==
  ASSUME WatchInv, WatchInv', Counted(remote, refused), EventsFair, CallsWait, [Next]_vars
  PROVE  CallsWait'
<1>1. Starting(remote')
  BY StepStarting DEF CallsWait
<1>2. refused \subseteq refused'
  BY RefusedStays DEF WatchInv
<1>3. ASSUME NEW r \in Reads \ Tables PROVE Waits(r)'
  <2>1. Waits(r)
    BY DEF CallsWait
  <2>2. CASE RunWorker \/ StreamRead \/ HandleOnlineStateChange
    <3>1. answers' = answers
      BY <2>2 DEF RunWorker, StreamRead, HandleOnlineStateChange
    <3>2. PICK rs, queued : Rising(rs, queued)
      BY <2>2, WorkerRising
    <3> QED BY <1>2, <2>1, <3>1, <3>2, RaisedWaits
  <2>3. ASSUME NEW c \in Reads, GetDocument(c) PROVE Waits(r)'
    BY <2>1, <2>3, AskedWaits
  <2>4. CASE RunExecutor
    BY <2>1, <2>4, DeliveredWaits
  <2>5. CASE UNCHANGED vars
    BY <2>1, <2>5 DEF Waits, Sent, vars, readVars, remoteVars
  <2> QED BY <2>2, <2>3, <2>4, <2>5 DEF Next, OnClient
<1> QED BY <1>1, <1>3 DEF CallsWait

LEMMA InitCallsWait ==
  ASSUME Init
  PROVE  CallsWait
<1>1. /\ remote.stream = "Initial" /\ worker = SetToSeq({Operation("Add", r) : r \in Tables})
      /\ reads = [r \in Reads |->
                    [state |-> IF r \in Tables THEN "asked" ELSE "idle",
                     raised |-> FALSE, muted |-> FALSE, since |-> 0]]
  BY DEF Init, RemoteInit
<1> DEFINE T == {Operation("Add", r) : r \in Tables}
<1>2. IsFiniteSet(T)
  <2>1. IsFiniteSet(Tables)
    BY DocumentReadsAssumption, FS_Subset
  <2> DEFINE f == [r \in Tables |-> Operation("Add", r)]
  <2>2. f \in Surjection(Tables, T)
    BY DEF Surjection
  <2> HIDE DEF f, T
  <2> QED BY <2>1, <2>2, FS_Surjection
<1>3. \A o \in T : o.op = "Add"
  BY DEF Operation
<1> HIDE DEF T
<1>4. Range(worker) = T
  BY <1>1, <1>2, RangeOfSetToSeq DEF T
<1>5. ASSUME NEW r \in Reads \ Tables PROVE Waits(r)
  <2>1. reads[r].state = "idle" /\ ~reads[r].raised /\ ~reads[r].muted
    BY <1>1
  <2>2. Operation("Remove", r) \notin Range(worker)
    BY <1>3, <1>4 DEF Operation
  <2> QED BY <2>1, <2>2 DEF Waits
<1>6. Starting(remote)
  BY <1>1 DEF Starting
<1> QED BY <1>5, <1>6 DEF CallsWait

\* At rest the view of a query that is listened to is in sync, unless one of
\* its listens was refused: what the backend has told is all taken in.
LEMMA RestingSynced ==
  ASSUME WatchInv, TargetsKept, Starting(remote), AtRest, NEW q \in Queries \ refused,
         q \in Listening(remote)
  PROVE  views[q]
<1>1. /\ Rests(remote) /\ Listening(remote) = DOMAIN views /\ remote \in WatchRec
  BY DEF WatchInv, Rests, Sound
<1>2. /\ remote.up = <<>> /\ remote.down = <<>> /\ remote.tokens = {}
      /\ ~remote.backoff /\ ~remote.timer
  BY DEF AtRest
<1>3. IsOpen(remote)
  <2>1. IsStarted(remote)
    BY <1>1 DEF Rests
  <2>2. remote.stream # "Backoff"
    BY <1>1, <1>2 DEF Rests, Sound
  <2>3. remote.stream # "Starting"
    BY <1>2 DEF Starting
  <2> QED BY <2>1, <2>2, <2>3 DEF IsStarted, IsOpen
<1>4. Kept(remote, q, stored.cache[q], server[q], opened[q], Synced(q))
  BY DEF TargetsKept, TargetKept
<1>5. DOMAIN remote.up = {} /\ DOMAIN remote.down = {}
  BY <1>2
<1>6. ~Asked(remote, q)
  BY <1>5 DEF Asked, AskedAt
<1>7. Heard(remote, q, stored.cache[q], server[q], opened[q], Synced(q))
  BY <1>3, <1>4, <1>6 DEF Kept
<1>8. Synced(q)
  BY <1>5, <1>7 DEF Heard
<1> QED BY <1>8 DEF Synced

-----------------------------------------------------------------------------
(* The theorems *)

LEMMA WatchTypes ==
  ASSUME WatchInv
  PROVE  TypeOK
<1>1. /\ remote \in WatchRec /\ remote.tokens \subseteq 0..remote.closes
      /\ Listening(remote) = DOMAIN views
  BY DEF WatchInv, Rests, Sound
<1>2. /\ refused \subseteq Queries /\ reads \in [Reads -> Listener] /\ views \in Views
      /\ stored \in Results
  BY DEF WatchInv, AnswersInv, Typed
<1>3. DOMAIN views \subseteq Queries
  BY <1>2, ViewsAre
<1>4. \A r \in Reads : reads[r].state \in {"idle", "asked", "listening", "gone"}
  BY <1>2 DEF Listener
<1>5. stored.cache \in [Queries -> Versions] /\ stored.resume \in [Queries -> Versions]
  BY <1>2 DEF Results
<1>6. /\ remote.stream \in {"Initial", "Starting", "Open", "Error", "Backoff"}
      /\ remote.online \in {"Unknown", "Online", "Offline"}
      /\ remote.failures \in {0, 1} /\ remote.closes \in Nat
      /\ remote.served \subseteq Queries
  BY <1>1 DEF WatchRec
<1> QED BY <1>1, <1>2, <1>3, <1>4, <1>5, <1>6 DEF TypeOK, Listening

\* A listener that is listening needs a stream, and a started one is timed.
LEMMA WatchTimes ==
  ASSUME WatchInv
  PROVE  UnknownIsTimed
<1> SUFFICES ASSUME NEW r \in Tables, reads[r].state = "listening"
             PROVE  remote.online # "Unknown" \/ remote.timer
  BY DEF UnknownIsTimed
<1>1. QueryOf[r] \in Listened(reads)
  BY DocumentReadsAssumption DEF Listened
<1>2. IsStarted(remote)
  BY <1>1 DEF WatchInv, Rests
<1>3. Timed(remote)
  BY DEF WatchInv, TablesTimed
<1> QED BY <1>2, <1>3 DEF Timed

\* The inductive invariant holds in every state: the record of RemoteStore is
\* between two handlers, every listener has been added at most once, and the
\* queues hold nothing for it before that.
THEOREM AlwaysWatched == Spec => []WatchInv
<1>1. Init => WatchInv
  BY InitWatch
<1>2. WatchInv /\ [Next]_vars => WatchInv'
  BY StepKeepsWatch
<1> QED BY <1>1, <1>2, PTL DEF Spec

\* The books of RemoteStore, SyncEngine and LocalStore name the same queries
\* and hold results that were asked for, for every set of calls.
THEOREM TypeCorrect == Spec => []TypeOK
<1>1. WatchInv => TypeOK
  BY WatchTypes
<1> QED BY <1>1, AlwaysWatched, PTL

\* No HARD_ASSERT of the stream, of OnlineStateTracker, RemoteStore and
\* SyncEngine fails, whatever order timers, credentials, broken streams,
\* changes of connectivity and calls of the app come in.
THEOREM HardAssertsAlwaysHold == Spec => []HardAssertsHold
<1>1. WatchInv => HardAssertsHold
  BY DEF WatchInv, Rests, Sound, HardAssertsHold
<1> QED BY <1>1, AlwaysWatched, PTL

\* No call of getDocument is answered twice: the listener is muted on the main
\* thread, and behind an error nothing is queued for it.
THEOREM AlwaysAnsweredOnce == Spec => []AnsweredOnce
<1>1. WatchInv => AnsweredOnce
  <2> SUFFICES ASSUME WatchInv, NEW r \in Reads PROVE Len(answers[r]) <= 1
    BY DEF AnsweredOnce
  <2>1. CASE answers[r] # <<>>
    <3>1. AnsweredThenSilent(r)
      BY DEF WatchInv, AnswersInv
    <3>2. Len(answers[r]) = 1
      BY <2>1, <3>1 DEF AnsweredThenSilent
    <3> QED BY <3>2
  <2>2. CASE answers[r] = <<>>
    <3>1. Len(<<>>) = 0
      OBVIOUS
    <3> QED BY <2>2, <3>1
  <2> QED BY <2>1, <2>2
<1> QED BY <1>1, AlwaysWatched, PTL

\* While a table listens, an unknown online state is always limited in time.
THEOREM UnknownAlwaysTimed == Spec => []UnknownIsTimed
<1>1. WatchInv => UnknownIsTimed
  BY WatchTimes
<1> QED BY <1>1, AlwaysWatched, PTL

\* On an open stream the count of the outstanding responses of a target is
\* what the two wires hold for it, unless a listen of it was refused: the
\* aggregator never trusts a response of an earlier listen.
THEOREM ResponsesAlwaysCounted == Spec => []ResponsesCounted
<1>1. Init => WatchInv /\ Counted(remote, refused)
  BY InitWatch, InitCounted
<1>2. WatchInv /\ Counted(remote, refused) /\ [Next]_vars
        => WatchInv' /\ Counted(remote, refused)'
  BY StepKeepsWatch, StepCounted
<1>3. WatchInv /\ Counted(remote, refused) => ResponsesCounted
  BY CountedOutstanding DEF WatchInv
<1> QED BY <1>1, <1>2, <1>3, PTL DEF Spec

\* What the client will resume from is in the cache, whatever comes between the
\* listens of a document: no version is lost by resuming from it.
THEOREM ResumableAlwaysCached == Spec => []ResumableIsCached
<1>1. Init => WatchInv /\ Counted(remote, refused) /\ TargetsKept
  BY InitWatch, InitCounted, InitTargetsKept
<1>2. WatchInv /\ Counted(remote, refused) /\ TargetsKept /\ [Next]_vars
        => WatchInv' /\ Counted(remote, refused)' /\ TargetsKept'
  BY StepKeepsWatch, StepCounted, StepTargetsKept
<1>3. TargetsKept => ResumableIsCached
  BY DEF TargetsKept, TargetKept, Kept, Resumed, ResumableIsCached
<1> QED BY <1>1, <1>2, <1>3, PTL DEF Spec

\* An answer that claims to be in sync with the backend is no older than the
\* listen it answers, however the responses to earlier listens of the same
\* document are delayed.
THEOREM SyncedAlwaysFresh == Spec => []SyncedAnswersFresh
<1> DEFINE Inv == WatchInv /\ Counted(remote, refused) /\ TargetsKept /\ EventsFair
<1>1. Init => Inv
  BY InitWatch, InitCounted, InitTargetsKept, InitEventsFair
<1>2. Inv /\ [Next]_vars => Inv'
  BY StepKeepsWatch, StepCounted, StepTargetsKept, StepEventsFair
<1>3. Inv => SyncedAnswersFresh
  <2> SUFFICES ASSUME Inv, NEW r \in Reads, NEW i \in DOMAIN answers[r],
                      QueryOf[r] \notin refused, answers[r][i].synced
               PROVE  answers[r][i].version >= reads[r].since
    BY DEF SyncedAnswersFresh
  <2>1. /\ answers \in [Reads -> Seq(Event)] /\ reads \in [Reads -> Listener]
    BY DEF WatchInv, AnswersInv, Typed
  <2>2. answers[r][i] \in Event /\ reads[r] \in Listener
    BY <2>1, ElementOfSeq, LenProperties
  <2>3. answers[r][i].version \in Int /\ reads[r].since \in Int
    BY <2>2, VersionsAreInts DEF Event, Listener
  <2>4. answers[r][i] \in Range(answers[r])
    BY DEF Range
  <2>5. Fair(r, answers[r][i])
    BY <2>4 DEF EventsFair
  <2>6. reads[r].since <= answers[r][i].version
    BY <2>5 DEF Fair
  <2> QED BY <2>3, <2>6
<1> QED BY <1>1, <1>2, <1>3, PTL DEF Spec

\* When nothing is left to be done, by the queues, the timers, the credentials
\* or the network, every call of getDocument has been answered.
THEOREM AlwaysAnsweredAtRest == Spec => []AnsweredAtRest
<1> DEFINE Inv == /\ WatchInv /\ Counted(remote, refused) /\ TargetsKept
                  /\ EventsFair /\ CallsWait
<1>1. Init => Inv
  BY InitWatch, InitCounted, InitTargetsKept, InitEventsFair, InitCallsWait
<1>2. Inv /\ [Next]_vars => Inv'
  BY StepKeepsWatch, StepCounted, StepTargetsKept, StepEventsFair, StepCallsWait
<1>3. Inv => AnsweredAtRest
  <2> SUFFICES ASSUME Inv, AtRest, NEW r \in Reads \ Tables,
                      reads[r].state # "idle", QueryOf[r] \notin refused
               PROVE  answers[r] # <<>>
    BY DEF AnsweredAtRest
  <2>1. /\ reads[r] \in Listener /\ QueryOf[r] \in Queries
        /\ Listening(remote) = Listened(reads)
    BY DocumentReadsAssumption DEF WatchInv, AnswersInv, Typed
  <2>2. Waits(r) /\ Starting(remote)
    BY DEF CallsWait
  <2>3. Range(worker) = {} /\ Range(executor) = {}
    BY DEF AtRest, Range
  <2>4. reads[r].state # "asked"
    BY <2>2, <2>3 DEF Waits
  <2>5. CASE reads[r].raised \/ reads[r].state = "gone"
    BY <2>2, <2>3, <2>5 DEF Waits, Sent
  <2>6. CASE reads[r].state = "listening" /\ ~reads[r].raised
    <3>1. ~views[QueryOf[r]]
      BY <2>2, <2>6 DEF Waits
    <3>2. QueryOf[r] \in Listening(remote)
      BY <2>1, <2>6 DEF Listened
    <3> QED BY <2>1, <2>2, <3>1, <3>2, RestingSynced
  <2> QED BY <2>1, <2>4, <2>5, <2>6 DEF Listener
<1> QED BY <1>1, <1>2, <1>3, PTL DEF Spec

=============================================================================
