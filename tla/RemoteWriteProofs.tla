-------------------------- MODULE RemoteWriteProofs --------------------------
(* Theorems about RemoteWrite, for all users, writes, lengths of the         *)
(* pipeline and numbers of faults.                                           *)
(*                                                                           *)
(* The state of the worker is one record, and a handler is a chain of        *)
(* operators on it.  The lemmas follow the chain: what each operator makes   *)
(* of a record that may occur at that point, up to what a whole handler      *)
(* makes of a record at rest.                                                *)
EXTENDS RemoteWrite, SequenceTheorems, FiniteSetTheorems, WellFoundedInduction,
        TLAPS

Message == [type : {"Handshake", "Write", "Refused"}, write : Nat]

ClientRec ==
  [stream : {"Initial", "Starting", "Open", "Error", "Backoff"}, closes : Nat,
   tokens : SUBSET Nat, backoff : BOOLEAN, idle : BOOLEAN, up : Seq(Message),
   down : Seq(Message), broken : SUBSET STRING, handshake : BOOLEAN,
   enabled : BOOLEAN, pipeline : Seq(Writes), bearer : Users, user : Users,
   queues : [Users -> Seq(Writes)], callbacks : SUBSET Writes,
   called : SUBSET (Writes \X {"ok", "refused"})]

\* A token that was read or granted is that of one user.
Token == {{}} \cup {{u} : u \in Users}

Request == [attempt : Nat, counter : Nat, token : Token]

AuthRec ==
  [user : Users, counter : Nat, asked : SUBSET Request,
   main : Seq([type : {"Changed"}, user : Users]
              \cup [type : {"Token"}, request : Request])]

Operation ==
  [op : {"Write"}, write : Writes] \cup [op : {"User"}, user : Users]
  \cup [op : {"Credentials"}, attempt : Nat, token : Token]

Types ==
  /\ client \in ClientRec
  /\ auth \in AuthRec
  /\ worker \in Seq(Operation)
  /\ delivered \in [Users -> Seq(Writes)]
  /\ refused \subseteq Nat
  /\ told \subseteq Writes \X {"ok", "refused"}
  /\ spent \in [writes : Nat, signIns : Nat, faults : Nat, restarts : Nat]

-----------------------------------------------------------------------------
(* The worker's record *)

Rising(q) == \A i, j \in DOMAIN q : i < j => q[i] < q[j]
RisingQueues(s) == \A u \in Users : Rising(s.queues[u])

Begins(p, q) == Len(p) <= Len(q) /\ \A i \in 1..Len(p) : p[i] = q[i]

\* The pipeline holds the first batches of the queue,
Fits(s) == Len(s.pipeline) <= MaxPending /\ Begins(s.pipeline, Queue(s))

\* and as many of them as it has room for.
Filled(s) == Len(s.pipeline) \in {MaxPending, Len(Queue(s))}

WriteRequest(w) == [type |-> "Write", write |-> w]

\* Of an open stream: n answers and then the unanswered requests are the
\* pipeline, in its order; behind the answers there may be a refusal.
Answers(s, n) ==
  /\ n <= Len(s.pipeline) /\ n <= Len(s.down)
  /\ \A i \in 1..n : s.down[i] = WriteRequest(s.pipeline[i])
  /\ Len(s.up) = Len(s.pipeline) - n
  /\ \A i \in 1..Len(s.up) : s.up[i] = WriteRequest(s.pipeline[n + i])
  /\ \/ Len(s.down) = n
     \/ /\ Len(s.down) = n + 1 /\ s.down[n + 1].type = "Refused"
        /\ n < Len(s.pipeline)

Shaking(s) ==
  /\ s.pipeline # <<>> /\ ~s.idle
  /\ \/ /\ Len(s.up) = 1 /\ s.up[1].type = "Handshake"
        /\ \/ s.down = <<>>
           \/ Len(s.down) = 1 /\ s.down[1].type = "Refused"
     \/ s.up = <<>> /\ Len(s.down) = 1 /\ s.down[1].type = "Handshake"

Wires(s) ==
  /\ ~IsOpen(s) => s.up = <<>> /\ s.down = <<>> /\ ~s.idle
  /\ IsOpen(s) /\ ~s.handshake => Shaking(s)
  /\ IsOpen(s) /\ s.handshake => /\ \E n \in 0..Len(s.down) : Answers(s, n)
                                 /\ s.idle => s.pipeline = <<>>

\* A record whose parts agree,
Sound(s) ==
  /\ s \in ClientRec
  /\ s.enabled /\ s.broken = {}
  /\ RisingQueues(s)
  /\ Fits(s)
  /\ s.backoff <=> s.stream = "Backoff"
  /\ s.stream \in {"Starting", "Backoff"} => s.pipeline # <<>>
  /\ Wires(s)

\* which FillWritePipeline may be called with when no token was asked for,
Ready(s) == Sound(s) /\ s.tokens = {}

\* what it leaves,
Settled(s) ==
  /\ Sound(s)
  /\ Filled(s)
  /\ s.stream \in {"Initial", "Error"} => s.pipeline = <<>>

\* and what a handler leaves.
Rests(s) == Settled(s) /\ (s.handshake => IsOpen(s))

-----------------------------------------------------------------------------
(* Everything else *)

\* Writes are numbered in the order they are made, so what is still queued
\* for the worker comes behind all that is in the mutation queues.
Numbered ==
  /\ spent.writes <= MaxWrites
  /\ \A i \in DOMAIN worker : worker[i].op = "Write" =>
       /\ worker[i].write <= spent.writes
       /\ \A j \in 1..(i - 1) :
            worker[j].op = "Write" => worker[j].write < worker[i].write
       /\ \A u \in Users : \A k \in DOMAIN client.queues[u] :
            client.queues[u][k] < worker[i].write
  /\ \A u \in Users : \A k \in DOMAIN client.queues[u] :
       client.queues[u][k] <= spent.writes

\* An answer is on the wire only when the write has been applied, a refusal
\* only when the write it is for has been refused.
AnswersTrue ==
  \A i \in DOMAIN client.down :
    /\ client.down[i].type = "Write" =>
         client.down[i].write \in Range(delivered[client.user])
    /\ client.down[i].type = "Refused" /\ client.handshake =>
         client.pipeline[i] \in refused

\* The places where the token of the present attempt may be.
Asked(r) == r \in auth.asked /\ r.attempt = client.closes
OnMain(i) ==
  /\ i \in DOMAIN auth.main
  /\ auth.main[i].type = "Token" /\ auth.main[i].request.attempt = client.closes
OnWorker(i) ==
  /\ i \in DOMAIN worker
  /\ worker[i].op = "Credentials" /\ worker[i].attempt = client.closes

Nowhere == /\ \A r \in auth.asked : ~Asked(r)
           /\ \A i \in DOMAIN auth.main : ~OnMain(i)
           /\ \A i \in DOMAIN worker : ~OnWorker(i)

\* While the stream starts, its token is in one place; otherwise in none.
TokenOnItsWay ==
  /\ \A r \in auth.asked : r.attempt <= client.closes
  /\ \A i \in DOMAIN auth.main : auth.main[i].type = "Token" =>
       auth.main[i].request.attempt <= client.closes
  /\ \A i \in DOMAIN worker : worker[i].op = "Credentials" =>
       worker[i].attempt <= client.closes
  /\ client.stream # "Starting" => Nowhere
  /\ client.stream = "Starting" =>
       \/ /\ \E r \in auth.asked : Asked(r) /\ \A q \in auth.asked : Asked(q) => q = r
          /\ \A i \in DOMAIN auth.main : ~OnMain(i)
          /\ \A i \in DOMAIN worker : ~OnWorker(i)
       \/ /\ \E i \in DOMAIN auth.main :
               OnMain(i) /\ \A j \in DOMAIN auth.main : OnMain(j) => j = i
          /\ \A r \in auth.asked : ~Asked(r)
          /\ \A i \in DOMAIN worker : ~OnWorker(i)
       \/ /\ \E i \in DOMAIN worker :
               OnWorker(i) /\ \A j \in DOMAIN worker : OnWorker(j) => j = i
          /\ \A r \in auth.asked : ~Asked(r)
          /\ \A i \in DOMAIN auth.main : ~OnMain(i)

\* The client will serve this user once the worker has done what it has now.
WillServe(u) ==
  \/ /\ u = client.user
     /\ \A i \in DOMAIN worker : worker[i].op # "User"
  \/ \E i \in DOMAIN worker :
       /\ worker[i].op = "User" /\ worker[i].user = u
       /\ \A j \in DOMAIN worker : worker[j].op = "User" => j <= i

\* Changes of the user that the provider has not noted yet.
Changed(i) == i \in DOMAIN auth.main /\ auth.main[i].type = "Changed"

\* The last change noted or not is Auth's user,
UserKnown ==
  /\ (\A i \in DOMAIN auth.main : ~Changed(i)) => WillServe(auth.user)
  /\ \A i \in DOMAIN auth.main :
       Changed(i) /\ (\A j \in DOMAIN auth.main : Changed(j) => j <= i)
         => auth.main[i].user = auth.user

\* and a token with the present count is that of the user the client will
\* serve, unless the count is about to move on before the token is looked at.
TokensMatch ==
  /\ \A r \in auth.asked : r.counter <= auth.counter
  /\ \A r \in auth.asked : \A u \in r.token :
       r.counter = auth.counter =>
         (\E i \in DOMAIN auth.main : Changed(i)) \/ WillServe(u)
  /\ \A k \in DOMAIN auth.main : auth.main[k].type = "Token" =>
       /\ auth.main[k].request.counter <= auth.counter
       /\ \A u \in auth.main[k].request.token :
            auth.main[k].request.counter = auth.counter =>
              (\E i \in 1..(k - 1) : Changed(i)) \/ WillServe(u)
  /\ \A k \in DOMAIN worker : \A u \in Users :
       OnWorker(k) /\ worker[k].token = {u} =>
         (\E i \in 1..(k - 1) : worker[i].op = "User") \/ u = client.user

BearerServed == IsOpen(client) => client.bearer = client.user

IInv ==
  /\ Types
  /\ Rests(client) /\ client.tokens = {} /\ client.called = {}
  /\ Numbered
  /\ AnswersTrue
  /\ TokenOnItsWay
  /\ UserKnown
  /\ TokensMatch
  /\ BearerServed
  /\ CompletionsTrue
-----------------------------------------------------------------------------
(* What FillWritePipeline does *)

LEMMA MinOfTwo ==
  ASSUME NEW a \in Nat, NEW b \in Nat
  PROVE  Min({a, b}) = IF a <= b THEN a ELSE b
<1>1. \A x \in {a, b} : (\A y \in {a, b} : x <= y) => x = IF a <= b THEN a ELSE b
  OBVIOUS
<1>2. \E x \in {a, b} : \A y \in {a, b} : x <= y
  OBVIOUS
<1> QED BY <1>1, <1>2 DEF Min

LEMMA MinIsLeast ==
  ASSUME NEW S, S \subseteq Nat, NEW m \in S, \A x \in S : m <= x
  PROVE  Min(S) = m
<1>1. \A x \in S : (\A y \in S : x <= y) => x = m
  OBVIOUS
<1> QED BY <1>1 DEF Min

LEMMA SubSeqOf ==
  ASSUME NEW S, NEW q \in Seq(S), NEW a \in Nat, NEW b \in Nat,
         1 <= a, a <= b + 1, b <= Len(q)
  PROVE  /\ SubSeq(q, a, b) \in Seq(S)
         /\ Len(SubSeq(q, a, b)) = b - a + 1
         /\ \A i \in 1..(b - a + 1) : SubSeq(q, a, b)[i] = q[a + i - 1]
<1>1. \A i \in a..b : q[i] \in S
  <2>1. \A i \in a..b : i \in 1..Len(q)
    OBVIOUS
  <2> QED BY <2>1
<1>2. /\ SubSeq(q, a, b) \in Seq(S)
      /\ Len(SubSeq(q, a, b)) = IF a <= b THEN b - a + 1 ELSE 0
      /\ \A i \in 1..(b - a + 1) : SubSeq(q, a, b)[i] = q[a + i - 1]
  BY <1>1, SubSeqProperties
<1> QED BY <1>2

Joins(r, p, q) ==
  /\ Len(r) = Len(p) + Len(q)
  /\ \A i \in 1..Len(p) : r[i] = p[i]
  /\ \A i \in 1..Len(q) : r[Len(p) + i] = q[i]

LEMMA ConcatOf ==
  ASSUME NEW S, NEW p \in Seq(S), NEW q \in Seq(S)
  PROVE  p \o q \in Seq(S) /\ Joins(p \o q, p, q)
BY ConcatProperties DEF Joins

LEMMA RestOf ==
  ASSUME NEW S, NEW q \in Seq(S), NEW n \in Nat, n <= Len(q)
  PROVE  /\ SubSeq(q, n + 1, Len(q)) \in Seq(S)
         /\ Len(SubSeq(q, n + 1, Len(q))) = Len(q) - n
         /\ \A i \in 1..(Len(q) - n) : SubSeq(q, n + 1, Len(q))[i] = q[n + i]
<1>1. PICK a \in Nat : a = n + 1
  OBVIOUS
<1>2. /\ SubSeq(q, a, Len(q)) \in Seq(S)
      /\ Len(SubSeq(q, a, Len(q))) = Len(q) - a + 1
      /\ \A i \in 1..(Len(q) - a + 1) : SubSeq(q, a, Len(q))[i] = q[a + i - 1]
  BY <1>1, SubSeqOf
<1>3. ASSUME NEW i \in 1..(Len(q) - n)
      PROVE  SubSeq(q, a, Len(q))[i] = q[n + i]
  <2>1. i \in 1..(Len(q) - a + 1) /\ a + i - 1 = n + i
    BY <1>1
  <2>2. SubSeq(q, a, Len(q))[i] = q[a + i - 1]
    BY <1>2, <2>1
  <2> QED BY <2>1, <2>2
<1>4. Len(q) - a + 1 = Len(q) - n
  BY <1>1
<1> QED BY <1>1, <1>2, <1>3, <1>4, Zenon

\* The first k elements of q behind its prefix p, appended to p.
IsLonger(p, q, k, ws, r) ==
  /\ ws \in Seq(Writes) /\ Len(ws) = k
  /\ r \in Seq(Writes) /\ Len(r) = Len(p) + k
  /\ \A i \in 1..(Len(p) + k) : r[i] = q[i]
  /\ \A i \in 1..k : ws[i] = q[Len(p) + i]

LEMMA LongerPrefix ==
  ASSUME NEW q \in Seq(Writes), NEW p \in Seq(Writes),
         Begins(p, q),
         NEW k \in Nat, Len(p) + k <= Len(q),
         NEW ws, ws = SubSeq(SubSeq(q, Len(p) + 1, Len(q)), 1, k),
         NEW r, r = p \o ws
  PROVE  IsLonger(p, q, k, ws, r)
<1> DEFINE n == Len(p)
           rest == SubSeq(q, n + 1, Len(q))
<1>1. /\ n \in Nat /\ Len(q) \in Nat /\ n <= Len(q)
      /\ \A i \in 1..n : p[i] = q[i]
  BY DEF Begins
<1>2. /\ rest \in Seq(Writes) /\ Len(rest) = Len(q) - n
      /\ \A i \in 1..(Len(q) - n) : rest[i] = q[n + i]
  BY <1>1, RestOf
<1> HIDE DEF rest
<1>3. /\ ws \in Seq(Writes) /\ Len(ws) = k
      /\ \A i \in 1..k : ws[i] = rest[i]
  <2>1. /\ SubSeq(rest, 1, k) \in Seq(Writes)
        /\ Len(SubSeq(rest, 1, k)) = k - 1 + 1
        /\ \A i \in 1..(k - 1 + 1) : SubSeq(rest, 1, k)[i] = rest[1 + i - 1]
    BY <1>1, <1>2, SubSeqOf
  <2> QED BY <2>1 DEF rest
<1>4. \A i \in 1..k : ws[i] = q[n + i]
  BY <1>1, <1>2, <1>3
<1>5. r \in Seq(Writes) /\ Len(r) = n + k
  BY <1>3, ConcatProperties
<1>6. ASSUME NEW i \in 1..(n + k)
      PROVE  r[i] = q[i]
  <2>1. CASE i <= n
    BY <2>1, <1>1, <1>3
  <2>2. CASE i > n
    <3> DEFINE j == i - n
    <3>1. j \in 1..k /\ i = n + j
      BY <2>2, <1>1
    <3>2. r[i] = ws[j]
      BY <2>2, <1>1, <1>3
    <3> HIDE DEF j
    <3>3. ws[j] = q[n + j]
      BY <3>1, <1>4
    <3> QED BY <3>1, <3>2, <3>3
  <2> QED BY <2>1, <2>2, <1>1
<1> QED BY <1>3, <1>4, <1>5, <1>6 DEF IsLonger

LEMMA QueueType ==
  ASSUME NEW s \in ClientRec
  PROVE  Queue(s) \in Seq(Writes) /\ s.pipeline \in Seq(Writes)
BY DEF Queue, ClientRec

\* Behind the pipeline is the rest of the queue.
LEMMA BehindIsRest ==
  ASSUME NEW s, Sound(s)
  PROVE  Behind(s) = SubSeq(Queue(s), Len(s.pipeline) + 1, Len(Queue(s)))
<1> DEFINE q == Queue(s)
           n == Len(s.pipeline)
           last == IF s.pipeline = <<>> THEN 0 ELSE Last(s.pipeline)
           I == {i \in 1..Len(q) : q[i] > last}
<1>1. q \in Seq(Writes) /\ s.pipeline \in Seq(Writes) /\ n \in Nat /\ Len(q) \in Nat
  BY QueueType DEF Sound
<1>2. Rising(q)
  BY DEF Sound, RisingQueues, Queue, ClientRec
<1>3. n <= Len(q) /\ (n > 0 => last = q[n]) /\ (n = 0 => last = 0)
  BY <1>1 DEF Sound, Fits, Begins, Last
<1>4. \A i \in 1..Len(q) : q[i] \in Nat /\ q[i] >= 1
  BY <1>1, RemoteWriteAssumption DEF Writes
<1>5. \A i \in 1..Len(q) : q[i] > last <=> i > n
  <2>1. CASE n = 0
    BY <2>1, <1>1, <1>3, <1>4
  <2>2. CASE n > 0
    <3>1. n \in 1..Len(q) /\ last = q[n]
      BY <2>2, <1>1, <1>3
    <3>2. ASSUME NEW i \in 1..Len(q)
          PROVE  q[i] > last <=> i > n
      <4>1. i > n => q[n] < q[i]
        BY <3>1, <1>1, <1>2 DEF Rising
      <4>2. i < n => q[i] < q[n]
        BY <3>1, <1>1, <1>2 DEF Rising
      <4> QED BY <4>1, <4>2, <3>1, <1>1, <1>4
    <3> QED BY <3>2
  <2> QED BY <2>1, <2>2, <1>1
<1>6. CASE n < Len(q)
  <2>1. n + 1 \in I /\ I \subseteq Nat /\ \A i \in I : n + 1 <= i
    BY <1>6, <1>1, <1>5
  <2>2. Min(I) = n + 1
    <3> HIDE DEF I
    <3> QED BY <2>1, MinIsLeast
  <2>3. I # {} /\ n + 1 # 0
    BY <2>1, <1>1
  <2> QED BY <2>2, <2>3 DEF Behind, SelectInSeq
<1>7. CASE ~(n < Len(q))
  <2>1. I = {}
    BY <1>7, <1>1, <1>3, <1>5
  <2>2. n = Len(q)
    BY <1>7, <1>1, <1>3
  <2>3. SubSeq(q, n + 1, Len(q)) = <<>>
    BY <2>2, <1>1, EmptySeq, SubSeqProperties
  <2> QED BY <2>1, <2>3 DEF Behind, SelectInSeq
<1> QED BY <1>6, <1>7

\* What FillWritePipeline takes from the queue.
Taken(s) == SubSeq(Behind(s), 1, Min({Room(s), Len(Behind(s))}))
Longer(s) == s.pipeline \o Taken(s)

LEMMA TakenFits ==
  ASSUME NEW s, Sound(s)
  PROVE  LET p == Longer(s)
             n == Len(s.pipeline)
         IN  /\ Taken(s) \in Seq(Writes) /\ p \in Seq(Writes)
             /\ Len(p) = n + Len(Taken(s))
             /\ Len(p) \in {MaxPending, Len(Queue(s))}
             /\ Len(p) <= MaxPending /\ Len(p) <= Len(Queue(s))
             /\ \A i \in 1..Len(p) : p[i] = Queue(s)[i]
             /\ \A i \in 1..n : p[i] = s.pipeline[i]
             /\ \A i \in 1..Len(Taken(s)) : Taken(s)[i] = p[n + i]
<1> DEFINE q == Queue(s)
           n == Len(s.pipeline)
           k == Min({Room(s), Len(Behind(s))})
           p == Longer(s)
<1>1. /\ q \in Seq(Writes) /\ s.pipeline \in Seq(Writes)
      /\ n \in Nat /\ Len(q) \in Nat /\ MaxPending \in Nat
  BY QueueType, RemoteWriteAssumption DEF Sound
<1>2. /\ n <= MaxPending /\ n <= Len(q)
      /\ \A i \in 1..n : s.pipeline[i] = q[i]
      /\ Begins(s.pipeline, q)
  BY DEF Sound, Fits, Begins
<1>3. Behind(s) = SubSeq(q, n + 1, Len(q))
  BY BehindIsRest
<1>4. Behind(s) \in Seq(Writes) /\ Len(Behind(s)) = Len(q) - n
  BY <1>1, <1>2, <1>3, RestOf
<1>5. Room(s) = MaxPending - n
  BY DEF Room, Sound
<1>6. /\ k \in Nat /\ k <= Len(q) - n
      /\ n + k \in {MaxPending, Len(q)} /\ n + k <= MaxPending
  <2>1. Room(s) \in Nat /\ Len(Behind(s)) \in Nat
    BY <1>1, <1>2, <1>4, <1>5
  <2>2. k = IF Room(s) <= Len(Behind(s)) THEN Room(s) ELSE Len(Behind(s))
    BY <2>1, MinOfTwo
  <2> QED BY <2>1, <2>2, <1>1, <1>2, <1>4, <1>5
<1>7. Taken(s) = SubSeq(SubSeq(q, n + 1, Len(q)), 1, k)
  BY <1>3 DEF Taken
<1> HIDE DEF k, q
<1>8. /\ Taken(s) \in Seq(Writes) /\ Len(Taken(s)) = k
      /\ p \in Seq(Writes) /\ Len(p) = n + k
      /\ \A i \in 1..(n + k) : p[i] = q[i]
      /\ \A i \in 1..k : Taken(s)[i] = q[n + i]
  <2>1. n + k <= Len(q)
    BY <1>1, <1>6
  <2>2. p = s.pipeline \o Taken(s)
    BY DEF Longer
  <2>3. IsLonger(s.pipeline, q, k, Taken(s), p)
    BY <1>1, <1>2, <1>6, <1>7, <2>1, <2>2, LongerPrefix
  <2> QED BY <2>3 DEF IsLonger
<1>9. /\ n + k <= Len(q) /\ \A i \in 1..n : i \in 1..(n + k)
      /\ \A i \in 1..k : n + i \in 1..(n + k)
  BY <1>1, <1>6
<1>10. \A i \in 1..k : Taken(s)[i] = p[n + i]
  BY <1>8, <1>9
<1> QED BY <1>1, <1>2, <1>6, <1>8, <1>9, <1>10 DEF q


LEMMA FillWrites ==
  ASSUME NEW s, Ready(s), IsOpen(s), s.handshake, Taken(s) # <<>>
  PROVE  FillWritePipeline(s) =
           [s EXCEPT !.pipeline = Longer(s), !.idle = FALSE,
                     !.up = @ \o WriteRequests(Taken(s))]
<1>1. s \in ClientRec /\ Longer(s) # <<>>
  BY TakenFits DEF Ready, Sound
<1>2. AddToWritePipeline(s, Taken(s)) =
        [s EXCEPT !.pipeline = Longer(s), !.idle = FALSE,
                  !.up = @ \o WriteRequests(Taken(s))]
  BY <1>1 DEF AddToWritePipeline, Send, Check, IsOpen, Longer, ClientRec
<1> QED
  BY <1>1, <1>2 DEF FillWritePipeline, Taken, ShouldStartWriteStream,
     IsStarted, IsOpen, ClientRec

LEMMA FillStands ==
  ASSUME NEW s, Ready(s), IsStarted(s),
         ~(IsOpen(s) /\ s.handshake /\ Taken(s) # <<>>)
  PROVE  FillWritePipeline(s) =
           [s EXCEPT !.pipeline = Longer(s),
                     !.idle = IF IsOpen(s) /\ Longer(s) = <<>> THEN TRUE ELSE @]
<1>1. s \in ClientRec /\ s.enabled
  BY DEF Ready, Sound
<1>2. AddToWritePipeline(s, Taken(s)) = [s EXCEPT !.pipeline = Longer(s)]
  BY <1>1 DEF AddToWritePipeline, IsOpen, Longer, ClientRec
<1> QED
  BY <1>1, <1>2 DEF FillWritePipeline, Taken, MarkIdle, ShouldStartWriteStream,
     IsStarted, IsOpen, ClientRec

LEMMA FillStarts ==
  ASSUME NEW s, Ready(s), ~IsStarted(s), Longer(s) # <<>>
  PROVE  FillWritePipeline(s) =
           IF s.stream = "Error"
           THEN [s EXCEPT !.pipeline = Longer(s), !.stream = "Backoff",
                          !.backoff = TRUE]
           ELSE [s EXCEPT !.pipeline = Longer(s), !.stream = "Starting",
                          !.tokens = {s.closes}]
<1> DEFINE p == Longer(s)
           filled == [s EXCEPT !.pipeline = p]
<1>1. s \in ClientRec /\ s.enabled /\ s.tokens = {} /\ ~IsOpen(s)
  BY DEF Ready, Sound, IsStarted, IsOpen
<1>2. AddToWritePipeline(s, Taken(s)) = filled
  BY <1>1 DEF AddToWritePipeline, Longer
<1> HIDE DEF p
<1>3. ShouldStartWriteStream(filled) /\ filled.pipeline # <<>>
  BY <1>1 DEF ShouldStartWriteStream, IsStarted, ClientRec, p
<1>4. FillWritePipeline(s) = Start(filled)
  BY <1>1, <1>2, <1>3 DEF FillWritePipeline, Taken, StartWriteStream, Check
<1>5. s.stream \in {"Initial", "Error"} /\ filled.stream = s.stream
      /\ filled.closes = s.closes /\ filled.tokens = {}
  BY <1>1 DEF IsStarted, ClientRec
<1>6. CASE s.stream = "Error"
  BY <1>4, <1>5, <1>6 DEF Start, p
<1>7. CASE s.stream = "Initial"
  <2>1. Start(filled) = RequestCredentials([filled EXCEPT !.stream = "Starting"])
    BY <1>5, <1>7 DEF Start, Check
  <2>2. [filled EXCEPT !.stream = "Starting"].closes = s.closes
        /\ [filled EXCEPT !.stream = "Starting"].tokens = {}
    BY <1>1 DEF ClientRec
  <2>3. RequestCredentials([filled EXCEPT !.stream = "Starting"]) =
          [filled EXCEPT !.stream = "Starting", !.tokens = {s.closes}]
    BY <1>1, <2>2 DEF RequestCredentials, ClientRec
  <2> QED BY <1>4, <1>7, <2>1, <2>3 DEF p
<1> QED BY <1>5, <1>6, <1>7

LEMMA FillNothing ==
  ASSUME NEW s, Ready(s), ~IsStarted(s), Longer(s) = <<>>
  PROVE  FillWritePipeline(s) = [s EXCEPT !.pipeline = <<>>]
<1>1. s \in ClientRec /\ s.enabled /\ ~IsOpen(s)
  BY DEF Ready, Sound, IsStarted, IsOpen
<1>2. AddToWritePipeline(s, Taken(s)) = [s EXCEPT !.pipeline = <<>>]
  BY <1>1 DEF AddToWritePipeline, Longer
<1> QED
  BY <1>1, <1>2 DEF FillWritePipeline, Taken, MarkIdle, ShouldStartWriteStream,
     IsOpen, ClientRec

\* What FillWritePipeline and the operators on streams leave alone.
Kept(s, t) ==
  /\ t.user = s.user /\ t.queues = s.queues
  /\ t.callbacks = s.callbacks /\ t.called = s.called

LEMMA SettledOf ==
  ASSUME NEW s, Ready(s), NEW t, t \in ClientRec, t.pipeline = Longer(s),
         Kept(s, t), t.enabled, t.broken = {},
         t.backoff <=> t.stream = "Backoff",
         t.stream \in {"Starting", "Backoff"} => t.pipeline # <<>>,
         t.stream \in {"Initial", "Error"} => t.pipeline = <<>>,
         Wires(t)
  PROVE  Settled(t)
<1>1. Queue(t) = Queue(s) /\ RisingQueues(t)
  BY DEF Kept, Ready, Sound, RisingQueues, Queue
<1>2. Fits(t) /\ Filled(t)
  BY <1>1, TakenFits DEF Ready, Fits, Begins, Filled
<1> QED BY <1>1, <1>2 DEF Settled, Sound

LEMMA WriteRequestsOf ==
  ASSUME NEW ws \in Seq(Writes)
  PROVE  /\ WriteRequests(ws) \in Seq(Message) /\ Len(WriteRequests(ws)) = Len(ws)
         /\ \A i \in 1..Len(ws) : WriteRequests(ws)[i] = WriteRequest(ws[i])
<1>1. PICK n \in Nat : n = Len(ws)
  OBVIOUS
<1>2. DOMAIN ws = 1..n /\ \A i \in 1..n : ws[i] \in Writes
  BY <1>1
<1>3. \A i \in 1..n : WriteRequest(ws[i]) \in Message
  BY <1>2, RemoteWriteAssumption DEF WriteRequest, Message, Writes
<1>4. WriteRequests(ws) = [i \in 1..n |-> WriteRequest(ws[i])]
  BY <1>2 DEF WriteRequests, WriteRequest
<1> QED BY <1>1, <1>3, <1>4

\* The stream of a step that fills the pipeline: an open one stays open, and a
\* stopped one is started if there is anything to send.
FillsStream(s, t) ==
  /\ t.closes = s.closes /\ t.bearer = s.bearer /\ t.handshake = s.handshake
  /\ t.down = s.down
  /\ IF IsStarted(s) THEN t.stream = s.stream /\ t.tokens = {}
     ELSE \/ t.stream = "Starting" /\ t.tokens = {t.closes}
          \/ t.stream \in {"Initial", "Error", "Backoff"} /\ t.tokens = {}

\* The stream backs off with a filled pipeline.
LEMMA BackedOffTyped ==
  ASSUME NEW s \in ClientRec, NEW q \in Seq(Writes)
  PROVE  [s EXCEPT !.pipeline = q, !.stream = "Backoff", !.backoff = TRUE] \in ClientRec
<1>1. [s EXCEPT !.pipeline = q] \in ClientRec
  BY DEF ClientRec
<1>2. \A u \in ClientRec : [u EXCEPT !.stream = "Backoff"] \in ClientRec
  BY DEF ClientRec
<1>3. \A u \in ClientRec : [u EXCEPT !.backoff = TRUE] \in ClientRec
  BY DEF ClientRec
<1> QED BY <1>1, <1>2, <1>3

LEMMA FillSettles ==
  ASSUME NEW s, Ready(s)
  PROVE  LET t == FillWritePipeline(s)
         IN  /\ Settled(t) /\ Kept(s, t) /\ FillsStream(s, t)
             /\ t.pipeline = Longer(s)
<1> DEFINE p == Longer(s)
           t == FillWritePipeline(s)
<1>1. /\ s \in ClientRec /\ s.enabled /\ s.broken = {} /\ s.tokens = {}
      /\ s.backoff <=> s.stream = "Backoff"
      /\ s.stream \in {"Starting", "Backoff"} => s.pipeline # <<>>
      /\ Wires(s) /\ s.pipeline \in Seq(Writes)
  BY QueueType DEF Ready, Sound
<1>2. /\ p \in Seq(Writes) /\ Taken(s) \in Seq(Writes)
      /\ Len(p) = Len(s.pipeline) + Len(Taken(s))
      /\ \A i \in 1..Len(s.pipeline) : p[i] = s.pipeline[i]
      /\ \A i \in 1..Len(Taken(s)) : Taken(s)[i] = p[Len(s.pipeline) + i]
  BY TakenFits DEF Ready
<1>3. s.pipeline # <<>> => p # <<>>
  BY <1>1, <1>2
<1> HIDE DEF p
<1>4. CASE IsOpen(s) /\ s.handshake /\ Taken(s) # <<>>
  <2> DEFINE up == s.up \o WriteRequests(Taken(s))
  <2>1. t = [s EXCEPT !.pipeline = p, !.idle = FALSE, !.up = up]
    BY <1>4, FillWrites DEF p
  <2>2. /\ WriteRequests(Taken(s)) \in Seq(Message)
        /\ Len(WriteRequests(Taken(s))) = Len(Taken(s))
        /\ \A i \in 1..Len(Taken(s)) :
             WriteRequests(Taken(s))[i] = WriteRequest(Taken(s)[i])
    BY <1>2, WriteRequestsOf
  <2>3. s.up \in Seq(Message)
    BY <1>1 DEF ClientRec
  <2>4. /\ up \in Seq(Message) /\ Len(up) = Len(s.up) + Len(Taken(s))
        /\ \A i \in 1..Len(s.up) : up[i] = s.up[i]
        /\ \A i \in 1..Len(Taken(s)) : up[Len(s.up) + i] = WriteRequest(Taken(s)[i])
    <3>1. up \in Seq(Message) /\ Joins(up, s.up, WriteRequests(Taken(s)))
      BY <2>2, <2>3, ConcatOf
    <3> HIDE DEF up
    <3> QED BY <3>1, <2>2 DEF Joins
  <2> HIDE DEF up
  <2>5. /\ t \in ClientRec /\ t.pipeline = p /\ t.up = up /\ t.idle = FALSE
        /\ Kept(s, t) /\ FillsStream(s, t) /\ t.enabled /\ t.broken = {}
        /\ t.backoff = s.backoff /\ t.stream = s.stream
    <3>1. s \in ClientRec /\ p \in Seq(Writes) /\ up \in Seq(Message)
      BY <1>1, <1>2, <2>4
    <3>2. t \in ClientRec
      BY <2>1, <3>1 DEF ClientRec
    <3>3. /\ t.pipeline = p /\ t.up = up /\ t.idle = FALSE
          /\ Kept(s, t) /\ t.enabled = s.enabled /\ t.broken = s.broken
          /\ t.backoff = s.backoff /\ t.stream = s.stream /\ t.closes = s.closes
          /\ t.bearer = s.bearer /\ t.handshake = s.handshake
          /\ t.down = s.down /\ t.tokens = s.tokens
      BY <2>1, <3>1 DEF ClientRec, Kept
    <3> HIDE DEF t
    <3> QED BY <1>1, <1>4, <3>2, <3>3 DEF FillsStream, IsStarted, IsOpen
  <2> HIDE DEF t
  <2>6. Wires(t)
    <3>1. PICK n \in 0..Len(s.down) : Answers(s, n)
      BY <1>1, <1>4 DEF Wires
    <3>2. /\ n \in Nat /\ Len(s.pipeline) \in Nat /\ Len(Taken(s)) \in Nat
          /\ Len(s.up) \in Nat /\ n + Len(s.up) = Len(s.pipeline)
      BY <1>1, <1>2, <2>3, <3>1 DEF Answers
    <3>3. t.down = s.down /\ t.handshake = s.handshake
      BY <2>5 DEF FillsStream
    <3>4. \A i \in 1..Len(up) : up[i] = WriteRequest(p[n + i])
      <4>1. ASSUME NEW i \in 1..Len(up)
            PROVE  up[i] = WriteRequest(p[n + i])
        <5>1. CASE i <= Len(s.up)
          <6>1. n + i \in 1..Len(s.pipeline)
            BY <5>1, <3>1, <3>2 DEF Answers
          <6> QED BY <5>1, <6>1, <3>1, <1>2, <2>4, <3>2 DEF Answers
        <5>2. CASE i > Len(s.up)
          <6> DEFINE j == i - Len(s.up)
          <6>1. i \in Nat /\ i <= Len(s.up) + Len(Taken(s))
            BY <2>4, <3>2
          <6>2. j \in 1..Len(Taken(s))
            BY <6>1, <5>2, <3>2
          <6>3. i = Len(s.up) + j /\ n + i = Len(s.pipeline) + j
            <7>1. PICK a \in Int : a = Len(s.up)
              BY <3>2
            <7>2. PICK b \in Int : b = Len(s.pipeline)
              BY <3>2
            <7>3. n + a = b /\ j = i - a
              BY <7>1, <7>2, <3>2
            <7>4. i = a + (i - a) /\ n + i = b + (i - a)
              BY <7>3, <6>1, <3>2
            <7> QED BY <7>1, <7>2, <7>3, <7>4
          <6> HIDE DEF j
          <6> QED BY <6>2, <6>3, <2>4, <1>2
        <5> QED BY <5>1, <5>2, <3>2
      <4> QED BY <4>1
    <3>5. Answers(t, n)
      <4>1. n <= Len(p) /\ Len(up) = Len(p) - n /\ (n < Len(s.pipeline) => n < Len(p))
        BY <3>1, <3>2, <1>2, <2>4 DEF Answers
      <4>2. \A i \in 1..n : p[i] = s.pipeline[i]
        BY <3>1, <3>2, <1>2 DEF Answers
      <4> QED BY <3>1, <3>3, <3>4, <4>1, <4>2, <2>5 DEF Answers
    <3> QED BY <3>1, <3>3, <3>5, <2>5, <1>4 DEF Wires, IsOpen
  <2> QED BY <1>1, <1>4, <2>5, <2>6, SettledOf DEF IsOpen, p, t
<1>5. CASE IsStarted(s) /\ ~(IsOpen(s) /\ s.handshake /\ Taken(s) # <<>>)
  <2>1. t = [s EXCEPT !.pipeline = p,
                      !.idle = IF IsOpen(s) /\ p = <<>> THEN TRUE ELSE @]
    BY <1>5, FillStands DEF p
  <2>2. /\ t \in ClientRec /\ t.pipeline = p /\ t.up = s.up
        /\ t.idle = IF IsOpen(s) /\ p = <<>> THEN TRUE ELSE s.idle
        /\ Kept(s, t) /\ FillsStream(s, t) /\ t.enabled /\ t.broken = {}
        /\ t.backoff = s.backoff /\ t.stream = s.stream
        /\ t.down = s.down /\ t.handshake = s.handshake
    <3>1. s \in ClientRec /\ p \in Seq(Writes)
      BY <1>1, <1>2
    <3>2. PICK idle \in BOOLEAN :
            idle = IF IsOpen(s) /\ p = <<>> THEN TRUE ELSE s.idle
      BY <3>1 DEF ClientRec
    <3>3. t = [s EXCEPT !.pipeline = p, !.idle = idle]
      BY <2>1, <3>2
    <3>4. t \in ClientRec
      BY <3>1, <3>3 DEF ClientRec
    <3>5. /\ t.pipeline = p /\ t.up = s.up /\ t.idle = idle
          /\ Kept(s, t) /\ t.enabled = s.enabled /\ t.broken = s.broken
          /\ t.backoff = s.backoff /\ t.stream = s.stream /\ t.closes = s.closes
          /\ t.bearer = s.bearer /\ t.handshake = s.handshake
          /\ t.down = s.down /\ t.tokens = s.tokens
      BY <3>1, <3>3 DEF ClientRec, Kept
    <3> HIDE DEF t
    <3> QED BY <1>1, <1>5, <3>2, <3>4, <3>5 DEF FillsStream
  <2> HIDE DEF t
  <2>3. IsOpen(s) /\ s.handshake => p = s.pipeline
    <3>1. ASSUME IsOpen(s), s.handshake
          PROVE  p = s.pipeline
      <4>1. Taken(s) = <<>>
        BY <3>1, <1>5
      <4>2. Len(p) = Len(s.pipeline)
        BY <4>1, <1>1, <1>2
      <4> QED BY <4>2, <1>1, <1>2, SeqEqual
    <3> QED BY <3>1
  <2>4. Wires(t)
    <3>1. CASE ~IsOpen(s)
      BY <3>1, <1>1, <2>2 DEF Wires, IsOpen
    <3>2. CASE IsOpen(s) /\ ~s.handshake
      <4>1. Shaking(s) /\ p # <<>>
        BY <3>2, <1>1, <1>3 DEF Wires, Shaking
      <4> QED BY <3>2, <4>1, <2>2 DEF Wires, Shaking, IsOpen
    <3>3. CASE IsOpen(s) /\ s.handshake
      <4>1. \E n \in 0..Len(s.down) : Answers(s, n)
        BY <3>3, <1>1 DEF Wires
      <4>2. \A n \in 0..Len(s.down) : Answers(s, n) => Answers(t, n)
        BY <3>3, <2>2, <2>3 DEF Answers
      <4>3. t.idle => t.pipeline = <<>>
        BY <3>3, <1>1, <2>2, <2>3 DEF Wires
      <4> QED BY <3>3, <4>1, <4>2, <4>3, <2>2 DEF Wires, IsOpen
    <3> QED BY <3>1, <3>2, <3>3
  <2> QED BY <1>1, <1>3, <1>5, <2>2, <2>4, SettledOf DEF IsStarted, p, t
<1>6. CASE ~IsStarted(s)
  <2>1. /\ s.stream \in {"Initial", "Error"} /\ ~IsOpen(s)
        /\ s.up = <<>> /\ s.down = <<>> /\ ~s.idle /\ ~s.backoff
    BY <1>1, <1>6 DEF ClientRec, IsStarted, IsOpen, Wires
  <2>2. CASE p = <<>>
    <3>1. t = [s EXCEPT !.pipeline = <<>>]
      BY <1>6, <2>2, FillNothing DEF p
    <3>2. /\ t \in ClientRec /\ t.pipeline = p /\ t.up = s.up /\ t.down = s.down
          /\ t.idle = s.idle /\ Kept(s, t) /\ FillsStream(s, t)
          /\ t.enabled /\ t.broken = {}
          /\ t.backoff = s.backoff /\ t.stream = s.stream
      BY <1>1, <1>2, <1>6, <2>1, <2>2, <3>1 DEF ClientRec, Kept, FillsStream
    <3> HIDE DEF t
    <3>3. Wires(t)
      BY <3>2, <2>1 DEF Wires, IsOpen
    <3> QED BY <2>1, <2>2, <3>2, <3>3, SettledOf DEF p, t
  <2>3. CASE p # <<>>
    <3>1. t = IF s.stream = "Error"
              THEN [s EXCEPT !.pipeline = p, !.stream = "Backoff", !.backoff = TRUE]
              ELSE [s EXCEPT !.pipeline = p, !.stream = "Starting", !.tokens = {s.closes}]
      BY <1>6, <2>3, FillStarts DEF p
    <3>2. /\ t \in ClientRec /\ t.pipeline = p /\ t.up = s.up /\ t.down = s.down
          /\ t.idle = s.idle /\ Kept(s, t) /\ FillsStream(s, t)
          /\ t.enabled /\ t.broken = {}
          /\ t.backoff <=> t.stream = "Backoff"
          /\ t.stream \in {"Backoff", "Starting"}
      <4>1. CASE s.stream = "Error"
        <5>1. t = [s EXCEPT !.pipeline = p, !.stream = "Backoff", !.backoff = TRUE]
          BY <4>1, <3>1
        <5>2. t \in ClientRec
          <6>1. s \in ClientRec /\ p \in Seq(Writes)
            BY <1>1, <1>2
          <6> QED BY <5>1, <6>1, BackedOffTyped
        <5>3. /\ t.pipeline = p /\ t.up = s.up /\ t.down = s.down
              /\ t.idle = s.idle /\ Kept(s, t) /\ t.closes = s.closes
              /\ t.bearer = s.bearer /\ t.handshake = s.handshake
              /\ t.enabled /\ t.broken = {}
              /\ t.stream = "Backoff" /\ t.backoff = TRUE /\ t.tokens = {}
          BY <5>1, <1>1, <2>1 DEF ClientRec, Kept
        <5> HIDE DEF t
        <5> QED BY <5>2, <5>3, <1>6, <2>1 DEF FillsStream
      <4>2. CASE s.stream = "Initial"
        <5>1. t = [s EXCEPT !.pipeline = p, !.stream = "Starting", !.tokens = {s.closes}]
          BY <4>2, <3>1
        <5>2. t \in ClientRec
          <6>1. s \in ClientRec /\ p \in Seq(Writes)
            BY <1>1, <1>2
          <6>2. {s.closes} \in SUBSET Nat
            BY <6>1 DEF ClientRec
          <6> QED BY <5>1, <6>1, <6>2 DEF ClientRec
        <5>3. /\ t.pipeline = p /\ t.up = s.up /\ t.down = s.down
              /\ t.idle = s.idle /\ Kept(s, t) /\ t.closes = s.closes
              /\ t.bearer = s.bearer /\ t.handshake = s.handshake
              /\ t.enabled /\ t.broken = {}
              /\ t.stream = "Starting" /\ t.backoff = s.backoff /\ t.tokens = {s.closes}
          BY <5>1, <1>1, <2>1 DEF ClientRec, Kept
        <5> HIDE DEF t
        <5> QED BY <5>2, <5>3, <1>6, <2>1 DEF FillsStream
      <4> QED BY <2>1, <4>1, <4>2
    <3> HIDE DEF t
    <3>3. Wires(t)
      BY <3>2, <2>1 DEF Wires, IsOpen
    <3> QED BY <2>3, <3>2, <3>3, SettledOf DEF p, t
  <2> QED BY <2>2, <2>3
<1> QED BY <1>4, <1>5, <1>6 DEF IsOpen, IsStarted
-----------------------------------------------------------------------------
(* What the handlers do *)

\* The tokens a handler asks for: one, if it has left the stream starting anew.
AsksToken(s, t) ==
  /\ t.closes >= s.closes
  /\ t.tokens = IF /\ t.stream = "Starting"
                   /\ s.stream # "Starting" \/ t.closes # s.closes
                THEN {t.closes} ELSE {}
  /\ s.stream = "Starting" /\ t.stream # "Starting" => t.closes # s.closes

LEMMA SameStream ==
  ASSUME NEW s, Sound(s), NEW p, p \in ClientRec, p.stream = s.stream,
         p.up = s.up, p.down = s.down, p.idle = s.idle,
         p.handshake = s.handshake, p.pipeline = s.pipeline,
         p.backoff = s.backoff, p.enabled = s.enabled, p.broken = s.broken,
         RisingQueues(p), Fits(p)
  PROVE  Sound(p)
<1>1. \A n \in 0..Len(s.down) : Answers(s, n) => Answers(p, n)
  BY DEF Answers
<1>2. Shaking(s) => Shaking(p)
  BY DEF Shaking
<1>3. Wires(p)
  BY <1>1, <1>2 DEF Sound, Wires, IsOpen
<1> QED BY <1>3 DEF Sound

LEMMA FillsAsks ==
  ASSUME NEW s, Rests(s), NEW p, p.stream = s.stream, p.closes = s.closes,
         NEW t, FillsStream(p, t), s.closes \in Nat
  PROVE  AsksToken(s, t)
BY DEF FillsStream, AsksToken, IsStarted

\* A batch that is appended to the queue.
LEMMA LongerQueue ==
  ASSUME NEW q \in Seq(Writes), Rising(q), NEW w \in Writes,
         \A k \in DOMAIN q : q[k] < w
  PROVE  /\ Append(q, w) \in Seq(Writes) /\ Rising(Append(q, w))
         /\ \A p \in Seq(Writes) : Begins(p, q) => Begins(p, Append(q, w))
<1> DEFINE r == Append(q, w)
<1>1. /\ r \in Seq(Writes) /\ Len(r) = Len(q) + 1
      /\ \A i \in 1..Len(q) : r[i] = q[i]
      /\ r[Len(q) + 1] = w
  BY AppendProperties
<1> HIDE DEF r
<1>2. Rising(r)
  <2>1. ASSUME NEW i \in DOMAIN r, NEW j \in DOMAIN r, i < j
        PROVE  r[i] < r[j]
    <3>1. i \in 1..Len(q) /\ (j \in 1..Len(q) \/ j = Len(q) + 1)
      BY <2>1, <1>1
    <3>2. q[i] < w /\ (j \in 1..Len(q) => q[i] < q[j])
      BY <3>1, <2>1 DEF Rising
    <3> QED BY <3>1, <3>2, <1>1
  <2> QED BY <2>1 DEF Rising
<1>3. ASSUME NEW p \in Seq(Writes), Begins(p, q)
      PROVE  Begins(p, r)
  BY <1>1, <1>3 DEF Begins
<1> QED BY <1>1, <1>2, <1>3 DEF r

LEMMA WriteLocallyRests ==
  ASSUME NEW s, Rests(s), s.tokens = {}, NEW w \in Writes,
         \A k \in DOMAIN Queue(s) : Queue(s)[k] < w
  PROVE  LET t == WriteLocally(s, w)
         IN  /\ Rests(t) /\ AsksToken(s, t)
             /\ t.user = s.user /\ t.called = s.called
             /\ t.queues = [s.queues EXCEPT ![s.user] = Append(@, w)]
             /\ t.callbacks = s.callbacks \cup {w}
             /\ t.bearer = s.bearer /\ t.handshake = s.handshake
             /\ t.down = s.down /\ Begins(s.pipeline, t.pipeline)
             /\ IsOpen(t) <=> IsOpen(s)
<1> DEFINE p == [s EXCEPT !.queues[s.user] = Append(@, w),
                          !.callbacks = @ \cup {w}]
           t == WriteLocally(s, w)
           q == Queue(s)
<1>1. s \in ClientRec /\ Sound(s) /\ (s.handshake => IsOpen(s)) /\ s.closes \in Nat
  BY DEF Rests, Settled, Sound, ClientRec
<1>2. q \in Seq(Writes) /\ Rising(q) /\ s.pipeline \in Seq(Writes) /\ s.user \in Users
  BY <1>1, QueueType DEF Sound, RisingQueues, Queue, ClientRec
<1>3. /\ Append(q, w) \in Seq(Writes) /\ Rising(Append(q, w))
      /\ Begins(s.pipeline, q) => Begins(s.pipeline, Append(q, w))
  BY <1>2, LongerQueue
<1>4. p.queues = [s.queues EXCEPT ![s.user] = Append(q, w)]
  BY <1>1 DEF ClientRec, Queue
<1>5. /\ p.queues \in [Users -> Seq(Writes)] /\ Queue(p) = Append(q, w)
      /\ RisingQueues(p)
  BY <1>1, <1>2, <1>3, <1>4 DEF ClientRec, Queue, Sound, RisingQueues
<1>6. /\ p \in ClientRec /\ p.stream = s.stream /\ p.up = s.up
      /\ p.down = s.down /\ p.idle = s.idle
      /\ p.handshake = s.handshake /\ p.pipeline = s.pipeline
      /\ p.backoff = s.backoff /\ p.enabled = s.enabled /\ p.broken = s.broken
      /\ p.tokens = s.tokens /\ p.callbacks = s.callbacks \cup {w}
      /\ p.user = s.user /\ p.called = s.called /\ p.closes = s.closes
      /\ p.bearer = s.bearer
  BY <1>1, <1>5 DEF ClientRec
<1>7. t = FillWritePipeline(p)
  BY DEF WriteLocally
<1> HIDE DEF p, t, q
<1>8. Fits(p)
  BY <1>1, <1>3, <1>5, <1>6 DEF Sound, Fits, q
<1>9. Ready(p)
  BY <1>1, <1>5, <1>6, <1>8, SameStream DEF Ready
<1>10. /\ Settled(t) /\ Kept(p, t) /\ FillsStream(p, t)
       /\ t.pipeline = Longer(p)
  BY <1>7, <1>9, FillSettles
<1>11. Begins(s.pipeline, t.pipeline)
  BY <1>2, <1>6, <1>9, <1>10, TakenFits DEF Begins, Ready
<1>12. AsksToken(s, t)
  BY <1>1, <1>6, <1>10, FillsAsks
<1>13. IsOpen(t) <=> IsOpen(s)
  BY <1>6, <1>10 DEF FillsStream, IsOpen, IsStarted
<1>14. t.handshake = s.handshake /\ t.bearer = s.bearer /\ t.down = s.down
  BY <1>6, <1>10 DEF FillsStream
<1>15. Rests(t)
  BY <1>1, <1>10, <1>13, <1>14 DEF Rests
<1> QED BY <1>4, <1>6, <1>10, <1>11, <1>12, <1>13, <1>14, <1>15 DEF Kept, t, q, Queue

\* The record of a client whose stream is closed, whatever was in the pipeline.
Closed(s) ==
  /\ s \in ClientRec
  /\ s.enabled /\ s.broken = {} /\ s.tokens = {}
  /\ RisingQueues(s)
  /\ ~IsStarted(s) /\ ~s.backoff
  /\ s.up = <<>> /\ s.down = <<>> /\ ~s.idle

LEMMA ClosedIsReady ==
  ASSUME NEW s, Closed(s), Fits(s)
  PROVE  Ready(s)
BY DEF Closed, Ready, Sound, IsStarted, IsOpen, Wires

LEMMA ClosedFills ==
  ASSUME NEW s, Closed(s), Fits(s), NEW t, t = FillWritePipeline(s)
  PROVE  /\ Settled(t) /\ Kept(s, t) /\ ~IsOpen(t)
         /\ t.closes = s.closes /\ t.down = <<>>
         /\ t.tokens = IF t.stream = "Starting" THEN {t.closes} ELSE {}
         /\ t.pipeline = Longer(s) /\ t.handshake = s.handshake
BY ClosedIsReady, FillSettles DEF FillsStream, IsOpen, IsStarted, Closed

TornDown(s, final) ==
  [s EXCEPT !.idle = FALSE, !.backoff = FALSE, !.closes = @ + 1,
            !.stream = final, !.up = <<>>, !.down = <<>>]

LEMMA TearDownIs ==
  ASSUME NEW s, IsStarted(s)
  PROVE  /\ TearDown(s, TRUE) = TornDown(s, "Initial")
         /\ TearDown(s, FALSE) = TornDown(s, "Error")
BY DEF TearDown, Check, TornDown

LEMMA TornDownCloses ==
  ASSUME NEW s \in ClientRec, NEW final \in {"Initial", "Error"},
         s.broken = {}, s.tokens = {}, RisingQueues(s)
  PROVE  LET t == TornDown(s, final)
         IN  /\ t \in ClientRec /\ t.broken = {} /\ t.tokens = {}
             /\ t.stream = final
             /\ t.closes = s.closes + 1 /\ Kept(s, t)
             /\ ~t.backoff /\ ~t.idle /\ t.up = <<>> /\ t.down = <<>>
             /\ t.enabled = s.enabled /\ t.pipeline = s.pipeline
             /\ t.handshake = s.handshake
             /\ s.enabled => Closed(t)
<1> DEFINE t == TornDown(s, final)
<1>1. /\ t.broken = {} /\ t.tokens = {}
      /\ t.stream = final
      /\ t.closes = s.closes + 1 /\ Kept(s, t)
      /\ ~t.backoff /\ ~t.idle /\ t.up = <<>> /\ t.down = <<>>
      /\ t.enabled = s.enabled /\ t.pipeline = s.pipeline
      /\ t.handshake = s.handshake
  BY DEF ClientRec, Kept, TornDown
<1>2. t \in ClientRec
  <2>1. s.closes + 1 \in Nat /\ <<>> \in Seq(Message)
    BY DEF ClientRec
  <2> QED BY <2>1 DEF ClientRec, TornDown
<1> HIDE DEF t
<1>3. s.enabled => Closed(t)
  BY <1>1, <1>2 DEF Closed, IsStarted, Kept, RisingQueues
<1> QED BY <1>1, <1>2, <1>3 DEF t

LEMMA InhibitsBackoff ==
  ASSUME NEW s \in ClientRec, ~IsStarted(s), NEW t, t = InhibitBackoff(s)
  PROVE  /\ t = [s EXCEPT !.stream = "Initial"] /\ t \in ClientRec
         /\ Kept(s, t) /\ t.stream = "Initial" /\ t.pipeline = s.pipeline
         /\ t.closes = s.closes /\ t.handshake = s.handshake
         /\ Closed(s) => Closed(t)
<1>1. t = [s EXCEPT !.stream = "Initial"]
  BY DEF InhibitBackoff, Check
<1>2. /\ t \in ClientRec /\ Kept(s, t) /\ t.stream = "Initial"
      /\ t.pipeline = s.pipeline
      /\ t.closes = s.closes /\ t.handshake = s.handshake
      /\ t.enabled = s.enabled /\ t.broken = s.broken /\ t.tokens = s.tokens
      /\ t.backoff = s.backoff /\ t.up = s.up /\ t.down = s.down /\ t.idle = s.idle
  BY <1>1 DEF ClientRec, Kept
<1> QED BY <1>1, <1>2 DEF Closed, Kept, IsStarted, RisingQueues

\* The stream is stopped, the pipeline emptied and filled from the queue of
\* whoever is the user now.
LEMMA RestartNetworkRests ==
  ASSUME NEW s \in ClientRec, s.enabled, s.broken = {}, s.tokens = {},
         RisingQueues(s),
         s.backoff <=> s.stream = "Backoff",
         Wires(s), s.handshake => IsOpen(s)
  PROVE  LET t == RestartNetwork(s)
         IN  /\ Rests(t) /\ Kept(s, t) /\ ~IsOpen(t) /\ t.down = <<>>
             /\ ~t.handshake
             /\ t.closes = (IF IsStarted(s) THEN s.closes + 1 ELSE s.closes)
             /\ t.tokens = IF t.stream = "Starting" THEN {t.closes} ELSE {}
<1> DEFINE disabled == [s EXCEPT !.enabled = FALSE]
           stopped == Stop(disabled)
           down == [stopped EXCEPT !.pipeline = <<>>]
           inhibited == InhibitBackoff(down)
           full == [inhibited EXCEPT !.enabled = TRUE]
           t == RestartNetwork(s)
           c == IF IsStarted(s) THEN s.closes + 1 ELSE s.closes
<1>1. /\ disabled \in ClientRec /\ Kept(s, disabled) /\ disabled.enabled = FALSE
      /\ disabled.stream = s.stream /\ disabled.broken = {} /\ disabled.tokens = {}
      /\ disabled.closes = s.closes /\ disabled.handshake = s.handshake
      /\ disabled.up = s.up /\ disabled.down = s.down /\ disabled.idle = s.idle
      /\ disabled.backoff = s.backoff
  BY DEF ClientRec, Kept
<1> HIDE DEF disabled
<1>2. /\ stopped \in ClientRec /\ Kept(s, stopped) /\ stopped.enabled = FALSE
      /\ stopped.stream \in {"Initial", "Error"}
      /\ stopped.broken = {} /\ stopped.tokens = {}
      /\ stopped.closes = c /\ ~stopped.handshake
      /\ stopped.up = <<>> /\ stopped.down = <<>>
      /\ ~stopped.idle /\ ~stopped.backoff
  <2>1. CASE IsStarted(s)
    <3> DEFINE torn == TearDown(disabled, TRUE)
    <3>1. IsStarted(disabled) /\ RisingQueues(disabled)
      BY <2>1, <1>1 DEF IsStarted, Kept, RisingQueues
    <3>2. /\ torn \in ClientRec /\ torn.broken = {} /\ torn.tokens = {}
          /\ torn.stream = "Initial" /\ torn.closes = s.closes + 1
          /\ Kept(disabled, torn) /\ torn.enabled = FALSE
          /\ ~torn.backoff /\ ~torn.idle /\ torn.up = <<>> /\ torn.down = <<>>
      <4>1. torn = TornDown(disabled, "Initial")
        BY <3>1, TearDownIs
      <4> HIDE DEF torn
      <4> QED BY <4>1, <3>1, <1>1, TornDownCloses
    <3>3. stopped = OnWriteStreamClose(torn, "ok")
      BY <3>1 DEF Stop, Close
    <3> HIDE DEF torn
    <3>4. ~ShouldStartWriteStream(torn)
      BY <3>2 DEF ShouldStartWriteStream
    <3>5. stopped = [torn EXCEPT !.handshake = FALSE]
      BY <3>3, <3>4 DEF OnWriteStreamClose, Check
    <3> HIDE DEF stopped
    <3>6. stopped \in ClientRec
      BY <3>2, <3>5 DEF ClientRec
    <3>7. /\ Kept(torn, stopped) /\ stopped.stream = torn.stream
          /\ stopped.enabled = torn.enabled /\ stopped.closes = torn.closes
          /\ stopped.broken = torn.broken /\ stopped.tokens = torn.tokens
          /\ ~stopped.handshake /\ stopped.idle = torn.idle
          /\ stopped.up = torn.up /\ stopped.down = torn.down
          /\ stopped.backoff = torn.backoff
      BY <3>2, <3>5 DEF ClientRec, Kept
    <3>8. Kept(s, stopped)
      BY <3>2, <3>7, <1>1 DEF Kept
    <3>9. c = s.closes + 1
      BY <2>1
    <3> QED BY <3>2, <3>6, <3>7, <3>8, <3>9
  <2>2. CASE ~IsStarted(s)
    <3>1. stopped = disabled
      BY <2>2, <1>1 DEF Stop, IsStarted
    <3>2. s.stream \in {"Initial", "Error"} /\ ~IsOpen(s)
      BY <2>2 DEF ClientRec, IsStarted, IsOpen
    <3> QED BY <3>1, <3>2, <2>2, <1>1 DEF Wires, IsOpen
  <2> QED BY <2>1, <2>2
<1> HIDE DEF stopped, c
<1>3. /\ down \in ClientRec /\ Kept(s, down)
      /\ down.stream \in {"Initial", "Error"} /\ down.broken = {} /\ down.tokens = {}
      /\ down.closes = c /\ ~down.handshake /\ down.pipeline = <<>>
      /\ down.up = <<>> /\ down.down = <<>> /\ ~down.idle /\ ~down.backoff
  <2>1. down \in ClientRec
    <3>1. <<>> \in Seq(Writes)
      OBVIOUS
    <3> QED BY <1>2, <3>1 DEF ClientRec
  <2>2. /\ down.pipeline = <<>> /\ Kept(stopped, down)
        /\ down.stream = stopped.stream /\ down.broken = stopped.broken
        /\ down.tokens = stopped.tokens /\ down.closes = stopped.closes
        /\ down.handshake = stopped.handshake /\ down.up = stopped.up
        /\ down.down = stopped.down /\ down.idle = stopped.idle
        /\ down.backoff = stopped.backoff
    BY <1>2 DEF ClientRec, Kept
  <2> HIDE DEF down
  <2>3. Kept(s, down)
    BY <1>2, <2>2 DEF Kept
  <2> QED BY <1>2, <2>1, <2>2, <2>3
<1>4. t = FillWritePipeline(full)
  BY DEF RestartNetwork, disabled, stopped
<1> HIDE DEF down, t
<1>5. /\ inhibited = [down EXCEPT !.stream = "Initial"] /\ inhibited \in ClientRec
  BY <1>3, InhibitsBackoff DEF IsStarted
<1>6. full = [down EXCEPT !.stream = "Initial", !.enabled = TRUE]
  BY <1>3, <1>5 DEF ClientRec
<1> HIDE DEF full
<1>7. Closed(full) /\ Kept(s, full) /\ full.closes = c /\ ~full.handshake /\ full.pipeline = <<>>
  BY <1>3, <1>6 DEF ClientRec, Closed, Kept, IsStarted, RisingQueues
<1>8. Fits(full)
  <2>1. Queue(full) \in Seq(Writes) /\ MaxPending \in Nat
    BY <1>7, QueueType, RemoteWriteAssumption DEF Closed
  <2> QED BY <1>7, <2>1 DEF Fits, Begins
<1>9. /\ Settled(t) /\ Kept(full, t) /\ ~IsOpen(t)
      /\ t.closes = full.closes /\ t.down = <<>>
      /\ t.tokens = (IF t.stream = "Starting" THEN {t.closes} ELSE {})
      /\ t.handshake = full.handshake
  BY <1>4, <1>7, <1>8, ClosedFills
<1> QED BY <1>7, <1>9 DEF Rests, Kept, t, c

LEMMA RemovesHead ==
  ASSUME NEW q \in Seq(Writes), q # <<>>
  PROVE  /\ Head(q) = q[1] /\ Head(q) \in Range(q)
         /\ RemoveFirst(q, Head(q)) = Tail(q)
<1> DEFINE I == {i \in 1..Len(q) : q[i] = Head(q)}
<1>1. /\ Len(q) \in Nat /\ Len(q) >= 1 /\ 1 \in 1..Len(q)
      /\ Head(q) = q[1] /\ 1 \in DOMAIN q
  OBVIOUS
<1>2. Min(I) = 1 /\ I # {}
  <2>1. 1 \in I /\ I \subseteq Nat /\ \A i \in I : 1 <= i
    BY <1>1
  <2> HIDE DEF I
  <2> QED BY <2>1, MinIsLeast
<1>3. SelectInSeq(q, LAMBDA v : v = Head(q)) = 1
  BY <1>2 DEF SelectInSeq
<1>4. RemoveAt(q, 1) = Tail(q)
  <2>1. SubSeq(q, 1, 0) = <<>>
    BY <1>1
  <2>2. SubSeq(q, 2, Len(q)) = Tail(q)
    BY TailIsSubSeq
  <2>3. <<>> \o Tail(q) = Tail(q)
    BY HeadTailProperties, ConcatEmptySeq
  <2> QED BY <2>1, <2>2, <2>3 DEF RemoveAt
<1> QED BY <1>1, <1>3, <1>4 DEF RemoveFirst, Range

LEMMA TailFits ==
  ASSUME NEW p \in Seq(Writes), p # <<>>, NEW q \in Seq(Writes),
         Begins(p, q), Rising(q)
  PROVE  /\ q # <<>> /\ Head(p) = Head(q)
         /\ Tail(p) \in Seq(Writes) /\ Tail(q) \in Seq(Writes)
         /\ Len(Tail(p)) = Len(p) - 1
         /\ \A i \in 1..Len(Tail(p)) : Tail(p)[i] = p[i + 1]
         /\ Len(Tail(q)) = Len(q) - 1
         /\ \A i \in 1..Len(Tail(q)) : Tail(q)[i] = q[i + 1]
         /\ Begins(Tail(p), Tail(q)) /\ Rising(Tail(q))
<1>1. /\ Len(p) \in Nat /\ Len(q) \in Nat /\ 1 <= Len(p) /\ Len(p) <= Len(q)
      /\ \A i \in 1..Len(p) : p[i] = q[i]
  BY DEF Begins
<1>2. q # <<>> /\ Head(p) = Head(q)
  <2>1. q # <<>>
    BY <1>1
  <2>2. Head(p) = p[1] /\ Head(q) = q[1]
    BY <2>1, RemovesHead
  <2> QED BY <1>1, <2>1, <2>2
<1>3. /\ Tail(p) \in Seq(Writes) /\ Tail(q) \in Seq(Writes)
      /\ Len(Tail(p)) = Len(p) - 1
      /\ \A i \in 1..Len(Tail(p)) : Tail(p)[i] = p[i + 1]
      /\ Len(Tail(q)) = Len(q) - 1
      /\ \A i \in 1..Len(Tail(q)) : Tail(q)[i] = q[i + 1]
  BY <1>2, HeadTailProperties
<1>4. Begins(Tail(p), Tail(q))
  <2>1. ASSUME NEW i \in 1..Len(Tail(p))
        PROVE  Tail(p)[i] = Tail(q)[i]
    <3>1. i \in 1..Len(Tail(q)) /\ i + 1 \in 1..Len(p)
      BY <1>1, <1>3
    <3> QED BY <1>1, <1>3, <3>1
  <2> QED BY <1>1, <1>3, <2>1 DEF Begins
<1>5. Rising(Tail(q))
  <2>1. ASSUME NEW i \in DOMAIN Tail(q), NEW j \in DOMAIN Tail(q), i < j
        PROVE  Tail(q)[i] < Tail(q)[j]
    <3>1. /\ i \in 1..Len(Tail(q)) /\ j \in 1..Len(Tail(q))
          /\ i + 1 \in DOMAIN q /\ j + 1 \in DOMAIN q /\ i + 1 < j + 1
      BY <2>1, <1>1, <1>3
    <3>2. q[i + 1] < q[j + 1]
      BY <3>1 DEF Rising
    <3> QED BY <1>3, <3>1, <3>2
  <2> QED BY <2>1 DEF Rising
<1> QED BY <1>2, <1>3, <1>4, <1>5

\* The batch in front is answered: it leaves the pipeline and the queue, and
\* its completion is called.
Calls(s, result) ==
  IF Head(s.pipeline) \in s.callbacks
  THEN s.called \cup {<<Head(s.pipeline), result>>} ELSE s.called

Answered(s, result) ==
  [s EXCEPT !.pipeline = Tail(s.pipeline),
            !.queues = [s.queues EXCEPT ![s.user] = Tail(@)],
            !.callbacks = s.callbacks \ {Head(s.pipeline)},
            !.called = Calls(s, result)]

LEMMA AnswersFront ==
  ASSUME NEW s \in ClientRec, s.pipeline # <<>>, Fits(s), RisingQueues(s),
         NEW result
  PROVE  LET w == Head(s.pipeline)
             t == [s EXCEPT !.pipeline = Tail(@)]
         IN  /\ RemoveMutationBatch(NotifyUser(t, w, result), w)
                  = Answered(s, result)
             /\ NotifyUser(RemoveMutationBatch(t, w), w, result)
                  = Answered(s, result)
<1> DEFINE q == Queue(s)
           w == Head(s.pipeline)
           t == [s EXCEPT !.pipeline = Tail(@)]
           n == NotifyUser(t, w, result)
           r == RemoveMutationBatch(t, w)
<1>1. q \in Seq(Writes) /\ s.pipeline \in Seq(Writes) /\ Begins(s.pipeline, q) /\ Rising(q)
  BY QueueType DEF Fits, RisingQueues, Queue, ClientRec
<1>2. w \in Range(q) /\ RemoveFirst(q, w) = Tail(q)
  BY <1>1, TailFits, RemovesHead
<1>3. q = s.queues[s.user]
  BY DEF Queue
<1> HIDE DEF q, w
<1> DEFINE qs == [s.queues EXCEPT ![s.user] = Tail(@)]
           cs == s.callbacks \ {w}
           cd == Calls(s, result)
           tl == Tail(s.pipeline)
<1>4. t = [s EXCEPT !.pipeline = tl]
  OBVIOUS
<1>5. [s.queues EXCEPT ![s.user] = RemoveFirst(@, w)] = qs
  BY <1>2, <1>3
<1>6. Answered(s, result) =
        [s EXCEPT !.pipeline = tl, !.queues = qs, !.callbacks = cs, !.called = cd]
  BY Zenon DEF Answered, w
<1> HIDE DEF tl, qs, t, cd
<1>7. n = [s EXCEPT !.pipeline = tl, !.callbacks = cs, !.called = cd]
  <2>1. t.callbacks = s.callbacks /\ t.called = s.called
    BY <1>4 DEF ClientRec
  <2>2. n = [t EXCEPT !.callbacks = cs, !.called = cd]
    BY <2>1 DEF NotifyUser, cd, Calls, w
  <2> QED BY <1>4, <2>2
<1>8. t.queues = s.queues /\ t.user = s.user /\ n.queues = s.queues /\ n.user = s.user
  BY <1>4, <1>7 DEF ClientRec
<1>9. Queue(t) = q /\ Queue(n) = q
  BY <1>3, <1>8 DEF Queue
<1>10. r = [s EXCEPT !.pipeline = tl, !.queues = qs]
  <2>1. r = [t EXCEPT !.queues[s.user] = RemoveFirst(@, w)]
    BY <1>2, <1>8, <1>9 DEF RemoveMutationBatch, Check
  <2>2. r = [t EXCEPT !.queues = qs]
    BY <2>1, <1>5, <1>8
  <2> HIDE DEF r
  <2> QED BY <2>2, <1>4 DEF ClientRec
<1>11. RemoveMutationBatch(n, w) = Answered(s, result)
  <2>1. RemoveMutationBatch(n, w) = [n EXCEPT !.queues[s.user] = RemoveFirst(@, w)]
    BY <1>2, <1>8, <1>9 DEF RemoveMutationBatch, Check
  <2> HIDE DEF n
  <2>2. RemoveMutationBatch(n, w) = [n EXCEPT !.queues = qs]
    BY <2>1, <1>5, <1>8
  <2> HIDE DEF cs
  <2>3. [n EXCEPT !.queues = qs] =
          [s EXCEPT !.pipeline = tl, !.queues = qs, !.callbacks = cs, !.called = cd]
    BY <1>7 DEF ClientRec
  <2> QED BY <2>2, <2>3, <1>6
<1>12. NotifyUser(r, w, result) = Answered(s, result)
  <2>1. r.callbacks = s.callbacks /\ r.called = s.called
    BY <1>10 DEF ClientRec
  <2> HIDE DEF r
  <2>2. NotifyUser(r, w, result) = [r EXCEPT !.callbacks = cs, !.called = cd]
    BY <2>1 DEF NotifyUser, cd, Calls, w
  <2> HIDE DEF cs
  <2> QED BY <2>2, <1>6, <1>10 DEF ClientRec
<1> QED BY <1>11, <1>12 DEF w, t

LEMMA AnsweredFits ==
  ASSUME NEW s \in ClientRec, s.pipeline # <<>>, Fits(s), RisingQueues(s),
         NEW result \in {"ok", "refused"}
  PROVE  LET t == Answered(s, result)
         IN  /\ t \in ClientRec /\ Fits(t) /\ RisingQueues(t)
             /\ t.pipeline = Tail(s.pipeline)
             /\ t.queues = [s.queues EXCEPT ![s.user] = Tail(@)]
             /\ t.called = Calls(s, result)
             /\ t.user = s.user /\ t.stream = s.stream /\ t.closes = s.closes
             /\ t.tokens = s.tokens /\ t.backoff = s.backoff /\ t.idle = s.idle
             /\ t.up = s.up /\ t.down = s.down /\ t.broken = s.broken
             /\ t.handshake = s.handshake /\ t.enabled = s.enabled
             /\ t.bearer = s.bearer
<1> DEFINE q == Queue(s)
           qs == [s.queues EXCEPT ![s.user] = Tail(@)]
           tl == Tail(s.pipeline)
           cs == s.callbacks \ {Head(s.pipeline)}
           cd == Calls(s, result)
           t == Answered(s, result)
<1>1. q \in Seq(Writes) /\ s.pipeline \in Seq(Writes) /\ Begins(s.pipeline, q) /\ Rising(q)
  BY QueueType DEF Fits, RisingQueues, Queue, ClientRec
<1>2. /\ q # <<>> /\ Tail(q) \in Seq(Writes) /\ tl \in Seq(Writes)
      /\ Begins(tl, Tail(q)) /\ Rising(Tail(q)) /\ Len(tl) = Len(s.pipeline) - 1
  BY <1>1, TailFits
<1>3. qs = [s.queues EXCEPT ![s.user] = Tail(q)]
  BY DEF Queue
<1>4. s.user \in Users /\ s.queues \in [Users -> Seq(Writes)]
  BY DEF ClientRec
<1>5. /\ qs \in [Users -> Seq(Writes)] /\ qs[s.user] = Tail(q)
      /\ \A u \in Users : Rising(qs[u])
  BY <1>2, <1>3, <1>4 DEF RisingQueues
<1>6. cs \in SUBSET Writes
  BY DEF ClientRec
<1>7. cd \in SUBSET (Writes \X {"ok", "refused"})
  <2>1. Head(s.pipeline) \in Writes
    BY <1>1, HeadTailProperties
  <2> QED BY <2>1 DEF Calls, ClientRec
<1>8. t = [s EXCEPT !.pipeline = tl, !.queues = qs, !.callbacks = cs, !.called = cd]
  BY Zenon DEF Answered
<1> HIDE DEF q, qs, tl, cs, cd, t
<1>9. t \in ClientRec
  BY <1>2, <1>5, <1>6, <1>7, <1>8 DEF ClientRec
<1>10. /\ t.pipeline = tl /\ t.queues = qs /\ t.called = cd
       /\ t.user = s.user /\ t.stream = s.stream /\ t.closes = s.closes
       /\ t.tokens = s.tokens /\ t.backoff = s.backoff /\ t.idle = s.idle
       /\ t.up = s.up /\ t.down = s.down /\ t.broken = s.broken
       /\ t.handshake = s.handshake /\ t.enabled = s.enabled
       /\ t.bearer = s.bearer
  BY <1>8 DEF ClientRec
<1>11. RisingQueues(t)
  BY <1>5, <1>10 DEF RisingQueues
<1>12. Fits(t)
  <2>1. Len(tl) <= MaxPending
    BY <1>1, <1>2, RemoteWriteAssumption DEF Fits
  <2> QED BY <2>1, <1>2, <1>5, <1>10 DEF Fits, Queue
<1> QED BY <1>9, <1>10, <1>11, <1>12 DEF t, qs, tl, cd

\* The record after OnStreamRead has taken the next response.
Read(s) == [s EXCEPT !.down = Tail(@)]

LEMMA ReadIs ==
  ASSUME NEW s \in ClientRec, s.down # <<>>
  PROVE  LET t == Read(s)
         IN  /\ t \in ClientRec /\ Kept(s, t) /\ t.down = Tail(s.down)
             /\ t.stream = s.stream /\ t.closes = s.closes
             /\ t.tokens = s.tokens /\ t.backoff = s.backoff /\ t.idle = s.idle
             /\ t.up = s.up /\ t.broken = s.broken /\ t.pipeline = s.pipeline
             /\ t.handshake = s.handshake /\ t.enabled = s.enabled
             /\ t.bearer = s.bearer
             /\ Tail(s.down) \in Seq(Message) /\ Head(s.down) = s.down[1]
             /\ Len(Tail(s.down)) = Len(s.down) - 1
             /\ \A i \in 1..Len(Tail(s.down)) : Tail(s.down)[i] = s.down[i + 1]
<1> DEFINE t == Read(s)
           tl == Tail(s.down)
<1>1. s.down \in Seq(Message)
  BY DEF ClientRec
<1>2. /\ tl \in Seq(Message) /\ Len(tl) = Len(s.down) - 1
      /\ \A i \in 1..Len(tl) : tl[i] = s.down[i + 1]
      /\ Head(s.down) = s.down[1]
  BY <1>1, HeadTailProperties
<1>3. t = [s EXCEPT !.down = tl]
  BY DEF Read
<1> HIDE DEF t, tl
<1>4. t \in ClientRec
  BY <1>2, <1>3 DEF ClientRec
<1>5. /\ t.down = tl /\ Kept(s, t)
      /\ t.stream = s.stream /\ t.closes = s.closes
      /\ t.tokens = s.tokens /\ t.backoff = s.backoff /\ t.idle = s.idle
      /\ t.up = s.up /\ t.broken = s.broken /\ t.pipeline = s.pipeline
      /\ t.handshake = s.handshake /\ t.enabled = s.enabled
      /\ t.bearer = s.bearer
  BY <1>3 DEF ClientRec, Kept
<1> QED BY <1>2, <1>4, <1>5 DEF t, tl

\* What the next response is.
LEMMA NextResponse ==
  ASSUME NEW s, Sound(s), s.down # <<>>
  PROVE  /\ IsOpen(s) /\ s.pipeline # <<>> /\ ~s.idle
         /\ Head(s.down) = s.down[1]
         /\ s.down[1].type \in {"Handshake", "Write", "Refused"}
         /\ s.down[1].type = "Write" =>
              /\ s.handshake /\ s.down[1] = WriteRequest(Head(s.pipeline))
              /\ \E n \in 1..Len(s.down) : Answers(s, n)
         /\ s.down[1].type = "Handshake" =>
              ~s.handshake /\ Len(s.down) = 1 /\ s.up = <<>>
<1>1. /\ s.down \in Seq(Message) /\ s.pipeline \in Seq(Writes) /\ s.up \in Seq(Message)
      /\ Len(s.down) \in Nat /\ Len(s.down) >= 1 /\ Head(s.down) = s.down[1]
      /\ Len(s.pipeline) \in Nat
  BY DEF Sound, ClientRec
<1>2. s.down[1] \in Message
  BY <1>1
<1>3. IsOpen(s) /\ s.handshake \in BOOLEAN
  BY DEF Sound, Wires, ClientRec
<1>4. CASE ~s.handshake
  <2>1. Shaking(s)
    BY <1>3, <1>4 DEF Sound, Wires
  <2> QED BY <1>1, <1>3, <1>4, <2>1 DEF Shaking
<1>5. CASE s.handshake
  <2>1. PICK n \in 0..Len(s.down) : Answers(s, n)
    BY <1>3, <1>5 DEF Sound, Wires
  <2>2. s.idle => s.pipeline = <<>>
    BY <1>3, <1>5 DEF Sound, Wires
  <2>3. CASE n = 0
    <3>1. s.down[1].type = "Refused" /\ Len(s.pipeline) # 0
      BY <1>1, <2>1, <2>3 DEF Answers
    <3> QED BY <1>1, <1>3, <2>2, <3>1
  <2>4. CASE n # 0
    <3>1. n \in 1..Len(s.down) /\ n <= Len(s.pipeline)
      BY <1>1, <2>1, <2>4 DEF Answers
    <3>2. /\ s.pipeline # <<>> /\ Head(s.pipeline) = s.pipeline[1]
          /\ s.down[1] = WriteRequest(s.pipeline[1])
      BY <1>1, <3>1, <2>1 DEF Answers
    <3>3. s.down[1].type = "Write"
      BY <3>2 DEF WriteRequest
    <3> QED BY <1>1, <1>3, <1>5, <2>1, <2>2, <3>1, <3>2, <3>3
  <2> QED BY <2>3, <2>4
<1> QED BY <1>3, <1>4, <1>5

LEMMA ResultRests ==
  ASSUME NEW c, Rests(c), c.tokens = {}, c.called = {}, c.down # <<>>,
         c.down[1].type = "Write"
  PROVE  LET t == OnWriteStreamMutationResult(Read(c))
         IN  /\ Rests(t) /\ AsksToken(c, t)
             /\ t.user = c.user /\ t.down = Tail(c.down)
             /\ t.queues = [c.queues EXCEPT ![c.user] = Tail(@)]
             /\ t.called \in {{}, {<<Head(c.pipeline), "ok">>}}
             /\ t.bearer = c.bearer /\ t.handshake /\ IsOpen(t)
             /\ Begins(Tail(c.pipeline), t.pipeline)
<1> DEFINE s == Read(c)
           p == Answered(s, "ok")
           t == OnWriteStreamMutationResult(s)
<1>1. /\ c \in ClientRec /\ Sound(c) /\ c.enabled /\ c.broken = {}
      /\ Fits(c) /\ RisingQueues(c) /\ c.pipeline \in Seq(Writes)
      /\ c.backoff <=> c.stream = "Backoff"
      /\ c.down \in Seq(Message) /\ c.closes \in Nat
  BY DEF Rests, Settled, Sound, ClientRec
<1>2. /\ IsOpen(c) /\ c.pipeline # <<>> /\ ~c.idle /\ c.handshake
      /\ c.down[1] = WriteRequest(Head(c.pipeline))
  BY <1>1, NextResponse
<1>3. PICK n \in 1..Len(c.down) : Answers(c, n)
  BY <1>1, NextResponse
<1>4. /\ s \in ClientRec /\ Kept(c, s) /\ s.down = Tail(c.down)
      /\ s.stream = c.stream /\ s.closes = c.closes
      /\ s.tokens = c.tokens /\ s.backoff = c.backoff /\ s.idle = c.idle
      /\ s.up = c.up /\ s.broken = c.broken /\ s.pipeline = c.pipeline
      /\ s.handshake = c.handshake /\ s.enabled = c.enabled
      /\ s.bearer = c.bearer
  BY <1>1, ReadIs
<1> HIDE DEF s
<1>5. /\ Len(s.down) = Len(c.down) - 1
      /\ \A i \in 1..Len(s.down) : s.down[i] = c.down[i + 1]
  BY <1>1, <1>4, HeadTailProperties
<1>6. Fits(s) /\ RisingQueues(s)
  BY <1>1, <1>4 DEF Fits, RisingQueues, Kept, Queue
<1>7. t = FillWritePipeline(p)
  BY <1>1, <1>2, <1>4, <1>6, AnswersFront DEF OnWriteStreamMutationResult, Check
<1>8. /\ p \in ClientRec /\ Fits(p) /\ RisingQueues(p)
      /\ p.pipeline = Tail(c.pipeline)
      /\ p.queues = [c.queues EXCEPT ![c.user] = Tail(@)]
      /\ p.called = Calls(s, "ok")
      /\ p.user = c.user /\ p.stream = c.stream /\ p.closes = c.closes
      /\ p.tokens = {} /\ p.backoff = c.backoff /\ ~p.idle
      /\ p.up = c.up /\ p.down = s.down /\ p.broken = {}
      /\ p.handshake /\ p.enabled /\ p.bearer = c.bearer
  <2>1. /\ p \in ClientRec /\ Fits(p) /\ RisingQueues(p)
        /\ p.pipeline = Tail(s.pipeline)
        /\ p.queues = [s.queues EXCEPT ![s.user] = Tail(@)]
        /\ p.called = Calls(s, "ok")
        /\ p.user = s.user /\ p.stream = s.stream /\ p.closes = s.closes
        /\ p.tokens = s.tokens /\ p.backoff = s.backoff /\ p.idle = s.idle
        /\ p.up = s.up /\ p.down = s.down /\ p.broken = s.broken
        /\ p.handshake = s.handshake /\ p.enabled = s.enabled
        /\ p.bearer = s.bearer
    BY <1>2, <1>4, <1>6, AnsweredFits
  <2> HIDE DEF p
  <2> QED BY <2>1, <1>1, <1>2, <1>4 DEF Kept
<1> HIDE DEF p, t
<1>9. Answers(p, n - 1)
  <2>1. /\ n \in Nat /\ n >= 1 /\ n - 1 \in Nat /\ n - 1 <= Len(p.down) /\ n <= Len(c.down)
        /\ Len(p.down) = Len(c.down) - 1 /\ Len(c.down) \in Nat
    BY <1>1, <1>3, <1>4, <1>5, <1>8
  <2>2. /\ Len(p.pipeline) = Len(c.pipeline) - 1 /\ Len(c.pipeline) \in Nat
        /\ \A i \in 1..Len(p.pipeline) : p.pipeline[i] = c.pipeline[i + 1]
    BY <1>1, <1>2, <1>8, HeadTailProperties
  <2>3. n <= Len(c.pipeline)
    BY <1>3 DEF Answers
  <2>4. ASSUME NEW i \in 1..(n - 1)
        PROVE  p.down[i] = WriteRequest(p.pipeline[i])
    <3>1. i + 1 \in 1..n /\ i \in 1..Len(p.down) /\ i \in 1..Len(p.pipeline)
      BY <2>1, <2>2, <2>3
    <3>2. c.down[i + 1] = WriteRequest(c.pipeline[i + 1])
      BY <3>1, <1>3 DEF Answers
    <3> QED BY <3>1, <3>2, <2>2, <1>5, <1>8
  <2>5. Len(p.up) = Len(p.pipeline) - (n - 1)
    <3>1. Len(c.up) = Len(c.pipeline) - n
      BY <1>3 DEF Answers
    <3> QED BY <3>1, <2>1, <2>2, <1>8
  <2>6. ASSUME NEW i \in 1..Len(p.up)
        PROVE  p.up[i] = WriteRequest(p.pipeline[n - 1 + i])
    <3>1. i \in 1..Len(c.up) /\ i \in Nat
      BY <1>8
    <3>2. c.up[i] = WriteRequest(c.pipeline[n + i])
      BY <3>1, <1>3 DEF Answers
    <3>3. n - 1 + i \in 1..Len(p.pipeline) /\ n - 1 + i + 1 = n + i
      BY <3>1, <2>1, <2>2, <2>5
    <3> QED BY <3>2, <3>3, <2>2, <1>8
  <2>7. \/ Len(p.down) = n - 1
        \/ /\ Len(p.down) = n - 1 + 1 /\ p.down[n - 1 + 1].type = "Refused"
           /\ n - 1 < Len(p.pipeline)
    <3>1. CASE Len(c.down) = n
      BY <3>1, <2>1
    <3>2. CASE /\ Len(c.down) = n + 1 /\ c.down[n + 1].type = "Refused"
               /\ n < Len(c.pipeline)
      <4>1. n \in 1..Len(p.down) /\ p.down[n] = c.down[n + 1]
        BY <3>2, <2>1, <1>5, <1>8
      <4> QED BY <3>2, <4>1, <2>1, <2>2
    <3> QED BY <3>1, <3>2, <1>3 DEF Answers
  <2>8. PICK m \in Nat : m = n - 1
    BY <2>1
  <2>9. Answers(p, m)
    <3>1. m <= Len(p.down) /\ m <= Len(p.pipeline)
      BY <2>1, <2>2, <2>3, <2>8
    <3>2. \A i \in 1..m : p.down[i] = WriteRequest(p.pipeline[i])
      BY <2>4, <2>8
    <3>3. /\ Len(p.up) = Len(p.pipeline) - m
          /\ \A i \in 1..Len(p.up) : p.up[i] = WriteRequest(p.pipeline[m + i])
      BY <2>5, <2>6, <2>8
    <3>4. \/ Len(p.down) = m
          \/ /\ Len(p.down) = m + 1 /\ p.down[m + 1].type = "Refused"
             /\ m < Len(p.pipeline)
      BY <2>7, <2>8
    <3> QED BY <3>1, <3>2, <3>3, <3>4 DEF Answers
  <2> QED BY <2>8, <2>9
<1>10. Wires(p)
  <2>1. n - 1 \in 0..Len(p.down)
    BY <1>3, <1>5, <1>8, <1>1
  <2> QED BY <1>2, <1>8, <1>9, <2>1 DEF Wires, IsOpen
<1>11. Ready(p)
  BY <1>1, <1>2, <1>8, <1>10 DEF Ready, Sound, IsOpen
<1>12. Settled(t) /\ Kept(p, t) /\ FillsStream(p, t) /\ t.pipeline = Longer(p)
  BY <1>7, <1>11, FillSettles
<1>13. /\ t.stream = c.stream /\ t.tokens = {} /\ t.closes = c.closes
       /\ t.handshake /\ t.bearer = c.bearer /\ t.down = Tail(c.down)
  BY <1>2, <1>4, <1>8, <1>12 DEF FillsStream, IsStarted, IsOpen
<1>14. Rests(t) /\ IsOpen(t)
  BY <1>2, <1>12, <1>13 DEF Rests, IsOpen
<1>15. AsksToken(c, t)
  BY <1>1, <1>2, <1>13 DEF AsksToken, IsOpen
<1>16. Begins(Tail(c.pipeline), t.pipeline)
  <2>1. p.pipeline \in Seq(Writes)
    BY <1>8, QueueType
  <2>2. Begins(p.pipeline, t.pipeline)
    BY <2>1, <1>11, <1>12, TakenFits DEF Begins, Ready
  <2> QED BY <2>2, <1>8
<1>17. t.called \in {{}, {<<Head(c.pipeline), "ok">>}}
  BY <1>4, <1>8, <1>12 DEF Kept, Calls
<1> QED BY <1>8, <1>12, <1>13, <1>14, <1>15, <1>16, <1>17 DEF Kept, t, s

LEMMA HandshakeRests ==
  ASSUME NEW c, Rests(c), c.tokens = {}, c.down # <<>>,
         c.down[1].type = "Handshake"
  PROVE  LET t == OnWriteStreamHandshakeComplete(Read(c))
         IN  /\ Rests(t) /\ AsksToken(c, t) /\ Kept(c, t)
             /\ t.down = <<>> /\ t.bearer = c.bearer /\ IsOpen(t)
             /\ t.handshake
<1> DEFINE s == Read(c)
           up == WriteRequests(c.pipeline)
           t == OnWriteStreamHandshakeComplete(s)
<1>1. /\ c \in ClientRec /\ Sound(c) /\ c.enabled /\ c.broken = {}
      /\ Fits(c) /\ Filled(c) /\ RisingQueues(c) /\ c.pipeline \in Seq(Writes)
      /\ c.backoff <=> c.stream = "Backoff"
      /\ c.down \in Seq(Message) /\ c.closes \in Nat
  BY DEF Rests, Settled, Sound, ClientRec
<1>2. /\ IsOpen(c) /\ c.pipeline # <<>> /\ ~c.handshake
      /\ Len(c.down) = 1 /\ c.up = <<>>
  BY <1>1, NextResponse
<1>3. /\ s \in ClientRec /\ Kept(c, s) /\ s.down = Tail(c.down)
      /\ s.stream = c.stream /\ s.closes = c.closes
      /\ s.tokens = c.tokens /\ s.backoff = c.backoff /\ s.idle = c.idle
      /\ s.up = c.up /\ s.broken = c.broken /\ s.pipeline = c.pipeline
      /\ s.handshake = c.handshake /\ s.enabled = c.enabled
      /\ s.bearer = c.bearer
  BY <1>1, ReadIs
<1> HIDE DEF s
<1>4. s.down = <<>>
  <2>1. /\ Len(Tail(c.down)) = Len(c.down) - 1
        /\ Tail(c.down) \in Seq(Message)
    BY <1>1, HeadTailProperties
  <2>2. s.down \in Seq(Message) /\ Len(s.down) = 0
    BY <2>1, <1>2, <1>3
  <2> QED BY <2>2, EmptySeq
<1>5. /\ up \in Seq(Message) /\ Len(up) = Len(c.pipeline)
      /\ \A i \in 1..Len(c.pipeline) : up[i] = WriteRequest(c.pipeline[i])
  BY <1>1, WriteRequestsOf
<1>6. t = [s EXCEPT !.handshake = TRUE, !.idle = FALSE, !.up = up]
  <2> DEFINE shaken == [s EXCEPT !.handshake = TRUE]
  <2>1. /\ shaken.pipeline = c.pipeline /\ shaken.up = <<>>
        /\ shaken.stream = "Open"
    BY <1>2, <1>3 DEF ClientRec, IsOpen
  <2>2. t = Send(shaken, up)
    BY <2>1, <1>2 DEF OnWriteStreamHandshakeComplete
  <2>3. <<>> \o up = up
    BY <1>5, ConcatEmptySeq
  <2> HIDE DEF up, t, shaken
  <2>4. t = [shaken EXCEPT !.idle = FALSE, !.up = up]
    BY <2>1, <2>2, <2>3 DEF Send, Check, IsOpen
  <2> QED BY <2>4 DEF shaken
<1> HIDE DEF up, t
<1>7. t \in ClientRec
  BY <1>3, <1>5, <1>6 DEF ClientRec
<1>8. /\ t.handshake /\ ~t.idle /\ t.up = up /\ t.down = <<>>
      /\ Kept(s, t) /\ t.stream = c.stream /\ t.closes = c.closes
      /\ t.tokens = c.tokens /\ t.backoff = c.backoff
      /\ t.broken = {} /\ t.pipeline = c.pipeline /\ t.enabled
      /\ t.bearer = c.bearer
  BY <1>1, <1>3, <1>4, <1>6 DEF ClientRec, Kept
<1>9. Kept(c, t) /\ Queue(t) = Queue(c) /\ RisingQueues(t) /\ IsOpen(t)
  BY <1>1, <1>2, <1>3, <1>8 DEF Kept, Queue, RisingQueues, IsOpen
<1>10. Answers(t, 0)
  BY <1>1, <1>5, <1>8 DEF Answers
<1>11. Wires(t)
  BY <1>8, <1>9, <1>10 DEF Wires, IsOpen
<1>12. Rests(t)
  BY <1>1, <1>2, <1>7, <1>8, <1>9, <1>11
     DEF Rests, Settled, Sound, Fits, Filled, IsOpen
<1>13. AsksToken(c, t)
  BY <1>1, <1>2, <1>8 DEF AsksToken, IsOpen
<1> QED BY <1>8, <1>9, <1>12, <1>13 DEF t, s

\* A stream that ends with an error that is not the front batch's own.
LEMMA ErrorRests ==
  ASSUME NEW s \in ClientRec, s.enabled, s.broken = {}, s.tokens = {},
         RisingQueues(s), Fits(s), Filled(s), IsStarted(s),
         NEW status \in {"transient", "permanent"},
         status = "permanent" => ~s.handshake
  PROVE  LET t == Close(s, status)
         IN  /\ Rests(t) /\ Kept(s, t) /\ ~IsOpen(t) /\ t.down = <<>>
             /\ ~t.handshake /\ t.closes = s.closes + 1
             /\ t.tokens = {} /\ t.stream # "Starting"
<1> DEFINE torn == TearDown(s, FALSE)
           t == Close(s, status)
<1>1. /\ torn \in ClientRec /\ torn.broken = {} /\ torn.tokens = {}
      /\ torn.stream = "Error"
      /\ torn.closes = s.closes + 1 /\ Kept(s, torn)
      /\ ~torn.backoff /\ ~torn.idle /\ torn.up = <<>> /\ torn.down = <<>>
      /\ torn.enabled = s.enabled /\ torn.pipeline = s.pipeline
      /\ torn.handshake = s.handshake
  <2>1. torn = TornDown(s, "Error")
    BY TearDownIs
  <2> HIDE DEF torn
  <2> QED BY <2>1, TornDownCloses
<1>2. t = OnWriteStreamClose(torn, status)
  BY DEF Close
<1> HIDE DEF torn, t
<1>3. HandleWriteError(torn, "transient") = torn
  BY DEF HandleWriteError
<1>4. t = IF s.pipeline # <<>>
          THEN [torn EXCEPT !.stream = "Backoff", !.backoff = TRUE, !.handshake = FALSE]
          ELSE [torn EXCEPT !.handshake = FALSE]
  <2>1. Check(torn, status = "ok" => ~ShouldStartWriteStream(torn),
                      "stopped while still needed") = torn
    BY DEF Check
  <2>2. (IF status # "ok" /\ torn.pipeline # <<>> /\ torn.handshake
         THEN HandleWriteError(torn, status) ELSE torn) = torn
    BY <1>1, <1>3
  <2>3. ShouldStartWriteStream(torn) <=> s.pipeline # <<>>
    BY <1>1 DEF ShouldStartWriteStream, IsStarted
  <2>4. ShouldStartWriteStream(torn) =>
          StartWriteStream(torn) = [torn EXCEPT !.stream = "Backoff", !.backoff = TRUE]
    BY <1>1 DEF StartWriteStream, Check, Start
  <2>5. t = [(IF ShouldStartWriteStream(torn) THEN StartWriteStream(torn)
              ELSE torn) EXCEPT !.handshake = FALSE]
    BY <1>2, <2>1, <2>2 DEF OnWriteStreamClose
  <2>6. CASE s.pipeline # <<>>
    BY <2>3, <2>4, <2>5, <2>6
  <2>7. CASE s.pipeline = <<>>
    BY <2>3, <2>5, <2>7
  <2> QED BY <2>6, <2>7
<1>5. /\ t \in ClientRec /\ t.broken = {} /\ t.tokens = {}
      /\ t.stream = (IF s.pipeline # <<>> THEN "Backoff" ELSE "Error")
      /\ t.backoff <=> s.pipeline # <<>>
      /\ t.closes = s.closes + 1 /\ Kept(torn, t)
      /\ ~t.idle /\ t.up = <<>> /\ t.down = <<>>
      /\ t.enabled /\ t.pipeline = s.pipeline /\ ~t.handshake
  <2>1. CASE s.pipeline # <<>>
    <3>1. t = [torn EXCEPT !.stream = "Backoff", !.backoff = TRUE, !.handshake = FALSE]
      BY <1>4, <2>1
    <3>2. t \in ClientRec
      BY <1>1, <3>1 DEF ClientRec
    <3>3. /\ t.broken = torn.broken /\ t.tokens = torn.tokens
          /\ t.stream = "Backoff" /\ t.backoff = TRUE
          /\ t.closes = torn.closes /\ Kept(torn, t)
          /\ t.idle = torn.idle /\ t.up = torn.up /\ t.down = torn.down
          /\ t.enabled = torn.enabled /\ t.pipeline = torn.pipeline
          /\ t.handshake = FALSE
      BY <1>1, <3>1 DEF ClientRec, Kept
    <3> QED BY <1>1, <2>1, <3>2, <3>3
  <2>2. CASE s.pipeline = <<>>
    <3>1. t = [torn EXCEPT !.handshake = FALSE]
      BY <1>4, <2>2
    <3>2. t \in ClientRec
      BY <1>1, <3>1 DEF ClientRec
    <3>3. /\ t.broken = torn.broken /\ t.tokens = torn.tokens
          /\ t.stream = torn.stream /\ t.backoff = torn.backoff
          /\ t.closes = torn.closes /\ Kept(torn, t)
          /\ t.idle = torn.idle /\ t.up = torn.up /\ t.down = torn.down
          /\ t.enabled = torn.enabled /\ t.pipeline = torn.pipeline
          /\ t.handshake = FALSE
      BY <1>1, <3>1 DEF ClientRec, Kept
    <3> QED BY <1>1, <2>2, <3>2, <3>3
  <2> QED BY <2>1, <2>2
<1>6. Kept(s, t) /\ Queue(t) = Queue(s) /\ RisingQueues(t) /\ ~IsOpen(t)
      /\ t.stream # "Starting"
  BY <1>1, <1>5 DEF Kept, Queue, RisingQueues, IsOpen
<1>7. Wires(t)
  BY <1>5, <1>6 DEF Wires
<1>8. Rests(t)
  BY <1>5, <1>6, <1>7 DEF Rests, Settled, Sound, Fits, Filled
<1> QED BY <1>5, <1>6, <1>8 DEF t

\* OnWriteStreamClose forgets the handshake.
Unshaken(s) == [s EXCEPT !.handshake = FALSE]

LEMMA UnshakenRests ==
  ASSUME NEW s, Settled(s), ~IsOpen(s)
  PROVE  LET t == Unshaken(s)
         IN  /\ Rests(t) /\ Kept(s, t) /\ ~IsOpen(t) /\ ~t.handshake
             /\ t.closes = s.closes /\ t.down = s.down
             /\ t.tokens = s.tokens /\ t.stream = s.stream
<1> DEFINE t == Unshaken(s)
<1>1. s \in ClientRec /\ Sound(s)
  BY DEF Settled, Sound
<1>2. t \in ClientRec
  BY <1>1 DEF ClientRec, Unshaken
<1>3. /\ Kept(s, t) /\ ~t.handshake /\ t.pipeline = s.pipeline
      /\ t.closes = s.closes /\ t.down = s.down
      /\ t.tokens = s.tokens /\ t.stream = s.stream
      /\ t.up = s.up /\ t.idle = s.idle /\ t.enabled = s.enabled
      /\ t.broken = s.broken /\ t.backoff = s.backoff
  BY <1>1 DEF ClientRec, Kept, Unshaken
<1> HIDE DEF t
<1>4. Queue(t) = Queue(s) /\ RisingQueues(t) /\ ~IsOpen(t)
  BY <1>1, <1>3 DEF Sound, Kept, Queue, RisingQueues, IsOpen
<1>5. Wires(t)
  BY <1>1, <1>3, <1>4 DEF Sound, Wires
<1>6. Rests(t)
  BY <1>1, <1>2, <1>3, <1>4, <1>5 DEF Rests, Settled, Sound, Fits, Filled
<1> QED BY <1>3, <1>4, <1>6 DEF t

\* A refusal: the batch in front is dropped, the rest is sent on a new stream.
LEMMA RefusedRests ==
  ASSUME NEW c, Rests(c), c.tokens = {}, c.called = {}, c.down # <<>>,
         c.handshake
  PROVE  LET t == Close(Read(c), "permanent")
         IN  /\ Rests(t) /\ AsksToken(c, t) /\ ~IsOpen(t)
             /\ t.user = c.user /\ t.down = <<>> /\ ~t.handshake
             /\ t.closes = c.closes + 1
             /\ t.queues = [c.queues EXCEPT ![c.user] = Tail(@)]
             /\ t.called \in {{}, {<<Head(c.pipeline), "refused">>}}
<1> DEFINE s == Read(c)
           torn == TearDown(s, FALSE)
           calm == [torn EXCEPT !.stream = "Initial"]
           dropped == [torn EXCEPT !.pipeline = Tail(@)]
           inhibited == InhibitBackoff(dropped)
           w == Head(c.pipeline)
           i == Answered(calm, "refused")
           f == FillWritePipeline(i)
           t == Close(s, "permanent")
<1>1. /\ c \in ClientRec /\ Sound(c) /\ c.enabled /\ c.broken = {}
      /\ Fits(c) /\ RisingQueues(c) /\ c.pipeline \in Seq(Writes)
      /\ c.closes \in Nat
  BY DEF Rests, Settled, Sound, ClientRec
<1>2. IsOpen(c) /\ c.pipeline # <<>>
  BY <1>1, NextResponse
<1>3. /\ s \in ClientRec /\ Kept(c, s)
      /\ s.stream = c.stream /\ s.closes = c.closes
      /\ s.tokens = c.tokens /\ s.broken = c.broken /\ s.pipeline = c.pipeline
      /\ s.handshake = c.handshake /\ s.enabled = c.enabled
  BY <1>1, ReadIs
<1> HIDE DEF s
<1>4. IsStarted(s) /\ RisingQueues(s)
  BY <1>1, <1>2, <1>3 DEF IsStarted, IsOpen, Kept, RisingQueues
<1>5. /\ torn \in ClientRec /\ torn.broken = {} /\ torn.tokens = {}
      /\ torn.stream = "Error"
      /\ torn.closes = c.closes + 1 /\ Kept(s, torn)
      /\ ~torn.backoff /\ ~torn.idle /\ torn.up = <<>> /\ torn.down = <<>>
      /\ torn.enabled /\ torn.pipeline = c.pipeline /\ torn.handshake
  <2>1. torn = TornDown(s, "Error")
    BY <1>4, TearDownIs
  <2> HIDE DEF torn
  <2>2. /\ torn \in ClientRec /\ torn.broken = {} /\ torn.tokens = {}
        /\ torn.stream = "Error" /\ torn.closes = s.closes + 1 /\ Kept(s, torn)
        /\ ~torn.backoff /\ ~torn.idle /\ torn.up = <<>> /\ torn.down = <<>>
        /\ torn.enabled = s.enabled /\ torn.pipeline = s.pipeline
        /\ torn.handshake = s.handshake
    <3>1. s \in ClientRec /\ s.broken = {} /\ s.tokens = {} /\ RisingQueues(s)
      BY <1>1, <1>3, <1>4 DEF IsOpen
    <3> QED BY <2>1, <3>1, TornDownCloses
  <2> QED BY <2>2, <1>1, <1>3
<1>6. t = OnWriteStreamClose(torn, "permanent")
  BY DEF Close
<1> HIDE DEF torn, t
<1>7. Kept(c, torn) /\ Fits(torn) /\ RisingQueues(torn)
  BY <1>1, <1>3, <1>5 DEF Kept, Fits, Queue, RisingQueues
<1>8. /\ calm \in ClientRec /\ Kept(torn, calm) /\ calm.pipeline = torn.pipeline
      /\ calm.stream = "Initial" /\ calm.closes = torn.closes
      /\ calm.tokens = torn.tokens /\ calm.backoff = torn.backoff
      /\ calm.idle = torn.idle /\ calm.up = torn.up /\ calm.down = torn.down
      /\ calm.broken = torn.broken /\ calm.handshake = torn.handshake
      /\ calm.enabled = torn.enabled
  BY <1>5 DEF ClientRec, Kept
<1>9. inhibited = [calm EXCEPT !.pipeline = Tail(@)]
  <2>1. ~IsStarted(dropped)
    BY <1>5 DEF IsStarted, ClientRec
  <2>2. inhibited = [dropped EXCEPT !.stream = "Initial"]
    BY <2>1 DEF InhibitBackoff, Check
  <2> HIDE DEF inhibited
  <2> QED BY <2>2, <1>5 DEF ClientRec
<1> HIDE DEF calm, inhibited
<1>10. Kept(c, calm) /\ Fits(calm) /\ RisingQueues(calm)
  BY <1>5, <1>7, <1>8 DEF Kept, Fits, Queue, RisingQueues
<1>11. NotifyUser(RemoveMutationBatch(inhibited, w), w, "refused") = i
  BY <1>2, <1>5, <1>8, <1>9, <1>10, AnswersFront
<1>12. /\ i \in ClientRec /\ Fits(i) /\ RisingQueues(i)
       /\ i.queues = [calm.queues EXCEPT ![calm.user] = Tail(@)]
       /\ i.called = Calls(calm, "refused")
       /\ i.user = calm.user /\ i.stream = calm.stream /\ i.closes = calm.closes
       /\ i.tokens = calm.tokens /\ i.backoff = calm.backoff /\ i.idle = calm.idle
       /\ i.up = calm.up /\ i.down = calm.down /\ i.broken = calm.broken
       /\ i.handshake = calm.handshake /\ i.enabled = calm.enabled
  BY <1>2, <1>5, <1>8, <1>10, AnsweredFits
<1> HIDE DEF i
<1>13. Closed(i)
  BY <1>5, <1>8, <1>12 DEF Closed, IsStarted
<1>14. /\ Settled(f) /\ Kept(i, f) /\ ~IsOpen(f)
       /\ f.closes = i.closes /\ f.down = <<>>
       /\ f.tokens = IF f.stream = "Starting" THEN {f.closes} ELSE {}
  <2>1. Closed(i) /\ Fits(i) /\ f = FillWritePipeline(i)
    BY <1>12, <1>13
  <2> HIDE DEF f
  <2> QED BY <2>1, ClosedFills
<1>15. HandleWriteError(torn, "permanent") = f
  BY <1>5, <1>11 DEF HandleWriteError, inhibited
<1> HIDE DEF f
<1>16. t = Unshaken(f)
  <2>1. Check(torn, "permanent" = "ok" => ~ShouldStartWriteStream(torn),
                      "stopped while still needed") = torn
    BY DEF Check
  <2>2. (IF "permanent" # "ok" /\ torn.pipeline # <<>> /\ torn.handshake
         THEN HandleWriteError(torn, "permanent") ELSE torn) = f
    BY <1>2, <1>5, <1>15
  <2>3. ~ShouldStartWriteStream(f)
    BY <1>14 DEF ShouldStartWriteStream, IsStarted, Settled, Sound, ClientRec
  <2> QED BY <1>6, <2>1, <2>2, <2>3 DEF OnWriteStreamClose, Unshaken
<1>17. /\ Rests(t) /\ Kept(f, t) /\ ~IsOpen(t) /\ ~t.handshake
       /\ t.closes = f.closes /\ t.down = f.down
       /\ t.tokens = f.tokens /\ t.stream = f.stream
  BY <1>14, <1>16, UnshakenRests
<1>18. t.closes = c.closes + 1
  BY <1>5, <1>8, <1>12, <1>14, <1>17
<1>19. AsksToken(c, t)
  BY <1>1, <1>14, <1>17, <1>18 DEF AsksToken
<1>20. /\ t.user = c.user /\ t.down = <<>>
       /\ t.queues = [c.queues EXCEPT ![c.user] = Tail(@)]
  BY <1>10, <1>12, <1>14, <1>17 DEF Kept
<1>21. t.called \in {{}, {<<w, "refused">>}}
  BY <1>5, <1>8, <1>10, <1>12, <1>14, <1>17 DEF Kept, Calls
<1> QED BY <1>17, <1>18, <1>19, <1>20, <1>21 DEF t, s

\* The backoff is over and the stream asks for credentials again.
LEMMA ResumeRests ==
  ASSUME NEW s, Rests(s), s.tokens = {}, s.backoff
  PROVE  LET t == Resume(s)
         IN  /\ Rests(t) /\ AsksToken(s, t) /\ Kept(s, t) /\ ~IsOpen(t)
             /\ t.down = <<>> /\ ~t.handshake
<1> DEFINE t == Resume(s)
<1>1. /\ s \in ClientRec /\ Sound(s) /\ s.stream = "Backoff" /\ ~IsOpen(s)
      /\ s.pipeline # <<>> /\ ~s.handshake /\ s.enabled /\ s.broken = {}
      /\ s.up = <<>> /\ s.down = <<>> /\ ~s.idle /\ {s.closes} \in SUBSET Nat
  BY DEF Rests, Settled, Sound, Wires, IsOpen, ClientRec
<1>2. t = [s EXCEPT !.backoff = FALSE, !.stream = "Starting", !.tokens = {s.closes}]
  <2> DEFINE i == [s EXCEPT !.backoff = FALSE, !.stream = "Initial"]
             a == [i EXCEPT !.stream = "Starting"]
  <2>1. i.stream = "Initial" /\ a.tokens = {} /\ a.closes = s.closes
        /\ a = [s EXCEPT !.backoff = FALSE, !.stream = "Starting"]
    BY <1>1 DEF ClientRec
  <2>2. t = Start(i)
    BY <1>1 DEF Resume, Check
  <2> HIDE DEF i, t
  <2>3. t = RequestCredentials(a)
    BY <2>1, <2>2 DEF Start, Check
  <2> HIDE DEF a
  <2>4. t = [a EXCEPT !.tokens = {s.closes}]
    BY <2>1, <2>3 DEF RequestCredentials
  <2> QED BY <2>1, <2>4
<1> HIDE DEF t
<1>3. t \in ClientRec
  BY <1>1, <1>2 DEF ClientRec
<1>4. /\ Kept(s, t) /\ ~t.handshake /\ t.pipeline = s.pipeline
      /\ t.closes = s.closes /\ t.down = <<>> /\ t.up = <<>> /\ ~t.idle
      /\ t.enabled /\ t.broken = {} /\ ~t.backoff
      /\ t.stream = "Starting" /\ t.tokens = {t.closes}
  BY <1>1, <1>2 DEF ClientRec, Kept
<1>5. Queue(t) = Queue(s) /\ RisingQueues(t) /\ ~IsOpen(t) /\ Wires(t)
  BY <1>1, <1>4 DEF Sound, Kept, Queue, RisingQueues, IsOpen, Wires
<1>6. Rests(t)
  BY <1>1, <1>3, <1>4, <1>5 DEF Rests, Settled, Sound, Fits, Filled
<1>7. AsksToken(s, t)
  BY <1>1, <1>4, <1>3 DEF AsksToken, ClientRec
<1> QED BY <1>4, <1>5, <1>6, <1>7 DEF t

\* The idle timer stops a stream that has nothing left to send.
LEMMA StopRests ==
  ASSUME NEW s, Rests(s), s.tokens = {}, s.idle
  PROVE  LET t == Stop(s)
         IN  /\ Rests(t) /\ AsksToken(s, t) /\ Kept(s, t) /\ ~IsOpen(t)
             /\ t.down = <<>> /\ ~t.handshake
<1> DEFINE torn == TearDown(s, TRUE)
           t == Stop(s)
<1>1. /\ s \in ClientRec /\ Sound(s) /\ IsOpen(s) /\ IsStarted(s)
      /\ s.handshake /\ s.pipeline = <<>> /\ s.enabled /\ s.broken = {}
      /\ RisingQueues(s) /\ s.closes \in Nat
  BY DEF Rests, Settled, Sound, Wires, Shaking, IsOpen, IsStarted, ClientRec
<1>2. /\ torn \in ClientRec /\ torn.broken = {} /\ torn.tokens = {}
      /\ torn.stream = "Initial"
      /\ torn.closes = s.closes + 1 /\ Kept(s, torn)
      /\ ~torn.backoff /\ ~torn.idle /\ torn.up = <<>> /\ torn.down = <<>>
      /\ torn.enabled = s.enabled /\ torn.pipeline = s.pipeline
      /\ torn.handshake = s.handshake
  <2>1. torn = TornDown(s, "Initial")
    BY <1>1, TearDownIs
  <2> HIDE DEF torn
  <2> QED BY <2>1, <1>1, TornDownCloses
<1>3. t = OnWriteStreamClose(torn, "ok")
  BY <1>1 DEF Stop, Close
<1> HIDE DEF torn, t
<1>4. t = Unshaken(torn)
  BY <1>1, <1>2, <1>3
     DEF OnWriteStreamClose, Check, ShouldStartWriteStream, Unshaken
<1>5. Settled(torn) /\ ~IsOpen(torn)
  <2>1. Queue(torn) = Queue(s) /\ RisingQueues(torn) /\ ~IsOpen(torn) /\ Wires(torn)
    BY <1>1, <1>2 DEF Kept, Queue, RisingQueues, IsOpen, Wires
  <2> QED BY <1>1, <1>2, <2>1 DEF Rests, Settled, Sound, Fits, Filled
<1>6. /\ Rests(t) /\ Kept(torn, t) /\ ~IsOpen(t) /\ ~t.handshake
      /\ t.closes = torn.closes /\ t.down = torn.down
      /\ t.tokens = torn.tokens /\ t.stream = torn.stream
  BY <1>4, <1>5, UnshakenRests
<1>7. AsksToken(s, t)
  BY <1>1, <1>2, <1>6 DEF AsksToken
<1> QED BY <1>2, <1>6, <1>7 DEF Kept, t

\* A stream whose credentials have come is open and shakes hands.
Opened(s, u) == ResumeStart(s, s.closes, {u})

LEMMA OpensRests ==
  ASSUME NEW s, Rests(s), s.tokens = {}, s.stream = "Starting",
         NEW u \in Users
  PROVE  LET t == Opened(s, u)
         IN  /\ Rests(t) /\ Kept(s, t) /\ IsOpen(t) /\ t.tokens = {}
             /\ t.closes = s.closes /\ t.down = <<>> /\ ~t.handshake
             /\ t.bearer = u
<1> DEFINE hello == [type |-> "Handshake", write |-> 0]
           up == <<hello>>
           opened == OnStreamStart(s)
           bears == [opened EXCEPT !.bearer = u]
           t == Opened(s, u)
<1>1. /\ s \in ClientRec /\ Sound(s) /\ ~IsOpen(s)
      /\ s.pipeline # <<>> /\ ~s.handshake /\ s.enabled /\ s.broken = {}
      /\ s.up = <<>> /\ s.down = <<>> /\ ~s.idle /\ ~s.backoff
  BY DEF Rests, Settled, Sound, Wires, IsOpen, ClientRec
<1>2. up \in Seq(Message) /\ Len(up) = 1 /\ up[1].type = "Handshake"
  BY DEF Message
<1>3. <<>> \o up = up
  BY <1>2, ConcatEmptySeq
<1>4. opened = [s EXCEPT !.stream = "Open"]
  BY DEF OnStreamStart, Check
<1>5. (CHOOSE v \in {u} : TRUE) = u
  OBVIOUS
<1>6. t = Send(bears, up)
  BY <1>5 DEF Opened, ResumeStart
<1> HIDE DEF opened, up, t
<1>7. bears = [s EXCEPT !.stream = "Open", !.bearer = u]
  BY <1>1, <1>4 DEF ClientRec
<1>8. bears.stream = "Open" /\ bears.up = <<>>
  BY <1>1, <1>7 DEF ClientRec
<1> HIDE DEF bears
<1>9. t = [bears EXCEPT !.idle = FALSE, !.up = up]
  BY <1>3, <1>6, <1>8 DEF Send, Check, IsOpen
<1>10. t = [s EXCEPT !.stream = "Open", !.bearer = u, !.idle = FALSE, !.up = up]
  BY <1>1, <1>7, <1>9 DEF ClientRec
<1>11. t \in ClientRec
  BY <1>1, <1>2, <1>10 DEF ClientRec
<1>12. /\ Kept(s, t) /\ ~t.handshake /\ t.pipeline = s.pipeline
       /\ t.closes = s.closes /\ t.down = <<>> /\ t.up = up /\ ~t.idle
       /\ t.enabled /\ t.broken = {} /\ ~t.backoff
       /\ t.stream = "Open" /\ t.tokens = {} /\ t.bearer = u
  BY <1>1, <1>10 DEF ClientRec, Kept
<1>13. Queue(t) = Queue(s) /\ RisingQueues(t) /\ IsOpen(t)
  BY <1>1, <1>12 DEF Sound, Kept, Queue, RisingQueues, IsOpen
<1>14. Wires(t)
  BY <1>1, <1>2, <1>12 DEF Wires, Shaking, IsOpen
<1>15. Rests(t)
  BY <1>1, <1>11, <1>12, <1>13, <1>14 DEF Rests, Settled, Sound, Fits, Filled
<1> QED BY <1>12, <1>13, <1>15 DEF t

\* A client that starts with what was persisted.
Restarted(s, u) == FillWritePipeline(Client(u, s.queues))

LEMMA FreshRests ==
  ASSUME NEW s \in ClientRec, RisingQueues(s), NEW u \in Users
  PROVE  LET t == Restarted(s, u)
         IN  /\ Rests(t) /\ ~IsOpen(t) /\ t.down = <<>> /\ ~t.handshake
             /\ t.closes = 0 /\ t.user = u /\ t.queues = s.queues
             /\ t.called = {}
             /\ t.tokens = IF t.stream = "Starting" THEN {0} ELSE {}
<1> DEFINE c == Client(u, s.queues)
           t == Restarted(s, u)
<1>1. /\ <<>> \in Seq(Message) /\ <<>> \in Seq(Writes)
      /\ s.queues \in [Users -> Seq(Writes)]
  BY DEF ClientRec
<1>2. c \in ClientRec
  BY <1>1 DEF Client, ClientRec
<1>3. /\ c.stream = "Initial" /\ c.closes = 0 /\ c.tokens = {} /\ ~c.backoff
      /\ ~c.idle /\ c.up = <<>> /\ c.down = <<>> /\ c.broken = {}
      /\ ~c.handshake /\ c.enabled /\ c.pipeline = <<>>
      /\ c.user = u /\ c.queues = s.queues /\ c.called = {}
  BY DEF Client
<1> HIDE DEF c
<1>4. Closed(c)
  BY <1>2, <1>3 DEF Closed, RisingQueues, IsStarted
<1>5. Fits(c)
  <2>1. Queue(c) \in Seq(Writes) /\ MaxPending \in Nat
    BY <1>2, QueueType, RemoteWriteAssumption
  <2> QED BY <1>3, <2>1 DEF Fits, Begins
<1>6. /\ Settled(t) /\ Kept(c, t) /\ ~IsOpen(t)
      /\ t.closes = c.closes /\ t.down = <<>>
      /\ t.tokens = (IF t.stream = "Starting" THEN {t.closes} ELSE {})
      /\ t.handshake = c.handshake
  <2>1. t = FillWritePipeline(c)
    BY DEF Restarted, c
  <2> QED BY <2>1, <1>4, <1>5, ClosedFills
<1> QED BY <1>3, <1>6 DEF Rests, Kept, t, c

-----------------------------------------------------------------------------
(* What a step of the worker does to everything else.  A step takes n of the *)
(* operations that are queued for the worker, none or one.                   *)

Leaves(ops, n) ==
  /\ n \in {0, 1} /\ n <= Len(worker)
  /\ ops \in Seq(Operation) /\ Len(ops) = Len(worker) - n
  /\ \A i \in 1..Len(ops) : ops[i] = worker[i + n]

LEMMA LeavesSome ==
  ASSUME Types
  PROVE  /\ Leaves(worker, 0)
         /\ worker # <<>> =>
              /\ Leaves(Tail(worker), 1) /\ Head(worker) = worker[1]
              /\ 1 \in DOMAIN worker /\ Head(worker) \in Operation
<1>1. worker \in Seq(Operation) /\ Len(worker) \in Nat
  BY DEF Types
<1>2. Leaves(worker, 0)
  BY <1>1 DEF Leaves
<1>3. ASSUME worker # <<>>
      PROVE  /\ Leaves(Tail(worker), 1) /\ Head(worker) = worker[1]
             /\ 1 \in DOMAIN worker /\ Head(worker) \in Operation
  <2>1. /\ Tail(worker) \in Seq(Operation) /\ Len(Tail(worker)) = Len(worker) - 1
        /\ \A i \in 1..Len(Tail(worker)) : Tail(worker)[i] = worker[i + 1]
        /\ Len(worker) >= 1 /\ Head(worker) = worker[1] /\ Head(worker) \in Operation
        /\ 1 \in DOMAIN worker
    BY <1>1, <1>3, HeadTailProperties
  <2> QED BY <2>1 DEF Leaves
<1> QED BY <1>2, <1>3

\* Whose queue is served after the step,
Serves(s, n) ==
  s.user = IF n = 1 /\ worker[1].op = "User" THEN worker[1].user ELSE client.user

\* and what becomes of the stream and of its token.
Moves(s, n) ==
  /\ s.closes >= client.closes
  /\ s.tokens = IF /\ s.stream = "Starting"
                   /\ client.stream # "Starting" \/ s.closes # client.closes
                THEN {s.closes} ELSE {}
  /\ client.stream = "Starting" /\ s.stream # "Starting" /\ s.closes = client.closes
       => n = 1 /\ OnWorker(1)
  /\ n = 1 /\ OnWorker(1) => s.stream # "Starting" \/ s.closes # client.closes
  /\ n = 1 /\ worker[1].op = "User" /\ IsStarted(client) => s.closes # client.closes

\* The state of the credentials after the step.
LEMMA WorksOn ==
  ASSUME Types, NEW s \in ClientRec, Works(s)
  PROVE  /\ client' \in ClientRec /\ client'.closes = s.closes
         /\ client'.stream = s.stream /\ client'.user = s.user
         /\ client'.bearer = s.bearer /\ client'.down = s.down
         /\ client'.handshake = s.handshake /\ client'.pipeline = s.pipeline
         /\ client'.queues = s.queues /\ client'.tokens = {}
         /\ client'.called = {}
         /\ auth'.main = auth.main /\ auth'.counter = auth.counter
         /\ auth'.user = auth.user
         /\ auth'.asked = auth.asked \cup
              {[attempt |-> c, counter |-> auth.counter, token |-> {}] : c \in s.tokens}
         /\ auth' \in AuthRec
<1>1. /\ client' \in ClientRec /\ client'.closes = s.closes
      /\ client'.stream = s.stream /\ client'.user = s.user
      /\ client'.bearer = s.bearer /\ client'.down = s.down
      /\ client'.handshake = s.handshake /\ client'.pipeline = s.pipeline
      /\ client'.queues = s.queues /\ client'.tokens = {}
      /\ client'.called = {}
  BY DEF Works, ClientRec
<1> DEFINE new == {[attempt |-> c, counter |-> auth.counter, token |-> {}] : c \in s.tokens}
<1>2. new \subseteq Request
  <2>1. s.tokens \subseteq Nat /\ auth.counter \in Nat /\ {} \in Token
    BY DEF Types, AuthRec, ClientRec, Token
  <2> QED BY <2>1 DEF Request
<1>3. auth' = [auth EXCEPT !.asked = auth.asked \cup new]
  BY DEF Works
<1> HIDE DEF new
<1>4. /\ auth'.main = auth.main /\ auth'.counter = auth.counter
      /\ auth'.user = auth.user /\ auth'.asked = auth.asked \cup new
      /\ auth' \in AuthRec
  BY <1>2, <1>3 DEF Types, AuthRec
<1> QED BY <1>1, <1>4 DEF new

LEMMA TokenMoves ==
  ASSUME Types, TokenOnItsWay, NEW s \in ClientRec, Works(s),
         NEW n, Leaves(worker', n), Moves(s, n)
  PROVE  TokenOnItsWay'
<1> DEFINE new == {[attempt |-> c, counter |-> auth.counter, token |-> {}] : c \in s.tokens}
<1>1. /\ client'.closes = s.closes /\ client'.stream = s.stream
      /\ auth'.main = auth.main /\ auth'.asked = auth.asked \cup new
      /\ client.closes \in Nat /\ s.closes \in Nat /\ s.closes >= client.closes
      /\ auth.asked \subseteq Request /\ auth.main \in Seq([type : {"Changed"}, user : Users]
              \cup [type : {"Token"}, request : Request])
      /\ worker \in Seq(Operation)
  BY WorksOn DEF Types, ClientRec, AuthRec, Moves
<1>2. /\ n \in {0, 1} /\ n <= Len(worker) /\ Len(worker) \in Nat
      /\ worker' \in Seq(Operation) /\ Len(worker') = Len(worker) - n
      /\ \A i \in 1..Len(worker') : worker'[i] = worker[i + n]
      /\ DOMAIN worker = 1..Len(worker) /\ DOMAIN worker' = 1..Len(worker')
  BY <1>1 DEF Leaves
<1>3. \A i \in DOMAIN worker' : i + n \in DOMAIN worker /\ worker'[i] = worker[i + n]
  <2>1. PICK a \in Nat : a = Len(worker)
    BY <1>2
  <2>2. ASSUME NEW i \in 1..(a - n)
        PROVE  i + n \in 1..a
    BY <1>2, <2>1
  <2> QED BY <1>2, <2>1, <2>2
<1>4. /\ \A r \in auth.asked : r.attempt \in Nat /\ r.attempt <= client.closes
      /\ \A i \in DOMAIN auth.main : auth.main[i].type = "Token" =>
           /\ auth.main[i].request.attempt \in Nat
           /\ auth.main[i].request.attempt <= client.closes
      /\ \A i \in DOMAIN worker : worker[i].op = "Credentials" =>
           worker[i].attempt \in Nat /\ worker[i].attempt <= client.closes
  <2>1. \A r \in auth.asked : r.attempt \in Nat
    BY <1>1 DEF Request
  <2>2. \A i \in DOMAIN auth.main : auth.main[i].type = "Token" =>
           auth.main[i].request.attempt \in Nat
    <3>1. \A i \in DOMAIN auth.main :
            auth.main[i] \in [type : {"Changed"}, user : Users]
              \cup [type : {"Token"}, request : Request]
      BY <1>1
    <3> QED BY <3>1 DEF Request
  <2>3. \A i \in DOMAIN worker : worker[i].op = "Credentials" => worker[i].attempt \in Nat
    <3>1. \A i \in DOMAIN worker : worker[i] \in Operation
      BY <1>1
    <3> QED BY <3>1 DEF Operation
  <2> QED BY <2>1, <2>2, <2>3 DEF TokenOnItsWay
<1>5. s.tokens = {} \/ s.tokens = {s.closes}
  BY DEF Moves
<1>6. \A r \in new : r.attempt = s.closes
  BY <1>5
<1> HIDE DEF new
<1>7. /\ \A r \in auth'.asked : r.attempt <= client'.closes
      /\ \A i \in DOMAIN auth'.main : auth'.main[i].type = "Token" =>
           auth'.main[i].request.attempt <= client'.closes
      /\ \A i \in DOMAIN worker' : worker'[i].op = "Credentials" =>
           worker'[i].attempt <= client'.closes
  <2>1. \A r \in auth'.asked : r.attempt <= client'.closes
    BY <1>1, <1>4, <1>6
  <2>2. \A i \in DOMAIN auth'.main : auth'.main[i].type = "Token" =>
           auth'.main[i].request.attempt <= client'.closes
    BY <1>1, <1>4
  <2>3. \A i \in DOMAIN worker' : worker'[i].op = "Credentials" =>
           worker'[i].attempt <= client'.closes
    BY <1>1, <1>3, <1>4
  <2> QED BY <2>1, <2>2, <2>3
\* Behind a close nothing old counts any more.
<1>8. CASE s.closes # client.closes
  <2>1. /\ \A r \in auth.asked : ~Asked(r)'
        /\ \A i \in DOMAIN auth'.main : ~OnMain(i)'
        /\ \A i \in DOMAIN worker' : ~OnWorker(i)'
    BY <1>8, <1>1, <1>3, <1>4 DEF Asked, OnMain, OnWorker
  <2>2. CASE s.stream = "Starting"
    <3>1. s.tokens = {s.closes}
      BY <1>8, <2>2 DEF Moves
    <3>2. PICK r : new = {r} /\ r.attempt = s.closes
      <4> DEFINE x == [attempt |-> s.closes, counter |-> auth.counter, token |-> {}]
      <4>1. new = {x} /\ x.attempt = s.closes
        BY <3>1 DEF new
      <4> HIDE DEF x
      <4> QED BY <4>1
    <3>3. Asked(r)'
      BY <3>2, <1>1 DEF Asked
    <3>4. \A q \in auth'.asked : Asked(q)' => q = r
      BY <3>2, <1>1, <2>1
    <3>5. r \in auth'.asked
      BY <3>2, <1>1
    <3> QED BY <1>7, <2>1, <2>2, <3>3, <3>4, <3>5, <1>1 DEF TokenOnItsWay
  <2>3. CASE s.stream # "Starting"
    <3>1. s.tokens = {}
      BY <2>3 DEF Moves
    <3>2. new = {}
      BY <3>1 DEF new
    <3>3. Nowhere'
      BY <3>2, <1>1, <2>1 DEF Nowhere
    <3> QED BY <1>7, <2>3, <3>3, <1>1 DEF TokenOnItsWay
  <2> QED BY <2>2, <2>3
<1>9. CASE s.closes = client.closes
  <2>1. /\ \A r : Asked(r)' <=> r \in auth.asked \cup new /\ r.attempt = client.closes
        /\ \A r \in auth.asked : Asked(r)' <=> Asked(r)
        /\ \A i : OnMain(i)' <=> OnMain(i)
        /\ \A i \in DOMAIN worker' : OnWorker(i)' <=> OnWorker(i + n)
    BY <1>9, <1>1, <1>3 DEF Asked, OnMain, OnWorker
  <2>2. CASE client.stream # "Starting"
    <3>1. Nowhere
      BY <2>2 DEF TokenOnItsWay
    <3>2. /\ \A r \in auth.asked : ~Asked(r)'
          /\ \A i \in DOMAIN auth'.main : ~OnMain(i)'
          /\ \A i \in DOMAIN worker' : ~OnWorker(i)'
      BY <3>1, <2>1, <1>1, <1>3 DEF Nowhere
    <3>3. CASE s.stream = "Starting"
      <4>1. s.tokens = {s.closes}
        BY <2>2, <3>3 DEF Moves
      <4>2. PICK r : new = {r} /\ r.attempt = s.closes
        <5> DEFINE x == [attempt |-> s.closes, counter |-> auth.counter, token |-> {}]
        <5>1. new = {x} /\ x.attempt = s.closes
          BY <4>1 DEF new
        <5> HIDE DEF x
        <5> QED BY <5>1
      <4>3. Asked(r)' /\ r \in auth'.asked
        BY <4>2, <1>1 DEF Asked
      <4>4. \A q \in auth'.asked : Asked(q)' => q = r
        BY <4>2, <1>1, <3>2
      <4> QED BY <1>7, <3>2, <3>3, <4>3, <4>4, <1>1 DEF TokenOnItsWay
    <3>4. CASE s.stream # "Starting"
      <4>1. new = {}
        BY <3>4 DEF Moves, new
      <4>2. Nowhere'
        BY <4>1, <1>1, <3>2 DEF Nowhere
      <4> QED BY <1>7, <3>4, <4>2, <1>1 DEF TokenOnItsWay
    <3> QED BY <3>3, <3>4
  <2>3. CASE client.stream = "Starting" /\ s.stream = "Starting"
    <3>1. new = {} /\ ~(n = 1 /\ OnWorker(1))
      BY <1>9, <2>3 DEF Moves, new
    <3>2. auth'.asked = auth.asked /\ \A r \in auth.asked : Asked(r)' <=> Asked(r)
      BY <3>1, <1>1, <2>1
    <3>3. CASE \E i \in DOMAIN worker :
                 OnWorker(i) /\ \A j \in DOMAIN worker : OnWorker(j) => j = i
      <4>1. PICK i \in DOMAIN worker :
                 OnWorker(i) /\ \A j \in DOMAIN worker : OnWorker(j) => j = i
        BY <3>3
      <4>2. /\ \A r \in auth.asked : ~Asked(r)
            /\ \A k \in DOMAIN auth.main : ~OnMain(k)
        BY <2>3, <4>1 DEF TokenOnItsWay
      <4>3. i - n \in DOMAIN worker' /\ i - n + n = i
        BY <1>2, <3>1, <4>1
      <4>4. OnWorker(i - n)'
        BY <2>1, <4>1, <4>3
      <4>5. \A j \in DOMAIN worker' : OnWorker(j)' => j = i - n
        BY <1>2, <1>3, <2>1, <4>1
      <4> QED BY <1>1, <1>7, <2>1, <2>3, <3>2, <4>2, <4>3, <4>4, <4>5 DEF TokenOnItsWay
    <3>4. CASE \A i \in DOMAIN worker : ~OnWorker(i)
      <4>1. \A i \in DOMAIN worker' : ~OnWorker(i)'
        BY <3>4, <2>1, <1>3
      <4>2. \/ /\ \E r \in auth.asked : Asked(r) /\ \A q \in auth.asked : Asked(q) => q = r
               /\ \A i \in DOMAIN auth.main : ~OnMain(i)
            \/ /\ \E i \in DOMAIN auth.main :
                    OnMain(i) /\ \A j \in DOMAIN auth.main : OnMain(j) => j = i
               /\ \A r \in auth.asked : ~Asked(r)
        BY <3>4, <2>3 DEF TokenOnItsWay
      <4> QED BY <1>1, <1>7, <2>1, <2>3, <3>2, <4>1, <4>2 DEF TokenOnItsWay
    <3> QED BY <2>3, <3>3, <3>4 DEF TokenOnItsWay
  <2>4. CASE client.stream = "Starting" /\ s.stream # "Starting"
    <3>1. new = {} /\ n = 1 /\ OnWorker(1)
      BY <1>9, <2>4 DEF Moves, new
    <3>2. 1 \in DOMAIN worker
      BY <3>1 DEF OnWorker
    <3>3. /\ \A j \in DOMAIN worker : OnWorker(j) => j = 1
          /\ \A r \in auth.asked : ~Asked(r)
          /\ \A k \in DOMAIN auth.main : ~OnMain(k)
      BY <2>4, <3>1, <3>2 DEF TokenOnItsWay
    <3>4. \A j \in DOMAIN worker' : ~OnWorker(j)'
      BY <1>2, <1>3, <2>1, <3>1, <3>3
    <3>5. Nowhere'
      BY <1>1, <2>1, <3>1, <3>3, <3>4 DEF Nowhere
    <3> QED BY <1>1, <1>7, <2>4, <3>5 DEF TokenOnItsWay
  <2> QED BY <2>2, <2>3, <2>4
<1> QED BY <1>8, <1>9

LEMMA ServesStill ==
  ASSUME Types, NEW s \in ClientRec, Works(s),
         NEW n, Leaves(worker', n), Serves(s, n), NEW u, WillServe(u)
  PROVE  WillServe(u)'
<1>1. client'.user = s.user
  BY WorksOn
<1>2. PICK a \in Nat : a = Len(worker)
  BY DEF Types
<1>3. /\ n \in {0, 1} /\ n <= a /\ DOMAIN worker = 1..a /\ DOMAIN worker' = 1..(a - n)
      /\ \A i \in 1..(a - n) : i + n \in 1..a /\ worker'[i] = worker[i + n]
  <2>1. \A i \in 1..(a - n) : i + n \in 1..a
    BY <1>2 DEF Leaves
  <2> QED BY <1>2, <2>1 DEF Leaves, Types
<1>4. CASE u = client.user /\ \A i \in DOMAIN worker : worker[i].op # "User"
  <2>1. s.user = client.user
    <3>1. n = 1 => 1 \in DOMAIN worker
      BY <1>3
    <3> QED BY <1>4, <3>1 DEF Serves
  <2>2. \A i \in DOMAIN worker' : worker'[i].op # "User"
    BY <1>3, <1>4
  <2> QED BY <1>1, <1>4, <2>1, <2>2 DEF WillServe
<1>5. ASSUME NEW i \in DOMAIN worker,
             worker[i].op = "User", worker[i].user = u,
             \A j \in DOMAIN worker : worker[j].op = "User" => j <= i
      PROVE  WillServe(u)'
  <2>1. CASE n = 1 /\ i = 1
    <3>1. client'.user = u
      BY <1>1, <1>5, <2>1 DEF Serves
    <3>2. \A j \in DOMAIN worker' : worker'[j].op # "User"
      BY <1>3, <1>5, <2>1
    <3> QED BY <3>1, <3>2 DEF WillServe
  <2>2. CASE ~(n = 1 /\ i = 1)
    <3> DEFINE k == i - n
    <3>1. k \in DOMAIN worker' /\ worker'[k] = worker[i]
      <4>1. k \in 1..(a - n) /\ k + n = i
        BY <1>3, <2>2
      <4> QED BY <1>3, <4>1
    <3>2. \A j \in DOMAIN worker' : worker'[j].op = "User" => j <= k
      <4>1. ASSUME NEW j \in 1..(a - n), worker'[j].op = "User"
            PROVE  j <= k
        <5>1. j + n \in 1..a /\ worker[j + n].op = "User"
          BY <4>1, <1>3
        <5>2. PICK m \in 1..a : m = j + n
          BY <5>1
        <5>3. m \in DOMAIN worker /\ worker[m].op = "User"
          BY <5>1, <5>2, <1>3
        <5>4. m <= i
          BY <5>3, <1>5
        <5> QED BY <4>1, <5>2, <5>4, <1>3
      <4> QED BY <4>1, <1>3
    <3> HIDE DEF k
    <3> QED BY <1>5, <3>1, <3>2 DEF WillServe
  <2> QED BY <2>1, <2>2
<1> QED BY <1>4, <1>5 DEF WillServe

LEMMA UserStaysKnown ==
  ASSUME Types, UserKnown, NEW s \in ClientRec, Works(s),
         NEW n, Leaves(worker', n), Serves(s, n)
  PROVE  UserKnown'
<1>1. PICK u : u = auth.user
  OBVIOUS
<1>2. auth'.main = auth.main /\ auth'.user = u
  BY <1>1, WorksOn
<1>3. \A i : Changed(i)' <=> Changed(i)
  BY <1>2 DEF Changed
<1>4. (\A i \in DOMAIN auth.main : ~Changed(i)) => WillServe(u)
  BY <1>1 DEF UserKnown
<1>5. WillServe(u) => WillServe(u)'
  BY ServesStill
<1> QED BY <1>1, <1>2, <1>3, <1>4, <1>5 DEF UserKnown

LEMMA TokensStillMatch ==
  ASSUME Types, TokenOnItsWay, TokensMatch, NEW s \in ClientRec, Works(s),
         NEW n, Leaves(worker', n), Serves(s, n), Moves(s, n)
  PROVE  TokensMatch'
<1> DEFINE new == {[attempt |-> c, counter |-> auth.counter, token |-> {}] : c \in s.tokens}
<1>1. /\ client'.closes = s.closes /\ client'.user = s.user
      /\ auth'.main = auth.main /\ auth'.counter = auth.counter
      /\ auth'.asked = auth.asked \cup new /\ auth.counter \in Nat
  BY WorksOn DEF Types, AuthRec
<1>2. \A r \in new : r.token = {} /\ r.counter <= auth.counter
  BY <1>1
<1> HIDE DEF new
<1>3. /\ \A i : Changed(i)' <=> Changed(i)
      /\ \A u : WillServe(u) => WillServe(u)'
  <2>1. \A i : Changed(i)' <=> Changed(i)
    BY <1>1 DEF Changed
  <2>2. ASSUME NEW u, WillServe(u)
        PROVE  WillServe(u)'
    BY <2>2, ServesStill
  <2> QED BY <2>1, <2>2
<1>4. \A r \in auth'.asked : r.counter <= auth'.counter
  BY <1>1, <1>2 DEF TokensMatch
<1>5. ASSUME NEW r \in auth'.asked, NEW u \in r.token, r.counter = auth'.counter
      PROVE  (\E i \in DOMAIN auth'.main : Changed(i)') \/ WillServe(u)'
  <2>1. r \in auth.asked
    BY <1>1, <1>2, <1>5
  <2>2. (\E i \in DOMAIN auth.main : Changed(i)) \/ WillServe(u)
    BY <1>1, <1>5, <2>1 DEF TokensMatch
  <2> QED BY <1>1, <1>3, <2>2
<1>6. ASSUME NEW k \in DOMAIN auth'.main, auth'.main[k].type = "Token"
      PROVE  /\ auth'.main[k].request.counter <= auth'.counter
             /\ \A u \in auth'.main[k].request.token :
                  auth'.main[k].request.counter = auth'.counter =>
                    (\E i \in 1..(k - 1) : Changed(i)') \/ WillServe(u)'
  BY <1>1, <1>3, <1>6 DEF TokensMatch
<1>7. ASSUME NEW k \in DOMAIN worker', NEW u \in Users,
             OnWorker(k)', worker'[k].token = {u}
      PROVE  (\E i \in 1..(k - 1) : worker'[i].op = "User") \/ u = client'.user
  <2>1. PICK a \in Nat : a = Len(worker)
    BY DEF Types
  <2>2. /\ n \in {0, 1} /\ n <= a /\ DOMAIN worker = 1..a /\ DOMAIN worker' = 1..(a - n)
        /\ \A i \in 1..(a - n) : i + n \in 1..a /\ worker'[i] = worker[i + n]
    <3>1. \A i \in 1..(a - n) : i + n \in 1..a
      BY <2>1 DEF Leaves
    <3> QED BY <2>1, <3>1 DEF Leaves, Types
  <2>3. PICK m \in DOMAIN worker :
          /\ m = k + n /\ m \in Nat /\ k \in Nat
          /\ worker[m].op = "Credentials" /\ worker[m].attempt = s.closes
          /\ worker[m].token = {u}
    <3>1. k + n \in DOMAIN worker /\ worker'[k] = worker[k + n] /\ k \in Nat
      BY <2>2
    <3>2. /\ worker'[k].op = "Credentials" /\ worker'[k].attempt = s.closes
          /\ worker'[k].token = {u}
      BY <1>1, <1>7 DEF OnWorker
    <3>3. k + n \in Nat
      BY <2>2, <3>1
    <3> QED BY <3>1, <3>2, <3>3
  <2>4. s.closes = client.closes
    <3>1. worker[m].attempt <= client.closes
      BY <2>3 DEF TokenOnItsWay
    <3> QED BY <2>3, <3>1 DEF Moves, Types, ClientRec
  <2>5. OnWorker(m)
    BY <2>3, <2>4 DEF OnWorker
  <2>6. client.stream = "Starting"
    BY <2>3, <2>5 DEF TokenOnItsWay, Nowhere
  <2>7. s.user = client.user /\ ~(n = 1 /\ worker[1].op = "User")
    BY <2>4, <2>6 DEF Moves, Serves, IsStarted
  <2>8. (\E i \in 1..(m - 1) : worker[i].op = "User") \/ u = client.user
    BY <1>7, <2>3, <2>5 DEF TokensMatch
  <2>9. ASSUME NEW i \in 1..(m - 1), worker[i].op = "User"
        PROVE  \E j \in 1..(k - 1) : worker'[j].op = "User"
    <3> DEFINE j == i - n
    <3>1. j \in 1..(k - 1) /\ j \in 1..(a - n) /\ j + n = i
      BY <2>2, <2>3, <2>7, <2>9
    <3> HIDE DEF j
    <3> QED BY <2>2, <2>9, <3>1
  <2> QED BY <1>1, <2>7, <2>8, <2>9
<1> QED BY <1>4, <1>5, <1>6, <1>7 DEF TokensMatch

\* A batch of a queue was in it before, or is the write that was queued.
QueuesGrow(s, n) ==
  \A u \in Users : \A k \in DOMAIN s.queues[u] :
    \/ \E j \in DOMAIN client.queues[u] : s.queues[u][k] = client.queues[u][j]
    \/ /\ n = 1 /\ 1 \in DOMAIN worker /\ worker[1].op = "Write"
       /\ s.queues[u][k] = worker[1].write

LEMMA WritesAreNumbers == Writes \subseteq Nat
BY RemoteWriteAssumption DEF Writes

LEMMA StaysNumbered ==
  ASSUME Types, Numbered, NEW s \in ClientRec, Works(s),
         NEW n, Leaves(worker', n), QueuesGrow(s, n),
         spent'.writes = spent.writes
  PROVE  Numbered'
<1>1. PICK a \in Nat : a = Len(worker)
  BY DEF Types
<1>2. /\ n \in {0, 1} /\ n <= a /\ DOMAIN worker = 1..a /\ DOMAIN worker' = 1..(a - n)
      /\ \A i \in 1..(a - n) : i + n \in 1..a /\ worker'[i] = worker[i + n]
  <2>1. \A i \in 1..(a - n) : i + n \in 1..a
    BY <1>1 DEF Leaves
  <2> QED BY <1>1, <2>1 DEF Leaves, Types
<1>3. /\ client'.queues = s.queues /\ spent.writes \in Nat
      /\ \A u \in Users : \A k \in DOMAIN client.queues[u] : client.queues[u][k] \in Nat
  <2>1. client'.queues = s.queues /\ spent.writes \in Nat
    BY WorksOn DEF Types
  <2>2. ASSUME NEW u \in Users, NEW k \in DOMAIN client.queues[u]
        PROVE  client.queues[u][k] \in Nat
    <3>1. client.queues[u] \in Seq(Writes)
      BY DEF Types, ClientRec
    <3>2. client.queues[u][k] \in Writes
      BY <3>1
    <3> QED BY <3>2, WritesAreNumbers
  <2> QED BY <2>1, <2>2
<1>4. ASSUME NEW i \in DOMAIN worker, worker[i].op = "Write"
      PROVE  worker[i].write \in Nat
  <2>1. worker[i] \in Operation
    BY DEF Types
  <2> QED BY <1>4, <2>1, WritesAreNumbers DEF Operation
<1>5. ASSUME NEW i \in DOMAIN worker', worker'[i].op = "Write"
      PROVE  /\ worker'[i].write <= spent.writes
             /\ \A j \in 1..(i - 1) :
                  worker'[j].op = "Write" => worker'[j].write < worker'[i].write
             /\ \A u \in Users : \A k \in DOMAIN s.queues[u] :
                  s.queues[u][k] < worker'[i].write
  <2>1. PICK m \in DOMAIN worker : m = i + n /\ worker'[i] = worker[m] /\ m \in Nat
    BY <1>2
  <2>2. /\ worker[m].op = "Write" /\ worker[m].write <= spent.writes
        /\ \A j \in 1..(m - 1) : worker[j].op = "Write" => worker[j].write < worker[m].write
        /\ \A u \in Users : \A k \in DOMAIN client.queues[u] :
             client.queues[u][k] < worker[m].write
    BY <1>5, <2>1 DEF Numbered
  <2>3. ASSUME NEW j \in 1..(i - 1), worker'[j].op = "Write"
        PROVE  worker'[j].write < worker'[i].write
    <3>1. PICK h \in DOMAIN worker : h = j + n /\ worker'[j] = worker[h]
      <4>1. j \in 1..(a - n)
        BY <1>2
      <4> QED BY <4>1, <1>2
    <3>2. h \in 1..(m - 1)
      BY <1>2, <2>1, <3>1
    <3> QED BY <2>1, <2>2, <2>3, <3>1, <3>2
  <2>4. ASSUME NEW u \in Users, NEW k \in DOMAIN s.queues[u]
        PROVE  s.queues[u][k] < worker'[i].write
    <3>1. n = 1 /\ worker[1].op = "Write" => worker[1].write < worker[m].write
      <4>1. n = 1 => 1 \in 1..(m - 1)
        BY <1>2, <2>1
      <4> QED BY <2>2, <4>1
    <3> QED BY <2>1, <2>2, <3>1 DEF QueuesGrow
  <2> QED BY <2>1, <2>2, <2>3, <2>4
<1>6. ASSUME NEW u \in Users, NEW k \in DOMAIN s.queues[u]
      PROVE  s.queues[u][k] <= spent.writes
  BY DEF QueuesGrow, Numbered
<1> QED BY <1>3, <1>5, <1>6 DEF Numbered

\* What is left of the responses, and what they are for.
GoesOn(s) ==
  \/ s.down = <<>>
  \/ /\ s.user = client.user
     /\ \E m \in {0, 1} :
          /\ m <= Len(client.down) /\ Len(s.down) = Len(client.down) - m
          /\ \A i \in 1..Len(s.down) : s.down[i] = client.down[i + m]
          /\ s.handshake =>
               /\ client.handshake
               /\ \A i \in 1..Len(s.pipeline) : i + m \in 1..Len(client.pipeline) =>
                    s.pipeline[i] = client.pipeline[i + m]

\* A refusal is for a batch of the pipeline.
LEMMA RefusedIsPending ==
  ASSUME NEW s, Sound(s), s.handshake, NEW i \in DOMAIN s.down,
         s.down[i].type = "Refused"
  PROVE  i \in 1..Len(s.pipeline)
<1>1. /\ s.down \in Seq(Message) /\ i \in 1..Len(s.down) /\ s.down # <<>>
      /\ s.pipeline \in Seq(Writes) /\ Len(s.pipeline) \in Nat /\ Len(s.down) \in Nat
  BY DEF Sound, ClientRec
<1>2. IsOpen(s)
  BY <1>1, NextResponse
<1>3. PICK n \in 0..Len(s.down) : Answers(s, n)
  BY <1>2 DEF Sound, Wires
<1>4. ASSUME i \in 1..n
      PROVE  FALSE
  <2>1. s.down[i] = WriteRequest(s.pipeline[i])
    BY <1>3, <1>4 DEF Answers
  <2> QED BY <2>1 DEF WriteRequest
<1>5. i = n + 1 /\ n < Len(s.pipeline)
  BY <1>1, <1>3, <1>4 DEF Answers
<1> QED BY <1>1, <1>3, <1>5

LEMMA AnswersStayTrue ==
  ASSUME Types, Sound(client), AnswersTrue, NEW s \in ClientRec, Works(s),
         Sound(s), GoesOn(s), UNCHANGED <<delivered, refused>>
  PROVE  AnswersTrue'
<1>1. /\ client'.down = s.down /\ client'.user = s.user
      /\ client'.handshake = s.handshake /\ client'.pipeline = s.pipeline
      /\ delivered' = delivered /\ refused' = refused
      /\ DOMAIN s.down = 1..Len(s.down) /\ Len(s.down) \in Nat
      /\ DOMAIN client.down = 1..Len(client.down) /\ Len(client.down) \in Nat
  <2>1. client.down \in Seq(Message) /\ s.down \in Seq(Message)
    BY DEF Types, ClientRec
  <2> QED BY <2>1, WorksOn
<1>2. CASE s.down = <<>>
  BY <1>1, <1>2 DEF AnswersTrue
<1>3. CASE s.down # <<>>
  <2>1. PICK m \in {0, 1} :
          /\ m <= Len(client.down) /\ Len(s.down) = Len(client.down) - m
          /\ \A i \in 1..Len(s.down) : s.down[i] = client.down[i + m]
          /\ s.handshake =>
               /\ client.handshake
               /\ \A i \in 1..Len(s.pipeline) : i + m \in 1..Len(client.pipeline) =>
                    s.pipeline[i] = client.pipeline[i + m]
    BY <1>3 DEF GoesOn
  <2>2. s.user = client.user
    BY <1>3 DEF GoesOn
  <2>3. ASSUME NEW i \in DOMAIN s.down
        PROVE  /\ s.down[i].type = "Write" => s.down[i].write \in Range(delivered[s.user])
               /\ s.down[i].type = "Refused" /\ s.handshake => s.pipeline[i] \in refused
    <3>1. PICK h \in DOMAIN client.down : h = i + m /\ s.down[i] = client.down[h]
      BY <1>1, <2>1
    <3>2. /\ client.down[h].type = "Write" =>
               client.down[h].write \in Range(delivered[client.user])
          /\ client.down[h].type = "Refused" /\ client.handshake =>
               client.pipeline[h] \in refused
      BY <3>1 DEF AnswersTrue
    <3>3. s.down[i].type = "Refused" /\ s.handshake =>
            /\ i \in 1..Len(s.pipeline) /\ h \in 1..Len(client.pipeline)
            /\ s.pipeline[i] = client.pipeline[h]
      <4>1. SUFFICES ASSUME s.down[i].type = "Refused", s.handshake
                     PROVE  /\ i \in 1..Len(s.pipeline) /\ h \in 1..Len(client.pipeline)
                            /\ s.pipeline[i] = client.pipeline[h]
        OBVIOUS
      <4>2. i \in 1..Len(s.pipeline)
        BY <4>1, RefusedIsPending
      <4>3. h \in 1..Len(client.pipeline)
        BY <4>1, <2>1, <3>1, RefusedIsPending
      <4> QED BY <2>1, <3>1, <4>1, <4>2, <4>3
    <3> QED BY <2>1, <2>2, <3>1, <3>2, <3>3
  <2> QED BY <1>1, <2>3 DEF AnswersTrue
<1> QED BY <1>2, <1>3

\* A completion is called for the batch that the next response is about.
CallsTrue(s) ==
  \A w \in Writes :
    /\ <<w, "ok">> \in s.called =>
         /\ client.down # <<>> /\ client.down[1].type = "Write"
         /\ client.down[1].write = w
    /\ <<w, "refused">> \in s.called =>
         /\ client.down # <<>> /\ client.down[1].type = "Refused"
         /\ client.handshake /\ client.pipeline[1] = w

LEMMA CompletionsStayTrue ==
  ASSUME Types, AnswersTrue, CompletionsTrue, NEW s \in ClientRec, Works(s),
         CallsTrue(s), UNCHANGED <<delivered, refused>>
  PROVE  CompletionsTrue'
<1>1. /\ told' = told \cup s.called /\ delivered' = delivered /\ refused' = refused
      /\ client.user \in Users /\ (client.down # <<>> => 1 \in DOMAIN client.down)
  <2>1. client.down \in Seq(Message) /\ client.user \in Users
    BY DEF Types, ClientRec
  <2> QED BY <2>1 DEF Works
<1>2. ASSUME NEW w \in Writes, <<w, "ok">> \in told'
      PROVE  \E u \in Users : w \in Range(delivered[u])
  <2>1. CASE <<w, "ok">> \in told
    BY <2>1 DEF CompletionsTrue
  <2>2. CASE <<w, "ok">> \in s.called
    BY <1>1, <2>2 DEF CallsTrue, AnswersTrue
  <2> QED BY <1>1, <1>2, <2>1, <2>2
<1>3. ASSUME NEW w \in Writes, <<w, "refused">> \in told'
      PROVE  w \in refused
  <2>1. CASE <<w, "refused">> \in told
    BY <2>1 DEF CompletionsTrue
  <2>2. CASE <<w, "refused">> \in s.called
    BY <1>1, <2>2 DEF CallsTrue, AnswersTrue
  <2> QED BY <1>1, <1>3, <2>1, <2>2
<1> QED BY <1>1, <1>2, <1>3 DEF CompletionsTrue

LEMMA TypesStay ==
  ASSUME Types, NEW s \in ClientRec, Works(s), NEW n, Leaves(worker', n),
         UNCHANGED <<delivered, refused>>,
         spent' \in [writes : Nat, signIns : Nat, faults : Nat, restarts : Nat]
  PROVE  Types'
<1>1. client' \in ClientRec /\ auth' \in AuthRec
  BY WorksOn
<1>2. worker' \in Seq(Operation)
  BY DEF Leaves
<1>3. told' \subseteq Writes \X {"ok", "refused"}
  BY DEF Types, ClientRec, Works
<1> QED BY <1>1, <1>2, <1>3 DEF Types

\* A step forgets what the handler has asked for and called.
Cleared(s) == [s EXCEPT !.called = {}, !.tokens = {}]

LEMMA ClearedRests ==
  ASSUME NEW s, Rests(s)
  PROVE  LET t == Cleared(s)
         IN  /\ Rests(t) /\ t.tokens = {} /\ t.called = {}
             /\ t.closes = s.closes /\ t.stream = s.stream /\ t.user = s.user
             /\ t.queues = s.queues /\ t.down = s.down
<1> DEFINE t == Cleared(s)
<1>1. s \in ClientRec
  BY DEF Rests, Settled, Sound
<1>2. t \in ClientRec
  BY <1>1 DEF ClientRec, Cleared
<1>3. /\ t.stream = s.stream /\ t.up = s.up
      /\ t.down = s.down /\ t.idle = s.idle
      /\ t.handshake = s.handshake /\ t.pipeline = s.pipeline
      /\ t.backoff = s.backoff /\ t.enabled = s.enabled /\ t.broken = s.broken
      /\ t.queues = s.queues /\ t.user = s.user /\ t.closes = s.closes
      /\ t.tokens = {} /\ t.called = {}
  BY <1>1 DEF ClientRec, Cleared
<1> HIDE DEF t
<1>4. Queue(t) = Queue(s) /\ RisingQueues(t) /\ Fits(t) /\ Filled(t)
  BY <1>3 DEF Rests, Settled, Sound, Queue, RisingQueues, Fits, Filled
<1>5. Sound(t)
  BY <1>2, <1>3, <1>4, SameStream DEF Rests, Settled
<1>6. Rests(t)
  BY <1>3, <1>4, <1>5 DEF Rests, Settled, IsOpen
<1> QED BY <1>3, <1>6 DEF t

LEMMA RestsOn ==
  ASSUME NEW s, Rests(s), Works(s)
  PROVE  Rests(client') /\ client'.tokens = {} /\ client'.called = {}
<1>1. client' = Cleared(s)
  BY DEF Works, Cleared
<1> QED BY <1>1, ClearedRests

-----------------------------------------------------------------------------
(* The steps of the worker *)

Handled(s, n) ==
  /\ Rests(s) /\ Serves(s, n) /\ Moves(s, n) /\ QueuesGrow(s, n)
  /\ GoesOn(s) /\ CallsTrue(s)
  /\ IsOpen(s) => s.bearer = s.user

LEMMA HandledKeeps ==
  ASSUME IInv, NEW s, NEW n, Handled(s, n), Works(s), Leaves(worker', n),
         UNCHANGED <<delivered, refused>>,
         spent' \in [writes : Nat, signIns : Nat, faults : Nat, restarts : Nat],
         spent'.writes = spent.writes
  PROVE  IInv'
<1>1. /\ Types /\ Numbered /\ AnswersTrue /\ TokenOnItsWay /\ UserKnown
      /\ TokensMatch /\ CompletionsTrue /\ Sound(client)
      /\ s \in ClientRec /\ Sound(s) /\ Rests(s)
  BY DEF IInv, Rests, Settled, Handled, Sound
<1>2. /\ Serves(s, n) /\ Moves(s, n) /\ QueuesGrow(s, n)
      /\ GoesOn(s) /\ CallsTrue(s)
  BY DEF Handled
<1>3. Types'
  BY <1>1, TypesStay
<1>4. Rests(client') /\ client'.tokens = {} /\ client'.called = {}
  BY <1>1, RestsOn
<1>5. Numbered' /\ AnswersTrue' /\ CompletionsTrue'
  BY <1>1, <1>2, StaysNumbered, AnswersStayTrue, CompletionsStayTrue
<1>6. TokenOnItsWay' /\ UserKnown' /\ TokensMatch'
  BY <1>1, <1>2, TokenMoves, UserStaysKnown, TokensStillMatch
<1>7. BearerServed'
  <2>1. client'.stream = s.stream /\ client'.bearer = s.bearer /\ client'.user = s.user
    BY <1>1, WorksOn
  <2> QED BY <2>1 DEF BearerServed, Handled, IsOpen
<1> QED BY <1>3, <1>4, <1>5, <1>6, <1>7 DEF IInv

\* A handler that serves the same user and whose operation, if there is one,
\* brings no token.
LEMMA AsksMoves ==
  ASSUME NEW s, AsksToken(client, s), s.user = client.user, NEW n,
         n = 1 => worker[1].op = "Write"
  PROVE  Moves(s, n) /\ Serves(s, n)
<1>1. n = 1 => ~OnWorker(1)
  BY DEF OnWorker
<1> QED BY <1>1 DEF AsksToken, Moves, Serves

\* A handler that closes the stream, or has found it closed, and calls nothing.
LEMMA ClosesHandled ==
  ASSUME IInv, NEW s, Rests(s), Kept(client, s), ~IsOpen(s), s.down = <<>>,
         AsksToken(client, s)
  PROVE  Handled(s, 0)
<1>1. s.user = client.user /\ s.queues = client.queues /\ s.called = {}
  BY DEF Kept, IInv
<1>2. Moves(s, 0) /\ Serves(s, 0)
  BY <1>1, AsksMoves
<1> QED BY <1>1, <1>2 DEF Handled, QueuesGrow, GoesOn, CallsTrue

LEMMA GoesOnSame ==
  ASSUME NEW s, s.user = client.user, s.down = client.down,
         s.handshake = client.handshake, Begins(client.pipeline, s.pipeline),
         client \in ClientRec
  PROVE  GoesOn(s)
<1>1. client.down \in Seq(Message) /\ client.pipeline \in Seq(Writes)
  BY DEF ClientRec
<1>2. Len(client.down) \in Nat /\ Len(client.down) - 0 = Len(client.down)
  BY <1>1
<1>3. \A i : i \in 1..Len(client.down) => i + 0 = i
  OBVIOUS
<1>4. \A i : i \in 1..Len(s.pipeline) => i + 0 = i
  OBVIOUS
<1> QED BY <1>1, <1>2, <1>3, <1>4 DEF GoesOn, Begins

LEMMA WriteHandled ==
  ASSUME IInv, 1 \in DOMAIN worker, worker[1].op = "Write"
  PROVE  Handled(WriteLocally(client, worker[1].write), 1)
<1> DEFINE w == worker[1].write
           s == WriteLocally(client, w)
<1>1. /\ Rests(client) /\ client \in ClientRec /\ client.tokens = {}
      /\ client.called = {} /\ client.user \in Users
      /\ client.queues \in [Users -> Seq(Writes)]
  BY DEF IInv, Types, ClientRec
<1>2. w \in Writes
  <2>1. worker[1] \in Operation
    BY DEF IInv, Types
  <2> QED BY <2>1 DEF Operation
<1>3. \A u \in Users : \A k \in DOMAIN client.queues[u] : client.queues[u][k] < w
  BY DEF IInv, Numbered
<1> HIDE DEF w
<1>4. /\ Rests(s) /\ AsksToken(client, s)
      /\ s.user = client.user /\ s.called = client.called
      /\ s.queues = [client.queues EXCEPT ![client.user] = Append(@, w)]
      /\ s.bearer = client.bearer /\ s.handshake = client.handshake
      /\ s.down = client.down /\ Begins(client.pipeline, s.pipeline)
      /\ IsOpen(s) <=> IsOpen(client)
  BY <1>1, <1>2, <1>3, WriteLocallyRests DEF Queue
<1> HIDE DEF s
<1>5. Moves(s, 1) /\ Serves(s, 1)
  BY <1>4, AsksMoves
<1>6. QueuesGrow(s, 1)
  <2>1. ASSUME NEW u \in Users, NEW k \in DOMAIN s.queues[u]
        PROVE  \/ \E j \in DOMAIN client.queues[u] : s.queues[u][k] = client.queues[u][j]
               \/ s.queues[u][k] = w
    <3> DEFINE q == client.queues[u]
    <3>1. q \in Seq(Writes)
      BY <1>1
    <3>2. CASE u = client.user
      <4>1. s.queues[u] = Append(q, w)
        BY <1>1, <1>4, <3>2
      <4>2. k \in 1..(Len(q) + 1) /\ DOMAIN q = 1..Len(q) /\ Len(q) \in Nat
        BY <2>1, <3>1, <4>1, <1>2, AppendProperties
      <4>3. k \in 1..Len(q) => s.queues[u][k] = q[k]
        BY <3>1, <4>1, <1>2, AppendProperties
      <4>4. k = Len(q) + 1 => s.queues[u][k] = w
        BY <3>1, <4>1, <1>2, AppendProperties
      <4> QED BY <4>2, <4>3, <4>4
    <3>3. CASE u # client.user
      <4>1. s.queues[u] = q
        BY <1>1, <1>4, <3>3
      <4> QED BY <4>1, <2>1
    <3> QED BY <3>2, <3>3
  <2> QED BY <2>1 DEF QueuesGrow, w
<1>7. GoesOn(s)
  BY <1>1, <1>4, GoesOnSame
<1>8. CallsTrue(s)
  BY <1>1, <1>4 DEF CallsTrue
<1>9. IsOpen(s) => s.bearer = s.user
  BY <1>4 DEF IInv, BearerServed
<1> QED BY <1>4, <1>5, <1>6, <1>7, <1>8, <1>9 DEF Handled, s, w

\* A restart of the network, perhaps for another user.
LEMMA RestartsFor ==
  ASSUME IInv, NEW u \in Users
  PROVE  LET c == [client EXCEPT !.user = u]
             s == RestartNetwork(c)
         IN  /\ Rests(s) /\ s.user = u /\ s.queues = client.queues /\ s.called = {}
             /\ ~IsOpen(s) /\ s.down = <<>>
             /\ s.closes >= client.closes
             /\ IsStarted(client) => s.closes # client.closes
             /\ s.tokens = IF s.stream = "Starting" THEN {s.closes} ELSE {}
<1> DEFINE c == [client EXCEPT !.user = u]
           s == RestartNetwork(c)
<1>1. /\ client \in ClientRec /\ client.enabled /\ client.broken = {}
      /\ client.tokens = {} /\ client.called = {} /\ RisingQueues(client)
      /\ client.backoff <=> client.stream = "Backoff"
      /\ Wires(client)
      /\ client.handshake => IsOpen(client)
      /\ client.closes \in Nat
  BY DEF IInv, Rests, Settled, Sound, ClientRec
<1>2. c \in ClientRec
  BY <1>1 DEF ClientRec
<1>3. /\ c.user = u /\ c.queues = client.queues /\ c.called = {} /\ c.tokens = {}
      /\ c.enabled /\ c.broken = {} /\ c.backoff = client.backoff
      /\ c.stream = client.stream /\ c.handshake = client.handshake
      /\ c.closes = client.closes /\ c.up = client.up /\ c.down = client.down
      /\ c.idle = client.idle /\ c.pipeline = client.pipeline
  BY <1>1 DEF ClientRec
<1> HIDE DEF c
<1>4. RisingQueues(c) /\ (IsOpen(c) <=> IsOpen(client)) /\ (IsStarted(c) <=> IsStarted(client))
  BY <1>1, <1>3 DEF RisingQueues, IsOpen, IsStarted
<1>5. Wires(c)
  <2>1. \A n \in 0..Len(c.down) : Answers(client, n) => Answers(c, n)
    BY <1>3 DEF Answers
  <2>2. Shaking(client) => Shaking(c)
    BY <1>3 DEF Shaking
  <2> QED BY <1>1, <1>3, <1>4, <2>1, <2>2 DEF Wires
<1>6. /\ Rests(s) /\ Kept(c, s) /\ ~IsOpen(s) /\ s.down = <<>>
      /\ s.closes = (IF IsStarted(c) THEN c.closes + 1 ELSE c.closes)
      /\ s.tokens = IF s.stream = "Starting" THEN {s.closes} ELSE {}
  BY <1>1, <1>2, <1>3, <1>4, <1>5, RestartNetworkRests
<1> QED BY <1>1, <1>3, <1>4, <1>6 DEF Kept, c

LEMMA UserHandled ==
  ASSUME IInv, 1 \in DOMAIN worker, worker[1].op = "User"
  PROVE  Handled(HandleCredentialChange(client, worker[1].user), 1)
<1> DEFINE u == worker[1].user
           s == HandleCredentialChange(client, u)
<1>1. u \in Users
  <2>1. worker[1] \in Operation
    BY DEF IInv, Types
  <2> QED BY <2>1 DEF Operation
<1>2. /\ Rests(s) /\ s.user = u /\ s.queues = client.queues /\ s.called = {}
      /\ ~IsOpen(s) /\ s.down = <<>>
      /\ s.closes >= client.closes
      /\ IsStarted(client) => s.closes # client.closes
      /\ s.tokens = IF s.stream = "Starting" THEN {s.closes} ELSE {}
  <2>1. s = RestartNetwork([client EXCEPT !.user = u])
    BY DEF HandleCredentialChange
  <2> HIDE DEF u, s
  <2> QED BY <2>1, <1>1, RestartsFor
<1> HIDE DEF s
<1>3. Moves(s, 1) /\ Serves(s, 1)
  <2>1. ~OnWorker(1)
    BY DEF OnWorker
  <2> QED BY <2>1, <1>2 DEF Moves, Serves, IsStarted
<1> QED BY <1>2, <1>3 DEF Handled, QueuesGrow, GoesOn, CallsTrue, s

LEMMA ConnectivityHandled ==
  ASSUME IInv
  PROVE  Handled(RestartNetwork(client), 0)
<1> DEFINE s == RestartNetwork(client)
<1>1. [client EXCEPT !.user = client.user] = client /\ client.user \in Users
  BY DEF IInv, Types, ClientRec
<1>2. /\ Rests(s) /\ s.user = client.user /\ s.queues = client.queues
      /\ s.called = {} /\ ~IsOpen(s) /\ s.down = <<>>
      /\ s.closes >= client.closes
      /\ IsStarted(client) => s.closes # client.closes
      /\ s.tokens = IF s.stream = "Starting" THEN {s.closes} ELSE {}
  <2>1. PICK u \in Users : u = client.user
    BY <1>1
  <2>2. [client EXCEPT !.user = u] = client
    BY <1>1, <2>1
  <2> HIDE DEF s
  <2>3. LET c == [client EXCEPT !.user = u]
            t == RestartNetwork(c)
        IN  /\ Rests(t) /\ t.user = u /\ t.queues = client.queues /\ t.called = {}
            /\ ~IsOpen(t) /\ t.down = <<>>
            /\ t.closes >= client.closes
            /\ IsStarted(client) => t.closes # client.closes
            /\ t.tokens = IF t.stream = "Starting" THEN {t.closes} ELSE {}
    BY RestartsFor
  <2> QED BY <2>1, <2>2, <2>3 DEF s
<1> HIDE DEF s
<1>3. Moves(s, 0) /\ Serves(s, 0)
  BY <1>2 DEF Moves, Serves, IsStarted
<1> QED BY <1>2, <1>3 DEF Handled, QueuesGrow, GoesOn, CallsTrue, s

\* The token is looked at: that of an attempt that was closed is dropped.
LEMMA CredentialsHandled ==
  ASSUME IInv, 1 \in DOMAIN worker, worker[1].op = "Credentials"
  PROVE  Handled(ResumeStart(client, worker[1].attempt, worker[1].token), 1)
<1> DEFINE a == worker[1].attempt
           s == ResumeStart(client, a, worker[1].token)
<1>1. /\ client \in ClientRec /\ Rests(client) /\ client.tokens = {}
      /\ client.called = {} /\ client.closes \in Nat
      /\ client.enabled /\ client.broken = {} /\ RisingQueues(client)
      /\ Fits(client) /\ Filled(client)
  BY DEF IInv, Rests, Settled, Sound, ClientRec
<1>2. /\ s.user = client.user => Serves(s, 1)
      /\ s.queues = client.queues => QueuesGrow(s, 1)
      /\ s.called = {} => CallsTrue(s)
  BY DEF Serves, QueuesGrow, CallsTrue
<1>3. CASE a # client.closes
  <2>1. s = client /\ ~OnWorker(1)
    BY <1>3 DEF ResumeStart, OnWorker
  <2>2. Moves(client, 1)
    BY <1>1, <1>3 DEF Moves, OnWorker
  <2>3. Begins(client.pipeline, client.pipeline)
    <3>1. client.pipeline \in Seq(Writes)
      BY <1>1, QueueType
    <3> QED BY <3>1 DEF Begins
  <2>4. GoesOn(client)
    BY <1>1, <2>3, GoesOnSame
  <2> QED BY <1>1, <1>2, <2>1, <2>2, <2>4 DEF Handled, IInv, BearerServed
<1>4. CASE a = client.closes
  <2>1. OnWorker(1)
    BY <1>4 DEF OnWorker
  <2>2. client.stream = "Starting"
    BY <2>1 DEF IInv, TokenOnItsWay, Nowhere
  <2>3. CASE worker[1].token = {}
    <3>1. s = Close(client, "transient")
      BY <1>4, <2>3 DEF ResumeStart
    <3>2. /\ Rests(s) /\ Kept(client, s) /\ ~IsOpen(s) /\ s.down = <<>>
          /\ s.closes = client.closes + 1
          /\ s.tokens = {} /\ s.stream # "Starting"
      <4>1. IsStarted(client)
        BY <2>2 DEF IsStarted
      <4> HIDE DEF s
      <4> QED BY <1>1, <3>1, <4>1, ErrorRests
    <3> HIDE DEF s
    <3>3. Moves(s, 1)
      BY <1>1, <2>1, <3>2 DEF Moves
    <3> QED BY <1>1, <1>2, <3>2, <3>3 DEF Handled, GoesOn, Kept, s
  <2>4. CASE worker[1].token # {}
    <3>1. PICK u \in Users : worker[1].token = {u}
      <4>1. worker[1] \in Operation
        BY DEF IInv, Types
      <4> QED BY <2>4, <4>1 DEF Operation, Token
    <3>2. u = client.user
      <4>1. (\E i \in 1..(1 - 1) : worker[i].op = "User") \/ u = client.user
        BY <2>1, <3>1 DEF IInv, TokensMatch
      <4> QED BY <4>1
    <3>3. s = ResumeStart(client, client.closes, {u})
      BY <1>4, <3>1
    <3>4. /\ Rests(s) /\ Kept(client, s) /\ IsOpen(s) /\ s.tokens = {}
          /\ s.closes = client.closes /\ s.down = <<>> /\ s.bearer = u
      <4>1. LET t == Opened(client, u)
            IN  /\ Rests(t) /\ Kept(client, t) /\ IsOpen(t) /\ t.tokens = {}
                /\ t.closes = client.closes /\ t.down = <<>> /\ ~t.handshake
                /\ t.bearer = u
        BY <1>1, <2>2, OpensRests
      <4> HIDE DEF s
      <4> QED BY <3>3, <4>1 DEF Opened
    <3> HIDE DEF s
    <3>5. Moves(s, 1)
      <4>1. s.stream # "Starting"
        BY <3>4 DEF IsOpen
      <4>2. worker[1].op # "User"
        BY DEF OnWorker
      <4> QED BY <1>1, <2>1, <3>4, <4>1, <4>2 DEF Moves
    <3> QED BY <1>1, <1>2, <3>2, <3>4, <3>5 DEF Handled, GoesOn, Kept, s
  <2> QED BY <2>3, <2>4
<1> QED BY <1>3, <1>4

\* The worker takes the next operation.
LEMMA RunWorkerKeeps ==
  ASSUME IInv, RunWorker
  PROVE  IInv'
<1>1. /\ worker # <<>> /\ worker' = Tail(worker)
      /\ delivered' = delivered /\ refused' = refused /\ spent' = spent
      /\ spent \in [writes : Nat, signIns : Nat, faults : Nat, restarts : Nat]
  BY DEF RunWorker, IInv, Types
<1>2. /\ Leaves(worker', 1) /\ Head(worker) = worker[1] /\ 1 \in DOMAIN worker
      /\ worker[1] \in Operation
  BY <1>1, LeavesSome DEF IInv
<1>3. CASE worker[1].op = "Write"
  <2>1. Works(WriteLocally(client, worker[1].write))
    BY <1>2, <1>3 DEF RunWorker
  <2>2. Handled(WriteLocally(client, worker[1].write), 1)
    BY <1>2, <1>3, WriteHandled
  <2> QED BY <1>1, <1>2, <2>1, <2>2, HandledKeeps
<1>4. CASE worker[1].op = "User"
  <2>1. Works(HandleCredentialChange(client, worker[1].user))
    BY <1>2, <1>4 DEF RunWorker
  <2>2. Handled(HandleCredentialChange(client, worker[1].user), 1)
    BY <1>2, <1>4, UserHandled
  <2> QED BY <1>1, <1>2, <2>1, <2>2, HandledKeeps
<1>5. CASE worker[1].op = "Credentials"
  <2>1. Works(ResumeStart(client, worker[1].attempt, worker[1].token))
    BY <1>2, <1>5 DEF RunWorker
  <2>2. Handled(ResumeStart(client, worker[1].attempt, worker[1].token), 1)
    BY <1>2, <1>5, CredentialsHandled
  <2> QED BY <1>1, <1>2, <2>1, <2>2, HandledKeeps
<1>6. worker[1].op \in {"Write", "User", "Credentials"}
  BY <1>2 DEF Operation
<1> QED BY <1>3, <1>4, <1>5, <1>6

LEMMA TailGrows ==
  ASSUME IInv, client.pipeline # <<>>,
         NEW s, s.queues = [client.queues EXCEPT ![client.user] = Tail(@)]
  PROVE  QueuesGrow(s, 0)
<1>1. /\ client.queues \in [Users -> Seq(Writes)] /\ client.user \in Users
      /\ client.pipeline \in Seq(Writes) /\ Fits(client)
  BY DEF IInv, Types, ClientRec, Rests, Settled, Sound
<1>2. client.queues[client.user] # <<>>
  BY <1>1 DEF Fits, Begins, Queue
<1>3. ASSUME NEW u \in Users, NEW k \in DOMAIN s.queues[u]
      PROVE  \E j \in DOMAIN client.queues[u] : s.queues[u][k] = client.queues[u][j]
  <2> DEFINE q == client.queues[u]
  <2>1. q \in Seq(Writes)
    BY <1>1
  <2>2. CASE u = client.user
    <3>1. s.queues[u] = Tail(q)
      BY <1>1, <2>2
    <3>2. /\ Tail(q) \in Seq(Writes) /\ Len(Tail(q)) = Len(q) - 1
          /\ \A i \in 1..Len(Tail(q)) : Tail(q)[i] = q[i + 1]
      BY <1>2, <2>1, <2>2, HeadTailProperties
    <3>3. k \in 1..Len(Tail(q)) /\ k + 1 \in DOMAIN q
      <4>1. PICK a \in Nat : a = Len(q)
        BY <2>1
      <4>2. k \in 1..(a - 1)
        <5>1. Len(Tail(q)) = a - 1 /\ DOMAIN Tail(q) = 1..Len(Tail(q))
          BY <3>2, <4>1
        <5>2. k \in DOMAIN Tail(q)
          BY <1>3, <3>1
        <5> QED BY <5>1, <5>2
      <4>3. k \in 1..Len(Tail(q)) /\ k + 1 \in 1..a
        BY <3>2, <4>1, <4>2
      <4> QED BY <2>1, <4>1, <4>3
    <3>4. s.queues[u][k] = q[k + 1]
      BY <3>1, <3>2, <3>3
    <3> QED BY <3>3, <3>4
  <2>3. CASE u # client.user
    <3>1. s.queues[u] = q
      BY <1>1, <2>3
    <3> QED BY <3>1, <1>3
  <2> QED BY <2>2, <2>3
<1> QED BY <1>3 DEF QueuesGrow

LEMMA ResultHandled ==
  ASSUME IInv, client.down # <<>>, client.down[1].type = "Write"
  PROVE  Handled(OnWriteStreamMutationResult(Read(client)), 0)
<1> DEFINE s == OnWriteStreamMutationResult(Read(client))
<1>1. /\ client \in ClientRec /\ Rests(client) /\ Sound(client) /\ client.tokens = {}
      /\ client.called = {} /\ client.down \in Seq(Message)
      /\ client.pipeline \in Seq(Writes)
  BY DEF IInv, Rests, Settled, Sound, ClientRec
<1>2. /\ IsOpen(client) /\ client.pipeline # <<>> /\ client.handshake
      /\ client.down[1] = WriteRequest(Head(client.pipeline))
  BY <1>1, NextResponse
<1>3. /\ Rests(s) /\ AsksToken(client, s)
      /\ s.user = client.user /\ s.down = Tail(client.down)
      /\ s.queues = [client.queues EXCEPT ![client.user] = Tail(@)]
      /\ s.called \in {{}, {<<Head(client.pipeline), "ok">>}}
      /\ s.bearer = client.bearer /\ s.handshake /\ IsOpen(s)
      /\ Begins(Tail(client.pipeline), s.pipeline)
  BY <1>1, ResultRests
<1> HIDE DEF s
<1>4. Moves(s, 0) /\ Serves(s, 0)
  BY <1>3, AsksMoves
<1>5. QueuesGrow(s, 0)
  BY <1>2, <1>3, TailGrows
<1>6. GoesOn(s)
  <2>1. /\ Tail(client.down) \in Seq(Message) /\ Len(client.down) \in Nat
        /\ Len(s.down) = Len(client.down) - 1 /\ 1 <= Len(client.down)
        /\ \A i \in 1..Len(s.down) : s.down[i] = client.down[i + 1]
    BY <1>1, <1>3, HeadTailProperties
  <2>2. /\ Len(Tail(client.pipeline)) = Len(client.pipeline) - 1
        /\ Len(client.pipeline) \in Nat
        /\ \A i \in 1..Len(Tail(client.pipeline)) :
             Tail(client.pipeline)[i] = client.pipeline[i + 1]
    BY <1>1, <1>2, HeadTailProperties
  <2>3. ASSUME NEW i \in 1..Len(s.pipeline), i + 1 \in 1..Len(client.pipeline)
        PROVE  s.pipeline[i] = client.pipeline[i + 1]
    <3>1. i \in 1..Len(Tail(client.pipeline))
      BY <2>2, <2>3
    <3> QED BY <1>3, <2>2, <3>1 DEF Begins
  <2> QED BY <1>2, <1>3, <2>1, <2>3 DEF GoesOn
<1>7. CallsTrue(s)
  <2>1. client.down[1].write = Head(client.pipeline)
    BY <1>2 DEF WriteRequest
  <2> QED BY <1>3, <2>1 DEF CallsTrue
<1> QED BY <1>2, <1>3, <1>4, <1>5, <1>6, <1>7 DEF Handled, IInv, BearerServed, s

LEMMA HandshakeHandled ==
  ASSUME IInv, client.down # <<>>, client.down[1].type = "Handshake"
  PROVE  Handled(OnWriteStreamHandshakeComplete(Read(client)), 0)
<1> DEFINE s == OnWriteStreamHandshakeComplete(Read(client))
<1>1. Rests(client) /\ Sound(client) /\ client.tokens = {} /\ client.called = {}
  BY DEF IInv, Rests, Settled
<1>2. /\ Rests(s) /\ AsksToken(client, s) /\ Kept(client, s)
      /\ s.down = <<>> /\ s.bearer = client.bearer /\ IsOpen(s)
  BY <1>1, HandshakeRests
<1> HIDE DEF s
<1>3. s.user = client.user /\ s.queues = client.queues /\ s.called = {}
  BY <1>1, <1>2 DEF Kept
<1>4. Moves(s, 0) /\ Serves(s, 0)
  BY <1>2, <1>3, AsksMoves
<1>5. IsOpen(client)
  BY <1>1, NextResponse
<1> QED BY <1>2, <1>3, <1>4, <1>5
        DEF Handled, QueuesGrow, GoesOn, CallsTrue, IInv, BearerServed, s

\* An error that is nobody's fault.
LEMMA ErrorHandled ==
  ASSUME IInv, NEW s \in ClientRec, Kept(client, s), IsStarted(s),
         s.stream = client.stream, s.closes = client.closes,
         s.tokens = {}, s.broken = {}, s.enabled, s.pipeline = client.pipeline,
         NEW status \in {"transient", "permanent"},
         status = "permanent" => ~s.handshake
  PROVE  Handled(Close(s, status), 0)
<1> DEFINE t == Close(s, status)
<1>1. /\ RisingQueues(client) /\ Fits(client) /\ Filled(client)
      /\ client.closes \in Nat
  BY DEF IInv, Rests, Settled, Sound, ClientRec
<1>2. RisingQueues(s) /\ Fits(s) /\ Filled(s)
  BY <1>1 DEF Kept, RisingQueues, Fits, Filled, Queue
<1>3. /\ Rests(t) /\ Kept(s, t) /\ ~IsOpen(t) /\ t.down = <<>>
      /\ t.closes = s.closes + 1
      /\ t.tokens = {} /\ t.stream # "Starting"
  BY <1>2, ErrorRests
<1> HIDE DEF t
<1>4. Kept(client, t) /\ AsksToken(client, t)
  BY <1>1, <1>3 DEF Kept, AsksToken
<1> QED BY <1>3, <1>4, ClosesHandled DEF t

LEMMA RefusalHandled ==
  ASSUME IInv, client.down # <<>>, client.down[1].type = "Refused"
  PROVE  Handled(Close(Read(client), "permanent"), 0)
<1> DEFINE s == Read(client)
           t == Close(s, "permanent")
<1>1. /\ client \in ClientRec /\ Rests(client) /\ Sound(client) /\ client.tokens = {}
      /\ client.called = {} /\ client.broken = {} /\ client.enabled
      /\ client.pipeline \in Seq(Writes)
  BY DEF IInv, Rests, Settled, Sound, ClientRec
<1>2. IsOpen(client) /\ client.pipeline # <<>>
  BY <1>1, NextResponse
<1>3. CASE client.handshake
  <2>1. /\ Rests(t) /\ AsksToken(client, t) /\ ~IsOpen(t)
        /\ t.user = client.user /\ t.down = <<>>
        /\ t.queues = [client.queues EXCEPT ![client.user] = Tail(@)]
        /\ t.called \in {{}, {<<Head(client.pipeline), "refused">>}}
    BY <1>1, <1>3, RefusedRests
  <2> HIDE DEF t
  <2>2. Moves(t, 0) /\ Serves(t, 0)
    BY <2>1, AsksMoves
  <2>3. QueuesGrow(t, 0)
    BY <1>2, <2>1, TailGrows
  <2>4. CallsTrue(t)
    <3>1. Head(client.pipeline) = client.pipeline[1]
      BY <1>1, <1>2
    <3> QED BY <1>3, <2>1, <3>1 DEF CallsTrue
  <2> QED BY <2>1, <2>2, <2>3, <2>4 DEF Handled, GoesOn, t
<1>4. CASE ~client.handshake
  <2>1. /\ s \in ClientRec /\ Kept(client, s)
        /\ s.stream = client.stream /\ s.closes = client.closes
        /\ s.tokens = client.tokens /\ s.broken = client.broken
        /\ s.pipeline = client.pipeline /\ s.handshake = client.handshake
        /\ s.enabled = client.enabled
    BY <1>1, ReadIs
  <2> HIDE DEF s
  <2>2. IsStarted(s)
    BY <1>2, <2>1 DEF IsOpen, IsStarted
  <2> QED BY <1>1, <1>4, <2>1, <2>2, ErrorHandled DEF s
<1> QED BY <1>3, <1>4

LEMMA StreamReadKeeps ==
  ASSUME IInv, StreamRead
  PROVE  IInv'
<1>1. /\ client.down # <<>> /\ worker' = worker
      /\ delivered' = delivered /\ refused' = refused /\ spent' = spent
      /\ spent \in [writes : Nat, signIns : Nat, faults : Nat, restarts : Nat]
  BY DEF StreamRead, IInv, Types
<1>2. Leaves(worker', 0)
  BY <1>1, LeavesSome DEF IInv
<1>3. /\ Head(client.down) = client.down[1]
      /\ client.down[1].type \in {"Handshake", "Write", "Refused"}
  BY <1>1, NextResponse DEF IInv, Rests, Settled
<1>4. CASE client.down[1].type = "Refused"
  <2>1. Works(Close(Read(client), "permanent"))
    BY <1>3, <1>4 DEF StreamRead, Read
  <2>2. Handled(Close(Read(client), "permanent"), 0)
    BY <1>1, <1>4, RefusalHandled
  <2> QED BY <1>1, <1>2, <2>1, <2>2, HandledKeeps
<1>5. CASE client.down[1].type = "Handshake"
  <2>1. Works(OnWriteStreamHandshakeComplete(Read(client)))
    BY <1>3, <1>5 DEF StreamRead, Read
  <2>2. Handled(OnWriteStreamHandshakeComplete(Read(client)), 0)
    BY <1>1, <1>5, HandshakeHandled
  <2> QED BY <1>1, <1>2, <2>1, <2>2, HandledKeeps
<1>6. CASE client.down[1].type = "Write"
  <2>1. Works(OnWriteStreamMutationResult(Read(client)))
    BY <1>3, <1>6 DEF StreamRead, Read
  <2>2. Handled(OnWriteStreamMutationResult(Read(client)), 0)
    BY <1>1, <1>6, ResultHandled
  <2> QED BY <1>1, <1>2, <2>1, <2>2, HandledKeeps
<1> QED BY <1>3, <1>4, <1>5, <1>6

LEMMA FaultCounts ==
  ASSUME Types, spent' = [spent EXCEPT !.faults = @ + 1]
  PROVE  /\ spent' \in [writes : Nat, signIns : Nat, faults : Nat, restarts : Nat]
         /\ spent'.writes = spent.writes
BY DEF Types

LEMMA StreamBreaksKeeps ==
  ASSUME IInv, StreamBreaks
  PROVE  IInv'
<1>1. /\ Works(Close(client, "transient")) /\ IsOpen(client) /\ worker' = worker
      /\ delivered' = delivered /\ refused' = refused
      /\ spent' \in [writes : Nat, signIns : Nat, faults : Nat, restarts : Nat]
      /\ spent'.writes = spent.writes
  BY FaultCounts DEF StreamBreaks, IInv
<1>2. Leaves(worker', 0)
  BY <1>1, LeavesSome DEF IInv
<1>3. Handled(Close(client, "transient"), 0)
  <2>1. /\ client \in ClientRec /\ Kept(client, client) /\ IsStarted(client)
        /\ client.tokens = {} /\ client.broken = {} /\ client.enabled
    BY <1>1 DEF IInv, Rests, Settled, Sound, Kept, IsStarted, IsOpen
  <2> QED BY <2>1, ErrorHandled
<1> QED BY <1>1, <1>2, <1>3, HandledKeeps

LEMMA TimerKeeps ==
  ASSUME IInv, BackoffElapses \/ IdleElapses
  PROVE  IInv'
<1>1. /\ worker' = worker
      /\ delivered' = delivered /\ refused' = refused /\ spent' = spent
      /\ spent \in [writes : Nat, signIns : Nat, faults : Nat, restarts : Nat]
  BY DEF BackoffElapses, IdleElapses, IInv, Types
<1>2. Leaves(worker', 0) /\ Rests(client) /\ client.tokens = {}
  BY <1>1, LeavesSome DEF IInv
<1>3. CASE BackoffElapses
  <2>1. Works(Resume(client)) /\ client.backoff
    BY <1>3 DEF BackoffElapses
  <2>2. Handled(Resume(client), 0)
    BY <1>2, <2>1, ResumeRests, ClosesHandled
  <2> QED BY <1>1, <1>2, <2>1, <2>2, HandledKeeps
<1>4. CASE IdleElapses
  <2>1. Works(Stop(client)) /\ client.idle
    BY <1>4 DEF IdleElapses
  <2>2. Handled(Stop(client), 0)
    BY <1>2, <2>1, StopRests, ClosesHandled
  <2> QED BY <1>1, <1>2, <2>1, <2>2, HandledKeeps
<1> QED BY <1>3, <1>4

LEMMA ConnectivityKeeps ==
  ASSUME IInv, ConnectivityChanges
  PROVE  IInv'
<1>1. /\ Works(RestartNetwork(client)) /\ worker' = worker
      /\ delivered' = delivered /\ refused' = refused
      /\ spent' \in [writes : Nat, signIns : Nat, faults : Nat, restarts : Nat]
      /\ spent'.writes = spent.writes
  BY FaultCounts DEF ConnectivityChanges, IInv
<1>2. Leaves(worker', 0)
  BY <1>1, LeavesSome DEF IInv
<1> QED BY <1>1, <1>2, ConnectivityHandled, HandledKeeps

-----------------------------------------------------------------------------
(* The other steps *)

LEMMA RestartKeeps ==
  ASSUME IInv, Restart
  PROVE  IInv'
<1> DEFINE u == auth.user
           s == Restarted(client, u)
           new == {[attempt |-> c, counter |-> 0, token |-> {}] : c \in s.tokens}
<1>1. /\ client \in ClientRec /\ RisingQueues(client) /\ u \in Users
      /\ client.queues \in [Users -> Seq(Writes)]
  BY DEF IInv, Types, Rests, Settled, Sound, AuthRec, ClientRec
<1>2. /\ Rests(s) /\ ~IsOpen(s) /\ s.down = <<>>
      /\ s.closes = 0 /\ s.user = u /\ s.queues = client.queues
      /\ s.called = {}
      /\ s.tokens = IF s.stream = "Starting" THEN {0} ELSE {}
  BY <1>1, FreshRests
<1>3. /\ client' = [s EXCEPT !.tokens = {}] /\ worker' = <<>>
      /\ auth' = [Auth(u) EXCEPT !.asked = new]
      /\ delivered' = delivered /\ refused' = refused /\ told' = told
      /\ spent' = [spent EXCEPT !.faults = @ + 1, !.restarts = @ + 1]
  BY DEF Restart, Restarted
<1> HIDE DEF s
<1>4. auth' = [user |-> u, counter |-> 0, asked |-> new, main |-> <<>>]
  BY <1>3 DEF Auth
<1>5. client' = Cleared(s)
  BY <1>2, <1>3 DEF Rests, Settled, Sound, ClientRec, Cleared
<1>6. /\ Rests(client') /\ client'.tokens = {} /\ client'.called = {}
      /\ client'.closes = 0 /\ client'.stream = s.stream /\ client'.user = u
      /\ client'.queues = client.queues /\ client'.down = <<>>
  BY <1>2, <1>5, ClearedRests
<1>7. /\ new \subseteq Request
      /\ new = IF s.stream = "Starting"
               THEN {[attempt |-> 0, counter |-> 0, token |-> {}]} ELSE {}
  BY <1>2 DEF Request, Token
<1> HIDE DEF new
<1>8. Types'
  <2>1. client' \in ClientRec
    BY <1>6 DEF Rests, Settled, Sound
  <2>2. auth' \in AuthRec
    BY <1>1, <1>4, <1>7 DEF AuthRec
  <2>3. worker' \in Seq(Operation)
    BY <1>3
  <2>4. spent' \in [writes : Nat, signIns : Nat, faults : Nat, restarts : Nat]
    <3>1. spent \in [writes : Nat, signIns : Nat, faults : Nat, restarts : Nat]
      BY DEF IInv, Types
    <3>2. spent' = [spent EXCEPT !.faults = spent.faults + 1,
                                 !.restarts = spent.restarts + 1]
      BY <1>3
    <3> DEFINE a == spent.faults + 1
               b == spent.restarts + 1
    <3>3. a \in Nat /\ b \in Nat
      BY <3>1
    <3> HIDE DEF a, b
    <3> QED BY <3>1, <3>2, <3>3 DEF a, b
  <2> QED BY <2>1, <2>2, <2>3, <2>4, <1>3 DEF IInv, Types
<1>9. Numbered'
  BY <1>3, <1>6 DEF IInv, Types, Numbered
<1>10. AnswersTrue'
  BY <1>6 DEF AnswersTrue
<1>11. TokenOnItsWay'
  <2>1. auth'.asked = new /\ auth'.main = <<>> /\ worker' = <<>>
    BY <1>3, <1>4
  <2>2. CASE s.stream = "Starting"
    <3>1. PICK r : new = {r} /\ r.attempt = 0
      <4> DEFINE x == [attempt |-> 0, counter |-> 0, token |-> {}]
      <4>1. new = {x} /\ x.attempt = 0
        BY <1>7, <2>2
      <4> HIDE DEF x
      <4> QED BY <4>1
    <3>2. Asked(r)' /\ r \in auth'.asked
      BY <1>6, <2>1, <3>1 DEF Asked
    <3> QED BY <1>6, <2>1, <2>2, <3>1, <3>2 DEF TokenOnItsWay
  <2>3. CASE s.stream # "Starting"
    <3>1. auth'.asked = {}
      BY <1>7, <2>1, <2>3
    <3> QED BY <1>6, <2>1, <2>3, <3>1 DEF TokenOnItsWay, Nowhere
  <2> QED BY <2>2, <2>3
<1>12. UserKnown'
  BY <1>3, <1>4, <1>6 DEF UserKnown, WillServe
<1>13. TokensMatch'
  <2>1. auth'.main = <<>> /\ auth'.asked = new /\ auth'.counter = 0
    BY <1>4
  <2>2. \A r \in new : r.token = {} /\ r.counter = 0
    BY <1>7
  <2> QED BY <1>3, <2>1, <2>2 DEF TokensMatch
<1>14. BearerServed'
  BY <1>2, <1>6 DEF BearerServed, IsOpen
<1>15. CompletionsTrue'
  BY <1>3 DEF IInv, CompletionsTrue
<1> QED BY <1>6, <1>8, <1>9, <1>10, <1>11, <1>12, <1>13, <1>14, <1>15 DEF IInv

LEMMA InitHolds ==
  ASSUME Init
  PROVE  IInv
<1>1. PICK u \in Users : /\ client = Client(u, [v \in Users |-> <<>>])
                         /\ auth = Auth(u)
  BY DEF Init
<1>2. /\ worker = <<>> /\ delivered = [v \in Users |-> <<>>] /\ refused = {}
      /\ told = {} /\ spent = [writes |-> 0, signIns |-> 0, faults |-> 0, restarts |-> 0]
  BY DEF Init
<1>3. /\ <<>> \in Seq(Message) /\ <<>> \in Seq(Writes)
      /\ [v \in Users |-> <<>>] \in [Users -> Seq(Writes)]
  OBVIOUS
<1>4. client \in ClientRec
  BY <1>1, <1>3 DEF Client, ClientRec
<1>5. /\ client.stream = "Initial" /\ client.closes = 0 /\ client.tokens = {} /\ ~client.backoff
      /\ ~client.idle /\ client.up = <<>> /\ client.down = <<>> /\ client.broken = {}
      /\ ~client.handshake /\ client.enabled /\ client.pipeline = <<>>
      /\ client.user = u /\ client.queues = [v \in Users |-> <<>>] /\ client.called = {}
  BY <1>1 DEF Client
<1>6. auth.user = u /\ auth.counter = 0 /\ auth.asked = {} /\ auth.main = <<>>
  BY <1>1 DEF Auth
<1>7. Types
  <2>1. auth \in AuthRec
    BY <1>1 DEF Auth, AuthRec
  <2> QED BY <1>2, <1>3, <1>4, <2>1 DEF Types
<1>8. Rests(client)
  <2>1. Queue(client) = <<>> /\ MaxPending \in Nat
    BY <1>5, RemoteWriteAssumption DEF Queue
  <2>2. RisingQueues(client) /\ Fits(client) /\ Filled(client)
    BY <1>5, <2>1 DEF RisingQueues, Rising, Fits, Begins, Filled
  <2>3. ~IsOpen(client) /\ Wires(client)
    BY <1>5 DEF IsOpen, Wires
  <2> QED BY <1>4, <1>5, <2>2, <2>3 DEF Rests, Settled, Sound
<1>9. Numbered /\ AnswersTrue /\ BearerServed /\ CompletionsTrue
  BY <1>2, <1>5, RemoteWriteAssumption
     DEF Numbered, AnswersTrue, BearerServed, IsOpen, CompletionsTrue
<1>10. TokenOnItsWay /\ UserKnown /\ TokensMatch
  BY <1>2, <1>5, <1>6 DEF TokenOnItsWay, Nowhere, UserKnown, WillServe, TokensMatch
<1> QED BY <1>5, <1>7, <1>8, <1>9, <1>10 DEF IInv

\* The steps that leave the client and the backend alone.
LEMMA ClientStands ==
  ASSUME IInv, UNCHANGED <<client, delivered, refused, told>>,
         auth' \in AuthRec, worker' \in Seq(Operation),
         spent' \in [writes : Nat, signIns : Nat, faults : Nat, restarts : Nat],
         Numbered', TokenOnItsWay', UserKnown', TokensMatch'
  PROVE  IInv'
<1>1. /\ Types' /\ AnswersTrue' /\ BearerServed' /\ CompletionsTrue'
  BY DEF IInv, Types, AnswersTrue, BearerServed, IsOpen, CompletionsTrue
<1> QED BY <1>1 DEF IInv

LEMMA NumberedStands ==
  ASSUME Numbered, UNCHANGED <<client, worker>>, spent'.writes = spent.writes
  PROVE  Numbered'
BY DEF Numbered

\* An element that is appended to a queue, and the first that is taken from it.
Longer1(r, q, e) ==
  /\ Len(q) \in Nat /\ DOMAIN q = 1..Len(q) /\ DOMAIN r = 1..(Len(q) + 1)
  /\ \A i \in 1..Len(q) : r[i] = q[i]
  /\ r[Len(q) + 1] = e

LEMMA AppendOf ==
  ASSUME NEW S, NEW q \in Seq(S), NEW e \in S
  PROVE  Append(q, e) \in Seq(S) /\ Longer1(Append(q, e), q, e)
<1>1. /\ Append(q, e) \in Seq(S) /\ Len(Append(q, e)) = Len(q) + 1
      /\ \A i \in 1..Len(q) : Append(q, e)[i] = q[i]
      /\ Append(q, e)[Len(q) + 1] = e
  BY AppendProperties
<1> QED BY <1>1 DEF Longer1

Event == [type : {"Changed"}, user : Users] \cup [type : {"Token"}, request : Request]

LEMMA AuthTypes ==
  ASSUME IInv
  PROVE  /\ auth.user \in Users /\ auth.counter \in Nat
         /\ auth.asked \subseteq Request /\ auth.main \in Seq(Event)
         /\ \A i \in DOMAIN auth.main : auth.main[i] \in Event
         /\ worker \in Seq(Operation)
         /\ spent \in [writes : Nat, signIns : Nat, faults : Nat, restarts : Nat]
         /\ client.user \in Users /\ client.closes \in Nat
<1>1. /\ auth.user \in Users /\ auth.counter \in Nat
      /\ auth.asked \subseteq Request /\ auth.main \in Seq(Event)
  BY DEF IInv, Types, AuthRec, Event
<1>2. /\ worker \in Seq(Operation)
      /\ spent \in [writes : Nat, signIns : Nat, faults : Nat, restarts : Nat]
      /\ client.user \in Users /\ client.closes \in Nat
  BY DEF IInv, Types, ClientRec
<1>3. \A i \in DOMAIN auth.main : auth.main[i] \in Event
  BY <1>1
<1> QED BY <1>1, <1>2, <1>3

\* Auth changes its user, and its notification is on its way.
LEMMA SignInKeeps ==
  ASSUME IInv, NEW u \in Users, SignIn(u)
  PROVE  IInv'
<1> DEFINE e == [type |-> "Changed", user |-> u]
<1>1. /\ UNCHANGED <<client, worker, delivered, refused, told>>
      /\ auth' = [auth EXCEPT !.user = u, !.main = Append(auth.main, e)]
      /\ spent' \in [writes : Nat, signIns : Nat, faults : Nat, restarts : Nat]
      /\ spent'.writes = spent.writes
  BY AuthTypes DEF SignIn
<1>2. e \in Event /\ e.type = "Changed" /\ e.user = u
  BY DEF Event
<1> HIDE DEF e
<1>3. Append(auth.main, e) \in Seq(Event) /\ Longer1(Append(auth.main, e), auth.main, e)
  BY <1>2, AuthTypes, AppendOf
<1>4. /\ auth'.user = u /\ auth'.asked = auth.asked /\ auth'.counter = auth.counter
      /\ auth'.main = Append(auth.main, e) /\ auth' \in AuthRec
  BY <1>1, <1>3 DEF IInv, Types, AuthRec, Event
<1>5. PICK a \in Nat : a = Len(auth.main)
  BY AuthTypes
<1>6. /\ DOMAIN auth.main = 1..a /\ DOMAIN auth'.main = 1..(a + 1)
      /\ \A i \in 1..a : auth'.main[i] = auth.main[i]
      /\ auth'.main[a + 1] = e
  BY <1>3, <1>4, <1>5 DEF Longer1
<1>7. /\ \A i \in 1..a : (OnMain(i)' <=> OnMain(i)) /\ (Changed(i)' <=> Changed(i))
      /\ ~OnMain(a + 1)' /\ Changed(a + 1)'
      /\ \A r : Asked(r)' <=> Asked(r)
      /\ \A i : OnWorker(i)' <=> OnWorker(i)
      /\ \A v : WillServe(v)' <=> WillServe(v)
  BY <1>1, <1>2, <1>4, <1>6 DEF OnMain, Changed, Asked, OnWorker, WillServe
<1>8. Numbered'
  BY <1>1, NumberedStands DEF IInv
<1>9. TokenOnItsWay'
  <2>1. TokenOnItsWay
    BY DEF IInv
  <2>2. /\ \A i \in DOMAIN auth.main : i \in DOMAIN auth'.main
        /\ \A i \in DOMAIN auth'.main : i \in DOMAIN auth.main \/ i = a + 1
    BY <1>6
  <2>3. client' = client /\ worker' = worker
    BY <1>1
  <2>4. \A i \in DOMAIN auth'.main : auth'.main[i].type = "Token" =>
          auth'.main[i].request.attempt <= client'.closes
    BY <1>2, <1>6, <2>1, <2>2, <2>3 DEF TokenOnItsWay
  <2> QED BY <2>1, <2>2, <2>3, <2>4, <1>4, <1>6, <1>7 DEF TokenOnItsWay, Nowhere
<1>10. UserKnown'
  <2>1. a + 1 \in DOMAIN auth'.main /\ \A i \in DOMAIN auth'.main : a + 1 <= i => i = a + 1
    BY <1>6
  <2> QED BY <1>2, <1>4, <1>6, <1>7, <2>1 DEF UserKnown
<1>11. TokensMatch'
  <2>1. TokensMatch
    BY DEF IInv
  <2>2. \E i \in DOMAIN auth'.main : Changed(i)'
    <3>1. a + 1 \in DOMAIN auth'.main
      BY <1>6
    <3> QED BY <3>1, <1>7
  <2>3. ASSUME NEW k \in DOMAIN auth'.main, auth'.main[k].type = "Token"
        PROVE  /\ auth'.main[k].request.counter <= auth'.counter
               /\ \A v \in auth'.main[k].request.token :
                    auth'.main[k].request.counter = auth'.counter =>
                      (\E i \in 1..(k - 1) : Changed(i)') \/ WillServe(v)'
    <3>1. k \in 1..a /\ \A i \in 1..(k - 1) : i \in 1..a
      BY <1>2, <1>6, <2>3
    <3> QED BY <1>4, <1>6, <1>7, <2>1, <2>3, <3>1 DEF TokensMatch
  <2> QED BY <1>1, <1>4, <1>7, <2>1, <2>2, <2>3 DEF TokensMatch
<1> QED BY <1>1, <1>4, <1>8, <1>9, <1>10, <1>11, AuthTypes, ClientStands

\* Auth takes the token of whoever is its user.
LEMMA TokenReadKeeps ==
  ASSUME IInv, NEW r, TokenRead(r)
  PROVE  IInv'
<1> DEFINE q == [r EXCEPT !.token = {auth.user}]
<1>1. /\ UNCHANGED <<client, worker, delivered, refused, told, spent>>
      /\ r \in auth.asked /\ r \in Request
      /\ auth' = [auth EXCEPT !.asked = (auth.asked \ {r}) \cup {q}]
  BY AuthTypes DEF TokenRead
<1>2. PICK p : /\ p = q /\ p \in Request /\ p.attempt = r.attempt
               /\ p.counter = r.counter /\ p.token = {auth.user}
  <2>1. /\ q \in Request /\ q.attempt = r.attempt
        /\ q.counter = r.counter /\ q.token = {auth.user}
    BY <1>1, AuthTypes DEF Request, Token
  <2> HIDE DEF q
  <2> QED BY <2>1
<1>3. /\ auth'.user = auth.user /\ auth'.counter = auth.counter /\ auth'.main = auth.main
      /\ auth'.asked = (auth.asked \ {r}) \cup {p} /\ auth' \in AuthRec
  BY <1>1, <1>2, AuthTypes DEF IInv, Types, AuthRec
<1>4. /\ \A i : (OnMain(i)' <=> OnMain(i)) /\ (Changed(i)' <=> Changed(i))
      /\ \A i : OnWorker(i)' <=> OnWorker(i)
      /\ \A v : WillServe(v)' <=> WillServe(v)
      /\ client' = client /\ worker' = worker
  BY <1>1, <1>3 DEF OnMain, Changed, OnWorker, WillServe
<1>5. /\ \A x \in auth.asked : x # r => (Asked(x)' <=> Asked(x))
      /\ Asked(p)' <=> Asked(r)
  BY <1>1, <1>2, <1>3 DEF Asked
<1>6. /\ Numbered /\ TokenOnItsWay /\ UserKnown /\ TokensMatch
  BY DEF IInv
<1>7. Numbered'
  BY <1>1, <1>6, NumberedStands
<1>8. TokenOnItsWay'
  <2>1. /\ \A x \in auth'.asked : x.attempt <= client'.closes
        /\ \A i \in DOMAIN auth'.main : auth'.main[i].type = "Token" =>
             auth'.main[i].request.attempt <= client'.closes
        /\ \A i \in DOMAIN worker' : worker'[i].op = "Credentials" =>
             worker'[i].attempt <= client'.closes
    BY <1>1, <1>2, <1>3, <1>4, <1>6 DEF TokenOnItsWay
  <2>2. CASE client.stream # "Starting"
    <3>1. Nowhere
      BY <2>2, <1>6 DEF TokenOnItsWay
    <3>2. Nowhere'
      BY <3>1, <1>1, <1>3, <1>4, <1>5 DEF Nowhere
    <3> QED BY <2>1, <2>2, <3>2, <1>4 DEF TokenOnItsWay
  <2>3. CASE client.stream = "Starting" /\ Asked(r)
    <3>1. /\ \A x \in auth.asked : Asked(x) => x = r
          /\ \A i \in DOMAIN auth.main : ~OnMain(i)
          /\ \A i \in DOMAIN worker : ~OnWorker(i)
      BY <2>3, <1>1, <1>6 DEF TokenOnItsWay
    <3>2. Asked(p)' /\ p \in auth'.asked /\ \A x \in auth'.asked : Asked(x)' => x = p
      BY <2>3, <3>1, <1>3, <1>5
    <3> QED BY <2>1, <2>3, <3>1, <3>2, <1>3, <1>4 DEF TokenOnItsWay
  <2>4. CASE client.stream = "Starting" /\ ~Asked(r)
    <3>1. ~Asked(p)' /\ \A x \in auth.asked : Asked(x)' <=> Asked(x)
      <4>1. ~Asked(r)'
        BY <1>1, <1>4, <2>4 DEF Asked, TokenRead
      <4> QED BY <2>4, <4>1, <1>5
    <3>2. /\ \A x \in auth'.asked : Asked(x)' <=> x \in auth.asked /\ Asked(x)
          /\ \A x \in auth.asked : Asked(x) => x \in auth'.asked /\ Asked(x)'
      BY <2>4, <3>1, <1>3, <1>5
    <3> QED BY <2>1, <2>4, <3>2, <1>3, <1>4, <1>6 DEF TokenOnItsWay
  <2> QED BY <2>2, <2>3, <2>4
<1>9. UserKnown'
  BY <1>3, <1>4, <1>6 DEF UserKnown
<1>10. TokensMatch'
  <2>1. ASSUME NEW x \in auth'.asked
        PROVE  /\ x.counter <= auth'.counter
               /\ \A v \in x.token : x.counter = auth'.counter =>
                    (\E i \in DOMAIN auth'.main : Changed(i)') \/ WillServe(v)'
    <3>1. CASE x = p
      <4>1. (\E i \in DOMAIN auth.main : Changed(i)) \/ WillServe(auth.user)
        BY <1>6 DEF UserKnown
      <4>2. p.counter <= auth.counter
        BY <1>1, <1>2, <1>6 DEF TokensMatch
      <4>3. \A v \in p.token : v = auth.user
        BY <1>2
      <4>4. PICK u : u = auth.user
        OBVIOUS
      <4>5. (\E i \in DOMAIN auth'.main : Changed(i)') \/ WillServe(u)'
        BY <4>1, <4>4, <1>3, <1>4
      <4> QED BY <3>1, <4>2, <4>3, <4>4, <4>5, <1>3
    <3>2. CASE x \in auth.asked
      BY <3>2, <1>3, <1>4, <1>6 DEF TokensMatch
    <3> QED BY <2>1, <3>1, <3>2, <1>3
  <2>2. \A k \in DOMAIN auth'.main : auth'.main[k].type = "Token" =>
           /\ auth'.main[k].request.counter <= auth'.counter
           /\ \A u \in auth'.main[k].request.token :
                auth'.main[k].request.counter = auth'.counter =>
                  (\E i \in 1..(k - 1) : Changed(i)') \/ WillServe(u)'
    BY <1>3, <1>4, <1>6 DEF TokensMatch
  <2> QED BY <2>1, <2>2, <1>3, <1>4, <1>6 DEF TokensMatch
<1> QED BY <1>1, <1>3, <1>7, <1>8, <1>9, <1>10, AuthTypes, ClientStands

\* The answer, a token or none, is on its way to the provider.
LEMMA TokenAnsweredKeeps ==
  ASSUME IInv, NEW r \in auth.asked, TokenAnswers(r) \/ TokenFails(r)
  PROVE  IInv'
<1>1. PICK q : /\ q \in Request /\ q.attempt = r.attempt /\ q.counter = r.counter
               /\ q.token \subseteq r.token
               /\ auth' = [auth EXCEPT !.asked = auth.asked \ {r},
                    !.main = Append(auth.main, [type |-> "Token", request |-> q])]
  <2>1. r \in Request
    BY AuthTypes
  <2>2. CASE TokenAnswers(r)
    BY <2>1, <2>2 DEF TokenAnswers
  <2>3. CASE TokenFails(r)
    <3> DEFINE q == [r EXCEPT !.token = {}]
    <3>1. /\ q \in Request /\ q.attempt = r.attempt /\ q.counter = r.counter
          /\ q.token \subseteq r.token
      BY <2>1 DEF Request, Token
    <3>2. auth' = [auth EXCEPT !.asked = auth.asked \ {r},
                    !.main = Append(auth.main, [type |-> "Token", request |-> q])]
      BY <2>3 DEF TokenFails
    <3> HIDE DEF q
    <3> QED BY <3>1, <3>2
  <2> QED BY <2>2, <2>3
<1>2. /\ UNCHANGED <<client, worker, delivered, refused, told>>
      /\ spent' \in [writes : Nat, signIns : Nat, faults : Nat, restarts : Nat]
      /\ spent'.writes = spent.writes
  <2>1. spent' = spent \/ spent' = [spent EXCEPT !.faults = @ + 1]
    BY DEF TokenAnswers, TokenFails
  <2> QED BY <2>1, AuthTypes DEF TokenAnswers, TokenFails
<1> DEFINE e == [type |-> "Token", request |-> q]
<1>3. e \in Event /\ e.type = "Token" /\ e.request = q
  BY <1>1 DEF Event
<1>4. auth' = [auth EXCEPT !.asked = auth.asked \ {r}, !.main = Append(auth.main, e)]
  BY <1>1
<1> HIDE DEF e
<1>5. Append(auth.main, e) \in Seq(Event) /\ Longer1(Append(auth.main, e), auth.main, e)
  BY <1>3, AuthTypes, AppendOf
<1>6. /\ auth'.user = auth.user /\ auth'.asked = auth.asked \ {r}
      /\ auth'.counter = auth.counter
      /\ auth'.main = Append(auth.main, e) /\ auth' \in AuthRec
  BY <1>4, <1>5 DEF IInv, Types, AuthRec, Event
<1>7. PICK a \in Nat : a = Len(auth.main)
  BY AuthTypes
<1>8. /\ DOMAIN auth.main = 1..a /\ DOMAIN auth'.main = 1..(a + 1)
      /\ \A i \in 1..a : auth'.main[i] = auth.main[i]
      /\ auth'.main[a + 1] = e
  BY <1>5, <1>6, <1>7 DEF Longer1
<1>9. /\ \A i \in 1..a : (OnMain(i)' <=> OnMain(i)) /\ (Changed(i)' <=> Changed(i))
      /\ ~Changed(a + 1)'
      /\ OnMain(a + 1)' <=> r.attempt = client.closes
      /\ \A x \in auth'.asked : Asked(x)' <=> Asked(x)
      /\ \A i : OnWorker(i)' <=> OnWorker(i)
      /\ \A v : WillServe(v)' <=> WillServe(v)
  BY <1>1, <1>2, <1>3, <1>6, <1>8 DEF OnMain, Changed, Asked, OnWorker, WillServe
<1>10. /\ Numbered /\ TokenOnItsWay /\ UserKnown /\ TokensMatch
  BY DEF IInv
<1>11. Numbered'
  BY <1>2, <1>10, NumberedStands
<1>12. /\ \A i \in 1..a : i \in DOMAIN auth.main /\ i \in DOMAIN auth'.main
       /\ a + 1 \in DOMAIN auth'.main
       /\ \A i \in DOMAIN auth'.main : i \in 1..a \/ i = a + 1
       /\ client' = client /\ worker' = worker
  BY <1>2, <1>8
<1>13. TokenOnItsWay'
  <2>1. /\ \A x \in auth'.asked : x.attempt <= client'.closes
        /\ \A i \in DOMAIN auth'.main : auth'.main[i].type = "Token" =>
             auth'.main[i].request.attempt <= client'.closes
        /\ \A i \in DOMAIN worker' : worker'[i].op = "Credentials" =>
             worker'[i].attempt <= client'.closes
    <3>1. r.attempt <= client.closes
      BY <1>10 DEF TokenOnItsWay
    <3> QED BY <3>1, <1>1, <1>3, <1>6, <1>8, <1>10, <1>12 DEF TokenOnItsWay
  <2>2. CASE Asked(r)
    <3>1. client.stream = "Starting"
      BY <2>2, <1>10 DEF TokenOnItsWay, Nowhere
    <3>2. /\ \A x \in auth.asked : Asked(x) => x = r
          /\ \A i \in DOMAIN auth.main : ~OnMain(i)
          /\ \A i \in DOMAIN worker : ~OnWorker(i)
      BY <2>2, <3>1, <1>10 DEF TokenOnItsWay
    <3>3. OnMain(a + 1)' /\ \A i \in DOMAIN auth'.main : OnMain(i)' => i = a + 1
      BY <2>2, <3>2, <1>9, <1>12 DEF Asked
    <3>4. \A x \in auth'.asked : ~Asked(x)'
      BY <3>2, <1>6, <1>9
    <3> QED BY <2>1, <3>1, <3>2, <3>3, <3>4, <1>9, <1>12 DEF TokenOnItsWay
  <2>3. CASE ~Asked(r)
    <3>1. ~OnMain(a + 1)'
      BY <2>3, <1>9 DEF Asked
    <3>2. /\ \A i \in DOMAIN auth'.main : OnMain(i)' <=> i \in DOMAIN auth.main /\ OnMain(i)
          /\ \A i \in DOMAIN auth.main : OnMain(i) => i \in DOMAIN auth'.main /\ OnMain(i)'
      BY <3>1, <1>8, <1>9, <1>12
    <3>3. /\ \A x \in auth'.asked : x \in auth.asked /\ (Asked(x)' <=> Asked(x))
          /\ \A x \in auth.asked : Asked(x) => x \in auth'.asked /\ Asked(x)'
      BY <2>3, <1>6, <1>9
    <3> QED BY <2>1, <3>2, <3>3, <1>9, <1>10, <1>12 DEF TokenOnItsWay, Nowhere
  <2> QED BY <2>2, <2>3
<1>14. UserKnown'
  <2>1. /\ \A i \in DOMAIN auth'.main : Changed(i)' => i \in DOMAIN auth.main /\ Changed(i)
        /\ \A i \in DOMAIN auth.main : Changed(i) => i \in DOMAIN auth'.main /\ Changed(i)'
    BY <1>8, <1>9, <1>12
  <2> QED BY <2>1, <1>6, <1>8, <1>9, <1>10, <1>12 DEF UserKnown
<1>15. TokensMatch'
  <2>1. \A i \in DOMAIN auth.main : Changed(i) => i \in DOMAIN auth'.main /\ Changed(i)'
    BY <1>8, <1>9, <1>12
  <2>2. ASSUME NEW x \in auth'.asked
        PROVE  /\ x.counter <= auth'.counter
               /\ \A v \in x.token : x.counter = auth'.counter =>
                    (\E i \in DOMAIN auth'.main : Changed(i)') \/ WillServe(v)'
    <3>1. x \in auth.asked
      BY <1>6
    <3> QED BY <2>1, <3>1, <1>6, <1>9, <1>10 DEF TokensMatch
  <2>3. ASSUME NEW k \in DOMAIN auth'.main, auth'.main[k].type = "Token"
        PROVE  /\ auth'.main[k].request.counter <= auth'.counter
               /\ \A v \in auth'.main[k].request.token :
                    auth'.main[k].request.counter = auth'.counter =>
                      (\E i \in 1..(k - 1) : Changed(i)') \/ WillServe(v)'
    <3>1. CASE k = a + 1
      <4>1. k - 1 = a /\ auth'.main[k].request = q
        BY <3>1, <1>3, <1>8
      <4>2. /\ r.counter <= auth.counter
            /\ \A v \in r.token : r.counter = auth.counter =>
                 (\E i \in 1..a : Changed(i)) \/ WillServe(v)
        BY <1>8, <1>10 DEF TokensMatch
      <4> QED BY <4>1, <4>2, <1>1, <1>6, <1>9
    <3>2. CASE k \in 1..a
      <4>1. \A i \in 1..(k - 1) : i \in 1..a
        BY <3>2
      <4>2. auth'.main[k] = auth.main[k] /\ k \in DOMAIN auth.main
        BY <3>2, <1>8
      <4> QED BY <2>3, <4>1, <4>2, <1>6, <1>9, <1>10 DEF TokensMatch
    <3> QED BY <3>1, <3>2, <1>12
  <2> QED BY <2>2, <2>3, <1>6, <1>9, <1>10, <1>12 DEF TokensMatch
<1> QED BY <1>2, <1>6, <1>11, <1>13, <1>14, <1>15, AuthTypes, ClientStands

\* What is left of a queue of a elements when its first is taken.
Shorter1(r, q, a) ==
  /\ a \in Nat \ {0} /\ DOMAIN q = 1..a /\ DOMAIN r = 1..(a - 1)
  /\ \A i \in 1..(a - 1) : r[i] = q[i + 1]

LEMMA TailOf ==
  ASSUME NEW S, NEW q \in Seq(S), q # <<>>
  PROVE  /\ Tail(q) \in Seq(S) /\ Head(q) = q[1] /\ Head(q) \in S
         /\ \E a \in Nat : Shorter1(Tail(q), q, a)
<1>1. /\ Tail(q) \in Seq(S) /\ Len(Tail(q)) = Len(q) - 1
      /\ \A i \in 1..Len(Tail(q)) : Tail(q)[i] = q[i + 1]
      /\ Len(q) >= 1 /\ Len(q) \in Nat /\ Head(q) = q[1] /\ Head(q) \in S
  BY HeadTailProperties
<1>2. Shorter1(Tail(q), q, Len(q))
  BY <1>1 DEF Shorter1
<1> QED BY <1>1, <1>2

\* The provider takes the first event: the others move up.
LEMMA EventsMoveUp ==
  ASSUME NEW a \in Nat, Shorter1(auth'.main, auth.main, a), client' = client
  PROVE  /\ \A i \in DOMAIN auth'.main : \E k \in DOMAIN auth.main :
              /\ k = i + 1 /\ auth'.main[i] = auth.main[k]
              /\ Changed(i)' <=> Changed(k)
              /\ OnMain(i)' <=> OnMain(k)
         /\ \A k \in DOMAIN auth.main : k # 1 =>
              \E i \in DOMAIN auth'.main :
                /\ k = i + 1 /\ auth'.main[i] = auth.main[k]
                /\ Changed(i)' <=> Changed(k)
                /\ OnMain(i)' <=> OnMain(k)
         /\ 1 \in DOMAIN auth.main
         /\ DOMAIN auth.main \subseteq Nat /\ DOMAIN auth'.main \subseteq Nat
<1>1. /\ a # 0 /\ DOMAIN auth.main = 1..a /\ DOMAIN auth'.main = 1..(a - 1)
      /\ \A i \in 1..(a - 1) : auth'.main[i] = auth.main[i + 1]
  BY DEF Shorter1
<1>2. ASSUME NEW i \in 1..(a - 1), NEW k \in 1..a, k = i + 1
      PROVE  /\ auth'.main[i] = auth.main[k]
             /\ Changed(i)' <=> Changed(k)
             /\ OnMain(i)' <=> OnMain(k)
  <2>1. auth'.main[i] = auth.main[k]
    BY <1>1, <1>2
  <2> QED BY <2>1, <1>1 DEF Changed, OnMain
<1>3. ASSUME NEW i \in 1..(a - 1)
      PROVE  \E k \in 1..a : k = i + 1
  OBVIOUS
<1>4. ASSUME NEW k \in 1..a, k # 1
      PROVE  \E i \in 1..(a - 1) : k = i + 1
  <2>1. k - 1 \in 1..(a - 1) /\ k = (k - 1) + 1
    BY <1>4
  <2> QED BY <2>1
<1>5. 1 \in 1..a /\ 1..a \subseteq Nat /\ 1..(a - 1) \subseteq Nat
  BY <1>1
<1>6. ASSUME NEW i \in 1..(a - 1)
      PROVE  \E k \in 1..a :
               /\ k = i + 1 /\ auth'.main[i] = auth.main[k]
               /\ Changed(i)' <=> Changed(k)
               /\ OnMain(i)' <=> OnMain(k)
  <2>1. PICK k \in 1..a : k = i + 1
    BY <1>3
  <2> QED BY <1>2, <2>1
<1>7. ASSUME NEW k \in 1..a, k # 1
      PROVE  \E i \in 1..(a - 1) :
               /\ k = i + 1 /\ auth'.main[i] = auth.main[k]
               /\ Changed(i)' <=> Changed(k)
               /\ OnMain(i)' <=> OnMain(k)
  <2>1. PICK i \in 1..(a - 1) : k = i + 1
    BY <1>4, <1>7
  <2> QED BY <1>2, <2>1
<1>8. \A i \in DOMAIN auth'.main : \E k \in DOMAIN auth.main :
        /\ k = i + 1 /\ auth'.main[i] = auth.main[k]
        /\ Changed(i)' <=> Changed(k)
        /\ OnMain(i)' <=> OnMain(k)
  BY <1>1, <1>6, Zenon
<1>9. \A k \in DOMAIN auth.main : k # 1 =>
        \E i \in DOMAIN auth'.main :
          /\ k = i + 1 /\ auth'.main[i] = auth.main[k]
          /\ Changed(i)' <=> Changed(k)
          /\ OnMain(i)' <=> OnMain(k)
  BY <1>1, <1>7, Zenon
<1>10. /\ 1 \in DOMAIN auth.main
       /\ DOMAIN auth.main \subseteq Nat /\ DOMAIN auth'.main \subseteq Nat
  BY <1>1, <1>5
<1> QED BY <1>8, <1>9, <1>10

\* An operation that is not a write is queued for the worker.
LEMMA NumberedBehind ==
  ASSUME Numbered, client' = client, spent' = spent,
         NEW o, o.op # "Write", Longer1(worker', worker, o)
  PROVE  Numbered'
<1>1. PICK b \in Nat : b = Len(worker)
  BY DEF Longer1
<1>2. /\ DOMAIN worker = 1..b /\ DOMAIN worker' = 1..(b + 1)
      /\ \A i \in 1..b : worker'[i] = worker[i]
      /\ worker'[b + 1] = o
  BY <1>1 DEF Longer1
<1>3. ASSUME NEW i \in DOMAIN worker', worker'[i].op = "Write"
      PROVE  /\ worker'[i].write <= spent'.writes
             /\ \A j \in 1..(i - 1) :
                  worker'[j].op = "Write" => worker'[j].write < worker'[i].write
             /\ \A u \in Users : \A k \in DOMAIN client'.queues[u] :
                  client'.queues[u][k] < worker'[i].write
  <2>1. i \in 1..b /\ \A j \in 1..(i - 1) : j \in 1..b
    BY <1>2, <1>3
  <2>2. i \in DOMAIN worker /\ worker[i] = worker'[i]
    BY <2>1, <1>2
  <2> QED BY <2>1, <2>2, <1>2, <1>3 DEF Numbered
<1> QED BY <1>3 DEF Numbered

\* The provider notes a change of the user and tells the client.  Tokens that
\* were asked for before do not count any more.
LEMMA ChangeNoted ==
  ASSUME IInv, RunMain, Head(auth.main).type = "Changed"
  PROVE  IInv'
<1> DEFINE e == Head(auth.main)
           o == [op |-> "User", user |-> e.user]
<1>1. /\ auth.main # <<>>
      /\ auth' = [auth EXCEPT !.main = Tail(auth.main), !.counter = auth.counter + 1]
      /\ worker' = Append(worker, o)
      /\ UNCHANGED <<client, delivered, refused, told, spent>>
  BY DEF RunMain
<1>2. /\ Tail(auth.main) \in Seq(Event) /\ e = auth.main[1] /\ e \in Event
      /\ \E a \in Nat : Shorter1(Tail(auth.main), auth.main, a)
  BY <1>1, AuthTypes, TailOf
<1>3. /\ auth'.user = auth.user /\ auth'.asked = auth.asked
      /\ auth'.counter = auth.counter + 1
      /\ auth'.main = Tail(auth.main) /\ auth' \in AuthRec
  <2>1. auth.counter + 1 \in Nat /\ auth \in AuthRec
    BY AuthTypes DEF IInv, Types
  <2> QED BY <2>1, <1>1, <1>2 DEF AuthRec, Event
<1>4. PICK a \in Nat : Shorter1(auth'.main, auth.main, a)
  BY <1>2, <1>3
<1>5. /\ o \in Operation /\ o.op = "User" /\ o.user = auth.main[1].user
      /\ Changed(1) /\ ~OnMain(1)
  <2>1. e.user \in Users /\ e.type = "Changed"
    BY <1>2 DEF Event
  <2> QED BY <2>1, <1>2, <1>4, EventsMoveUp, <1>1 DEF Operation, Changed, OnMain
<1> HIDE DEF o, e
<1>6. worker' \in Seq(Operation) /\ Longer1(worker', worker, o)
  BY <1>1, <1>5, AuthTypes, AppendOf
<1>7. PICK b \in Nat : b = Len(worker)
  BY AuthTypes
<1>8. /\ DOMAIN worker = 1..b /\ DOMAIN worker' = 1..(b + 1)
      /\ \A i \in 1..b : worker'[i] = worker[i]
      /\ worker'[b + 1] = o
  BY <1>6, <1>7 DEF Longer1
<1>9. /\ Numbered /\ TokenOnItsWay /\ UserKnown /\ TokensMatch
  BY DEF IInv
<1>10. Numbered'
  BY <1>1, <1>5, <1>6, <1>9, NumberedBehind
<1>11. /\ \A i \in DOMAIN worker : i \in DOMAIN worker' /\ worker'[i] = worker[i]
       /\ \A i \in DOMAIN worker' : i \in DOMAIN worker \/ i = b + 1
       /\ ~OnWorker(b + 1)'
       /\ \A i \in DOMAIN worker : OnWorker(i)' <=> OnWorker(i)
       /\ \A r : Asked(r)' <=> Asked(r)
  BY <1>1, <1>3, <1>5, <1>8 DEF OnWorker, Asked
<1>12. \A i \in DOMAIN worker' : OnWorker(i)' => i \in DOMAIN worker /\ OnWorker(i)
  BY <1>11
<1>13. TokenOnItsWay'
  <2>1. /\ \A x \in auth'.asked : x.attempt <= client'.closes
        /\ \A i \in DOMAIN auth'.main : auth'.main[i].type = "Token" =>
             auth'.main[i].request.attempt <= client'.closes
        /\ \A i \in DOMAIN worker' : worker'[i].op = "Credentials" =>
             worker'[i].attempt <= client'.closes
    BY <1>1, <1>3, <1>4, <1>5, <1>8, <1>9, <1>11, EventsMoveUp DEF TokenOnItsWay
  <2>2. \A i \in DOMAIN auth'.main : \E k \in DOMAIN auth.main :
          k = i + 1 /\ (OnMain(i)' <=> OnMain(k))
    BY <1>1, <1>4, EventsMoveUp
  <2>3. \A k \in DOMAIN auth.main : OnMain(k) =>
          \E i \in DOMAIN auth'.main : k = i + 1 /\ OnMain(i)'
    BY <1>1, <1>4, <1>5, EventsMoveUp
  <2>4. CASE Nowhere
    <3>1. Nowhere'
      BY <2>2, <2>4, <1>3, <1>11, <1>12 DEF Nowhere
    <3>2. client.stream # "Starting"
      BY <2>4, <1>9 DEF Nowhere, TokenOnItsWay
    <3> QED BY <2>1, <3>1, <3>2, <1>1 DEF TokenOnItsWay
  <2>5. CASE \E k \in DOMAIN auth.main : OnMain(k)
    <3>1. client.stream = "Starting"
      BY <2>5, <1>9 DEF TokenOnItsWay, Nowhere
    <3>2. PICK k \in DOMAIN auth.main : /\ OnMain(k)
             /\ \A j \in DOMAIN auth.main : OnMain(j) => j = k
      BY <2>5, <3>1, <1>9 DEF TokenOnItsWay
    <3>3. PICK i \in DOMAIN auth'.main : k = i + 1 /\ OnMain(i)'
      BY <2>3, <3>2
    <3>4. \A j \in DOMAIN auth'.main : OnMain(j)' => j = i
      <4>1. ASSUME NEW j \in DOMAIN auth'.main, OnMain(j)'
            PROVE  j = i
        <5>1. PICK m \in DOMAIN auth.main : m = j + 1 /\ OnMain(m)
          BY <2>2, <4>1
        <5>2. m = k
          BY <3>2, <5>1
        <5> QED BY <5>1, <5>2, <3>3, <1>4 DEF Shorter1
      <4> QED BY <4>1
    <3>5. /\ \A r \in auth.asked : ~Asked(r)
          /\ \A j \in DOMAIN worker : ~OnWorker(j)
      BY <2>5, <3>1, <1>9 DEF TokenOnItsWay
    <3> QED BY <2>1, <3>1, <3>3, <3>4, <3>5, <1>1, <1>3, <1>11, <1>12 DEF TokenOnItsWay
  <2>6. CASE (\A k \in DOMAIN auth.main : ~OnMain(k)) /\ ~Nowhere
    <3>1. client.stream = "Starting"
      BY <2>6, <1>9 DEF TokenOnItsWay
    <3>2. \A i \in DOMAIN auth'.main : ~OnMain(i)'
      BY <2>2, <2>6
    <3> QED BY <2>1, <2>6, <3>1, <3>2, <1>1, <1>3, <1>9, <1>11, <1>12 DEF TokenOnItsWay
  <2> QED BY <2>4, <2>5, <2>6
<1>14. \A v : v = o.user => WillServe(v)'
  <2>1. b + 1 \in DOMAIN worker' /\ \A j \in DOMAIN worker' : j <= b + 1
    BY <1>8
  <2> QED BY <1>5, <1>8, <2>1 DEF WillServe
<1>15. UserKnown'
  <2>1. CASE \A i \in DOMAIN auth'.main : ~Changed(i)'
    <3>1. \A k \in DOMAIN auth.main : Changed(k) => k = 1
      BY <2>1, <1>1, <1>4, EventsMoveUp
    <3>2. \A k \in DOMAIN auth.main : Changed(k) => k <= 1
      BY <3>1
    <3>3. o.user = auth.user
      BY <3>2, <1>1, <1>4, <1>5, <1>9, EventsMoveUp DEF UserKnown
    <3>4. PICK v : v = auth.user
      OBVIOUS
    <3>5. WillServe(v)'
      BY <3>3, <3>4, <1>14
    <3> QED BY <2>1, <3>4, <3>5, <1>3 DEF UserKnown
  <2>2. ASSUME NEW i \in DOMAIN auth'.main, Changed(i)',
               \A j \in DOMAIN auth'.main : Changed(j)' => j <= i
        PROVE  auth'.main[i].user = auth'.user
    <3>1. PICK k \in DOMAIN auth.main :
            k = i + 1 /\ Changed(k) /\ auth'.main[i] = auth.main[k]
      BY <1>1, <1>4, <2>2, EventsMoveUp
    <3>2. ASSUME NEW m \in DOMAIN auth.main, Changed(m)
          PROVE  m <= k
      <4>1. CASE m = 1
        BY <4>1, <3>1, <1>4, <2>2 DEF Shorter1
      <4>2. CASE m # 1
        <5>1. PICK j \in DOMAIN auth'.main : m = j + 1 /\ Changed(j)'
          BY <3>2, <4>2, <1>1, <1>4, EventsMoveUp
        <5>2. j <= i
          BY <5>1, <2>2
        <5> QED BY <5>1, <5>2, <3>1, <1>4 DEF Shorter1
      <4> QED BY <4>1, <4>2
    <3> QED BY <3>1, <3>2, <1>3, <1>9 DEF UserKnown
  <2>3. UserKnown' <=>
          /\ (\A i \in DOMAIN auth'.main : ~Changed(i)') => WillServe(auth.user)'
          /\ \A i \in DOMAIN auth'.main :
               Changed(i)' /\ (\A j \in DOMAIN auth'.main : Changed(j)' => j <= i)
                 => auth'.main[i].user = auth'.user
    BY <1>3 DEF UserKnown
  <2> QED BY <2>1, <2>2, <2>3, <1>3 DEF UserKnown
<1>16. TokensMatch'
  <2>1. /\ auth.counter \in Nat
        /\ \A r \in auth.asked : r.counter \in Nat /\ r.counter <= auth.counter
    BY <1>9, AuthTypes DEF TokensMatch, Request
  <2>2. \A k \in DOMAIN auth.main : auth.main[k].type = "Token" =>
          /\ auth.main[k].request.counter \in Nat
          /\ auth.main[k].request.counter <= auth.counter
    BY <1>9, AuthTypes DEF TokensMatch, Request, Event
  <2>3. \A i \in DOMAIN auth'.main : auth'.main[i].type = "Token" =>
          /\ auth'.main[i].request.counter <= auth'.counter
          /\ auth'.main[i].request.counter # auth'.counter
    <3>1. ASSUME NEW i \in DOMAIN auth'.main, auth'.main[i].type = "Token"
          PROVE  /\ auth'.main[i].request.counter <= auth'.counter
                 /\ auth'.main[i].request.counter # auth'.counter
      <4>1. PICK k \in DOMAIN auth.main : auth'.main[i] = auth.main[k]
        BY <1>1, <1>4, EventsMoveUp
      <4> QED BY <2>1, <2>2, <3>1, <4>1, <1>3
    <3> QED BY <3>1
  <2>4. \A r \in auth'.asked : r.counter <= auth'.counter /\ r.counter # auth'.counter
    BY <2>1, <1>3
  <2>5. ASSUME NEW k \in DOMAIN worker', NEW u \in Users,
               OnWorker(k)', worker'[k].token = {u}
        PROVE  (\E i \in 1..(k - 1) : worker'[i].op = "User") \/ u = client'.user
    <3>1. k \in DOMAIN worker /\ OnWorker(k) /\ worker[k] = worker'[k]
      BY <2>5, <1>11, <1>12
    <3>2. (\E i \in 1..(k - 1) : worker[i].op = "User") \/ u = client.user
      BY <2>5, <3>1, <1>9 DEF TokensMatch
    <3>3. \A i \in 1..(k - 1) : worker'[i] = worker[i]
      <4>1. \A i \in 1..(k - 1) : i \in 1..b
        BY <3>1, <1>8
      <4> QED BY <4>1, <1>8
    <3> QED BY <3>2, <3>3, <1>1
  <2> QED BY <2>3, <2>4, <2>5 DEF TokensMatch
<1> QED BY <1>1, <1>3, <1>6, <1>10, <1>13, <1>15, <1>16, AuthTypes, ClientStands

\* An answer leaves the main queue: the changes that are not noted yet move up.
LEMMA AnswerTaken ==
  ASSUME UserKnown, NEW a \in Nat, Shorter1(auth'.main, auth.main, a),
         client' = client, auth'.user = auth.user, ~Changed(1),
         \A u : WillServe(u) => WillServe(u)'
  PROVE  /\ UserKnown'
         /\ (\E k \in DOMAIN auth.main : Changed(k)) =>
               \E i \in DOMAIN auth'.main : Changed(i)'
         /\ \A i \in DOMAIN auth'.main : \A k \in DOMAIN auth.main :
              k = i + 1 /\ (\E j \in 1..(k - 1) : Changed(j)) =>
                \E j \in 1..(i - 1) : Changed(j)'
<1>1. \A k \in DOMAIN auth.main : Changed(k) =>
        \E i \in DOMAIN auth'.main : k = i + 1 /\ Changed(i)'
  BY EventsMoveUp
<1>2. \A i \in DOMAIN auth'.main : Changed(i)' =>
        \E k \in DOMAIN auth.main :
          k = i + 1 /\ Changed(k) /\ auth'.main[i] = auth.main[k]
  BY EventsMoveUp
<1>3. (\A i \in DOMAIN auth'.main : ~Changed(i)') => WillServe(auth.user)'
  <2>1. SUFFICES ASSUME \A i \in DOMAIN auth'.main : ~Changed(i)'
                 PROVE  WillServe(auth.user)'
    OBVIOUS
  <2>2. \A k \in DOMAIN auth.main : ~Changed(k)
    BY <1>1, <2>1
  <2>3. PICK u : u = auth.user
    OBVIOUS
  <2>4. WillServe(u)
    BY <2>2, <2>3 DEF UserKnown
  <2>5. WillServe(u)'
    BY <2>4
  <2>6. auth'.user = u
    BY <2>3
  <2> QED BY <2>5, <2>6
<1>4. ASSUME NEW i \in DOMAIN auth'.main, Changed(i)',
             \A j \in DOMAIN auth'.main : Changed(j)' => j <= i
      PROVE  auth'.main[i].user = auth'.user
  <2>1. PICK k \in DOMAIN auth.main :
          k = i + 1 /\ Changed(k) /\ auth'.main[i] = auth.main[k]
    BY <1>2, <1>4
  <2>2. ASSUME NEW m \in DOMAIN auth.main, Changed(m)
        PROVE  m <= k
    <3>1. PICK j \in DOMAIN auth'.main : m = j + 1 /\ Changed(j)'
      BY <1>1, <2>2
    <3>2. j <= i
      BY <1>4, <3>1
    <3> QED BY <2>1, <3>1, <3>2 DEF Shorter1
  <2> QED BY <2>1, <2>2 DEF UserKnown
<1>5. UserKnown'
  BY <1>3, <1>4 DEF UserKnown
<1>6. ASSUME NEW i \in DOMAIN auth'.main, NEW k \in DOMAIN auth.main,
             k = i + 1, NEW j \in 1..(k - 1), Changed(j)
      PROVE  \E m \in 1..(i - 1) : Changed(m)'
  <2>1. j \in DOMAIN auth.main
    BY <1>6 DEF Shorter1
  <2>2. PICK m \in DOMAIN auth'.main : j = m + 1 /\ Changed(m)'
    BY <1>1, <1>6, <2>1
  <2>3. m \in 1..(i - 1)
    BY <1>6, <2>2 DEF Shorter1
  <2> QED BY <2>2, <2>3
<1> QED BY <1>1, <1>5, <1>6

\* A token during whose request there was a change is asked for once more.
LEMMA TokenAskedAgain ==
  ASSUME IInv, RunMain, Head(auth.main).type = "Token",
         Head(auth.main).request.counter # auth.counter
  PROVE  IInv'
<1> DEFINE e == Head(auth.main)
<1>1. /\ auth.main # <<>>
      /\ auth' = [auth EXCEPT !.main = Tail(auth.main), !.asked = auth.asked \cup
                    {[e.request EXCEPT !.counter = auth.counter, !.token = {}]}]
      /\ UNCHANGED <<client, worker, delivered, refused, told, spent>>
  BY DEF RunMain
<1>2. /\ Tail(auth.main) \in Seq(Event) /\ e = auth.main[1] /\ e \in Event
      /\ \E a \in Nat : Shorter1(Tail(auth.main), auth.main, a)
  BY <1>1, AuthTypes, TailOf
<1>3. PICK q \in Request :
        /\ q.attempt = e.request.attempt /\ q.counter = auth.counter /\ q.token = {}
        /\ auth' = [auth EXCEPT !.main = Tail(auth.main), !.asked = auth.asked \cup {q}]
  <2>1. e.request \in Request
    BY <1>2 DEF Event
  <2> DEFINE q == [e.request EXCEPT !.counter = auth.counter, !.token = {}]
  <2>2. /\ q \in Request
        /\ q.attempt = e.request.attempt /\ q.counter = auth.counter /\ q.token = {}
    BY <2>1, AuthTypes DEF Request, Token
  <2>3. auth' = [auth EXCEPT !.main = Tail(auth.main), !.asked = auth.asked \cup {q}]
    BY <1>1
  <2> HIDE DEF q
  <2> QED BY <2>2, <2>3
<1>4. /\ auth'.user = auth.user /\ auth'.asked = auth.asked \cup {q}
      /\ auth'.counter = auth.counter
      /\ auth'.main = Tail(auth.main) /\ auth' \in AuthRec
  <2>1. auth \in AuthRec /\ auth.asked \cup {q} \subseteq Request
    BY AuthTypes DEF IInv, Types
  <2> QED BY <2>1, <1>2, <1>3 DEF AuthRec, Event
<1>5. PICK a \in Nat : Shorter1(auth'.main, auth.main, a)
  BY <1>2, <1>4
<1>6. 1 \in DOMAIN auth.main /\ auth.main[1].type = "Token" /\ ~Changed(1)
  BY <1>1, <1>2, <1>5, EventsMoveUp DEF Changed
<1>7. /\ client' = client /\ worker' = worker
      /\ OnMain(1) <=> q.attempt = client.closes
      /\ Asked(q)' <=> q.attempt = client.closes
      /\ \A r \in auth.asked : Asked(r)' <=> Asked(r)
      /\ \A i : OnWorker(i)' <=> OnWorker(i)
      /\ \A v : WillServe(v) => WillServe(v)'
  BY <1>1, <1>2, <1>3, <1>4, <1>6 DEF OnMain, Asked, OnWorker, WillServe
<1> HIDE DEF e
<1>8. /\ Numbered /\ TokenOnItsWay /\ UserKnown /\ TokensMatch
  BY DEF IInv
<1>9. Numbered'
  BY <1>1, <1>8, NumberedStands
<1>10. TokenOnItsWay'
  <2>1. q.attempt <= client.closes
    BY <1>2, <1>3, <1>6, <1>8 DEF TokenOnItsWay
  <2>2. /\ \A x \in auth'.asked : x.attempt <= client'.closes
        /\ \A i \in DOMAIN auth'.main : auth'.main[i].type = "Token" =>
             auth'.main[i].request.attempt <= client'.closes
        /\ \A i \in DOMAIN worker' : worker'[i].op = "Credentials" =>
             worker'[i].attempt <= client'.closes
    BY <1>4, <1>5, <1>7, <1>8, <2>1, EventsMoveUp DEF TokenOnItsWay
  <2>3. \A i \in DOMAIN auth'.main : \E k \in DOMAIN auth.main :
          k = i + 1 /\ (OnMain(i)' <=> OnMain(k))
    BY <1>5, <1>7, EventsMoveUp
  <2>4. CASE OnMain(1)
    <3>1. client.stream = "Starting"
      BY <2>4, <1>6, <1>8 DEF TokenOnItsWay, Nowhere
    <3>2. /\ \A j \in DOMAIN auth.main : OnMain(j) => j = 1
          /\ \A r \in auth.asked : ~Asked(r)
          /\ \A i \in DOMAIN worker : ~OnWorker(i)
      BY <2>4, <3>1, <1>6, <1>8 DEF TokenOnItsWay
    <3>3. \A i \in DOMAIN auth'.main : ~OnMain(i)'
      <4>1. \A i \in DOMAIN auth'.main : i + 1 # 1
        BY <1>5 DEF Shorter1
      <4> QED BY <2>3, <3>2, <4>1
    <3>4. q \in auth'.asked /\ Asked(q)' /\ \A r \in auth'.asked : Asked(r)' => r = q
      BY <2>4, <3>2, <1>4, <1>7
    <3> QED BY <2>2, <3>1, <3>2, <3>3, <3>4, <1>7 DEF TokenOnItsWay
  <2>5. CASE ~OnMain(1)
    <3>1. \A k \in DOMAIN auth.main : OnMain(k) =>
            \E i \in DOMAIN auth'.main : k = i + 1 /\ OnMain(i)'
      BY <2>5, <1>5, <1>7, EventsMoveUp
    <3>2. \A r \in auth'.asked : Asked(r)' <=> r \in auth.asked /\ Asked(r)
      BY <2>5, <1>4, <1>7 DEF Asked
    <3>3. \A r \in auth.asked : Asked(r) => r \in auth'.asked /\ Asked(r)'
      BY <1>4, <1>7
    <3>4. CASE Nowhere
      <4>1. client.stream # "Starting"
        BY <3>4, <1>8 DEF Nowhere, TokenOnItsWay
      <4>2. Nowhere'
        BY <2>3, <3>2, <3>4, <1>7 DEF Nowhere
      <4> QED BY <2>2, <4>1, <4>2, <1>7 DEF TokenOnItsWay
    <3>5. CASE \E k \in DOMAIN auth.main : OnMain(k)
      <4>1. client.stream = "Starting"
        BY <3>5, <1>8 DEF TokenOnItsWay, Nowhere
      <4>2. PICK k \in DOMAIN auth.main : /\ OnMain(k)
               /\ \A j \in DOMAIN auth.main : OnMain(j) => j = k
        BY <3>5, <4>1, <1>8 DEF TokenOnItsWay
      <4>3. PICK i \in DOMAIN auth'.main : k = i + 1 /\ OnMain(i)'
        BY <3>1, <4>2
      <4>4. ASSUME NEW j \in DOMAIN auth'.main, OnMain(j)'
            PROVE  j = i
        <5>1. PICK m \in DOMAIN auth.main : m = j + 1 /\ OnMain(m)
          BY <2>3, <4>4
        <5>2. m = k
          BY <4>2, <5>1
        <5> QED BY <5>1, <5>2, <4>3, <1>5 DEF Shorter1
      <4>5. /\ \A r \in auth.asked : ~Asked(r)
            /\ \A j \in DOMAIN worker : ~OnWorker(j)
        BY <3>5, <4>1, <1>8 DEF TokenOnItsWay
      <4> QED BY <2>2, <3>2, <4>1, <4>3, <4>4, <4>5, <1>7 DEF TokenOnItsWay
    <3>6. CASE (\A k \in DOMAIN auth.main : ~OnMain(k)) /\ ~Nowhere
      <4>1. client.stream = "Starting"
        BY <3>6, <1>8 DEF TokenOnItsWay
      <4>2. \A i \in DOMAIN auth'.main : ~OnMain(i)'
        BY <2>3, <3>6
      <4> QED BY <2>2, <3>2, <3>3, <3>6, <4>1, <4>2, <1>7, <1>8 DEF TokenOnItsWay
    <3> QED BY <3>4, <3>5, <3>6
  <2> QED BY <2>4, <2>5
<1>11. /\ UserKnown'
       /\ (\E k \in DOMAIN auth.main : Changed(k)) =>
             \E i \in DOMAIN auth'.main : Changed(i)'
       /\ \A i \in DOMAIN auth'.main : \A k \in DOMAIN auth.main :
            k = i + 1 /\ (\E j \in 1..(k - 1) : Changed(j)) =>
              \E j \in 1..(i - 1) : Changed(j)'
  BY <1>4, <1>5, <1>6, <1>7, <1>8, AnswerTaken
<1>12. TokensMatch'
  <2>1. /\ \A x \in auth'.asked : x.counter <= auth'.counter
        /\ \A x \in auth'.asked : \A v \in x.token :
             x.counter = auth'.counter =>
               (\E i \in DOMAIN auth'.main : Changed(i)') \/ WillServe(v)'
    BY <1>3, <1>4, <1>7, <1>8, <1>11, AuthTypes DEF TokensMatch
  <2>2. ASSUME NEW i \in DOMAIN auth'.main, auth'.main[i].type = "Token"
        PROVE  /\ auth'.main[i].request.counter <= auth'.counter
               /\ \A v \in auth'.main[i].request.token :
                    auth'.main[i].request.counter = auth'.counter =>
                      (\E j \in 1..(i - 1) : Changed(j)') \/ WillServe(v)'
    <3>1. PICK k \in DOMAIN auth.main : k = i + 1 /\ auth'.main[i] = auth.main[k]
      BY <1>5, <1>7, EventsMoveUp
    <3> QED BY <2>2, <3>1, <1>4, <1>7, <1>8, <1>11 DEF TokensMatch
  <2> QED BY <2>1, <2>2, <1>7, <1>8 DEF TokensMatch
<1> QED BY <1>1, <1>4, <1>9, <1>10, <1>11, <1>12, AuthTypes, ClientStands

\* A token of the present count, or none, is told to the client: it is that
\* of the user whom the client serves when it comes to it.
LEMMA TokenDelivered ==
  ASSUME IInv, RunMain, Head(auth.main).type = "Token",
         Head(auth.main).request.counter = auth.counter
  PROVE  IInv'
<1> DEFINE e == Head(auth.main)
           o == [op |-> "Credentials", attempt |-> e.request.attempt,
                 token |-> e.request.token]
<1>1. /\ auth.main # <<>>
      /\ auth' = [auth EXCEPT !.main = Tail(auth.main)]
      /\ worker' = Append(worker, o)
      /\ UNCHANGED <<client, delivered, refused, told, spent>>
  BY DEF RunMain
<1>2. /\ Tail(auth.main) \in Seq(Event) /\ e = auth.main[1] /\ e \in Event
      /\ \E a \in Nat : Shorter1(Tail(auth.main), auth.main, a)
  BY <1>1, AuthTypes, TailOf
<1>3. /\ o \in Operation /\ o.op = "Credentials"
      /\ o.attempt = auth.main[1].request.attempt
      /\ o.token = auth.main[1].request.token
  <2>1. e.request \in Request
    BY <1>2 DEF Event
  <2> QED BY <1>2, <2>1 DEF Operation, Request
<1>4. /\ auth'.user = auth.user /\ auth'.asked = auth.asked
      /\ auth'.counter = auth.counter
      /\ auth'.main = Tail(auth.main) /\ auth' \in AuthRec
  BY <1>1, <1>2 DEF IInv, Types, AuthRec, Event
<1>5. PICK a \in Nat : Shorter1(auth'.main, auth.main, a)
  BY <1>2, <1>4
<1>6. /\ 1 \in DOMAIN auth.main /\ auth.main[1].type = "Token" /\ ~Changed(1)
      /\ auth.main[1].request.counter = auth.counter
  BY <1>1, <1>2, <1>5, EventsMoveUp DEF Changed
<1> HIDE DEF o, e
<1>7. worker' \in Seq(Operation) /\ Longer1(worker', worker, o)
  BY <1>1, <1>3, AuthTypes, AppendOf
<1>8. PICK b \in Nat : b = Len(worker)
  BY AuthTypes
<1>9. /\ DOMAIN worker = 1..b /\ DOMAIN worker' = 1..(b + 1)
      /\ \A i \in 1..b : worker'[i] = worker[i]
      /\ worker'[b + 1] = o
  BY <1>7, <1>8 DEF Longer1
<1>10. /\ \A i \in DOMAIN worker : i \in DOMAIN worker' /\ worker'[i] = worker[i]
       /\ \A i \in DOMAIN worker' : i \in DOMAIN worker \/ i = b + 1
       /\ b + 1 \in DOMAIN worker' /\ b + 1 \notin DOMAIN worker
       /\ \A i \in DOMAIN worker : i <= b
       /\ client' = client
  BY <1>1, <1>9
<1>11. /\ OnWorker(b + 1)' <=> OnMain(1)
       /\ \A i \in DOMAIN worker : OnWorker(i)' <=> OnWorker(i)
       /\ \A r : Asked(r)' <=> Asked(r)
  BY <1>3, <1>4, <1>6, <1>9, <1>10 DEF OnWorker, Asked, OnMain
<1>12. ASSUME NEW u, WillServe(u)
       PROVE  WillServe(u)'
  <2>1. \A i \in DOMAIN worker' : worker'[i].op = "User" =>
          i \in DOMAIN worker /\ worker[i].op = "User"
    BY <1>3, <1>9, <1>10
  <2>2. CASE u = client.user /\ \A i \in DOMAIN worker : worker[i].op # "User"
    BY <2>1, <2>2, <1>10 DEF WillServe
  <2>3. CASE \E i \in DOMAIN worker :
               /\ worker[i].op = "User" /\ worker[i].user = u
               /\ \A j \in DOMAIN worker : worker[j].op = "User" => j <= i
    BY <2>1, <2>3, <1>10 DEF WillServe
  <2> QED BY <2>2, <2>3, <1>12 DEF WillServe
<1>13. /\ Numbered /\ TokenOnItsWay /\ UserKnown /\ TokensMatch
  BY DEF IInv
<1>14. Numbered'
  <2>1. o.op # "Write"
    BY <1>3
  <2> QED BY <2>1, <1>1, <1>7, <1>13, NumberedBehind
<1>15. TokenOnItsWay'
  <2>1. o.attempt <= client.closes
    BY <1>3, <1>6, <1>13 DEF TokenOnItsWay
  <2>2. /\ \A x \in auth'.asked : x.attempt <= client'.closes
        /\ \A i \in DOMAIN auth'.main : auth'.main[i].type = "Token" =>
             auth'.main[i].request.attempt <= client'.closes
        /\ \A i \in DOMAIN worker' : worker'[i].op = "Credentials" =>
             worker'[i].attempt <= client'.closes
    BY <1>4, <1>5, <1>9, <1>10, <1>13, <2>1, EventsMoveUp DEF TokenOnItsWay
  <2>3. \A i \in DOMAIN auth'.main : \E k \in DOMAIN auth.main :
          k = i + 1 /\ (OnMain(i)' <=> OnMain(k))
    BY <1>5, <1>10, EventsMoveUp
  <2>4. CASE OnMain(1)
    <3>1. client.stream = "Starting"
      BY <2>4, <1>6, <1>13 DEF TokenOnItsWay, Nowhere
    <3>2. /\ \A j \in DOMAIN auth.main : OnMain(j) => j = 1
          /\ \A r \in auth.asked : ~Asked(r)
          /\ \A i \in DOMAIN worker : ~OnWorker(i)
      BY <2>4, <3>1, <1>6, <1>13 DEF TokenOnItsWay
    <3>3. \A i \in DOMAIN auth'.main : ~OnMain(i)'
      <4>1. \A i \in DOMAIN auth'.main : i + 1 # 1
        BY <1>5 DEF Shorter1
      <4> QED BY <2>3, <3>2, <4>1
    <3>4. OnWorker(b + 1)' /\ \A i \in DOMAIN worker' : OnWorker(i)' => i = b + 1
      BY <2>4, <3>2, <1>10, <1>11
    <3> QED BY <2>2, <3>1, <3>2, <3>3, <3>4, <1>4, <1>10, <1>11 DEF TokenOnItsWay
  <2>5. CASE ~OnMain(1)
    <3>1. \A k \in DOMAIN auth.main : OnMain(k) =>
            \E i \in DOMAIN auth'.main : k = i + 1 /\ OnMain(i)'
      BY <2>5, <1>5, <1>10, EventsMoveUp
    <3>2. /\ \A i \in DOMAIN worker' : OnWorker(i)' => i \in DOMAIN worker /\ OnWorker(i)
          /\ \A i \in DOMAIN worker : OnWorker(i) => i \in DOMAIN worker' /\ OnWorker(i)'
      BY <2>5, <1>10, <1>11
    <3>3. CASE Nowhere
      <4>1. client.stream # "Starting"
        BY <3>3, <1>13 DEF Nowhere, TokenOnItsWay
      <4>2. Nowhere'
        BY <2>3, <3>2, <3>3, <1>4, <1>11 DEF Nowhere
      <4> QED BY <2>2, <4>1, <4>2, <1>10 DEF TokenOnItsWay
    <3>4. CASE \E k \in DOMAIN auth.main : OnMain(k)
      <4>1. client.stream = "Starting"
        BY <3>4, <1>13 DEF TokenOnItsWay, Nowhere
      <4>2. PICK k \in DOMAIN auth.main : /\ OnMain(k)
               /\ \A j \in DOMAIN auth.main : OnMain(j) => j = k
        BY <3>4, <4>1, <1>13 DEF TokenOnItsWay
      <4>3. PICK i \in DOMAIN auth'.main : k = i + 1 /\ OnMain(i)'
        BY <3>1, <4>2
      <4>4. ASSUME NEW j \in DOMAIN auth'.main, OnMain(j)'
            PROVE  j = i
        <5>1. PICK m \in DOMAIN auth.main : m = j + 1 /\ OnMain(m)
          BY <2>3, <4>4
        <5>2. m = k
          BY <4>2, <5>1
        <5> QED BY <5>1, <5>2, <4>3, <1>5 DEF Shorter1
      <4>5. /\ \A r \in auth.asked : ~Asked(r)
            /\ \A j \in DOMAIN worker : ~OnWorker(j)
        BY <3>4, <4>1, <1>13 DEF TokenOnItsWay
      <4> QED BY <2>2, <3>2, <4>1, <4>3, <4>4, <4>5, <1>4, <1>10, <1>11 DEF TokenOnItsWay
    <3>5. CASE (\A k \in DOMAIN auth.main : ~OnMain(k)) /\ ~Nowhere
      <4>1. client.stream = "Starting"
        BY <3>5, <1>13 DEF TokenOnItsWay
      <4>2. \A i \in DOMAIN auth'.main : ~OnMain(i)'
        BY <2>3, <3>5
      <4> QED BY <2>2, <3>2, <3>5, <4>1, <4>2, <1>4, <1>10, <1>11, <1>13 DEF TokenOnItsWay
    <3> QED BY <3>3, <3>4, <3>5
  <2> QED BY <2>4, <2>5
<1>16. /\ UserKnown'
       /\ (\E k \in DOMAIN auth.main : Changed(k)) =>
             \E i \in DOMAIN auth'.main : Changed(i)'
       /\ \A i \in DOMAIN auth'.main : \A k \in DOMAIN auth.main :
            k = i + 1 /\ (\E j \in 1..(k - 1) : Changed(j)) =>
              \E j \in 1..(i - 1) : Changed(j)'
  BY <1>4, <1>5, <1>6, <1>10, <1>12, <1>13, AnswerTaken
<1>17. TokensMatch'
  <2>1. /\ \A x \in auth'.asked : x.counter <= auth'.counter
        /\ \A x \in auth'.asked : \A v \in x.token :
             x.counter = auth'.counter =>
               (\E i \in DOMAIN auth'.main : Changed(i)') \/ WillServe(v)'
    BY <1>4, <1>12, <1>13, <1>16 DEF TokensMatch
  <2>2. ASSUME NEW i \in DOMAIN auth'.main, auth'.main[i].type = "Token"
        PROVE  /\ auth'.main[i].request.counter <= auth'.counter
               /\ \A v \in auth'.main[i].request.token :
                    auth'.main[i].request.counter = auth'.counter =>
                      (\E j \in 1..(i - 1) : Changed(j)') \/ WillServe(v)'
    <3>1. PICK k \in DOMAIN auth.main : k = i + 1 /\ auth'.main[i] = auth.main[k]
      BY <1>5, <1>10, EventsMoveUp
    <3> QED BY <2>2, <3>1, <1>4, <1>12, <1>13, <1>16 DEF TokensMatch
  <2>3. ASSUME NEW k \in DOMAIN worker', NEW u \in Users,
               OnWorker(k)', worker'[k].token = {u}
        PROVE  (\E i \in 1..(k - 1) : worker'[i].op = "User") \/ u = client'.user
    <3>1. CASE k \in DOMAIN worker
      <4>1. (\E i \in 1..(k - 1) : worker[i].op = "User") \/ u = client.user
        BY <2>3, <3>1, <1>10, <1>11, <1>13 DEF TokensMatch
      <4>2. \A i \in 1..(k - 1) : i \in 1..b /\ worker'[i] = worker[i]
        BY <3>1, <1>9
      <4> QED BY <4>1, <4>2, <1>10
    <3>2. CASE k = b + 1
      <4>1. u \in auth.main[1].request.token
        BY <2>3, <3>2, <1>3, <1>9
      <4>2. (\E i \in 1..(1 - 1) : Changed(i)) \/ WillServe(u)
        BY <4>1, <1>6, <1>13 DEF TokensMatch
      <4>3. WillServe(u)
        BY <4>2
      <4>4. u = client.user \/ \E i \in 1..b : worker[i].op = "User"
        BY <4>3, <1>9 DEF WillServe
      <4> QED BY <3>2, <4>4, <1>9, <1>10
    <3> QED BY <2>3, <3>1, <3>2, <1>10
  <2> QED BY <2>1, <2>2, <2>3 DEF TokensMatch
<1> QED BY <1>1, <1>4, <1>7, <1>14, <1>15, <1>16, <1>17, AuthTypes, ClientStands

LEMMA RunMainKeeps ==
  ASSUME IInv, RunMain
  PROVE  IInv'
<1>1. Head(auth.main) \in Event
  BY AuthTypes, TailOf DEF RunMain
<1>2. Head(auth.main).type \in {"Changed", "Token"}
  BY <1>1 DEF Event
<1> QED BY <1>2, ChangeNoted, TokenAskedAgain, TokenDelivered

\* The app makes a write.
LEMMA WriteMutationsKeeps ==
  ASSUME IInv, WriteMutations
  PROVE  IInv'
<1> DEFINE n == spent.writes + 1
           o == [op |-> "Write", write |-> n]
<1>1. /\ UNCHANGED <<client, auth, delivered, refused, told>>
      /\ spent.writes \in Nat /\ MaxWrites \in Nat /\ spent.writes < MaxWrites
      /\ spent'.writes = n
      /\ spent' \in [writes : Nat, signIns : Nat, faults : Nat, restarts : Nat]
      /\ worker' = Append(worker, o)
  <2>1. spent \in [writes : Nat, signIns : Nat, faults : Nat, restarts : Nat]
    BY AuthTypes
  <2>2. spent' = [spent EXCEPT !.writes = n]
    BY DEF WriteMutations
  <2>3. /\ spent'.writes = n
        /\ spent' \in [writes : Nat, signIns : Nat, faults : Nat, restarts : Nat]
    BY <2>1, <2>2
  <2>4. spent.writes \in Nat /\ MaxWrites \in Nat
    BY <2>1, RemoteWriteAssumption
  <2> HIDE DEF n
  <2> QED BY <2>3, <2>4 DEF WriteMutations
<1>2. n \in Writes /\ o \in Operation /\ o.op = "Write" /\ o.write = n
  BY <1>1 DEF Writes, Operation
<1> HIDE DEF o
<1>3. worker' \in Seq(Operation) /\ Longer1(worker', worker, o)
  BY <1>1, <1>2, AuthTypes, AppendOf
<1>4. PICK b \in Nat : b = Len(worker)
  BY AuthTypes
<1>5. /\ DOMAIN worker = 1..b /\ DOMAIN worker' = 1..(b + 1)
      /\ \A i \in 1..b : worker'[i] = worker[i]
      /\ worker'[b + 1] = o
  BY <1>3, <1>4 DEF Longer1
<1>6. /\ Numbered /\ TokenOnItsWay /\ UserKnown /\ TokensMatch
  BY DEF IInv
<1>7. \A i \in 1..b : worker[i].op = "Write" => worker[i].write \in Nat
  <2>1. \A i \in 1..b : worker[i] \in Operation
    BY <1>5, AuthTypes
  <2> QED BY <2>1, WritesAreNumbers DEF Operation
<1>8. \A u \in Users : \A k \in DOMAIN client.queues[u] : client.queues[u][k] \in Nat
  <2>1. \A u \in Users : client.queues[u] \in Seq(Writes)
    BY DEF IInv, Types, ClientRec
  <2>2. \A u \in Users : \A k \in DOMAIN client.queues[u] : client.queues[u][k] \in Writes
    BY <2>1
  <2> QED BY <2>2, WritesAreNumbers
<1>9. Numbered'
  <2>1. ASSUME NEW i \in DOMAIN worker', worker'[i].op = "Write"
        PROVE  /\ worker'[i].write <= spent'.writes
               /\ \A j \in 1..(i - 1) :
                    worker'[j].op = "Write" => worker'[j].write < worker'[i].write
               /\ \A u \in Users : \A k \in DOMAIN client'.queues[u] :
                    client'.queues[u][k] < worker'[i].write
    <3>1. CASE i \in 1..b
      <4>1. \A j \in 1..(i - 1) : j \in 1..b
        BY <3>1
      <4> QED BY <2>1, <3>1, <4>1, <1>1, <1>5, <1>6, <1>7 DEF Numbered
    <3>2. CASE i = b + 1
      <4>1. i - 1 = b /\ worker'[i].write = n
        BY <3>2, <1>2, <1>5
      <4>2. \A j \in 1..b : worker[j].op = "Write" => worker[j].write <= spent.writes
        BY <1>5, <1>6 DEF Numbered
      <4>3. \A u \in Users : \A k \in DOMAIN client.queues[u] :
              client.queues[u][k] <= spent.writes
        BY <1>6 DEF Numbered
      <4>4. \A j \in 1..b : worker'[j].op = "Write" => worker'[j].write < n
        BY <4>2, <1>1, <1>5, <1>7
      <4>5. \A u \in Users : \A k \in DOMAIN client.queues[u] :
              client.queues[u][k] < n
        BY <4>3, <1>1, <1>8
      <4> QED BY <4>1, <4>4, <4>5, <1>1
    <3> QED BY <2>1, <3>1, <3>2, <1>5
  <2>2. /\ spent'.writes <= MaxWrites
        /\ \A u \in Users : \A k \in DOMAIN client'.queues[u] :
             client'.queues[u][k] <= spent'.writes
    BY <1>1, <1>6, <1>8 DEF Numbered
  <2> QED BY <2>1, <2>2 DEF Numbered
<1>10. /\ client' = client /\ auth' = auth
       /\ \A i : (OnMain(i)' <=> OnMain(i)) /\ (Changed(i)' <=> Changed(i))
       /\ \A r : Asked(r)' <=> Asked(r)
       /\ \A i \in DOMAIN worker : OnWorker(i)' <=> OnWorker(i)
       /\ \A i \in DOMAIN worker' : OnWorker(i)' => i \in DOMAIN worker /\ OnWorker(i)
       /\ \A i \in DOMAIN worker : i \in DOMAIN worker' /\ worker'[i] = worker[i]
       /\ \A i \in DOMAIN worker' :
            worker'[i].op # "Write" => i \in DOMAIN worker
  BY <1>1, <1>2, <1>5 DEF OnMain, Changed, Asked, OnWorker
<1>11. ASSUME NEW u, WillServe(u)
       PROVE  WillServe(u)'
  <2>1. \A i \in DOMAIN worker' : worker'[i].op = "User" =>
          i \in DOMAIN worker /\ worker[i].op = "User"
    BY <1>10
  <2> QED BY <2>1, <1>10, <1>11 DEF WillServe
<1>12. TokenOnItsWay'
  <2>1. \A i \in DOMAIN worker' : worker'[i].op = "Credentials" =>
          worker'[i].attempt <= client'.closes
    BY <1>6, <1>10 DEF TokenOnItsWay
  <2> QED BY <2>1, <1>6, <1>10 DEF TokenOnItsWay, Nowhere
<1>13. UserKnown'
  <2>1. PICK u : u = auth.user
    OBVIOUS
  <2>2. (\A i \in DOMAIN auth.main : ~Changed(i)) => WillServe(u)'
    BY <2>1, <1>6, <1>11 DEF UserKnown
  <2> QED BY <2>1, <2>2, <1>6, <1>10 DEF UserKnown
<1>14. TokensMatch'
  <2>1. ASSUME NEW k \in DOMAIN worker', NEW u \in Users,
               OnWorker(k)', worker'[k].token = {u}
        PROVE  (\E i \in 1..(k - 1) : worker'[i].op = "User") \/ u = client'.user
    <3>1. k \in DOMAIN worker /\ OnWorker(k) /\ worker[k] = worker'[k]
      BY <2>1, <1>10
    <3>2. (\E i \in 1..(k - 1) : worker[i].op = "User") \/ u = client.user
      BY <2>1, <3>1, <1>6 DEF TokensMatch
    <3>3. \A i \in 1..(k - 1) : worker'[i] = worker[i]
      <4>1. \A i \in 1..(k - 1) : i \in 1..b
        BY <3>1, <1>5
      <4> QED BY <4>1, <1>5
    <3> QED BY <3>2, <3>3, <1>10
  <2> QED BY <2>1, <1>6, <1>10, <1>11 DEF TokensMatch
<1> QED BY <1>1, <1>3, <1>9, <1>10, <1>12, <1>13, <1>14, AuthTypes, ClientStands DEF IInv, Types

-----------------------------------------------------------------------------
(* The backend                                                               *)

\* Only the wires of the client change.
OnWires(up, down) == client' = [client EXCEPT !.up = up, !.down = down]

LEMMA WiresChange ==
  ASSUME IInv, NEW up \in Seq(Message), NEW down \in Seq(Message), OnWires(up, down)
  PROVE  /\ client' \in ClientRec /\ client'.up = up /\ client'.down = down
         /\ client'.stream = client.stream /\ client'.closes = client.closes
         /\ client'.tokens = client.tokens /\ client'.backoff = client.backoff
         /\ client'.idle = client.idle /\ client'.broken = client.broken
         /\ client'.handshake = client.handshake
         /\ client'.enabled = client.enabled
         /\ client'.pipeline = client.pipeline /\ client'.bearer = client.bearer
         /\ client'.user = client.user /\ client'.queues = client.queues
         /\ client'.called = client.called
BY DEF IInv, Types, ClientRec, OnWires

LEMMA BackendStands ==
  ASSUME IInv, NEW up \in Seq(Message), NEW down \in Seq(Message), OnWires(up, down),
         UNCHANGED <<worker, auth, told>>, spent'.writes = spent.writes,
         spent' \in [writes : Nat, signIns : Nat, faults : Nat, restarts : Nat],
         delivered' \in [Users -> Seq(Writes)], refused' \subseteq Nat,
         Wires(client'), AnswersTrue', CompletionsTrue'
  PROVE  IInv'
<1>1. /\ client' \in ClientRec
      /\ client'.stream = client.stream /\ client'.closes = client.closes
      /\ client'.tokens = {} /\ client'.called = {}
      /\ client'.backoff = client.backoff /\ client'.broken = client.broken
      /\ client'.handshake = client.handshake /\ client'.enabled = client.enabled
      /\ client'.pipeline = client.pipeline /\ client'.bearer = client.bearer
      /\ client'.user = client.user /\ client'.queues = client.queues
  BY WiresChange DEF IInv
<1>2. Types'
  BY <1>1 DEF IInv, Types
<1>3. Rests(client')
  <2>1. Rests(client)
    BY DEF IInv
  <2>2. /\ RisingQueues(client') /\ Fits(client') /\ Filled(client')
        /\ IsOpen(client') <=> IsOpen(client)
    BY <1>1, <2>1 DEF Rests, Settled, Sound, RisingQueues, Fits, Filled, Queue, IsOpen
  <2> QED BY <1>1, <2>1, <2>2 DEF Rests, Settled, Sound
<1>4. /\ auth' = auth /\ worker' = worker
      /\ \A i : (OnMain(i)' <=> OnMain(i)) /\ (Changed(i)' <=> Changed(i))
      /\ \A i : OnWorker(i)' <=> OnWorker(i)
      /\ \A r : Asked(r)' <=> Asked(r)
      /\ \A u : WillServe(u)' <=> WillServe(u)
  BY <1>1 DEF OnMain, Changed, OnWorker, Asked, WillServe
<1>5. Numbered'
  BY <1>1 DEF IInv, Numbered
<1>6. TokenOnItsWay'
  BY <1>1, <1>4 DEF IInv, TokenOnItsWay, Nowhere
<1>7. UserKnown'
  BY <1>4 DEF IInv, UserKnown
<1>8. TokensMatch'
  BY <1>1, <1>4 DEF IInv, TokensMatch
<1>9. BearerServed'
  BY <1>1 DEF IInv, BearerServed, IsOpen
<1> QED BY <1>1, <1>2, <1>3, <1>5, <1>6, <1>7, <1>8, <1>9 DEF IInv

\* What the wires are when the backend may answer.
LEMMA BackendFinds ==
  ASSUME IInv, Accepts
  PROVE  /\ IsOpen(client) /\ Head(client.up) = client.up[1]
         /\ Head(client.up) \in Message
         /\ client.up \in Seq(Message) /\ client.down \in Seq(Message)
         /\ Tail(client.up) \in Seq(Message)
         /\ Len(Tail(client.up)) = Len(client.up) - 1
         /\ \A i \in 1..Len(Tail(client.up)) : Tail(client.up)[i] = client.up[i + 1]
         /\ ~client.handshake =>
              /\ client.down = <<>> /\ Len(client.up) = 1
              /\ Head(client.up).type = "Handshake"
              /\ client.pipeline # <<>> /\ ~client.idle
         /\ client.handshake =>
              /\ Answers(client, Len(client.down))
              /\ Len(client.down) < Len(client.pipeline)
              /\ Head(client.up) = WriteRequest(client.pipeline[Len(client.down) + 1])
              /\ client.idle => client.pipeline = <<>>
<1>1. /\ client.up \in Seq(Message) /\ client.down \in Seq(Message)
      /\ client.pipeline \in Seq(Writes) /\ client.up # <<>>
      /\ \A i \in DOMAIN client.down : client.down[i].type # "Refused"
  BY DEF IInv, Types, ClientRec, Accepts
<1>2. /\ Head(client.up) = client.up[1] /\ Head(client.up) \in Message
      /\ Tail(client.up) \in Seq(Message)
      /\ Len(client.up) \in Nat /\ Len(client.up) >= 1
      /\ Len(Tail(client.up)) = Len(client.up) - 1
      /\ \A i \in 1..Len(Tail(client.up)) : Tail(client.up)[i] = client.up[i + 1]
  BY <1>1, HeadTailProperties
<1>3. Wires(client)
  BY DEF IInv, Rests, Settled, Sound
<1>4. IsOpen(client)
  BY <1>1, <1>3 DEF Wires
<1>5. ASSUME ~client.handshake
      PROVE  /\ client.down = <<>> /\ Len(client.up) = 1
             /\ Head(client.up).type = "Handshake"
             /\ client.pipeline # <<>> /\ ~client.idle
  <2>1. Shaking(client)
    BY <1>3, <1>4, <1>5 DEF Wires
  <2>2. Len(client.down) = 1 => client.down[1].type # "Refused"
    BY <1>1
  <2> QED BY <2>1, <2>2, <1>1, <1>2 DEF Shaking
<1>6. ASSUME client.handshake
      PROVE  /\ Answers(client, Len(client.down))
             /\ Len(client.down) < Len(client.pipeline)
             /\ Head(client.up) = WriteRequest(client.pipeline[Len(client.down) + 1])
             /\ client.idle => client.pipeline = <<>>
  <2>1. PICK n \in 0..Len(client.down) : Answers(client, n)
    BY <1>3, <1>4, <1>6 DEF Wires
  <2>2. n = Len(client.down)
    BY <1>1, <2>1 DEF Answers
  <2>3. /\ Len(client.up) = Len(client.pipeline) - n
        /\ client.up[1] = WriteRequest(client.pipeline[n + 1])
    BY <1>2, <2>1 DEF Answers
  <2> QED BY <2>1, <2>2, <2>3, <1>1, <1>2, <1>3, <1>4, <1>6 DEF Wires
<1> QED BY <1>1, <1>2, <1>4, <1>5, <1>6

\* The backend has applied the write, and its answer is behind the others.
LEMMA BackendAnswersKeeps ==
  ASSUME IInv, BackendAnswers
  PROVE  IInv'
<1> DEFINE m == Head(client.up)
           up == Tail(client.up)
           down == Append(client.down, m)
<1>1. /\ Accepts /\ OnWires(up, down)
      /\ delivered' = IF m.type # "Write" THEN delivered
                      ELSE [delivered EXCEPT ![client.user] = Append(@, m.write)]
      /\ UNCHANGED <<worker, auth, refused, told, spent>>
  BY DEF BackendAnswers, OnWires
<1>2. /\ IsOpen(client) /\ m = client.up[1] /\ m \in Message
      /\ client.up \in Seq(Message) /\ client.down \in Seq(Message)
      /\ up \in Seq(Message) /\ Len(up) = Len(client.up) - 1
      /\ \A i \in 1..Len(up) : up[i] = client.up[i + 1]
      /\ client.pipeline \in Seq(Writes) /\ client.user \in Users
  BY <1>1, BackendFinds DEF IInv, Types, ClientRec
<1> HIDE DEF m, up
<1>3. PICK n \in Nat : n = Len(client.down)
  BY <1>2
<1>4. /\ down \in Seq(Message) /\ Len(down) = n + 1 /\ DOMAIN down = 1..(n + 1)
      /\ DOMAIN client.down = 1..n
      /\ \A i \in 1..n : down[i] = client.down[i]
      /\ down[n + 1] = m
  <2>1. down \in Seq(Message) /\ Longer1(down, client.down, m)
    BY <1>2, AppendOf
  <2> QED BY <2>1, <1>2, <1>3, AppendProperties DEF Longer1
<1> HIDE DEF down
<1>5. /\ client'.up = up /\ client'.down = down /\ client'.stream = client.stream
      /\ client'.handshake = client.handshake /\ client'.pipeline = client.pipeline
      /\ client'.idle = client.idle /\ client'.user = client.user
  BY <1>1, <1>2, <1>4, WiresChange
<1>6. ASSUME client.handshake
      PROVE  /\ Answers(client', n + 1)
             /\ client.idle => client.pipeline = <<>>
             /\ m.type = "Write" /\ m.write \in Writes
  <2>1. /\ Answers(client, n) /\ n < Len(client.pipeline)
        /\ m = WriteRequest(client.pipeline[n + 1])
        /\ client.idle => client.pipeline = <<>>
    BY <1>1, <1>3, <1>6, BackendFinds DEF m
  <2>2. PICK k \in Nat : k = Len(client.pipeline)
    BY <1>2
  <2>3. /\ \A i \in 1..n : down[i] = WriteRequest(client.pipeline[i])
        /\ \A i \in 1..(k - n) : client.up[i] = WriteRequest(client.pipeline[n + i])
        /\ Len(client.up) = k - n
    BY <2>1, <2>2, <1>4 DEF Answers
  <2>4. ASSUME NEW i \in 1..(n + 1)
        PROVE  down[i] = WriteRequest(client.pipeline[i])
    <3>1. CASE i \in 1..n
      BY <3>1, <2>3
    <3>2. CASE i = n + 1
      BY <3>2, <2>1, <1>4
    <3> QED BY <3>1, <3>2
  <2>5. ASSUME NEW i \in 1..(k - (n + 1))
        PROVE  up[i] = WriteRequest(client.pipeline[(n + 1) + i])
    <3>1. i + 1 \in 1..(k - n) /\ n + (i + 1) = (n + 1) + i /\ i \in 1..Len(up)
      BY <2>3, <1>2
    <3>2. up[i] = client.up[i + 1]
      BY <3>1, <1>2
    <3>3. PICK j \in 1..(k - n) : j = i + 1
      BY <3>1
    <3>4. client.up[j] = WriteRequest(client.pipeline[n + j])
      BY <2>3
    <3> QED BY <3>1, <3>2, <3>3, <3>4
  <2>6. m.type = "Write" /\ m.write \in Writes
    BY <2>1, <2>2, <1>2 DEF WriteRequest
  <2> QED BY <2>1, <2>2, <2>3, <2>4, <2>5, <2>6, <1>2, <1>4, <1>5 DEF Answers
<1>7. ASSUME ~client.handshake
      PROVE  Shaking(client') /\ m.type = "Handshake"
  <2>1. /\ client.down = <<>> /\ Len(client.up) = 1 /\ m.type = "Handshake"
        /\ client.pipeline # <<>> /\ ~client.idle
    BY <1>1, <1>7, BackendFinds DEF m
  <2>2. n = 0 /\ up = <<>>
    BY <2>1, <1>2, <1>3
  <2> QED BY <2>1, <2>2, <1>4, <1>5 DEF Shaking
<1>8. Wires(client')
  <2>1. client.handshake => \E k \in 0..Len(client'.down) : Answers(client', k)
    <3>1. n + 1 \in 0..Len(client'.down)
      BY <1>4, <1>5
    <3> QED BY <3>1, <1>6
  <2>2. IsOpen(client')
    BY <1>2, <1>5 DEF IsOpen
  <2> QED BY <2>1, <2>2, <1>5, <1>6, <1>7 DEF Wires
<1>9. /\ delivered' \in [Users -> Seq(Writes)]
      /\ \A u \in Users : Range(delivered[u]) \subseteq Range(delivered'[u])
      /\ m.type = "Write" => m.write \in Range(delivered'[client.user])
  <2>1. delivered \in [Users -> Seq(Writes)]
    BY DEF IInv, Types
  <2>2. CASE m.type # "Write"
    BY <2>1, <2>2, <1>1
  <2>3. CASE m.type = "Write"
    <3> DEFINE q == delivered[client.user]
               r == Append(q, m.write)
    <3>1. m.write \in Writes /\ q \in Seq(Writes)
      BY <2>1, <2>3, <1>2, <1>6, <1>7
    <3>2. r \in Seq(Writes) /\ Longer1(r, q, m.write)
      BY <3>1, AppendOf
    <3>3. delivered' = [delivered EXCEPT ![client.user] = r]
      BY <2>3, <1>1
    <3> HIDE DEF r
    <3>4. Range(q) \subseteq Range(r) /\ m.write \in Range(r)
      BY <3>2 DEF Range, Longer1
    <3> QED BY <2>1, <3>2, <3>3, <3>4, <1>2
  <2> QED BY <2>2, <2>3
<1>10. AnswersTrue'
  <2>1. ASSUME NEW i \in DOMAIN client'.down
        PROVE  /\ client'.down[i].type = "Write" =>
                    client'.down[i].write \in Range(delivered'[client'.user])
               /\ client'.down[i].type = "Refused" /\ client'.handshake =>
                    client'.pipeline[i] \in refused'
    <3>1. CASE i = n + 1
      BY <3>1, <1>4, <1>5, <1>6, <1>7, <1>9
    <3>2. CASE i \in 1..n
      <4>1. i \in DOMAIN client.down /\ client'.down[i] = client.down[i]
        BY <3>2, <1>4, <1>5
      <4> QED BY <4>1, <1>1, <1>2, <1>5, <1>9 DEF IInv, AnswersTrue
    <3> QED BY <2>1, <3>1, <3>2, <1>4, <1>5
  <2> QED BY <2>1 DEF AnswersTrue
<1>11. CompletionsTrue'
  BY <1>1, <1>9 DEF IInv, CompletionsTrue
<1> QED BY <1>1, <1>2, <1>4, <1>8, <1>9, <1>10, <1>11, BackendStands DEF IInv, Types

\* The backend refuses the first write that it has not answered.
LEMMA BackendRefusesKeeps ==
  ASSUME IInv, BackendRefuses
  PROVE  IInv'
<1> DEFINE m == [type |-> "Refused", write |-> 0]
           up == client.up
           down == Append(client.down, m)
<1>1. /\ Accepts /\ OnWires(up, down)
      /\ refused' = refused \cup {Head(client.up).write}
      /\ spent' = [spent EXCEPT !.faults = @ + 1]
      /\ UNCHANGED <<worker, auth, delivered, told>>
  BY DEF BackendRefuses, OnWires, IInv, Types, ClientRec
<1>2. /\ IsOpen(client) /\ Head(client.up) \in Message
      /\ client.up \in Seq(Message) /\ client.down \in Seq(Message)
      /\ client.pipeline \in Seq(Writes) /\ client.user \in Users
  BY <1>1, BackendFinds DEF IInv, Types, ClientRec
<1>3. m \in Message /\ m.type = "Refused"
  BY DEF Message
<1> HIDE DEF m
<1>4. PICK n \in Nat : n = Len(client.down)
  BY <1>2
<1>5. /\ down \in Seq(Message) /\ Len(down) = n + 1 /\ DOMAIN down = 1..(n + 1)
      /\ DOMAIN client.down = 1..n
      /\ \A i \in 1..n : down[i] = client.down[i]
      /\ down[n + 1] = m
  <2>1. down \in Seq(Message) /\ Longer1(down, client.down, m)
    BY <1>2, <1>3, AppendOf
  <2> QED BY <2>1, <1>2, <1>3, <1>4, AppendProperties DEF Longer1
<1> HIDE DEF down
<1>6. /\ client'.up = client.up /\ client'.down = down
      /\ client'.stream = client.stream
      /\ client'.handshake = client.handshake /\ client'.pipeline = client.pipeline
      /\ client'.idle = client.idle /\ client'.user = client.user
  BY <1>1, <1>2, <1>5, WiresChange
<1>7. ASSUME client.handshake
      PROVE  /\ Answers(client', n)
             /\ client.idle => client.pipeline = <<>>
             /\ Head(client.up).write = client.pipeline[n + 1]
  <2>1. /\ Answers(client, n) /\ n < Len(client.pipeline)
        /\ Head(client.up) = WriteRequest(client.pipeline[n + 1])
        /\ client.idle => client.pipeline = <<>>
    BY <1>1, <1>4, <1>7, BackendFinds
  <2>2. Answers(client', n)
    BY <2>1, <1>2, <1>3, <1>5, <1>6 DEF Answers
  <2> QED BY <2>1, <2>2 DEF WriteRequest
<1>8. ASSUME ~client.handshake
      PROVE  Shaking(client')
  <2>1. /\ client.down = <<>> /\ Len(client.up) = 1
        /\ client.up[1].type = "Handshake"
        /\ client.pipeline # <<>> /\ ~client.idle
    BY <1>1, <1>8, BackendFinds
  <2>2. n = 0
    BY <2>1, <1>4
  <2> QED BY <2>1, <2>2, <1>3, <1>5, <1>6 DEF Shaking
<1>9. Wires(client')
  <2>1. client.handshake => \E k \in 0..Len(client'.down) : Answers(client', k)
    <3>1. n \in 0..Len(client'.down)
      BY <1>5, <1>6
    <3> QED BY <3>1, <1>7
  <2>2. IsOpen(client')
    BY <1>2, <1>6 DEF IsOpen
  <2> QED BY <2>1, <2>2, <1>6, <1>7, <1>8 DEF Wires
<1>10. refused' \subseteq Nat
  BY <1>1, <1>2 DEF IInv, Types, Message
<1>11. AnswersTrue'
  <2>1. ASSUME NEW i \in DOMAIN client'.down
        PROVE  /\ client'.down[i].type = "Write" =>
                    client'.down[i].write \in Range(delivered'[client'.user])
               /\ client'.down[i].type = "Refused" /\ client'.handshake =>
                    client'.pipeline[i] \in refused'
    <3>1. CASE i = n + 1
      BY <3>1, <1>1, <1>3, <1>5, <1>6, <1>7
    <3>2. CASE i \in 1..n
      <4>1. i \in DOMAIN client.down /\ client'.down[i] = client.down[i]
        BY <3>2, <1>5, <1>6
      <4> QED BY <4>1, <1>1, <1>6 DEF IInv, AnswersTrue
    <3> QED BY <2>1, <3>1, <3>2, <1>5, <1>6
  <2> QED BY <2>1 DEF AnswersTrue
<1>12. CompletionsTrue'
  BY <1>1 DEF IInv, CompletionsTrue
<1>13. /\ spent' \in [writes : Nat, signIns : Nat, faults : Nat, restarts : Nat]
       /\ spent'.writes = spent.writes
  BY <1>1, AuthTypes
<1> QED BY <1>1, <1>2, <1>5, <1>9, <1>10, <1>11, <1>12, <1>13, BackendStands DEF IInv, Types

-----------------------------------------------------------------------------
(* The invariant and what follows from it                                    *)

LEMMA StutterKeeps ==
  ASSUME IInv, UNCHANGED vars
  PROVE  IInv'
<1>1. UNCHANGED <<client, worker, auth, delivered, refused, told, spent>>
  BY DEF vars
<1>2. Types' /\ Numbered' /\ AnswersTrue' /\ BearerServed' /\ CompletionsTrue'
  BY <1>1 DEF IInv, Types, Numbered, AnswersTrue, BearerServed, IsOpen, CompletionsTrue
<1>3. TokenOnItsWay' /\ UserKnown' /\ TokensMatch'
  BY <1>1 DEF IInv, TokenOnItsWay, Nowhere, Asked, OnMain, OnWorker, UserKnown,
              Changed, WillServe, TokensMatch
<1> QED BY <1>1, <1>2, <1>3 DEF IInv

\* No step of the client, of Auth, of the app or of the backend breaks the
\* inductive invariant.
LEMMA StepKeeps ==
  ASSUME IInv, [Next]_vars
  PROVE  IInv'
<1>1. CASE WriteMutations
  BY <1>1, WriteMutationsKeeps
<1>2. CASE \E u \in Users : SignIn(u)
  BY <1>2, SignInKeeps
<1>3. CASE \E r \in auth.asked : TokenRead(r) \/ TokenAnswers(r) \/ TokenFails(r)
  BY <1>3, TokenReadKeeps, TokenAnsweredKeeps
<1>4. CASE RunMain
  BY <1>4, RunMainKeeps
<1>5. CASE RunWorker
  BY <1>5, RunWorkerKeeps
<1>6. CASE StreamRead
  BY <1>6, StreamReadKeeps
<1>7. CASE StreamBreaks
  BY <1>7, StreamBreaksKeeps
<1>8. CASE BackoffElapses \/ IdleElapses
  BY <1>8, TimerKeeps
<1>9. CASE ConnectivityChanges
  BY <1>9, ConnectivityKeeps
<1>10. CASE Restart
  BY <1>10, RestartKeeps
<1>11. CASE BackendAnswers
  BY <1>11, BackendAnswersKeeps
<1>12. CASE BackendRefuses
  BY <1>12, BackendRefusesKeeps
<1>13. CASE UNCHANGED vars
  BY <1>13, StutterKeeps
<1> QED BY <1>1, <1>2, <1>3, <1>4, <1>5, <1>6, <1>7, <1>8, <1>9, <1>10, <1>11, <1>12,
           <1>13 DEF Next

\* The parts of the client agree in every reachable state: the wires with the
\* pipeline, the pipeline with the mutation queue, and the token that the
\* stream starts with, wherever it is, with the user of the client.
THEOREM AlwaysInvariant == Spec => []IInv
<1>1. Init => IInv
  BY InitHolds
<1>2. IInv /\ [Next]_vars => IInv'
  BY StepKeeps
<1> QED BY <1>1, <1>2, PTL DEF Spec

\* Queues hold writes in the order of their numbers, and the pipeline, never
\* longer than it may be, the first of the queue of the present user
\* (RemoteStore::FillWritePipeline).
THEOREM TypeCorrect == Spec => []TypeOK
<1>1. ASSUME IInv
      PROVE  TypeOK
  <2>1. /\ client \in ClientRec /\ auth \in AuthRec
        /\ told \subseteq Writes \X {"ok", "refused"}
        /\ RisingQueues(client) /\ Fits(client)
    BY <1>1 DEF IInv, Types, Rests, Settled, Sound
  <2>2. /\ client.stream \in {"Initial", "Starting", "Open", "Error", "Backoff"}
        /\ {client.user, client.bearer, auth.user} \subseteq Users
        /\ client.queues \in [Users -> Seq(Writes)]
        /\ client.callbacks \subseteq Writes
        /\ Len(client.pipeline) <= MaxPending
    BY <2>1 DEF ClientRec, AuthRec, Fits
  <2>3. \A u \in Users : \A i, j \in DOMAIN client.queues[u] :
          i < j => client.queues[u][i] < client.queues[u][j]
    BY <2>1 DEF RisingQueues, Rising
  <2>4. IsPrefix(client.pipeline, Queue(client))
    <3> DEFINE p == client.pipeline
               q == Queue(client)
    <3>1. /\ p \in Seq(Writes) /\ q \in Seq(Writes)
          /\ Len(p) <= Len(q) /\ \A i \in 1..Len(p) : p[i] = q[i]
      BY <2>1, QueueType DEF Fits, Begins
    <3> HIDE DEF p, q
    <3>2. SubSeq(q, 1, Len(p)) = p
      <4>1. PICK k \in Nat : k = Len(p)
        BY <3>1
      <4>2. /\ SubSeq(q, 1, k) \in Seq(Writes)
            /\ Len(SubSeq(q, 1, k)) = k - 1 + 1
            /\ \A i \in 1..(k - 1 + 1) : SubSeq(q, 1, k)[i] = q[1 + i - 1]
        BY <3>1, <4>1, SubSeqOf
      <4>3. \A i \in 1..k : SubSeq(q, 1, k)[i] = p[i]
        BY <3>1, <4>1, <4>2
      <4> QED BY <3>1, <4>1, <4>2, <4>3, SeqEqual
    <3> QED BY <3>1, <3>2 DEF IsPrefix, p, q
  <2> QED BY <2>1, <2>2, <2>3, <2>4 DEF TypeOK
<1> QED BY <1>1, AlwaysInvariant, PTL

\* No HARD_ASSERT of the stream, RemoteStore and the mutation queue fails:
\* every start, stop, result and refusal finds the client in the state that it
\* asserts.
THEOREM HardAssertsAlwaysHold == Spec => []HardAssertsHold
<1>1. IInv => HardAssertsHold
  BY DEF IInv, Rests, Settled, Sound, HardAssertsHold
<1> QED BY <1>1, AlwaysInvariant, PTL

\* The completion that RemoteStore calls for the front of the pipeline tells
\* the truth about that write.
THEOREM CompletionsAlwaysTrue == Spec => []CompletionsTrue
<1>1. IInv => CompletionsTrue
  BY DEF IInv
<1> QED BY <1>1, AlwaysInvariant, PTL

\* Whatever Auth does meanwhile, an open stream carries the credentials of the
\* user whose writes it sends.
THEOREM OwnCredentialsAlways == Spec => []OwnCredentials
<1>1. IInv => OwnCredentials
  BY DEF IInv, BearerServed, OwnCredentials
<1> QED BY <1>1, AlwaysInvariant, PTL

\* A write that waits in the queue of the present user always has somebody
\* who will send it: a token on its way, a timer, or a request or an answer
\* on the wires.
THEOREM AlwaysDrainedAtRest == Spec => []DrainedAtRest
<1>1. ASSUME IInv, AtRest
      PROVE  Queue(client) = <<>>
  <2>1. Rests(client) /\ TokenOnItsWay /\ client \in ClientRec
    BY <1>1 DEF IInv, Types
  <2>2. Nowhere
    BY <1>1 DEF AtRest, Nowhere
  <2>3. client.stream # "Starting"
    BY <2>1, <2>2 DEF TokenOnItsWay, Nowhere
  <2>4. client.stream # "Backoff"
    BY <1>1, <2>1 DEF AtRest, Rests, Settled, Sound
  <2>5. client.pipeline = <<>>
    <3>1. CASE IsOpen(client)
      <4>1. Wires(client) /\ client.up = <<>> /\ client.down = <<>>
        BY <1>1, <2>1 DEF AtRest, Rests, Settled, Sound
      <4>2. client.handshake
        BY <3>1, <4>1 DEF Wires, Shaking
      <4>3. PICK n \in 0..Len(client.down) : Answers(client, n)
        BY <3>1, <4>1, <4>2 DEF Wires
      <4>4. n = 0 /\ Len(client.up) = Len(client.pipeline) - n
        BY <4>1, <4>3 DEF Answers
      <4>5. Len(client.pipeline) = 0 /\ client.pipeline \in Seq(Writes)
        BY <2>1, <4>1, <4>4 DEF ClientRec
      <4> QED BY <4>5, EmptySeq
    <3>2. CASE ~IsOpen(client)
      BY <3>2, <2>1, <2>3, <2>4 DEF Rests, Settled, ClientRec, IsOpen
    <3> QED BY <3>1, <3>2
  <2>6. Len(Queue(client)) = 0
    BY <2>1, <2>5, RemoteWriteAssumption DEF Rests, Settled, Filled
  <2> QED BY <2>1, <2>6, QueueType, EmptySeq
<1>2. IInv => DrainedAtRest
  BY <1>1 DEF DrainedAtRest
<1> QED BY <1>2, AlwaysInvariant, PTL

-----------------------------------------------------------------------------
(* The operations of a queue that are Observed's writes, in their order *)

LEMMA LeastOf ==
  ASSUME NEW T, T \subseteq Nat, T # {}
  PROVE  \E n \in T : \A m \in T : n <= m
<1>1. \E n \in T : \A m \in T : ~(<<m, n>> \in OpToRel(<, Nat))
  BY NatLessThanWellFounded, WFMin
<1>2. PICK n \in T : \A m \in T : ~(<<m, n>> \in OpToRel(<, Nat))
  BY <1>1
<1>3. \A m \in T : ~(m < n)
  BY <1>2 DEF OpToRel
<1> QED BY <1>3

\* p lists the numbers of I from the least to the greatest.
Lists(p, I) ==
  /\ p \in Seq(Nat) /\ Rising(p)
  /\ \A k \in DOMAIN p : p[k] \in I
  /\ \A i \in I : \E k \in DOMAIN p : p[k] = i

LEMMA ListsAgree ==
  ASSUME NEW I, NEW p, Lists(p, I), NEW q, Lists(q, I), NEW k \in DOMAIN p,
         \A j \in 1..(k - 1) : j \in DOMAIN q /\ q[j] = p[j]
  PROVE  k \in DOMAIN q /\ q[k] <= p[k]
<1>1. PICK j \in DOMAIN q : q[j] = p[k]
  BY DEF Lists
<1>2. k \in Nat \ {0} /\ DOMAIN p = 1..Len(p) /\ DOMAIN q = 1..Len(q)
      /\ Len(p) \in Nat /\ Len(q) \in Nat
  BY DEF Lists
<1>3. \A i \in DOMAIN p : p[i] \in Nat
  BY DEF Lists
<1>4. \A i \in DOMAIN q : q[i] \in Nat
  BY DEF Lists
<1>5. ~(j < k)
  <2>1. SUFFICES ASSUME j < k PROVE FALSE
    OBVIOUS
  <2>2. j \in DOMAIN p /\ p[j] = p[k]
    BY <1>1, <1>2, <2>1
  <2>3. p[j] < p[k]
    BY <2>1, <2>2 DEF Lists, Rising
  <2> QED BY <2>2, <2>3, <1>3
<1>6. k \in DOMAIN q
  BY <1>1, <1>2, <1>5
<1>7. k < j => q[k] < q[j]
  BY <1>6, <1>1 DEF Lists, Rising
<1>8. k = j => q[k] = p[k]
  BY <1>1
<1> QED BY <1>1, <1>2, <1>3, <1>4, <1>5, <1>6, <1>7, <1>8

LEMMA ListIsOne ==
  ASSUME NEW I, NEW p, Lists(p, I), NEW q, Lists(q, I)
  PROVE  p = q
<1> DEFINE Agree(k) == k \in DOMAIN p /\ k \in DOMAIN q /\ p[k] = q[k]
           T == {k \in Nat \ {0} : (k \in DOMAIN p \/ k \in DOMAIN q) /\ ~Agree(k)}
<1>1. DOMAIN p = 1..Len(p) /\ DOMAIN q = 1..Len(q)
      /\ Len(p) \in Nat /\ Len(q) \in Nat
  BY DEF Lists
<1>2. T = {}
  <2>1. SUFFICES ASSUME T # {} PROVE FALSE
    OBVIOUS
  <2>2. T \subseteq Nat
    OBVIOUS
  <2>3. PICK k \in T : \A j \in T : k <= j
    <3> HIDE DEF T
    <3> QED BY <2>1, <2>2, LeastOf
  <2>4. \A j \in 1..(k - 1) : Agree(j)
    <3>1. ASSUME NEW j \in 1..(k - 1) PROVE Agree(j)
      <4>1. k \in Nat /\ j \in Nat \ {0} /\ ~(k <= j) /\ j < k
        BY <3>1
      <4>2. j \notin T
        BY <4>1, <2>3
      <4>3. j \in DOMAIN p \/ j \in DOMAIN q
        BY <4>1, <1>1, <2>3
      <4> QED BY <4>1, <4>2, <4>3
    <3> QED BY <3>1
  <2>5. k \in DOMAIN p => k \in DOMAIN q /\ q[k] <= p[k]
    BY <2>4, ListsAgree
  <2>6. k \in DOMAIN q => k \in DOMAIN p /\ p[k] <= q[k]
    BY <2>4, ListsAgree
  <2>7. k \in DOMAIN p /\ k \in DOMAIN q
    BY <2>5, <2>6
  <2>8. p[k] \in Nat /\ q[k] \in Nat
    BY <2>7 DEF Lists
  <2> QED BY <2>5, <2>6, <2>7, <2>8
<1>3. \A k \in 1..Len(p) : k \in DOMAIN q /\ p[k] = q[k]
  BY <1>1, <1>2
<1>4. \A k \in 1..Len(q) : k \in DOMAIN p
  BY <1>1, <1>2
<1>5. Len(p) = Len(q)
  <2>1. Len(p) # 0 => Len(p) \in 1..Len(q)
    BY <1>1, <1>3
  <2>2. Len(q) # 0 => Len(q) \in 1..Len(p)
    BY <1>1, <1>4
  <2>3. PICK a \in Nat, b \in Nat : a = Len(p) /\ b = Len(q)
    BY <1>1
  <2>4. (a # 0 => a <= b) /\ (b # 0 => b <= a)
    BY <2>1, <2>2, <2>3
  <2>5. a = b
    BY <2>4
  <2> QED BY <2>3, <2>5
<1> QED BY <1>3, <1>5, SeqEqual DEF Lists

\* A number greater than all is listed last.
LEMMA ListsOneMore ==
  ASSUME NEW I, NEW p, Lists(p, I), NEW n \in Nat, \A i \in I : i < n
  PROVE  Lists(Append(p, n), I \cup {n})
<1> DEFINE q == Append(p, n)
<1>1. p \in Seq(Nat) /\ q \in Seq(Nat) /\ Len(q) = Len(p) + 1 /\ Len(p) \in Nat
      /\ (\A k \in 1..Len(p) : q[k] = p[k]) /\ q[Len(p) + 1] = n
  BY AppendProperties DEF Lists
<1> HIDE DEF q
<1>2. DOMAIN p = 1..Len(p) /\ DOMAIN q = 1..(Len(p) + 1)
  BY <1>1
<1>3. \A k \in DOMAIN q : k \in DOMAIN p \/ k = Len(p) + 1
  BY <1>1, <1>2
<1>4. \A k \in DOMAIN p : q[k] = p[k] /\ p[k] \in I /\ p[k] < n
  BY <1>1, <1>2 DEF Lists
<1>5. Rising(q)
  <2>1. ASSUME NEW i \in DOMAIN q, NEW j \in DOMAIN q, i < j
        PROVE  q[i] < q[j]
    <3>1. i \in DOMAIN p
      BY <1>1, <1>2, <2>1
    <3>2. CASE j \in DOMAIN p
      <4>1. p[i] < p[j]
        BY <2>1, <3>1, <3>2 DEF Lists, Rising
      <4> QED BY <1>4, <3>1, <3>2, <4>1
    <3>3. CASE j = Len(p) + 1
      BY <1>1, <1>4, <3>1, <3>3
    <3> QED BY <1>3, <3>2, <3>3
  <2> QED BY <2>1 DEF Rising
<1>6. \A k \in DOMAIN q : q[k] \in I \cup {n}
  BY <1>1, <1>3, <1>4
<1>7. \A i \in I \cup {n} : \E k \in DOMAIN q : q[k] = i
  <2>1. ASSUME NEW i \in I PROVE \E k \in DOMAIN q : q[k] = i
    <3>1. PICK k \in DOMAIN p : p[k] = i
      BY DEF Lists
    <3> QED BY <3>1, <1>1, <1>2, <1>4
  <2>2. Len(p) + 1 \in DOMAIN q
    BY <1>1, <1>2
  <2> QED BY <2>1, <2>2, <1>1
<1> QED BY <1>1, <1>5, <1>6, <1>7 DEF Lists, q

LEMMA EveryListed ==
  ASSUME NEW n \in Nat, NEW I, I \subseteq 1..n
  PROVE  \E p : Lists(p, I)
<1> DEFINE Listed(m) == \A J \in SUBSET (1..m) : \E p : Lists(p, J)
           T == {m \in Nat : ~Listed(m)}
<1>1. T = {}
  <2>1. SUFFICES ASSUME T # {} PROVE FALSE
    OBVIOUS
  <2>2. T \subseteq Nat
    OBVIOUS
  <2>3. PICK m \in T : \A j \in T : m <= j
    <3> HIDE DEF T
    <3> QED BY <2>1, <2>2, LeastOf
  <2>4. PICK J \in SUBSET (1..m) : ~\E p : Lists(p, J)
    BY <2>3
  <2>5. m # 0
    <3>1. Lists(<<>>, {})
      BY DEF Lists, Rising
    <3>2. m = 0 => J = {}
      BY <2>4
    <3> QED BY <2>4, <3>1, <3>2
  <2>6. m \in Nat /\ m - 1 \in Nat /\ m - 1 \notin T
    <3>1. m \in Nat
      BY <2>3
    <3>2. m - 1 \in Nat /\ ~(m <= m - 1)
      BY <3>1, <2>5
    <3> HIDE DEF T
    <3> QED BY <3>1, <3>2, <2>3
  <2>7. Listed(m - 1)
    BY <2>6
  <2>8. J \ {m} \in SUBSET (1..(m - 1))
    BY <2>4, <2>6
  <2>9. PICK p : Lists(p, J \ {m})
    BY <2>7, <2>8
  <2>10. CASE m \in J
    <3>1. \A i \in J \ {m} : i < m
      BY <2>6, <2>8
    <3>2. (J \ {m}) \cup {m} = J
      BY <2>10
    <3>3. PICK l, K : l \in Nat /\ l = m /\ K = J \ {m}
      BY <2>6
    <3>4. Lists(p, K) /\ (\A i \in K : i < l) /\ l \in Nat
      BY <3>1, <3>3, <2>9
    <3> HIDE DEF T
    <3>5. Lists(Append(p, l), K \cup {l})
      BY <3>4, ListsOneMore
    <3> QED BY <3>2, <3>3, <3>5, <2>4
  <2>11. CASE m \notin J
    <3>1. J \ {m} = J
      BY <2>11
    <3> QED BY <3>1, <2>4, <2>9
  <2> QED BY <2>10, <2>11
<1>2. n \notin T
  BY <1>1
<1>3. Listed(n)
  BY <1>2
<1>4. I \in SUBSET (1..n)
  OBVIOUS
<1> QED BY <1>3, <1>4

Finds(ops, u, i) ==
  \E j \in 0..(i - 1) :
    /\ IF j = 0 THEN u = Observed ELSE ops[j].op = "User" /\ ops[j].user = Observed
    /\ \A k \in (j + 1)..(i - 1) : ops[k].op # "User"

MineOf(ops, u) == {i \in DOMAIN ops : ops[i].op = "Write" /\ Finds(ops, u, i)}

WritesAt(ops, p) == [k \in DOMAIN p |-> ops[p[k]].write]

EnqueuedOf(ops, u) == WritesAt(ops, InOrder(MineOf(ops, u)))

LEMMA EnqueuedHere ==
  /\ Enqueued = EnqueuedOf(worker, client.user)
  /\ Enqueued' = EnqueuedOf(worker', client'.user)
BY DEF Enqueued, EnqueuedOf, WritesAt, Mine, MineOf, FindsObserved, Finds

LEMMA MineListed ==
  ASSUME NEW ops \in Seq(Operation), NEW u
  PROVE  \E p : Lists(p, MineOf(ops, u))
<1>1. PICK n \in Nat : n = Len(ops)
  OBVIOUS
<1>2. MineOf(ops, u) \subseteq 1..n
  BY <1>1 DEF MineOf
<1> QED BY <1>2, EveryListed

LEMMA ListCounts ==
  ASSUME NEW I, NEW p, Lists(p, I)
  PROVE  /\ IsFiniteSet(I) /\ Cardinality(I) = Len(p)
         /\ p \in [1..Len(p) -> I]
<1>1. p \in Seq(Nat) /\ Len(p) \in Nat /\ DOMAIN p = 1..Len(p)
  BY DEF Lists
<1>2. p \in [1..Len(p) -> I]
  BY <1>1 DEF Lists
<1>3. PICK n \in Nat : n = Len(p)
  BY <1>1
<1>4. \A i, j \in 1..n : i < j => p[i] < p[j]
  BY <1>1, <1>3 DEF Lists, Rising
<1>5. \A i \in 1..n : p[i] \in Nat
  BY <1>1, <1>3
<1>6. \A i, j \in 1..n : p[i] = p[j] => i = j
  <2>1. SUFFICES ASSUME NEW i \in 1..n, NEW j \in 1..n, p[i] = p[j], i # j
                 PROVE  FALSE
    OBVIOUS
  <2>2. p[i] < p[j] \/ p[j] < p[i]
    BY <2>1, <1>4
  <2> QED BY <2>1, <2>2, <1>5
<1>7. p \in Bijection(1..n, I)
  BY <1>1, <1>2, <1>3, <1>6 DEF Lists, Bijection, Injection, Surjection, IsInjective
<1>8. IsFiniteSet(1..n) /\ Cardinality(1..n) = n
  BY FS_Interval
<1>9. IsFiniteSet(I) /\ Cardinality(I) = n
  BY <1>7, <1>8, FS_Bijection DEF ExistsBijection
<1> QED BY <1>2, <1>3, <1>9

LEMMA InOrderIs ==
  ASSUME NEW I, NEW p, Lists(p, I)
  PROVE  InOrder(I) = p
<1> DEFINE n == Len(p)
<1>1. IsFiniteSet(I) /\ Cardinality(I) = n /\ p \in [1..n -> I] /\ n \in Nat
  BY ListCounts DEF Lists
<1>2. \A i \in I : i \in Nat
  BY DEF Lists
<1> HIDE DEF n
<1>3. ASSUME NEW q \in [1..n -> I], \A i, j \in DOMAIN q : i < j => q[i] < q[j]
      PROVE  q = p
  <2>1. DOMAIN q = 1..n /\ \A i \in 1..n : q[i] \in Nat /\ q[i] \in I
    BY <1>2, <1>3
  <2>2. \A i, j \in 1..n : q[i] = q[j] => i = j
    <3>1. SUFFICES ASSUME NEW i \in 1..n, NEW j \in 1..n, q[i] = q[j], i # j
                   PROVE  FALSE
      OBVIOUS
    <3>2. q[i] < q[j] \/ q[j] < q[i]
      BY <3>1, <2>1, <1>1, <1>3
    <3> QED BY <3>1, <3>2, <2>1
  <2>3. q \in Injection(1..n, I)
    BY <1>3, <2>2 DEF Injection, IsInjective
  <2>4. IsFiniteSet(1..n) /\ Cardinality(1..n) = n
    BY <1>1, FS_Interval
  <2>5. q \in Surjection(1..n, I)
    BY <1>1, <2>3, <2>4, FS_Injection
  <2>6. q \in Seq(Nat) /\ Rising(q)
    BY <1>1, <1>3, <2>1 DEF Rising
  <2>7. Lists(q, I)
    BY <2>1, <2>5, <2>6 DEF Lists, Surjection
  <2> QED BY <2>7, ListIsOne
<1>4. p \in [1..n -> I] /\ \A i, j \in DOMAIN p : i < j => p[i] < p[j]
  BY <1>1 DEF Lists, Rising
<1>5. (CHOOSE q \in [1..n -> I] : \A i, j \in DOMAIN q : i < j => q[i] < q[j]) = p
  BY <1>3, <1>4
<1> QED BY <1>1, <1>5 DEF InOrder

LEMMA EnqueuedIs ==
  ASSUME NEW ops, NEW u, NEW p, Lists(p, MineOf(ops, u))
  PROVE  EnqueuedOf(ops, u) = WritesAt(ops, p)
BY InOrderIs DEF EnqueuedOf

LEMMA EnqueuedTyped ==
  ASSUME NEW ops \in Seq(Operation), NEW u
  PROVE  EnqueuedOf(ops, u) \in Seq(Writes)
<1>1. PICK p : Lists(p, MineOf(ops, u))
  BY MineListed
<1>2. p \in Seq(Nat) /\ DOMAIN p = 1..Len(p) /\ Len(p) \in Nat
  BY <1>1 DEF Lists
<1>3. \A k \in DOMAIN p : p[k] \in DOMAIN ops /\ ops[p[k]].op = "Write"
  BY <1>1 DEF Lists, MineOf
<1>4. \A i \in DOMAIN ops : ops[i] \in Operation
  OBVIOUS
<1>5. \A o \in Operation : o.op = "Write" => o.write \in Writes
  BY DEF Operation
<1>6. \A k \in DOMAIN p : ops[p[k]].write \in Writes
  BY <1>3, <1>4, <1>5
<1>7. WritesAt(ops, p) \in Seq(Writes)
  BY <1>2, <1>6 DEF WritesAt
<1> QED BY <1>1, <1>7, EnqueuedIs

LEMMA NothingEnqueued ==
  ASSUME NEW u
  PROVE  EnqueuedOf(<<>>, u) = <<>>
<1>1. MineOf(<<>>, u) = {}
  BY DEF MineOf
<1>2. Lists(<<>>, {})
  BY DEF Lists, Rising
<1>3. WritesAt(<<>>, <<>>) = <<>>
  BY DEF WritesAt
<1> QED BY <1>1, <1>2, <1>3, EnqueuedIs

LEMMA EnqueuedBehindOthers ==
  ASSUME NEW ops \in Seq(Operation), NEW u, NEW o \in Operation
  PROVE  LET all == Append(ops, o)
             n == Len(ops) + 1
         IN  EnqueuedOf(all, u) =
               IF o.op = "Write" /\ Finds(all, u, n)
               THEN Append(EnqueuedOf(ops, u), o.write) ELSE EnqueuedOf(ops, u)
<1> DEFINE all == Append(ops, o)
           n == Len(ops) + 1
           I == MineOf(ops, u)
           mine == o.op = "Write" /\ Finds(all, u, n)
<1>1. /\ all \in Seq(Operation) /\ Len(all) = n /\ n \in Nat /\ n # 0
      /\ \A i \in 1..(n - 1) : all[i] = ops[i]
      /\ all[n] = o /\ DOMAIN ops = 1..(n - 1) /\ DOMAIN all = 1..n
  BY AppendProperties
<1>2. PICK p : Lists(p, I)
  BY MineListed
<1> HIDE DEF all, n
<1>3. \A i \in 1..(n - 1) : Finds(all, u, i) <=> Finds(ops, u, i)
  <2>1. SUFFICES ASSUME NEW i \in 1..(n - 1)
                 PROVE  Finds(all, u, i) <=> Finds(ops, u, i)
    OBVIOUS
  <2>2. \A j \in 0..(i - 1) : j = 0 \/ all[j] = ops[j]
    BY <1>1
  <2>3. \A j \in 0..(i - 1) : \A k \in (j + 1)..(i - 1) : all[k] = ops[k]
    BY <1>1
  <2> QED BY <2>2, <2>3 DEF Finds
<1>4. \A i \in MineOf(all, u) : i \in I \/ (i = n /\ mine)
  BY <1>1, <1>3 DEF MineOf
<1>5. \A i \in I : i \in MineOf(all, u) /\ i < n /\ i \in 1..(n - 1)
  BY <1>1, <1>3 DEF MineOf
<1>6. mine => n \in MineOf(all, u)
  BY <1>1 DEF MineOf
<1>7. p \in Seq(Nat) /\ DOMAIN p = 1..Len(p) /\ Len(p) \in Nat
      /\ \A k \in DOMAIN p : p[k] \in I
  BY <1>2 DEF Lists
<1>8. WritesAt(ops, p) = WritesAt(all, p)
  BY <1>1, <1>5, <1>7 DEF WritesAt
<1>9. EnqueuedOf(ops, u) = WritesAt(ops, p)
  BY <1>2, EnqueuedIs
<1>10. CASE mine
  <2>1. MineOf(all, u) = I \cup {n}
    BY <1>4, <1>5, <1>6, <1>10
  <2>2. Lists(Append(p, n), I \cup {n})
    <3>1. Lists(p, I) /\ n \in Nat /\ \A i \in I : i < n
      BY <1>1, <1>2, <1>5
    <3> HIDE DEF I
    <3> QED BY <3>1, ListsOneMore
  <2>3. EnqueuedOf(all, u) = WritesAt(all, Append(p, n))
    BY <2>1, <2>2, EnqueuedIs
  <2> DEFINE q == Append(p, n)
             w == WritesAt(all, p)
  <2>4. /\ q \in Seq(Nat) /\ Len(q) = Len(p) + 1 /\ DOMAIN q = 1..(Len(p) + 1)
        /\ (\A k \in 1..Len(p) : q[k] = p[k]) /\ q[Len(p) + 1] = n
    BY <1>1, <1>7, AppendProperties
  <2>5. o.write \in Writes
    BY <1>10 DEF Operation
  <2>6. w \in Seq(Writes) /\ Len(w) = Len(p) /\ DOMAIN w = 1..Len(p)
    <3>1. EnqueuedOf(ops, u) \in Seq(Writes)
      BY EnqueuedTyped
    <3>2. DOMAIN w = 1..Len(p)
      BY <1>7 DEF WritesAt
    <3> QED BY <3>1, <3>2, <1>7, <1>8, <1>9
  <2> HIDE DEF q
  <2>7. WritesAt(all, q) = Append(w, o.write)
    <3> DEFINE a == WritesAt(all, q)
               b == Append(w, o.write)
    <3>1. DOMAIN a = 1..(Len(p) + 1) /\ \A k \in 1..(Len(p) + 1) : a[k] = all[q[k]].write
      BY <2>4 DEF WritesAt
    <3>2. \A k \in 1..Len(p) : w[k] = all[p[k]].write
      BY <1>7 DEF WritesAt
    <3> HIDE DEF w
    <3>3. /\ DOMAIN b = 1..(Len(p) + 1)
          /\ (\A k \in 1..Len(p) : b[k] = w[k]) /\ b[Len(p) + 1] = o.write
          /\ b \in Seq(Writes) /\ Len(b) = Len(p) + 1
      BY <2>5, <2>6, AppendProperties
    <3> HIDE DEF a, b
    <3>4. \A k \in 1..(Len(p) + 1) : k \in 1..Len(p) \/ k = Len(p) + 1
      BY <1>7
    <3>5. \A k \in 1..(Len(p) + 1) : a[k] = b[k]
      <4>1. \A k \in 1..Len(p) : a[k] = b[k]
        <5>1. SUFFICES ASSUME NEW k \in 1..Len(p)
                       PROVE  a[k] = b[k]
          OBVIOUS
        <5>2. k \in 1..(Len(p) + 1)
          BY <1>7
        <5> QED BY <5>2, <3>1, <3>2, <3>3, <2>4
      <4>2. Len(p) + 1 \in 1..(Len(p) + 1)
        BY <1>7
      <4>3. a[Len(p) + 1] = o.write
        BY <4>2, <3>1, <2>4, <1>1
      <4> QED BY <4>1, <4>3, <3>3, <3>4
    <3>6. a = [k \in 1..(Len(p) + 1) |-> a[k]]
      BY <2>4 DEF a, WritesAt
    <3>7. b = [k \in 1..(Len(p) + 1) |-> b[k]]
      BY <3>3
    <3>8. a = b
      BY <3>5, <3>6, <3>7
    <3> QED BY <3>8 DEF a, b
  <2> QED BY <1>8, <1>9, <1>10, <2>3, <2>7 DEF q, all, n
<1>11. CASE ~mine
  <2>1. MineOf(all, u) = I
    BY <1>4, <1>5, <1>11
  <2>2. EnqueuedOf(all, u) = WritesAt(all, p)
    BY <1>2, <2>1, EnqueuedIs
  <2> QED BY <1>8, <1>9, <1>11, <2>2 DEF all, n
<1> QED BY <1>10, <1>11

\* Whose queue the operations behind the first one start with.
ServedNext(ops, u) == IF ops[1].op = "User" THEN ops[1].user ELSE u

LEMMA RestOfOps ==
  ASSUME NEW ops \in Seq(Operation), ops # <<>>
  PROVE  LET rest == Tail(ops)
         IN  /\ rest \in Seq(Operation) /\ Len(rest) = Len(ops) - 1
             /\ \A i \in 1..(Len(ops) - 1) : rest[i] = ops[i + 1]
             /\ Len(ops) \in Nat /\ Len(ops) >= 1
BY HeadTailProperties

LEMMA FindsStill ==
  ASSUME NEW ops \in Seq(Operation), ops # <<>>, NEW u,
         NEW i \in 1..(Len(ops) - 1)
  PROVE  Finds(ops, u, i + 1) <=> Finds(Tail(ops), ServedNext(ops, u), i)
<1> DEFINE rest == Tail(ops)
           v == ServedNext(ops, u)
           Change(o) == o.op = "User" /\ o.user = Observed
<1>1. PICK n \in Nat : n = Len(ops) - 1
  BY RestOfOps
<1>2. i \in 1..n /\ \A k \in 1..n : rest[k] = ops[k + 1]
  BY <1>1, RestOfOps
<1> HIDE DEF rest
<1>3. ASSUME Finds(ops, u, i + 1)
      PROVE  Finds(rest, v, i)
  <2>1. PICK j \in 0..i : /\ IF j = 0 THEN u = Observed ELSE Change(ops[j])
                          /\ \A k \in (j + 1)..i : ops[k].op # "User"
    <3>1. (i + 1) - 1 = i
      BY <1>2
    <3> HIDE DEF v
    <3> QED BY <3>1, <1>3 DEF Finds
  <2>2. \A k \in 1..(i - 1) : k + 1 >= j + 1 => rest[k].op # "User"
    <3>1. SUFFICES ASSUME NEW k \in 1..(i - 1), k + 1 >= j + 1
                   PROVE  rest[k].op # "User"
      OBVIOUS
    <3>2. k + 1 \in (j + 1)..i /\ k \in 1..n
      BY <3>1, <2>1, <1>2
    <3> QED BY <3>2, <2>1, <1>2
  <2>3. CASE j \in {0, 1}
    <3>1. v = Observed
      <4>1. j = 0 => 1 \in (j + 1)..i
        BY <1>2
      <4> QED BY <4>1, <2>1, <2>3 DEF ServedNext
    <3>2. 0 \in 0..(i - 1) /\ \A k \in (0 + 1)..(i - 1) : k \in 1..(i - 1) /\ k + 1 >= j + 1
      BY <1>2, <2>3
    <3>3. \A k \in (0 + 1)..(i - 1) : rest[k].op # "User"
      BY <3>2, <2>2
    <3> QED BY <3>1, <3>2, <3>3 DEF Finds
  <2>4. CASE j \notin {0, 1}
    <3>1. PICK m \in Nat : m = j - 1
      BY <2>1, <2>4
    <3>2. m \in 0..(i - 1) /\ m # 0 /\ m \in 1..n /\ m + 1 = j
      BY <1>2, <2>1, <2>4, <3>1
    <3>3. Change(rest[m])
      BY <3>2, <2>1, <1>2
    <3>4. \A k \in (m + 1)..(i - 1) : rest[k].op # "User"
      <4>1. \A k \in (m + 1)..(i - 1) : k \in 1..(i - 1) /\ k + 1 >= j + 1
        BY <3>2
      <4> QED BY <4>1, <2>2
    <3> QED BY <3>2, <3>3, <3>4 DEF Finds
  <2> QED BY <2>3, <2>4
<1>4. ASSUME Finds(rest, v, i)
      PROVE  Finds(ops, u, i + 1)
  <2>1. PICK j \in 0..(i - 1) : /\ IF j = 0 THEN v = Observed ELSE Change(rest[j])
                                /\ \A k \in (j + 1)..(i - 1) : rest[k].op # "User"
    BY <1>4 DEF Finds
  <2>2. \A k \in 2..i : k >= j + 2 => ops[k].op # "User"
    <3>1. SUFFICES ASSUME NEW k \in 2..i, k >= j + 2
                   PROVE  ops[k].op # "User"
      OBVIOUS
    <3>2. k - 1 \in (j + 1)..(i - 1) /\ k - 1 \in 1..n /\ (k - 1) + 1 = k
      BY <3>1, <2>1, <1>2
    <3> QED BY <3>2, <2>1, <1>2
  <2>3. CASE j = 0 /\ ops[1].op = "User"
    <3>1. Change(ops[1])
      BY <2>1, <2>3 DEF ServedNext
    <3>2. 1 \in 0..i /\ \A k \in (1 + 1)..i : k \in 2..i /\ k >= j + 2
      BY <1>2, <2>3
    <3>3. \A k \in (1 + 1)..i : ops[k].op # "User"
      BY <3>2, <2>2
    <3>4. (i + 1) - 1 = i
      BY <1>2
    <3> QED BY <3>1, <3>2, <3>3, <3>4 DEF Finds
  <2>4. CASE j = 0 /\ ops[1].op # "User"
    <3>1. u = Observed
      BY <2>1, <2>4 DEF ServedNext
    <3>2. 0 \in 0..i /\ \A k \in (0 + 1)..i : k = 1 \/ (k \in 2..i /\ k >= j + 2)
      BY <1>2, <2>4
    <3>3. \A k \in (0 + 1)..i : ops[k].op # "User"
      BY <3>2, <2>2, <2>4
    <3>4. (i + 1) - 1 = i
      BY <1>2
    <3> QED BY <3>1, <3>2, <3>3, <3>4 DEF Finds
  <2>5. CASE j # 0
    <3>1. PICK m \in Nat : m = j + 1
      BY <2>1
    <3>2. m \in 0..i /\ m # 0 /\ j \in 1..n
      BY <1>2, <2>1, <2>5, <3>1
    <3>3. Change(ops[m])
      BY <3>1, <3>2, <2>1, <2>5, <1>2
    <3>4. \A k \in (m + 1)..i : k \in 2..i /\ k >= j + 2
      BY <3>1
    <3>5. \A k \in (m + 1)..i : ops[k].op # "User"
      BY <3>4, <2>2
    <3>6. (i + 1) - 1 = i
      BY <1>2
    <3> QED BY <3>2, <3>3, <3>5, <3>6 DEF Finds
  <2> QED BY <2>3, <2>4, <2>5
<1> QED BY <1>3, <1>4 DEF rest

LEMMA EnqueuedBehindFirst ==
  ASSUME NEW ops \in Seq(Operation), ops # <<>>, NEW u
  PROVE  LET rest == EnqueuedOf(Tail(ops), ServedNext(ops, u))
         IN  /\ rest \in Seq(Writes)
             /\ EnqueuedOf(ops, u) =
                  IF ops[1].op = "Write" /\ u = Observed
                  THEN <<ops[1].write>> \o rest ELSE rest
<1> DEFINE rest == Tail(ops)
           v == ServedNext(ops, u)
           I == MineOf(ops, u)
           J == MineOf(rest, v)
           mine == ops[1].op = "Write" /\ u = Observed
           w == EnqueuedOf(rest, v)
<1>1. PICK n \in Nat : n = Len(ops) - 1
  BY RestOfOps
<1>2. /\ rest \in Seq(Operation) /\ Len(rest) = n /\ DOMAIN rest = 1..n
      /\ \A k \in 1..n : rest[k] = ops[k + 1]
      /\ DOMAIN ops = 1..(n + 1)
  BY <1>1, RestOfOps
<1>3. \A i \in 1..n : Finds(ops, u, i + 1) <=> Finds(rest, v, i)
  BY <1>1, FindsStill
<1>4. Finds(ops, u, 1) <=> u = Observed
  <2>1. 0..(1 - 1) = {0} /\ (0 + 1)..(1 - 1) = {}
    OBVIOUS
  <2> QED BY <2>1 DEF Finds
<1>5. PICK q : Lists(q, J)
  BY <1>2, MineListed
<1>6. w \in Seq(Writes) /\ w = WritesAt(rest, q)
  BY <1>2, <1>5, EnqueuedTyped, EnqueuedIs
<1>7. PICK l \in Nat : l = Len(q)
  BY <1>5 DEF Lists
<1>8. /\ q \in Seq(Nat) /\ DOMAIN q = 1..l
      /\ \A k \in 1..l : q[k] \in J /\ q[k] \in Nat
      /\ \A j \in J : \E k \in 1..l : q[k] = j
      /\ \A i, j \in 1..l : i < j => q[i] < q[j]
  <2> HIDE DEF J
  <2>1. q \in Seq(Nat) /\ DOMAIN q = 1..l
    BY <1>5, <1>7 DEF Lists
  <2>2. \A k \in 1..l : q[k] \in J /\ q[k] \in Nat
    BY <2>1, <1>5 DEF Lists
  <2>3. \A j \in J : \E k \in 1..l : q[k] = j
    BY <2>1, <1>5 DEF Lists
  <2>4. \A i, j \in 1..l : i < j => q[i] < q[j]
    BY <2>1, <1>5 DEF Lists, Rising
  <2> QED BY <2>1, <2>2, <2>3, <2>4
<1> HIDE DEF rest, v, w
<1>9. \A j \in J : j \in 1..n /\ j + 1 \in I
  <2>1. \A j \in J : j \in 1..n
    BY <1>2 DEF MineOf
  <2>2. \A j \in 1..n : rest[j].op = "Write" /\ Finds(rest, v, j) => j + 1 \in I
    <3>1. SUFFICES ASSUME NEW j \in 1..n, rest[j].op = "Write", Finds(rest, v, j)
                   PROVE  j + 1 \in I
      OBVIOUS
    <3>2. j + 1 \in DOMAIN ops /\ ops[j + 1].op = "Write" /\ Finds(ops, u, j + 1)
      BY <3>1, <1>2, <1>3
    <3> QED BY <3>2 DEF MineOf
  <2> QED BY <2>1, <2>2 DEF MineOf
<1>10. \A i \in I : (i = 1 /\ mine) \/ i - 1 \in J
  <2>1. SUFFICES ASSUME NEW i \in I
                 PROVE  (i = 1 /\ mine) \/ i - 1 \in J
    OBVIOUS
  <2>2. i \in 1..(n + 1) /\ ops[i].op = "Write" /\ Finds(ops, u, i)
    BY <1>2 DEF MineOf
  <2>3. CASE i = 1
    BY <2>2, <2>3, <1>4
  <2>4. CASE i # 1
    <3>1. PICK m \in 1..n : m + 1 = i
      <4>1. i - 1 \in 1..n /\ (i - 1) + 1 = i
        BY <2>2, <2>4
      <4> QED BY <4>1
    <3>2. rest[m].op = "Write" /\ Finds(rest, v, m)
      BY <2>2, <3>1, <1>2, <1>3
    <3>3. m \in J /\ m = i - 1
      BY <3>1, <3>2, <1>2 DEF MineOf
    <3> QED BY <3>3
  <2> QED BY <2>3, <2>4
<1>11. mine => 1 \in I
  <2>1. 1 \in DOMAIN ops
    BY <1>2
  <2> QED BY <2>1, <1>4 DEF MineOf
<1> HIDE DEF I, J
<1>12. CASE ~mine
  <2> DEFINE p == [k \in 1..l |-> q[k] + 1]
  <2>1. /\ p \in Seq(Nat) /\ DOMAIN p = 1..l /\ \A k \in 1..l : p[k] = q[k] + 1
    BY <1>8
  <2> HIDE DEF p
  <2>2. Rising(p)
    BY <2>1, <1>8 DEF Rising
  <2>3. \A k \in DOMAIN p : p[k] \in I
    BY <2>1, <1>8, <1>9
  <2>4. \A i \in I : \E k \in DOMAIN p : p[k] = i
    <3>1. SUFFICES ASSUME NEW i \in I
                   PROVE  \E k \in DOMAIN p : p[k] = i
      OBVIOUS
    <3>2. i - 1 \in J /\ i \in Nat
      BY <1>2, <1>10, <1>12 DEF I, MineOf
    <3>3. PICK k \in 1..l : q[k] = i - 1
      BY <3>2, <1>8
    <3> QED BY <2>1, <3>2, <3>3
  <2>5. Lists(p, I)
    BY <2>1, <2>2, <2>3, <2>4 DEF Lists
  <2>6. EnqueuedOf(ops, u) = WritesAt(ops, p)
    BY <2>5, EnqueuedIs DEF I
  <2>7. WritesAt(ops, p) = WritesAt(rest, q)
    <3>1. \A k \in 1..l : ops[p[k]] = rest[q[k]]
      BY <1>2, <1>8, <1>9, <2>1
    <3> QED BY <3>1, <2>1, <1>8 DEF WritesAt
  <2> QED BY <1>6, <1>12, <2>6, <2>7 DEF rest, v, w
<1>13. CASE mine
  <2> DEFINE p == [k \in 1..(l + 1) |-> IF k = 1 THEN 1 ELSE q[k - 1] + 1]
  <2>1. \A k \in 1..(l + 1) : k = 1 \/ k - 1 \in 1..l
    OBVIOUS
  <2>2. /\ DOMAIN p = 1..(l + 1) /\ p[1] = 1
        /\ \A k \in 1..(l + 1) : k # 1 => p[k] = q[k - 1] + 1
    OBVIOUS
  <2>3. p \in Seq(Nat)
    <3>1. \A k \in 1..(l + 1) : (IF k = 1 THEN 1 ELSE q[k - 1] + 1) \in Nat
      BY <2>1, <1>8
    <3> QED BY <3>1
  <2> HIDE DEF p
  <2>4. \A k \in 1..l : k + 1 \in 1..(l + 1) /\ p[k + 1] = q[k] + 1
    <3>1. \A k \in 1..l : k + 1 \in 1..(l + 1) /\ k + 1 # 1 /\ (k + 1) - 1 = k
      OBVIOUS
    <3> QED BY <3>1, <2>2
  <2>5. Rising(p)
    <3>1. SUFFICES ASSUME NEW i \in 1..(l + 1), NEW j \in 1..(l + 1), i < j
                   PROVE  p[i] < p[j]
      BY <2>2 DEF Rising
    <3>2. j # 1 /\ j - 1 \in 1..l /\ p[j] = q[j - 1] + 1
      BY <3>1, <2>1, <2>2
    <3>3. \A k \in 1..l : q[k] >= 1
      BY <1>8, <1>9
    <3>4. CASE i = 1
      BY <3>2, <3>3, <3>4, <2>2, <1>8
    <3>5. CASE i # 1
      <4>1. i - 1 \in 1..l /\ p[i] = q[i - 1] + 1 /\ i - 1 < j - 1
        BY <3>1, <3>5, <2>1, <2>2
      <4>2. q[i - 1] < q[j - 1] /\ q[i - 1] \in Nat /\ q[j - 1] \in Nat
        BY <4>1, <3>2, <1>8
      <4> QED BY <4>1, <4>2, <3>2
    <3> QED BY <3>4, <3>5
  <2>6. \A k \in DOMAIN p : p[k] \in I
    <3>1. SUFFICES ASSUME NEW k \in 1..(l + 1)
                   PROVE  p[k] \in I
      BY <2>2
    <3>2. CASE k = 1
      BY <3>2, <2>2, <1>11, <1>13
    <3>3. CASE k # 1
      <4>1. k - 1 \in 1..l /\ p[k] = q[k - 1] + 1
        BY <3>1, <3>3, <2>1, <2>2
      <4> QED BY <4>1, <1>8, <1>9
    <3> QED BY <3>2, <3>3
  <2>7. \A i \in I : \E k \in DOMAIN p : p[k] = i
    <3>1. SUFFICES ASSUME NEW i \in I
                   PROVE  \E k \in DOMAIN p : p[k] = i
      OBVIOUS
    <3>2. CASE i = 1
      <4>1. 1 \in DOMAIN p
        BY <2>2
      <4> QED BY <4>1, <3>2, <2>2
    <3>3. CASE i # 1
      <4>1. i - 1 \in J /\ i \in Nat
        BY <1>2, <1>10, <3>3 DEF I, MineOf
      <4>2. PICK k \in 1..l : q[k] = i - 1
        BY <4>1, <1>8
      <4>3. k + 1 \in DOMAIN p /\ p[k + 1] = i
        <5>1. (i - 1) + 1 = i
          BY <4>1
        <5> QED BY <5>1, <4>2, <2>2, <2>4
      <4> QED BY <4>3
    <3> QED BY <3>2, <3>3
  <2>8. Lists(p, I)
    BY <2>3, <2>5, <2>6, <2>7 DEF Lists
  <2>9. EnqueuedOf(ops, u) = WritesAt(ops, p)
    BY <2>8, EnqueuedIs DEF I
  <2> DEFINE first == ops[1].write
             a == WritesAt(ops, p)
             b == <<first>> \o w
  <2>10. first \in Writes
    <3>1. ops[1] \in Operation
      BY <1>2
    <3> QED BY <3>1, <1>13 DEF Operation
  <2>11. DOMAIN a = 1..(l + 1) /\ \A k \in 1..(l + 1) : a[k] = ops[p[k]].write
    BY <2>2 DEF WritesAt
  <2>12. a = [k \in 1..(l + 1) |-> a[k]]
    BY <2>2 DEF WritesAt
  <2>13. Len(w) = l /\ \A k \in 1..l : w[k] = rest[q[k]].write
    <3>1. DOMAIN w = 1..l
      BY <1>6, <1>8 DEF WritesAt
    <3>2. \A k \in 1..l : w[k] = rest[q[k]].write
      BY <1>6, <1>8 DEF WritesAt
    <3> QED BY <3>1, <3>2, <1>6
  <2> HIDE DEF a, first
  <2>14. /\ b \in Seq(Writes) /\ Len(b) = l + 1 /\ b[1] = first
         /\ \A k \in 1..l : b[k + 1] = w[k]
    <3>1. <<first>> \in Seq(Writes) /\ Len(<<first>>) = 1 /\ <<first>>[1] = first
      BY <2>10
    <3>2. PICK f : f = <<first>>
      OBVIOUS
    <3>3. f \o w \in Seq(Writes) /\ Joins(f \o w, f, w)
      BY <3>1, <3>2, <1>6, ConcatOf
    <3>4. \A k \in 1..l : 1 + k = k + 1
      OBVIOUS
    <3> QED BY <3>1, <3>2, <3>3, <3>4, <2>13 DEF Joins
  <2> HIDE DEF b
  <2>15. \A k \in 1..(l + 1) : a[k] = b[k]
    <3>1. SUFFICES ASSUME NEW k \in 1..(l + 1)
                   PROVE  a[k] = b[k]
      OBVIOUS
    <3>2. CASE k = 1
      BY <3>2, <2>2, <2>11, <2>14 DEF first
    <3>3. CASE k # 1
      <4>1. PICK m \in 1..l : m + 1 = k
        <5>1. k - 1 \in 1..l /\ (k - 1) + 1 = k
          BY <3>1, <3>3
        <5> QED BY <5>1
      <4>2. p[k] = q[m] + 1 /\ q[m] \in J
        BY <4>1, <2>4, <1>8
      <4>3. ops[p[k]] = rest[q[m]]
        BY <4>2, <1>2, <1>9
      <4> QED BY <4>1, <4>3, <2>11, <2>13, <2>14
    <3> QED BY <3>2, <3>3
  <2>16. b = [k \in 1..(l + 1) |-> b[k]]
    BY <2>14
  <2>17. a = b
    BY <2>12, <2>15, <2>16
  <2> QED BY <1>6, <1>13, <2>9, <2>17 DEF a, b, first, rest, v, w
<1> QED BY <1>12, <1>13

-----------------------------------------------------------------------------
(* What the steps of OrderedDelivery are for Observed's queue *)

All == client.queues[Observed] \o Enqueued
Stored == Len(client.queues[Observed])

LEMMA MapsNothing ==
  ASSUME All' = All, Stored' = Stored, Unanswered' = Unanswered,
         spent'.restarts = spent.restarts,
         delivered'[Observed] = delivered[Observed]
  PROVE  UNCHANGED <<Pipeline!pipelineVars, OfObserved(delivered[Observed])>>
BY DEF Pipeline!pipelineVars, All, Stored, OfObserved

LEMMA MapsWriteMutations ==
  ASSUME NEW w \in Writes, All' = All \o <<w>>, Stored' = Stored,
         Unanswered' = Unanswered, spent'.restarts = spent.restarts,
         delivered'[Observed] = delivered[Observed]
  PROVE  Pipeline!DeliveryNext
<1>1. Pipeline!WriteMutations(Observed, <<w>>)
  BY DEF Pipeline!WriteMutations, All, Stored, OfObserved
<1>2. UNCHANGED OfObserved(delivered[Observed])
  BY DEF OfObserved
<1> QED BY <1>1, <1>2 DEF Pipeline!DeliveryNext

LEMMA MapsWriteLocally ==
  ASSUME Stored < Len(All), Stored' = Stored + 1, All' = All,
         Unanswered' = Unanswered,
         spent'.restarts = spent.restarts,
         delivered'[Observed] = delivered[Observed]
  PROVE  Pipeline!DeliveryNext
<1>1. Pipeline!WriteLocally(Observed)
  BY DEF Pipeline!WriteLocally, All, Stored, OfObserved
<1>2. UNCHANGED OfObserved(delivered[Observed])
  BY DEF OfObserved
<1> QED BY <1>1, <1>2 DEF Pipeline!DeliveryNext

LEMMA MapsDeliver ==
  ASSUME Unanswered < Stored, All' = All, Stored' = Stored,
         Unanswered' = Unanswered + 1, spent'.restarts = spent.restarts,
         delivered'[Observed] =
           Append(delivered[Observed], All[Unanswered + 1])
  PROVE  Pipeline!DeliveryNext
<1>1. Pipeline!ApplyAtServer(Observed)
  BY DEF Pipeline!ApplyAtServer, All, Stored, OfObserved
<1>2. Pipeline!NextToApply(Observed) = All[Unanswered + 1]
  BY DEF Pipeline!NextToApply, All, OfObserved
<1>3. OfObserved(delivered[Observed])' =
        [OfObserved(delivered[Observed]) EXCEPT ![Observed] =
           Append(@, Pipeline!NextToApply(Observed))]
  BY <1>2 DEF OfObserved
<1>4. Pipeline!Deliver(Observed)
  BY <1>1, <1>3 DEF Pipeline!Deliver
<1> QED BY <1>4 DEF Pipeline!DeliveryNext

LEMMA MapsHandleSuccessfulWrite ==
  ASSUME Unanswered > 0, All' = Tail(All), Stored' = Stored - 1,
         Unanswered' = Unanswered - 1,
         spent'.restarts = spent.restarts,
         delivered'[Observed] = delivered[Observed]
  PROVE  Pipeline!DeliveryNext
<1>1. Pipeline!HandleSuccessfulWrite(Observed)
  BY DEF Pipeline!HandleSuccessfulWrite, All, Stored, OfObserved
<1>2. UNCHANGED OfObserved(delivered[Observed])
  BY DEF OfObserved
<1> QED BY <1>1, <1>2 DEF Pipeline!DeliveryNext

LEMMA MapsHandleRejectedWrite ==
  ASSUME Unanswered = 0, Stored > 0, All' = Tail(All),
         Stored' = Stored - 1, Unanswered' = 0,
         spent'.restarts = spent.restarts,
         delivered'[Observed] = delivered[Observed]
  PROVE  Pipeline!DeliveryNext
<1>1. Pipeline!HandleRejectedWrite(Observed)
  BY DEF Pipeline!HandleRejectedWrite, All, Stored, OfObserved
<1>2. UNCHANGED OfObserved(delivered[Observed])
  BY DEF OfObserved
<1> QED BY <1>1, <1>2 DEF Pipeline!DeliveryNext

LEMMA MapsOnWriteStreamClose ==
  ASSUME Unanswered > 0, All' = All, Stored' = Stored, Unanswered' = 0,
         spent'.restarts = spent.restarts,
         delivered'[Observed] = delivered[Observed]
  PROVE  Pipeline!DeliveryNext
<1>1. Pipeline!OnWriteStreamClose(Observed)
  BY DEF Pipeline!OnWriteStreamClose, All, Stored, OfObserved
<1>2. UNCHANGED OfObserved(delivered[Observed])
  BY DEF OfObserved
<1> QED BY <1>1, <1>2 DEF Pipeline!DeliveryNext

LEMMA MapsRestart ==
  ASSUME spent.restarts < MaxFaults, spent'.restarts = spent.restarts + 1,
         All' = SubSeq(All, 1, Stored), Stored' = Stored, Unanswered' = 0,
         delivered'[Observed] = delivered[Observed]
  PROVE  Pipeline!DeliveryNext
<1>1. Pipeline!RestartSignedIn(Observed)
  BY DEF Pipeline!RestartSignedIn, All, Stored, OfObserved
<1>2. UNCHANGED OfObserved(delivered[Observed])
  BY DEF OfObserved
<1> QED BY <1>1, <1>2 DEF Pipeline!DeliveryNext

-----------------------------------------------------------------------------
(* The answers on the wire *)

AnswersIn(down) == Cardinality({i \in DOMAIN down : down[i].type = "Write"})

LEMMA UnansweredHere ==
  /\ Unanswered = IF client.user # Observed THEN 0 ELSE AnswersIn(client.down)
  /\ Unanswered' = IF client'.user # Observed THEN 0 ELSE AnswersIn(client'.down)
BY DEF Unanswered, AnswersIn

LEMMA NoAnswersIn == AnswersIn(<<>>) = 0
<1>1. {i \in DOMAIN <<>> : <<>>[i].type = "Write"} = {}
  OBVIOUS
<1> QED BY <1>1, FS_EmptySet DEF AnswersIn

LEMMA AnswersCounted ==
  ASSUME NEW s, NEW n \in Nat, s.down \in Seq(Message), Answers(s, n)
  PROVE  AnswersIn(s.down) = n
<1> DEFINE I == {i \in DOMAIN s.down : s.down[i].type = "Write"}
<1>1. n <= Len(s.down) /\ DOMAIN s.down = 1..Len(s.down) /\ Len(s.down) \in Nat
  BY DEF Answers
<1>2. \A i \in 1..n : i \in DOMAIN s.down /\ s.down[i].type = "Write"
  <2>1. \A i \in 1..n : s.down[i] = WriteRequest(s.pipeline[i])
    BY DEF Answers
  <2>2. \A w : WriteRequest(w).type = "Write"
    BY DEF WriteRequest
  <2>3. \A i \in 1..n : i \in DOMAIN s.down
    BY <1>1
  <2> QED BY <2>1, <2>2, <2>3
<1>3. \A i \in DOMAIN s.down : i \in 1..n \/ (i = n + 1 /\ s.down[i].type = "Refused")
  BY <1>1 DEF Answers
<1>4. I = 1..n
  BY <1>2, <1>3
<1>5. Cardinality(1..n) = n
  BY FS_Interval
<1> QED BY <1>4, <1>5 DEF AnswersIn

LEMMA ShakingUnanswered ==
  ASSUME NEW s, Sound(s), ~(IsOpen(s) /\ s.handshake)
  PROVE  AnswersIn(s.down) = 0
<1>1. CASE s.down = <<>>
  BY <1>1, NoAnswersIn
<1>2. CASE s.down # <<>>
  <2>1. Shaking(s) /\ s.down \in Seq(Message)
    BY <1>2 DEF Sound, Wires, ClientRec
  <2>2. Len(s.down) = 1 /\ s.down[1].type # "Write"
    BY <2>1, <1>2 DEF Shaking
  <2>3. {i \in DOMAIN s.down : s.down[i].type = "Write"} = {}
    BY <2>1, <2>2
  <2> QED BY <2>3, FS_EmptySet DEF AnswersIn
<1> QED BY <1>1, <1>2

-----------------------------------------------------------------------------
(* Every step is one of OrderedDelivery's for Observed's queue, or none *)

LEMMA JoinedQueues ==
  ASSUME NEW S, NEW q \in Seq(S), NEW e \in Seq(S)
  PROVE  /\ q \o e \in Seq(S) /\ Len(q) <= Len(q \o e)
         /\ \A i \in 1..Len(q) : (q \o e)[i] = q[i]
         /\ SubSeq(q \o e, 1, Len(q)) = q
         /\ q # <<>> => Tail(q \o e) = Tail(q) \o e
<1>1. PICK r : r = q \o e
  OBVIOUS
<1>2. r \in Seq(S) /\ Joins(r, q, e)
  BY <1>1, ConcatOf
<1>3. PICK a \in Nat, b \in Nat : a = Len(q) /\ b = Len(e)
  OBVIOUS
<1>4. /\ Len(r) = a + b /\ \A i \in 1..a : r[i] = q[i]
      /\ \A i \in 1..b : r[a + i] = e[i]
  BY <1>2, <1>3 DEF Joins
<1>5. SubSeq(r, 1, a) = q
  <2>1. /\ SubSeq(r, 1, a) \in Seq(S) /\ Len(SubSeq(r, 1, a)) = a - 1 + 1
        /\ \A i \in 1..(a - 1 + 1) : SubSeq(r, 1, a)[i] = r[1 + i - 1]
    BY <1>2, <1>3, <1>4, SubSeqOf
  <2>2. a - 1 + 1 = a /\ \A i \in 1..a : 1 + i - 1 = i
    OBVIOUS
  <2>3. Len(SubSeq(r, 1, a)) = Len(q) /\ \A i \in 1..Len(SubSeq(r, 1, a)) : SubSeq(r, 1, a)[i] = q[i]
    BY <2>1, <2>2, <1>3, <1>4
  <2> QED BY <2>1, <2>3, SeqEqual
<1>6. ASSUME q # <<>>
      PROVE  Tail(r) = Tail(q) \o e
  <2>1. a # 0 /\ r # <<>>
    BY <1>3, <1>4, <1>6, EmptySeq
  <2>2. /\ Tail(r) \in Seq(S) /\ Len(Tail(r)) = a + b - 1
        /\ \A i \in 1..(a + b - 1) : Tail(r)[i] = r[i + 1]
    BY <1>2, <1>4, <2>1, HeadTailProperties
  <2>3. PICK t : t = Tail(q)
    OBVIOUS
  <2>4. t \in Seq(S) /\ Len(t) = a - 1 /\ \A i \in 1..(a - 1) : t[i] = q[i + 1]
    BY <1>3, <1>6, <2>3, HeadTailProperties
  <2>5. PICK s : s = t \o e
    OBVIOUS
  <2>6. s \in Seq(S) /\ Joins(s, t, e)
    BY <2>4, <2>5, ConcatOf
  <2>7. /\ Len(s) = (a - 1) + b /\ \A i \in 1..(a - 1) : s[i] = q[i + 1]
        /\ \A i \in 1..b : s[(a - 1) + i] = e[i]
    BY <2>4, <2>6, <1>3 DEF Joins
  <2>8. ASSUME NEW i \in 1..(a + b - 1)
        PROVE  Tail(r)[i] = s[i]
    <3>1. CASE i <= a - 1
      <4>1. i \in 1..(a - 1) /\ i + 1 \in 1..a
        BY <2>8, <3>1
      <4>2. Tail(r)[i] = r[i + 1]
        BY <2>2, <2>8
      <4>3. r[i + 1] = q[i + 1] /\ s[i] = q[i + 1]
        BY <4>1, <1>4, <2>7
      <4> QED BY <4>2, <4>3
    <3>2. CASE i > a - 1
      <4>1. PICK k \in 1..b : k = i - (a - 1)
        <5>1. i - (a - 1) \in 1..b
          BY <2>8, <3>2, <2>1
        <5> QED BY <5>1
      <4>2. i = (a - 1) + k /\ i + 1 = a + k
        BY <4>1
      <4>3. Tail(r)[i] = r[i + 1]
        BY <2>2, <2>8
      <4>4. r[a + k] = e[k] /\ s[(a - 1) + k] = e[k]
        BY <4>1, <1>4, <2>7
      <4> QED BY <4>2, <4>3, <4>4
    <3>3. i <= a - 1 \/ i > a - 1
      BY <2>8
    <3> QED BY <3>1, <3>2, <3>3, Zenon
  <2>9. Tail(r) = s
    <3>1. Len(Tail(r)) = a + b - 1 /\ Len(s) = a + b - 1
      BY <2>2, <2>7
    <3> QED BY <3>1, <2>2, <2>6, <2>8, SeqEqual
  <2> QED BY <2>3, <2>5, <2>9
<1>7. Len(q) <= Len(r)
  BY <1>3, <1>4
<1> QED BY <1>1, <1>2, <1>3, <1>4, <1>5, <1>6, <1>7

\* Concatenation, for facts about it that need not be taken apart.
Cat(x, y) == x \o y

LEMMA JoinedWrite ==
  ASSUME NEW S, NEW q \in Seq(S), NEW e \in Seq(S), NEW w \in S,
         NEW s, s = <<w>>
  PROVE  /\ Cat(Cat(q, e), s) = Cat(q, Append(e, w))
         /\ Cat(Append(q, w), e) = Cat(q, Cat(s, e))
         /\ Len(q) < Len(Cat(q, Cat(s, e)))
<1>1. PICK a \in Nat, b \in Nat : a = Len(q) /\ b = Len(e)
  OBVIOUS
<1>2. s \in Seq(S) /\ Len(s) = 1
  OBVIOUS
<1>3. Append(e, w) = e \o s /\ Append(q, w) = q \o s
  BY AppendIsConcat
<1>4. \A T : \A x, y, z \in Seq(T) : (x \o y) \o z = x \o (y \o z)
  BY ConcatAssociative
<1>5. (q \o e) \o s = q \o (e \o s)
  BY <1>2, <1>4
<1>6. (q \o s) \o e = q \o (s \o e)
  BY <1>2, <1>4
<1>7. PICK f : f = s \o e
  OBVIOUS
<1>8. f \in Seq(S) /\ Len(f) = 1 + b
  <2>1. f \in Seq(S) /\ Joins(f, s, e)
    BY <1>2, <1>7, ConcatOf
  <2> QED BY <2>1, <1>1, <1>2 DEF Joins
<1>9. Len(q \o f) = a + (1 + b)
  <2>1. Joins(q \o f, q, f)
    BY <1>8, ConcatOf
  <2> QED BY <2>1, <1>8, <1>1 DEF Joins
<1>10. Len(q) < Len(q \o f)
  BY <1>9, <1>1
<1>11. (q \o e) \o s = q \o Append(e, w)
  BY <1>3, <1>5
<1>12. Append(q, w) \o e = q \o (s \o e)
  BY <1>3, <1>6
<1> QED BY <1>7, <1>10, <1>11, <1>12 DEF Cat

\* A step as OrderedDelivery sees it.
Maps ==
  \/ Pipeline!DeliveryNext
  \/ UNCHANGED <<Pipeline!pipelineVars, OfObserved(delivered[Observed])>>

LEMMA UnansweredTyped ==
  ASSUME IInv
  PROVE  /\ Unanswered \in Nat
         /\ client.user # Observed \/ ~(IsOpen(client) /\ client.handshake)
              => Unanswered = 0
<1>1. Sound(client) /\ client.down \in Seq(Message)
  BY DEF IInv, Rests, Settled, Sound, ClientRec
<1>2. CASE client.user # Observed
  BY <1>2, UnansweredHere
<1>3. CASE ~(IsOpen(client) /\ client.handshake)
  BY <1>1, <1>3, ShakingUnanswered, UnansweredHere
<1>4. CASE client.user = Observed /\ IsOpen(client) /\ client.handshake
  <2>1. PICK n \in 0..Len(client.down) : Answers(client, n)
    BY <1>1, <1>4 DEF Sound, Wires
  <2>2. n \in Nat
    BY <2>1, <1>1
  <2>3. AnswersIn(client.down) = n
    BY <1>1, <2>1, <2>2, AnswersCounted
  <2> QED BY <1>4, <2>2, <2>3, UnansweredHere
<1> QED BY <1>2, <1>3, <1>4

LEMMA QueuesTyped ==
  ASSUME IInv
  PROVE  /\ client.queues[Observed] \in Seq(Writes) /\ Enqueued \in Seq(Writes)
         /\ worker \in Seq(Operation)
         /\ client \in ClientRec /\ Rests(client) /\ Sound(client)
         /\ client.tokens = {} /\ client.called = {}
BY EnqueuedHere, EnqueuedTyped, RemoteWriteAssumption
   DEF IInv, Types, ClientRec, Rests, Settled

\* The queue stands, and the answers on the wire are there still or are lost.
LEMMA LosesAnswers ==
  ASSUME IInv, client'.queues[Observed] = client.queues[Observed],
         Enqueued' = Enqueued, spent'.restarts = spent.restarts,
         delivered'[Observed] = delivered[Observed],
         Unanswered' \in {0, Unanswered}
  PROVE  Maps
<1>1. All' = All /\ Stored' = Stored
  BY DEF All, Stored
<1>2. Unanswered \in Nat
  BY UnansweredTyped
<1>3. CASE Unanswered' = Unanswered
  BY <1>1, <1>3, MapsNothing DEF Maps
<1>4. CASE Unanswered' = 0 /\ Unanswered > 0
  BY <1>1, <1>4, MapsOnWriteStreamClose DEF Maps
<1>5. CASE Unanswered' = 0 /\ Unanswered = 0
  BY <1>1, <1>5, MapsNothing DEF Maps
<1> QED BY <1>2, <1>3, <1>4, <1>5

LEMMA LostAnswers ==
  ASSUME client'.down = <<>> \/ client'.user # Observed
  PROVE  Unanswered' = 0
BY UnansweredHere, NoAnswersIn

LEMMA StandingMaps ==
  ASSUME IInv, client' = client, Enqueued' = Enqueued,
         spent'.restarts = spent.restarts, delivered' = delivered
  PROVE  Maps
<1>1. Unanswered' = Unanswered
  BY UnansweredHere
<1> QED BY <1>1, LosesAnswers

LEMMA WriteMutationsMaps ==
  ASSUME IInv, IInv', WriteMutations
  PROVE  Maps
<1>1. PICK o : /\ o = [op |-> "Write", write |-> spent.writes + 1]
               /\ worker' = Append(worker, o)
  <2>1. spent \in [writes : Nat, signIns : Nat, faults : Nat, restarts : Nat]
    BY DEF IInv, Types
  <2>2. spent'.writes = spent.writes + 1
    BY <2>1 DEF WriteMutations
  <2> QED BY <2>2 DEF WriteMutations
<1>2. /\ client' = client /\ delivered' = delivered
      /\ spent'.restarts = spent.restarts
  BY DEF WriteMutations, IInv, Types
<1>3. worker \in Seq(Operation) /\ client.queues[Observed] \in Seq(Writes)
      /\ Enqueued \in Seq(Writes)
  BY QueuesTyped
<1>4. o.op = "Write" /\ o.write \in Writes /\ o \in Operation
  <2>1. spent.writes \in Nat /\ spent.writes < MaxWrites /\ MaxWrites \in Nat
    BY RemoteWriteAssumption DEF WriteMutations, IInv, Types
  <2>2. spent.writes + 1 \in Writes
    BY <2>1 DEF Writes
  <2> QED BY <1>1, <2>2 DEF Operation
<1>5. Enqueued' \in {Enqueued, Append(Enqueued, o.write)}
  <2>1. EnqueuedOf(worker', client.user) \in
          {EnqueuedOf(worker, client.user),
           Append(EnqueuedOf(worker, client.user), o.write)}
    BY <1>1, <1>3, <1>4, EnqueuedBehindOthers
  <2> QED BY <2>1, <1>2, EnqueuedHere
<1>6. CASE Enqueued' = Enqueued
  BY <1>2, <1>6, StandingMaps
<1>7. CASE Enqueued' = Append(Enqueued, o.write)
  <2>1. All' = All \o <<o.write>> /\ Stored' = Stored
    <3>1. PICK q, e, w, s :
            /\ q \in Seq(Writes) /\ e \in Seq(Writes) /\ w \in Writes
            /\ q = client.queues[Observed] /\ e = Enqueued
            /\ w = o.write /\ s = <<w>>
      BY <1>3, <1>4
    <3>2. s = <<w>>
      BY <3>1
    <3>6. q \in Seq(Writes) /\ e \in Seq(Writes) /\ w \in Writes
      BY <3>1
    <3> HIDE <3>1
    <3>4. Cat(Cat(q, e), s) = Cat(q, Append(e, w))
      BY <3>2, <3>6, JoinedWrite
    <3>3. All = Cat(q, e) /\ All' = Cat(q, Append(e, o.write))
      BY <1>2, <1>7, <3>1 DEF All, Cat
    <3>5. All \o s = Cat(All, s)
      BY DEF Cat
    <3> QED BY <1>2, <3>1, <3>4, <3>3, <3>5 DEF Stored
  <2>2. Unanswered' = Unanswered
    BY <1>2, UnansweredHere
  <2> QED BY <1>2, <1>4, <2>1, <2>2, MapsWriteMutations DEF Maps
<1> QED BY <1>5, <1>6, <1>7

LEMMA AuthMaps ==
  ASSUME IInv,
         \/ \E u \in Users : SignIn(u)
         \/ \E r \in auth.asked : TokenRead(r) \/ TokenAnswers(r) \/ TokenFails(r)
         \/ UNCHANGED vars
  PROVE  Maps
<1>1. /\ client' = client /\ worker' = worker /\ delivered' = delivered
      /\ spent'.restarts = spent.restarts
  BY DEF SignIn, TokenRead, TokenAnswers, TokenFails, vars, IInv, Types
<1>2. Enqueued' = Enqueued
  BY <1>1, EnqueuedHere
<1> QED BY <1>1, <1>2, StandingMaps

LEMMA RunMainMaps ==
  ASSUME IInv, RunMain
  PROVE  Maps
<1>1. /\ client' = client /\ delivered' = delivered
      /\ spent'.restarts = spent.restarts
  BY DEF RunMain
<1>2. worker \in Seq(Operation)
  BY QueuesTyped
<1>3. Head(auth.main) \in Event
  BY AuthTypes, TailOf DEF RunMain
<1>4. \/ worker' = worker
      \/ \E o \in Operation : o.op # "Write" /\ worker' = Append(worker, o)
  <2>1. CASE Head(auth.main).type = "Changed"
    <3> DEFINE o == [op |-> "User", user |-> Head(auth.main).user]
    <3>1. worker' = Append(worker, o)
      BY <2>1 DEF RunMain
    <3>2. o \in Operation /\ o.op # "Write"
      BY <1>3, <2>1 DEF Event, Operation
    <3> HIDE DEF o
    <3> QED BY <3>1, <3>2
  <2>2. CASE Head(auth.main).type = "Token"
    <3> DEFINE q == Head(auth.main).request
               o == [op |-> "Credentials", attempt |-> q.attempt, token |-> q.token]
    <3>1. worker' = worker \/ worker' = Append(worker, o)
      BY <2>2 DEF RunMain
    <3>2. q \in Request
      BY <1>3, <2>2 DEF Event
    <3> HIDE DEF q
    <3>3. o \in Operation /\ o.op # "Write"
      BY <3>2 DEF Request, Operation
    <3> HIDE DEF o
    <3> QED BY <3>1, <3>3
  <2> QED BY <1>3, <2>1, <2>2 DEF Event
<1>5. EnqueuedOf(worker', client.user) = EnqueuedOf(worker, client.user)
  <2>1. ASSUME NEW o \in Operation, o.op # "Write", worker' = Append(worker, o)
        PROVE  EnqueuedOf(worker', client.user) = EnqueuedOf(worker, client.user)
    BY <1>2, <2>1, EnqueuedBehindOthers
  <2> QED BY <1>4, <2>1
<1>6. Enqueued' = Enqueued
  BY <1>1, <1>5, EnqueuedHere
<1> QED BY <1>1, <1>6, StandingMaps

\* A handler that leaves the queues alone, and the answers or nobody.
LEMMA WorkedMaps ==
  ASSUME IInv, NEW s, Rests(s), Works(s), s.queues = client.queues,
         \/ s.down = <<>>
         \/ s.down = client.down /\ s.user = client.user
         \/ s.user # Observed,
         Enqueued' = Enqueued, spent'.restarts = spent.restarts,
         delivered' = delivered
  PROVE  Maps
<1>1. /\ client'.queues = client.queues /\ client'.down = s.down
      /\ client'.user = s.user
  <2>1. s \in ClientRec /\ Types
    BY DEF IInv, Rests, Settled, Sound
  <2> QED BY <2>1, WorksOn
<1>2. Unanswered' \in {0, Unanswered}
  BY <1>1, LostAnswers, UnansweredHere
<1> QED BY <1>1, <1>2, LosesAnswers

LEMMA EnqueuedStands ==
  ASSUME worker' = worker, client'.user = client.user
  PROVE  Enqueued' = Enqueued
BY EnqueuedHere

LEMMA KeptMaps ==
  ASSUME IInv, NEW s, Rests(s), Works(s), Kept(client, s), s.down = <<>>,
         worker' = worker, spent'.restarts = spent.restarts,
         delivered' = delivered
  PROVE  Maps
<1>1. client'.user = client.user
  <2>1. s \in ClientRec /\ Types
    BY DEF IInv, Rests, Settled, Sound
  <2> QED BY <2>1, WorksOn DEF Kept
<1>2. Enqueued' = Enqueued
  BY <1>1, EnqueuedStands
<1> QED BY <1>2, WorkedMaps DEF Kept

LEMMA FaultCountsOnly ==
  ASSUME Types, spent' = [spent EXCEPT !.faults = @ + 1]
  PROVE  spent'.restarts = spent.restarts
BY DEF Types

LEMMA StreamBreaksMaps ==
  ASSUME IInv, StreamBreaks
  PROVE  Maps
<1> DEFINE s == Close(client, "transient")
<1>1. /\ Works(s) /\ IsOpen(client) /\ worker' = worker
      /\ delivered' = delivered /\ spent'.restarts = spent.restarts
  BY FaultCountsOnly DEF StreamBreaks, IInv
<1>2. /\ client \in ClientRec /\ IsStarted(client)
      /\ client.tokens = {} /\ client.broken = {} /\ client.enabled
      /\ RisingQueues(client) /\ Fits(client) /\ Filled(client)
  BY <1>1 DEF IInv, Rests, Settled, Sound, IsStarted, IsOpen
<1>3. Rests(s) /\ Kept(client, s) /\ s.down = <<>>
  BY <1>2, ErrorRests
<1> HIDE DEF s
<1> QED BY <1>1, <1>3, KeptMaps

LEMMA TimerMaps ==
  ASSUME IInv, BackoffElapses \/ IdleElapses
  PROVE  Maps
<1>1. /\ worker' = worker /\ delivered' = delivered
      /\ spent'.restarts = spent.restarts
      /\ Rests(client) /\ client.tokens = {}
  BY DEF BackoffElapses, IdleElapses, IInv
<1>2. CASE BackoffElapses
  <2>1. Works(Resume(client)) /\ client.backoff
    BY <1>2 DEF BackoffElapses
  <2>2. PICK s : s = Resume(client)
    OBVIOUS
  <2>3. Rests(s) /\ Kept(client, s) /\ s.down = <<>>
    BY <1>1, <2>1, <2>2, ResumeRests
  <2> QED BY <1>1, <2>1, <2>2, <2>3, KeptMaps
<1>3. CASE IdleElapses
  <2>1. Works(Stop(client)) /\ client.idle
    BY <1>3 DEF IdleElapses
  <2>2. PICK s : s = Stop(client)
    OBVIOUS
  <2>3. Rests(s) /\ Kept(client, s) /\ s.down = <<>>
    BY <1>1, <2>1, <2>2, StopRests
  <2> QED BY <1>1, <2>1, <2>2, <2>3, KeptMaps
<1> QED BY <1>2, <1>3

LEMMA ConnectivityMaps ==
  ASSUME IInv, ConnectivityChanges
  PROVE  Maps
<1>1. /\ Works(RestartNetwork(client)) /\ worker' = worker
      /\ delivered' = delivered /\ spent'.restarts = spent.restarts
      /\ Types
  BY FaultCountsOnly DEF ConnectivityChanges, IInv
<1>2. PICK u, c : u \in Users /\ u = client.user /\ c = [client EXCEPT !.user = u]
  BY DEF IInv, Types, ClientRec
<1>3. c = client
  BY <1>2 DEF IInv, Types, ClientRec
<1>4. PICK s : s = RestartNetwork(c)
  OBVIOUS
<1>5. Rests(s) /\ s.user = u /\ s.queues = client.queues /\ s.down = <<>>
  <2>1. RestartNetwork([client EXCEPT !.user = u]) = s /\ u \in Users
    BY <1>2, <1>4
  <2> QED BY <2>1, RestartsFor
<1>6. Works(s)
  BY <1>1, <1>3, <1>4
<1>7. client'.user = client.user
  <2>1. s \in ClientRec
    BY <1>5 DEF Rests, Settled, Sound
  <2> QED BY <1>1, <1>2, <1>5, <1>6, <2>1, WorksOn
<1>8. Enqueued' = Enqueued
  BY <1>1, <1>7, EnqueuedStands
<1> QED BY <1>1, <1>5, <1>6, <1>8, WorkedMaps

\* What is left of the worker's operations when it takes the first.
LEMMA FirstTaken ==
  ASSUME IInv, RunWorker
  PROVE  /\ 1 \in DOMAIN worker /\ worker[1] \in Operation
         /\ Head(worker) = worker[1]
         /\ delivered' = delivered /\ spent'.restarts = spent.restarts
         /\ client'.user = ServedNext(worker, client.user) =>
              /\ Enqueued' \in Seq(Writes)
              /\ worker[1].op = "Write" /\ client.user = Observed =>
                   Enqueued = <<worker[1].write>> \o Enqueued'
              /\ worker[1].op # "Write" \/ client.user # Observed =>
                   Enqueued' = Enqueued
<1>1. /\ worker # <<>> /\ worker' = Tail(worker)
      /\ delivered' = delivered /\ spent'.restarts = spent.restarts
      /\ worker \in Seq(Operation)
  BY QueuesTyped DEF RunWorker
<1>2. /\ Head(worker) = worker[1] /\ 1 \in DOMAIN worker
      /\ worker[1] \in Operation
  BY <1>1, LeavesSome DEF IInv
<1>3. LET rest == EnqueuedOf(Tail(worker), ServedNext(worker, client.user))
      IN  /\ rest \in Seq(Writes)
          /\ EnqueuedOf(worker, client.user) =
               IF worker[1].op = "Write" /\ client.user = Observed
               THEN <<worker[1].write>> \o rest ELSE rest
  BY <1>1, EnqueuedBehindFirst
<1> QED BY <1>1, <1>2, <1>3, EnqueuedHere

LEMMA WriteTaken ==
  ASSUME IInv, RunWorker, worker[1].op = "Write"
  PROVE  Maps
<1>1. PICK w : w = worker[1].write
  OBVIOUS
<1>2. PICK s : s = WriteLocally(client, w)
  OBVIOUS
<1>3. /\ 1 \in DOMAIN worker /\ worker[1] \in Operation
      /\ delivered' = delivered /\ spent'.restarts = spent.restarts
      /\ Head(worker) = worker[1]
  BY FirstTaken
<1>4. Works(s) /\ w \in Writes
  <2>1. Works(WriteLocally(client, worker[1].write))
    BY <1>3 DEF RunWorker
  <2>2. worker[1].write \in Writes
    BY <1>3 DEF Operation
  <2> QED BY <2>1, <2>2, <1>1, <1>2
<1>5. /\ Rests(client) /\ client \in ClientRec /\ client.tokens = {}
      /\ client.user \in Users /\ client.queues \in [Users -> Seq(Writes)]
      /\ Types /\ Observed \in Users
  BY RemoteWriteAssumption DEF IInv, Types, ClientRec
<1>6. /\ Rests(s) /\ s.user = client.user /\ s.down = client.down
      /\ s.queues = [client.queues EXCEPT ![client.user] = Append(@, w)]
  <2>1. \A u \in Users : \A k \in DOMAIN client.queues[u] : client.queues[u][k] < w
    BY <1>1, <1>3 DEF IInv, Numbered
  <2> QED BY <1>2, <1>4, <1>5, <2>1, WriteLocallyRests DEF Queue
<1>7. /\ client'.queues = s.queues /\ client'.down = client.down
      /\ client'.user = client.user
  <2>1. s \in ClientRec
    BY <1>6 DEF Rests, Settled, Sound
  <2> QED BY <2>1, <1>4, <1>5, <1>6, WorksOn
<1>8. Unanswered' = Unanswered
  BY <1>7, UnansweredHere
<1>9. client'.user = ServedNext(worker, client.user)
  BY <1>7 DEF ServedNext
<1>10. CASE client.user # Observed
  <2>1. Enqueued' = Enqueued
    BY <1>9, <1>10, FirstTaken
  <2>2. client'.queues[Observed] = client.queues[Observed]
    BY <1>5, <1>6, <1>7, <1>10
  <2> QED BY <1>3, <1>8, <2>1, <2>2, LosesAnswers
<1>11. CASE client.user = Observed
  <2>1. PICK q, e, f : /\ q = client.queues[Observed] /\ e = Enqueued' /\ f = <<w>>
    OBVIOUS
  <2>2. q \in Seq(Writes) /\ e \in Seq(Writes) /\ Enqueued = f \o e
    BY <1>1, <1>5, <1>9, <1>11, <2>1, FirstTaken
  <2>3. client'.queues[Observed] = Append(q, w)
    BY <1>5, <1>6, <1>7, <1>11, <2>1
  <2>4. All = Cat(q, Cat(f, e)) /\ All' = Cat(Append(q, w), e)
    BY <2>1, <2>2, <2>3 DEF All, Cat
  <2>5. /\ Cat(Append(q, w), e) = Cat(q, Cat(f, e))
        /\ Len(q) < Len(Cat(q, Cat(f, e)))
    BY <1>4, <2>1, <2>2, JoinedWrite
  <2>6. Stored = Len(q) /\ Stored' = Len(q) + 1
    BY <1>4, <2>1, <2>2, <2>3, AppendProperties DEF Stored
  <2>7. Stored < Len(All) /\ All' = All /\ Stored' = Stored + 1
    BY <2>4, <2>5, <2>6
  <2> QED BY <1>3, <1>8, <2>7, MapsWriteLocally DEF Maps
<1> QED BY <1>10, <1>11

LEMMA UserTaken ==
  ASSUME IInv, RunWorker, worker[1].op = "User"
  PROVE  Maps
<1>1. PICK u : u = worker[1].user
  OBVIOUS
<1>2. PICK s : s = HandleCredentialChange(client, u)
  OBVIOUS
<1>3. /\ 1 \in DOMAIN worker /\ worker[1] \in Operation
      /\ delivered' = delivered /\ spent'.restarts = spent.restarts
      /\ Head(worker) = worker[1]
  BY FirstTaken
<1>4. Works(s) /\ u \in Users
  <2>1. Works(HandleCredentialChange(client, worker[1].user))
    BY <1>3 DEF RunWorker
  <2>2. worker[1].user \in Users
    BY <1>3 DEF Operation
  <2> QED BY <2>1, <2>2, <1>1, <1>2
<1>5. Rests(s) /\ s.user = u /\ s.queues = client.queues /\ s.down = <<>>
  <2>1. s = RestartNetwork([client EXCEPT !.user = u])
    BY <1>2 DEF HandleCredentialChange
  <2> QED BY <2>1, <1>4, RestartsFor
<1>6. client'.user = u
  <2>1. s \in ClientRec /\ Types
    BY <1>5 DEF Rests, Settled, Sound, IInv
  <2> QED BY <1>4, <1>5, <2>1, WorksOn
<1>7. client'.user = ServedNext(worker, client.user)
  BY <1>1, <1>6 DEF ServedNext
<1>8. Enqueued' = Enqueued
  BY <1>7, FirstTaken
<1> QED BY <1>3, <1>4, <1>5, <1>8, WorkedMaps

LEMMA CredentialsTaken ==
  ASSUME IInv, RunWorker, worker[1].op = "Credentials"
  PROVE  Maps
<1>1. PICK s : s = ResumeStart(client, worker[1].attempt, worker[1].token)
  OBVIOUS
<1>2. /\ 1 \in DOMAIN worker /\ worker[1] \in Operation
      /\ delivered' = delivered /\ spent'.restarts = spent.restarts
      /\ Head(worker) = worker[1]
  BY FirstTaken
<1>3. Works(s)
  BY <1>1, <1>2 DEF RunWorker
<1>4. /\ client \in ClientRec /\ Rests(client) /\ client.tokens = {}
      /\ client.enabled /\ client.broken = {} /\ RisingQueues(client)
      /\ Fits(client) /\ Filled(client) /\ Types
  BY DEF IInv, Rests, Settled, Sound
<1>5. Rests(s) /\ Kept(client, s) /\ s.down \in {<<>>, client.down}
  <2>1. CASE worker[1].attempt # client.closes
    BY <1>1, <1>4, <2>1 DEF ResumeStart, Kept
  <2>2. CASE worker[1].attempt = client.closes
    <3>1. OnWorker(1)
      BY <1>2, <2>2 DEF OnWorker
    <3>2. client.stream = "Starting"
      BY <3>1, <1>2 DEF IInv, TokenOnItsWay, Nowhere
    <3>3. CASE worker[1].token = {}
      <4>1. s = Close(client, "transient")
        BY <1>1, <2>2, <3>3 DEF ResumeStart
      <4>2. IsStarted(client)
        BY <3>2 DEF IsStarted
      <4> QED BY <1>4, <4>1, <4>2, ErrorRests
    <3>4. CASE worker[1].token # {}
      <4>1. PICK u \in Users : worker[1].token = {u}
        BY <1>2, <3>4 DEF Operation, Token
      <4>2. s = Opened(client, u)
        BY <1>1, <2>2, <4>1 DEF Opened
      <4> QED BY <1>4, <3>2, <4>2, OpensRests
    <3> QED BY <3>3, <3>4
  <2> QED BY <2>1, <2>2
<1>6. client'.user = client.user
  <2>1. s \in ClientRec
    BY <1>5 DEF Rests, Settled, Sound
  <2> QED BY <1>3, <1>4, <1>5, <2>1, WorksOn DEF Kept
<1>7. client'.user = ServedNext(worker, client.user)
  BY <1>6 DEF ServedNext
<1>8. Enqueued' = Enqueued
  BY <1>7, FirstTaken
<1> QED BY <1>2, <1>3, <1>5, <1>8, WorkedMaps DEF Kept

LEMMA RunWorkerMaps ==
  ASSUME IInv, RunWorker
  PROVE  Maps
<1>1. worker[1].op \in {"Write", "User", "Credentials"}
  BY FirstTaken DEF Operation
<1> QED BY <1>1, WriteTaken, UserTaken, CredentialsTaken

\* The front of the present user's queue is taken off.
LEMMA QueueShortened ==
  ASSUME IInv, client.pipeline # <<>>, worker' = worker,
         client'.user = client.user,
         client'.queues = [client.queues EXCEPT ![client.user] = Tail(@)]
  PROVE  /\ Enqueued' = Enqueued
         /\ client.user # Observed =>
              client'.queues[Observed] = client.queues[Observed]
         /\ client.user = Observed =>
              All' = Tail(All) /\ Stored' = Stored - 1 /\ Stored > 0
<1>1. Enqueued' = Enqueued
  BY EnqueuedStands
<1>2. /\ client.queues \in [Users -> Seq(Writes)] /\ client.user \in Users
      /\ Observed \in Users /\ client.pipeline \in Seq(Writes)
      /\ Fits(client) /\ Enqueued \in Seq(Writes)
  BY QueuesTyped, RemoteWriteAssumption DEF ClientRec, Sound
<1>3. CASE client.user # Observed
  BY <1>1, <1>2, <1>3
<1>4. CASE client.user = Observed
  <2>1. PICK q \in Seq(Writes), e \in Seq(Writes) :
          q = client.queues[Observed] /\ e = Enqueued
    BY <1>2
  <2>2. q # <<>>
    BY <1>2, <1>4, <2>1 DEF Fits, Begins, Queue
  <2>3. client'.queues[Observed] = Tail(q)
    BY <1>2, <1>4, <2>1
  <2>4. All = q \o e /\ All' = Tail(q) \o e
    BY <1>1, <2>1, <2>3 DEF All
  <2>5. Tail(q \o e) = Tail(q) \o e
    BY <2>2, JoinedQueues
  <2>6. Len(Tail(q)) = Len(q) - 1 /\ Len(q) > 0
    BY <2>2
  <2>7. Stored = Len(q) /\ Stored' = Len(Tail(q))
    BY <2>1, <2>3 DEF Stored
  <2>8. All' = Tail(All)
    BY <2>4, <2>5
  <2> QED BY <1>1, <1>4, <2>6, <2>7, <2>8
<1> QED BY <1>3, <1>4

LEMMA AnswersAreWrites ==
  ASSUME NEW s, NEW n \in Nat, Answers(s, n)
  PROVE  \A i \in 1..n : s.down[i].type = "Write"
<1>1. \A i \in 1..n : s.down[i] = WriteRequest(s.pipeline[i])
  BY DEF Answers
<1>2. \A w : WriteRequest(w).type = "Write"
  BY DEF WriteRequest
<1> QED BY <1>1, <1>2

\* An answer taken off the wire.
LEMMA AnswerRead ==
  ASSUME NEW c, Sound(c), IsOpen(c), c.handshake, c.down # <<>>,
         c.down[1].type = "Write",
         NEW s, Sound(s), IsOpen(s), s.handshake, s.down = Tail(c.down)
  PROVE  AnswersIn(c.down) > 0 /\ AnswersIn(s.down) = AnswersIn(c.down) - 1
<1>1. /\ c.down \in Seq(Message) /\ s.down \in Seq(Message)
      /\ Wires(c) /\ Wires(s)
  BY DEF Sound, ClientRec
<1>2. PICK n \in Nat : Answers(c, n)
  <2>1. \E n \in 0..Len(c.down) : Answers(c, n)
    BY <1>1 DEF Wires
  <2> QED BY <2>1, <1>1
<1>3. PICK k \in Nat : Answers(s, k)
  <2>1. \E k \in 0..Len(s.down) : Answers(s, k)
    BY <1>1 DEF Wires
  <2> QED BY <2>1, <1>1
<1>4. PICK a \in Nat : a = Len(c.down)
  BY <1>1
<1>5. /\ a >= 1 /\ Len(s.down) = a - 1
      /\ \A i \in 1..(a - 1) : s.down[i] = c.down[i + 1]
  BY <1>1, <1>4, HeadTailProperties
<1>6. /\ \A i \in 1..n : c.down[i].type = "Write"
      /\ \A i \in 1..k : s.down[i].type = "Write"
  BY <1>2, <1>3, AnswersAreWrites
<1>7. /\ a = n \/ (a = n + 1 /\ c.down[n + 1].type = "Refused")
      /\ a - 1 = k \/ (a - 1 = k + 1 /\ s.down[k + 1].type = "Refused")
  BY <1>2, <1>3, <1>4, <1>5 DEF Answers
<1>8. n >= 1
  BY <1>5, <1>7
<1>9. k = n - 1
  <2>1. CASE a = n /\ a - 1 = k + 1
    <3>1. k + 1 \in 1..(a - 1) /\ (k + 1) + 1 = n
      BY <2>1
    <3>2. s.down[k + 1] = c.down[n] /\ n \in 1..n
      BY <3>1, <1>5, <1>8
    <3> QED BY <3>2, <2>1, <1>6, <1>7
  <2>2. CASE a = n + 1 /\ a - 1 = k
    <3>1. n \in 1..(a - 1) /\ n \in 1..k
      BY <2>2, <1>8
    <3>2. s.down[n] = c.down[n + 1]
      BY <3>1, <1>5
    <3> QED BY <3>1, <3>2, <2>2, <1>6, <1>7
  <2> QED BY <2>1, <2>2, <1>7
<1>10. AnswersIn(c.down) = n /\ AnswersIn(s.down) = k
  BY <1>1, <1>2, <1>3, AnswersCounted
<1> QED BY <1>8, <1>9, <1>10

LEMMA ResultMaps ==
  ASSUME IInv, StreamRead, client.down[1].type = "Write"
  PROVE  Maps
<1>1. /\ client.down # <<>> /\ worker' = worker
      /\ delivered' = delivered /\ spent'.restarts = spent.restarts
      /\ Types /\ Rests(client) /\ Sound(client)
      /\ client.tokens = {} /\ client.called = {}
  BY DEF StreamRead, IInv, Rests, Settled
<1>2. /\ Head(client.down) = client.down[1]
      /\ IsOpen(client) /\ client.pipeline # <<>> /\ client.handshake
  BY <1>1, NextResponse
<1>3. PICK s : s = OnWriteStreamMutationResult(Read(client))
  OBVIOUS
<1>4. Works(s)
  BY <1>2, <1>3 DEF StreamRead, Read
<1>5. /\ Rests(s) /\ s.user = client.user /\ s.down = Tail(client.down)
      /\ s.queues = [client.queues EXCEPT ![client.user] = Tail(@)]
      /\ s.handshake /\ IsOpen(s)
  BY <1>1, <1>3, ResultRests
<1>6. s \in ClientRec /\ Sound(s)
  BY <1>5 DEF Rests, Settled, Sound
<1>7. /\ client'.queues = s.queues /\ client'.user = client.user
      /\ client'.down = s.down
  BY <1>1, <1>4, <1>5, <1>6, WorksOn
<1>8. /\ Enqueued' = Enqueued
      /\ client.user # Observed =>
           client'.queues[Observed] = client.queues[Observed]
      /\ client.user = Observed =>
           All' = Tail(All) /\ Stored' = Stored - 1 /\ Stored > 0
  BY <1>1, <1>2, <1>5, <1>7, QueueShortened
<1>9. CASE client.user # Observed
  <2>1. Unanswered' = 0
    BY <1>7, <1>9, LostAnswers
  <2> QED BY <1>1, <1>8, <1>9, <2>1, LosesAnswers
<1>10. CASE client.user = Observed
  <2>1. AnswersIn(client.down) > 0 /\ AnswersIn(s.down) = AnswersIn(client.down) - 1
    BY <1>1, <1>2, <1>5, <1>6, AnswerRead
  <2>2. Unanswered > 0 /\ Unanswered' = Unanswered - 1
    BY <2>1, <1>7, <1>10, UnansweredHere
  <2> QED BY <1>1, <1>8, <1>10, <2>2, MapsHandleSuccessfulWrite DEF Maps
<1> QED BY <1>9, <1>10

LEMMA HandshakeMaps ==
  ASSUME IInv, StreamRead, client.down[1].type = "Handshake"
  PROVE  Maps
<1>1. /\ client.down # <<>> /\ worker' = worker
      /\ delivered' = delivered /\ spent'.restarts = spent.restarts
      /\ Rests(client) /\ Sound(client) /\ client.tokens = {}
  BY DEF StreamRead, IInv, Rests, Settled
<1>2. Head(client.down) = client.down[1]
  BY <1>1, NextResponse
<1>3. PICK s : s = OnWriteStreamHandshakeComplete(Read(client))
  OBVIOUS
<1>4. Works(s)
  BY <1>2, <1>3 DEF StreamRead, Read
<1>5. Rests(s) /\ Kept(client, s) /\ s.down = <<>>
  BY <1>1, <1>3, HandshakeRests
<1> QED BY <1>1, <1>4, <1>5, KeptMaps

LEMMA RefusalMaps ==
  ASSUME IInv, StreamRead, client.down[1].type = "Refused"
  PROVE  Maps
<1>1. /\ client.down # <<>> /\ worker' = worker
      /\ delivered' = delivered /\ spent'.restarts = spent.restarts
      /\ Types /\ Rests(client) /\ Sound(client)
      /\ client.tokens = {} /\ client.called = {}
      /\ client \in ClientRec /\ client.broken = {} /\ client.enabled
      /\ RisingQueues(client) /\ Fits(client) /\ Filled(client)
      /\ client.down \in Seq(Message)
  BY DEF StreamRead, IInv, Rests, Settled, Sound, ClientRec
<1>2. /\ Head(client.down) = client.down[1]
      /\ IsOpen(client) /\ client.pipeline # <<>>
  BY <1>1, NextResponse
<1>3. PICK r, s : r = Read(client) /\ s = Close(r, "permanent")
  OBVIOUS
<1>4. Works(s)
  BY <1>2, <1>3 DEF StreamRead, Read
<1>5. CASE client.handshake
  <2>1. /\ Rests(s) /\ s.user = client.user /\ s.down = <<>>
        /\ s.queues = [client.queues EXCEPT ![client.user] = Tail(@)]
    BY <1>1, <1>3, <1>5, RefusedRests
  <2>2. s \in ClientRec
    BY <2>1 DEF Rests, Settled, Sound
  <2>3. /\ client'.queues = s.queues /\ client'.user = client.user
        /\ client'.down = <<>>
    BY <1>1, <1>4, <2>1, <2>2, WorksOn
  <2>4. /\ Enqueued' = Enqueued
        /\ client.user # Observed =>
             client'.queues[Observed] = client.queues[Observed]
        /\ client.user = Observed =>
             All' = Tail(All) /\ Stored' = Stored - 1 /\ Stored > 0
    BY <1>1, <1>2, <2>1, <2>3, QueueShortened
  <2>5. Unanswered' = 0
    BY <2>3, LostAnswers
  <2>6. CASE client.user # Observed
    BY <1>1, <2>4, <2>5, <2>6, LosesAnswers
  <2>7. CASE client.user = Observed
    <3>1. PICK n \in Nat : Answers(client, n)
      <4>1. \E n \in 0..Len(client.down) : Answers(client, n)
        BY <1>1, <1>2, <1>5 DEF Sound, Wires
      <4> QED BY <4>1, <1>1
    <3>2. n = 0
      <4>1. \A i \in 1..n : client.down[i].type = "Write"
        BY <3>1, AnswersAreWrites
      <4>2. n # 0 => 1 \in 1..n
        BY <3>1
      <4> QED BY <4>1, <4>2
    <3>3. Unanswered = 0
      BY <1>1, <2>7, <3>1, <3>2, AnswersCounted, UnansweredHere
    <3> QED BY <1>1, <2>4, <2>5, <2>7, <3>3, MapsHandleRejectedWrite DEF Maps
  <2> QED BY <2>6, <2>7
<1>6. CASE ~client.handshake
  <2>1. /\ r \in ClientRec /\ Kept(client, r)
        /\ r.stream = client.stream
        /\ r.tokens = {} /\ r.broken = {} /\ r.enabled
        /\ r.pipeline = client.pipeline /\ r.handshake = client.handshake
    BY <1>1, <1>3, ReadIs
  <2>2. IsStarted(r) /\ RisingQueues(r) /\ Fits(r) /\ Filled(r)
    BY <1>1, <1>2, <2>1
       DEF Kept, IsOpen, IsStarted, RisingQueues, Fits, Filled, Queue
  <2>3. Rests(s) /\ Kept(r, s) /\ s.down = <<>>
    BY <1>3, <1>6, <2>1, <2>2, ErrorRests
  <2>4. Kept(client, s)
    BY <2>1, <2>3 DEF Kept
  <2> QED BY <1>1, <1>4, <2>3, <2>4, KeptMaps
<1> QED BY <1>5, <1>6

LEMMA StreamReadMaps ==
  ASSUME IInv, StreamRead
  PROVE  Maps
<1>1. client.down # <<>> /\ Sound(client)
  BY DEF StreamRead, IInv, Rests, Settled
<1>2. client.down[1].type \in {"Handshake", "Write", "Refused"}
  BY <1>1, NextResponse
<1> QED BY <1>2, ResultMaps, HandshakeMaps, RefusalMaps

\* What is no answer to a write is not counted.
LEMMA NoAnswerBehind ==
  ASSUME NEW down \in Seq(Message), NEW m \in Message, m.type # "Write"
  PROVE  AnswersIn(Append(down, m)) = AnswersIn(down)
<1> DEFINE longer == Append(down, m)
<1>1. Longer1(longer, down, m)
  BY AppendOf
<1>2. PICK n \in Nat : n = Len(down)
  OBVIOUS
<1>3. /\ DOMAIN down = 1..n /\ DOMAIN longer = 1..(n + 1)
      /\ \A i \in 1..n : longer[i] = down[i]
      /\ longer[n + 1] = m
  BY <1>1, <1>2 DEF Longer1
<1> HIDE DEF longer
<1>4. {i \in DOMAIN longer : longer[i].type = "Write"}
        = {i \in DOMAIN down : down[i].type = "Write"}
  <2>1. \A i \in 1..(n + 1) : i \in 1..n \/ i = n + 1
    OBVIOUS
  <2>2. \A i \in 1..n : i \in 1..(n + 1)
    OBVIOUS
  <2> QED BY <2>1, <2>2, <1>3
<1> QED BY <1>4 DEF AnswersIn, longer

\* Only what the backend has applied is new.
LEMMA WiresMap ==
  ASSUME IInv, client'.user = client.user, client'.queues = client.queues,
         worker' = worker, spent'.restarts = spent.restarts,
         delivered'[Observed] = delivered[Observed],
         client.user # Observed \/ AnswersIn(client'.down) = AnswersIn(client.down)
  PROVE  Maps
<1>1. Enqueued' = Enqueued
  BY EnqueuedStands
<1>2. Unanswered' = Unanswered
  BY UnansweredHere
<1> QED BY <1>1, <1>2, LosesAnswers

LEMMA BackendRefusesMaps ==
  ASSUME IInv, BackendRefuses
  PROVE  Maps
<1>1. PICK m : m = [type |-> "Refused", write |-> 0]
  OBVIOUS
<1>2. /\ client' = [client EXCEPT !.down = Append(@, m)]
      /\ worker' = worker /\ delivered' = delivered
      /\ spent'.restarts = spent.restarts
  BY <1>1, FaultCountsOnly DEF BackendRefuses, IInv
<1>3. client.down \in Seq(Message) /\ m \in Message /\ m.type # "Write"
  BY <1>1 DEF IInv, Types, ClientRec, Message
<1>4. /\ client'.user = client.user /\ client'.queues = client.queues
      /\ client'.down = Append(client.down, m)
  BY <1>2 DEF IInv, Types, ClientRec
<1>5. AnswersIn(client'.down) = AnswersIn(client.down)
  BY <1>3, <1>4, NoAnswerBehind
<1> QED BY <1>2, <1>4, <1>5, WiresMap

LEMMA BackendAnswersMaps ==
  ASSUME IInv, IInv', BackendAnswers
  PROVE  Maps
<1>1. PICK m : m = Head(client.up)
  OBVIOUS
<1>2. /\ Accepts /\ m \in Message /\ client.down \in Seq(Message)
      /\ ~client.handshake => m.type = "Handshake"
      /\ client.handshake =>
           /\ Answers(client, Len(client.down))
           /\ Len(client.down) < Len(client.pipeline)
           /\ m = WriteRequest(client.pipeline[Len(client.down) + 1])
  BY <1>1, BackendFinds DEF BackendAnswers
<1>3. /\ client' = [client EXCEPT !.up = Tail(@), !.down = Append(@, m)]
      /\ worker' = worker /\ spent'.restarts = spent.restarts
      /\ delivered' = IF m.type # "Write" THEN delivered
                      ELSE [delivered EXCEPT ![client.user] = Append(@, m.write)]
  BY <1>1 DEF BackendAnswers
<1>4. /\ client'.user = client.user /\ client'.queues = client.queues
      /\ client'.down = Append(client.down, m)
      /\ client'.stream = client.stream /\ client'.handshake = client.handshake
      /\ delivered \in [Users -> Seq(Writes)] /\ Observed \in Users
  BY <1>3, RemoteWriteAssumption DEF IInv, Types, ClientRec
<1>5. CASE m.type # "Write"
  <2>1. AnswersIn(client'.down) = AnswersIn(client.down)
    BY <1>2, <1>4, <1>5, NoAnswerBehind
  <2> QED BY <1>3, <1>4, <1>5, <2>1, WiresMap
<1>6. CASE m.type = "Write" /\ client.user # Observed
  <2>1. delivered'[Observed] = delivered[Observed]
    BY <1>3, <1>4, <1>6
  <2> QED BY <1>3, <1>4, <1>6, <2>1, WiresMap
<1>7. CASE m.type = "Write" /\ client.user = Observed
  <2>1. PICK n \in Nat : n = Len(client.down)
    BY <1>2
  <2>2. /\ client.handshake /\ Answers(client, n) /\ n < Len(client.pipeline)
        /\ m = WriteRequest(client.pipeline[n + 1])
    BY <1>2, <1>7, <2>1
  <2>3. AnswersIn(client.down) = n
    BY <1>2, <2>2, AnswersCounted
  <2>4. AnswersIn(client'.down) = n + 1
    <3>1. /\ client'.down \in Seq(Message) /\ Longer1(client'.down, client.down, m)
          /\ Len(client'.down) = n + 1
      BY <1>2, <1>4, <2>1, AppendOf, AppendProperties
    <3>2. Sound(client') /\ IsOpen(client')
      <4>1. IsOpen(client)
        BY <1>2, BackendFinds
      <4> QED BY <4>1, <1>4 DEF IInv, Rests, Settled, IsOpen
    <3>3. PICK k \in Nat : Answers(client', k)
      <4>1. \E k \in 0..Len(client'.down) : Answers(client', k)
        BY <3>2, <2>2, <1>4 DEF Sound, Wires
      <4> QED BY <4>1, <3>1
    <3>4. \A i \in 1..(n + 1) : client'.down[i].type # "Refused"
      <4>1. \A i \in 1..n : client.down[i].type # "Refused"
        BY <1>2, <2>1 DEF Accepts
      <4>2. \A i \in 1..(n + 1) : i \in 1..n \/ i = n + 1
        OBVIOUS
      <4> QED BY <4>1, <4>2, <3>1, <2>1, <1>7 DEF Longer1
    <3>5. k = n + 1
      <4>1. n + 1 = k \/ (n + 1 = k + 1 /\ client'.down[k + 1].type = "Refused")
        BY <3>1, <3>3 DEF Answers
      <4>2. k + 1 = n + 1 => k + 1 \in 1..(n + 1)
        OBVIOUS
      <4> QED BY <4>1, <4>2, <3>4
    <3> QED BY <3>1, <3>3, <3>5, AnswersCounted
  <2>5. Unanswered = n /\ Unanswered' = n + 1
    BY <1>4, <1>7, <2>3, <2>4, UnansweredHere
  <2>6. PICK q \in Seq(Writes), e \in Seq(Writes) :
          q = client.queues[Observed] /\ e = Enqueued
    BY QueuesTyped
  <2>7. Enqueued' = Enqueued
    BY <1>3, <1>4, EnqueuedStands
  <2>8. All = q \o e /\ All' = All /\ Stored = Len(q) /\ Stored' = Stored
    BY <1>4, <2>6, <2>7 DEF All, Stored
  <2>9. n < Len(q) /\ m.write = All[n + 1]
    <3>1. /\ Len(client.pipeline) <= Len(q)
          /\ \A i \in 1..Len(client.pipeline) : client.pipeline[i] = q[i]
          /\ client.pipeline \in Seq(Writes)
      BY <1>7, <2>6 DEF IInv, Rests, Settled, Sound, Fits, Begins, Queue, ClientRec
    <3>2. PICK b \in Nat, c \in Nat : b = Len(client.pipeline) /\ c = Len(q)
      BY <3>1
    <3>3. n + 1 \in 1..b /\ n + 1 \in 1..c /\ n < c
      BY <3>1, <3>2, <2>2
    <3>4. \A i \in 1..Len(q) : (q \o e)[i] = q[i]
      BY JoinedQueues
    <3>5. m.write = client.pipeline[n + 1]
      BY <2>2 DEF WriteRequest
    <3> QED BY <3>1, <3>2, <3>3, <3>4, <3>5, <2>8
  <2>10. delivered'[Observed] = Append(delivered[Observed], All[Unanswered + 1])
    BY <1>3, <1>4, <1>7, <2>5, <2>9
  <2>11. Unanswered < Stored
    BY <2>5, <2>8, <2>9
  <2>12. Unanswered' = Unanswered + 1
    BY <2>5
  <2> QED BY <1>3, <2>8, <2>10, <2>11, <2>12, MapsDeliver DEF Maps
<1> QED BY <1>5, <1>6, <1>7

\* The app dies no more often than there are faults.
RestartsBounded ==
  /\ spent.faults \in Nat /\ spent.restarts \in Nat
  /\ spent.restarts <= spent.faults /\ spent.faults <= MaxFaults

LEMMA RestartMaps ==
  ASSUME IInv, RestartsBounded, Restart
  PROVE  Maps
<1>1. PICK s : s = Restarted(client, auth.user)
  OBVIOUS
<1>2. /\ client' = [s EXCEPT !.tokens = {}] /\ worker' = <<>>
      /\ delivered' = delivered /\ spent.faults < MaxFaults
      /\ spent' = [spent EXCEPT !.faults = @ + 1, !.restarts = @ + 1]
  BY <1>1 DEF Restart, Restarted
<1>3. /\ client \in ClientRec /\ RisingQueues(client) /\ auth.user \in Users
      /\ spent \in [writes : Nat, signIns : Nat, faults : Nat, restarts : Nat]
  BY DEF IInv, Types, Rests, Settled, Sound, AuthRec
<1>4. Rests(s) /\ s.down = <<>> /\ s.queues = client.queues
  BY <1>1, <1>3, FreshRests
<1>5. client'.down = <<>> /\ client'.queues = client.queues
  BY <1>2, <1>4 DEF Rests, Settled, Sound, ClientRec
<1>6. Unanswered' = 0
  BY <1>5, LostAnswers
<1>7. Enqueued' = <<>>
  BY <1>2, EnqueuedHere, NothingEnqueued
<1>8. PICK q \in Seq(Writes), e \in Seq(Writes) :
        q = client.queues[Observed] /\ e = Enqueued
  BY QueuesTyped
<1>9. Stored = Len(q) /\ Stored' = Stored
  BY <1>5, <1>8 DEF Stored
<1>10. All' = SubSeq(All, 1, Stored)
  <2>1. SubSeq(q \o e, 1, Len(q)) = q
    BY JoinedQueues
  <2>2. q \o <<>> = q
    OBVIOUS
  <2>3. All = q \o e /\ All' = q \o <<>>
    BY <1>5, <1>7, <1>8 DEF All
  <2> QED BY <2>1, <2>2, <2>3, <1>9
<1>11. spent.restarts < MaxFaults /\ spent'.restarts = spent.restarts + 1
  BY <1>2, <1>3, RemoteWriteAssumption DEF RestartsBounded
<1> QED BY <1>2, <1>6, <1>9, <1>10, <1>11, MapsRestart DEF Maps

LEMMA RestartsStayBounded ==
  ASSUME IInv, RestartsBounded, [Next]_vars
  PROVE  RestartsBounded'
<1>1. spent \in [writes : Nat, signIns : Nat, faults : Nat, restarts : Nat]
      /\ MaxFaults \in Nat
  BY RemoteWriteAssumption DEF IInv, Types
<1>2. \/ spent'.faults = spent.faults /\ spent'.restarts = spent.restarts
      \/ /\ spent.faults < MaxFaults /\ spent'.faults = spent.faults + 1
         /\ spent'.restarts \in {spent.restarts, spent.restarts + 1}
  <2>1. CASE WriteMutations
    BY <1>1, <2>1 DEF WriteMutations
  <2>2. CASE \E u \in Users : SignIn(u)
    BY <1>1, <2>2 DEF SignIn
  <2>3. CASE \E r \in auth.asked : TokenRead(r) \/ TokenAnswers(r) \/ TokenFails(r)
    BY <1>1, <2>3 DEF TokenRead, TokenAnswers, TokenFails
  <2>4. CASE RunMain \/ RunWorker \/ StreamRead \/ BackoffElapses \/ IdleElapses
             \/ BackendAnswers \/ UNCHANGED vars
    BY <2>4 DEF RunMain, RunWorker, StreamRead, BackoffElapses, IdleElapses,
                BackendAnswers, vars
  <2>5. CASE StreamBreaks \/ ConnectivityChanges \/ BackendRefuses
    BY <1>1, <2>5 DEF StreamBreaks, ConnectivityChanges, BackendRefuses
  <2>6. CASE Restart
    BY <1>1, <2>6 DEF Restart
  <2> QED BY <2>1, <2>2, <2>3, <2>4, <2>5, <2>6 DEF Next
<1> QED BY <1>1, <1>2 DEF RestartsBounded

\* Every step is one of OrderedDelivery for Observed's queue, or none.
LEMMA StepMaps ==
  ASSUME IInv, IInv', RestartsBounded, [Next]_vars
  PROVE  Maps
<1>1. CASE WriteMutations
  BY <1>1, WriteMutationsMaps
<1>2. CASE \/ \E u \in Users : SignIn(u)
           \/ \E r \in auth.asked : TokenRead(r) \/ TokenAnswers(r) \/ TokenFails(r)
           \/ UNCHANGED vars
  BY <1>2, AuthMaps
<1>3. CASE RunMain
  BY <1>3, RunMainMaps
<1>4. CASE RunWorker
  BY <1>4, RunWorkerMaps
<1>5. CASE StreamRead
  BY <1>5, StreamReadMaps
<1>6. CASE StreamBreaks
  BY <1>6, StreamBreaksMaps
<1>7. CASE BackoffElapses \/ IdleElapses
  BY <1>7, TimerMaps
<1>8. CASE ConnectivityChanges
  BY <1>8, ConnectivityMaps
<1>9. CASE Restart
  BY <1>9, RestartMaps
<1>10. CASE BackendAnswers
  BY <1>10, BackendAnswersMaps
<1>11. CASE BackendRefuses
  BY <1>11, BackendRefusesMaps
<1> QED BY <1>1, <1>2, <1>3, <1>4, <1>5, <1>6, <1>7, <1>8, <1>9, <1>10, <1>11
        DEF Next

LEMMA InitMaps ==
  ASSUME Init
  PROVE  Pipeline!DeliveryInit /\ RestartsBounded
<1>1. PICK u \in Users : client = Client(u, [v \in Users |-> <<>>])
  BY DEF Init
<1>2. /\ worker = <<>> /\ delivered = [v \in Users |-> <<>>]
      /\ spent = [writes |-> 0, signIns |-> 0, faults |-> 0, restarts |-> 0]
      /\ Observed \in Users /\ MaxFaults \in Nat
  BY RemoteWriteAssumption DEF Init
<1>3. /\ client.queues = [v \in Users |-> <<>>] /\ client.down = <<>>
  BY <1>1 DEF Client
<1>4. Enqueued = <<>>
  BY <1>2, EnqueuedHere, NothingEnqueued
<1>5. client.queues[Observed] = <<>> /\ delivered[Observed] = <<>>
  BY <1>2, <1>3
<1>6. client.queues[Observed] \o Enqueued = <<>> /\ Len(client.queues[Observed]) = 0
  BY <1>4, <1>5
<1>7. Unanswered = 0
  BY <1>3, UnansweredHere, NoAnswersIn
<1>8. RestartsBounded
  BY <1>2 DEF RestartsBounded
<1>9. spent.restarts = 0
  BY <1>2
<1>10. Pipeline!DeliveryInit
  BY <1>5, <1>6, <1>7, <1>9
     DEF Pipeline!DeliveryInit, Pipeline!PipelineInit, OfObserved
<1> QED BY <1>8, <1>10

\* Seen from the queue of any one user the client implements OrderedDelivery:
\* through every start, refusal, change of user and death of the app a write is
\* queued once, sent in its order, and removed only by its own answer or refusal.
THEOREM DeliveryAlwaysKept == Spec => DeliveryKept
<1>1. Init => Pipeline!DeliveryInit /\ RestartsBounded
  BY InitMaps
<1>2. IInv /\ RestartsBounded /\ [Next]_vars => RestartsBounded'
  BY RestartsStayBounded
<1>3. IInv /\ IInv' /\ RestartsBounded /\ [Next]_vars =>
        [Pipeline!DeliveryNext]_<<Pipeline!pipelineVars, OfObserved(delivered[Observed])>>
  BY StepMaps DEF Maps
<1> QED BY <1>1, <1>2, <1>3, AlwaysInvariant, PTL
        DEF Spec, DeliveryKept, Pipeline!DeliverySpec

=============================================================================
