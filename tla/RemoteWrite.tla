----------------------------- MODULE RemoteWrite -----------------------------
(* The half of the Firestore client that writes, in the detail WritePipeline *)
(* leaves out: the write stream with its handshake, the pipeline of limited  *)
(* length that RemoteStore fills from the mutation queue of the present      *)
(* user, the credentials the stream starts with, and the change of the user. *)
(*                                                                           *)
(* Four queues run beside each other.  Auth's work queue changes the current *)
(* user and reads tokens; the main queue delivers both to the credentials    *)
(* provider and makes the app's writes; the worker queue runs the client;    *)
(* the stream has its two wires.  The worker runs every handler to its end,  *)
(* so its state is one record and a handler an operator on it.               *)
EXTENDS Stream, FiniteSetsExt, SequencesExt, TLC

CONSTANTS
  Users,        \* who may be signed in; one of them stands for nobody
  Observed,     \* the one whose mutation queue is held against WritePipeline
  MaxPending,   \* the length of the pipeline, kMaxPendingWrites in the code
  MaxWrites,    \* bound: writes the app makes
  MaxSignIns,   \* bound: changes of the current user
  MaxFaults     \* bound: streams that break, tokens that are not granted,
                \* requests that are refused, changes of connectivity, and
                \* deaths of the app

ASSUME RemoteWriteAssumption ==
  /\ Observed \in Users
  /\ MaxPending \in Nat \ {0}
  /\ {MaxWrites, MaxSignIns, MaxFaults} \subseteq Nat

VARIABLES
  client,     \* the record of the worker's state
  worker,     \* operations queued for the worker
  auth,       \* Auth and the credentials provider
  delivered,  \* per user, the writes of that queue the backend has applied
  refused,    \* history: the writes the backend has refused
  told,       \* history: <<write, result>> of the completions called
  spent       \* how much of the bounds is used up

vars == <<client, worker, auth, delivered, refused, told, spent>>

\* A write and its batch are named by the number of the call.
Writes == 1..MaxWrites

Client(user, queues) ==
  [stream |-> "Initial", closes |-> 0, tokens |-> {}, backoff |-> FALSE,
   idle |-> FALSE, up |-> <<>>, down |-> <<>>, broken |-> {},
   handshake |-> FALSE, enabled |-> TRUE, pipeline |-> <<>>, bearer |-> user,
   user |-> user, queues |-> queues, callbacks |-> {}, called |-> {}]

Auth(user) == [user |-> user, counter |-> 0, asked |-> {}, main |-> <<>>]

Init ==
  /\ \E u \in Users : /\ client = Client(u, [v \in Users |-> <<>>])
                      /\ auth = Auth(u)
  /\ worker = <<>>
  /\ delivered = [u \in Users |-> <<>>]
  /\ refused = {}
  /\ told = {}
  /\ spent = [writes |-> 0, signIns |-> 0, faults |-> 0, restarts |-> 0]

-----------------------------------------------------------------------------
(* RemoteStore: the pipeline *)

Queue(s) == s.queues[s.user]

\* Every completion is called once and forgotten; "called" is what a step has
\* called.
NotifyUser(s, w, result) ==
  [s EXCEPT !.callbacks = @ \ {w},
            !.called = IF w \in s.callbacks THEN @ \cup {<<w, result>>} ELSE @]

RemoveMutationBatch(s, w) ==
  [Check(s, w \in Range(Queue(s)), "batch does not exist")
     EXCEPT !.queues[s.user] = RemoveFirst(@, w)]

ShouldStartWriteStream(s) ==
  s.enabled /\ ~IsStarted(s) /\ s.pipeline # <<>>

StartWriteStream(s) ==
  Start(Check(s, ShouldStartWriteStream(s), "started without need"))

WriteRequests(ws) == [i \in DOMAIN ws |-> [type |-> "Write", write |-> ws[i]]]

\* What FillWritePipeline takes from the mutation queue: the batches from the
\* first one whose id is greater than that of the last in the pipeline, as many
\* as there is room for.
Behind(s) ==
  LET last == IF s.pipeline = <<>> THEN 0 ELSE Last(s.pipeline)
      next == SelectInSeq(Queue(s), LAMBDA w : w > last)
  IN  IF next = 0 THEN <<>> ELSE SubSeq(Queue(s), next, Len(Queue(s)))

Room(s) == IF s.enabled THEN MaxPending - Len(s.pipeline) ELSE 0

AddToWritePipeline(s, ws) ==
  LET added == [s EXCEPT !.pipeline = @ \o ws]
  IN  IF IsOpen(s) /\ s.handshake /\ ws # <<>>
      THEN Send(added, WriteRequests(ws)) ELSE added

FillWritePipeline(s) ==
  LET ws == SubSeq(Behind(s), 1, Min({Room(s), Len(Behind(s))}))
      filled == AddToWritePipeline(s, ws)
      marked == IF s.enabled /\ filled.pipeline = <<>> THEN MarkIdle(filled)
                ELSE filled
  IN  IF ShouldStartWriteStream(marked) THEN StartWriteStream(marked)
      ELSE marked

OnWriteStreamHandshakeComplete(s) ==
  LET t == [s EXCEPT !.handshake = TRUE]
  IN  IF t.pipeline = <<>> THEN t ELSE Send(t, WriteRequests(t.pipeline))

\* Mutant of OnWriteStreamMutationResult: a result that makes no room for the
\* next batch.
OnWriteStreamMutationResultOnly(s) ==
  LET t == [Check(s, s.pipeline # <<>>, "result for empty pipeline")
              EXCEPT !.pipeline = Tail(@)]
      w == Head(s.pipeline)
  IN  RemoveMutationBatch(NotifyUser(t, w, "ok"), w)

\* The answer is for the front of the pipeline.
OnWriteStreamMutationResult(s) ==
  LET t == [Check(s, s.pipeline # <<>>, "result for empty pipeline")
              EXCEPT !.pipeline = Tail(@)]
      w == Head(s.pipeline)
  IN  FillWritePipeline(RemoveMutationBatch(NotifyUser(t, w, "ok"), w))

\* Mutant of HandleWriteError: a refused batch that leaves the pipeline but
\* not the mutation queue.
HandleWriteErrorKept(s, status) ==
  IF status # "permanent" THEN s
  ELSE LET w == Head(s.pipeline)
           t == InhibitBackoff([s EXCEPT !.pipeline = Tail(@)])
       IN  FillWritePipeline(NotifyUser(t, w, "refused"))

\* Only a permanent error is the fault of the front of the pipeline.
HandleWriteError(s, status) ==
  IF status # "permanent" THEN s
  ELSE LET w == Head(s.pipeline)
           t == InhibitBackoff([s EXCEPT !.pipeline = Tail(@)])
       IN  FillWritePipeline(NotifyUser(RemoveMutationBatch(t, w), w, "refused"))

\* Mutant of OnWriteStreamClose: a close that takes every permanent error for
\* the front's.
OnWriteStreamCloseAnyError(s, status) ==
  LET closed == Check(s, status = "ok" => ~ShouldStartWriteStream(s),
                      "stopped while still needed")
      handled == IF status # "ok" /\ s.pipeline # <<>>
                 THEN HandleWriteError(closed, status) ELSE closed
      t == IF ShouldStartWriteStream(handled) THEN StartWriteStream(handled)
           ELSE handled
  IN  [t EXCEPT !.handshake = FALSE]

\* Before the handshake is complete an error drops nothing.
OnWriteStreamClose(s, status) ==
  LET closed == Check(s, status = "ok" => ~ShouldStartWriteStream(s),
                      "stopped while still needed")
      handled == IF status # "ok" /\ s.pipeline # <<>> /\ s.handshake
                 THEN HandleWriteError(closed, status) ELSE closed
      t == IF ShouldStartWriteStream(handled) THEN StartWriteStream(handled)
           ELSE handled
  IN  [t EXCEPT !.handshake = FALSE]

Close(s, status) == OnWriteStreamClose(TearDown(s, status = "ok"), status)

Stop(s) == IF IsStarted(s) THEN Close(s, "ok") ELSE s

\* Mutant of RestartNetwork: a restart that keeps what the pipeline holds.
RestartNetworkFull(s) ==
  FillWritePipeline([InhibitBackoff(Stop([s EXCEPT !.enabled = FALSE]))
                       EXCEPT !.enabled = TRUE])

\* DisableNetworkInternal empties the pipeline, EnableNetwork fills it again.
RestartNetwork(s) ==
  LET down == [Stop([s EXCEPT !.enabled = FALSE]) EXCEPT !.pipeline = <<>>]
  IN  FillWritePipeline([InhibitBackoff(down) EXCEPT !.enabled = TRUE])

\* Mutant of HandleCredentialChange: SyncEngine and LocalStore take up the
\* other queue under an open stream.
HandleCredentialChangeOnly(s, u) == FillWritePipeline([s EXCEPT !.user = u])

\* SyncEngine and LocalStore take up the other queue, then the streams restart.
HandleCredentialChange(s, u) == RestartNetwork([s EXCEPT !.user = u])

\* SyncEngine::WriteMutations, on the worker.
WriteLocally(s, w) ==
  FillWritePipeline([s EXCEPT !.queues[s.user] = Append(@, w),
                              !.callbacks = @ \cup {w}])

-----------------------------------------------------------------------------
(* Credentials *)

\* What the worker's step leaves: the token requests it made go to the
\* provider, with the count of changes it has seen; completions are called.
Works(s) ==
  /\ client' = [s EXCEPT !.called = {}, !.tokens = {}]
  /\ auth' = [auth EXCEPT !.asked = @ \cup
       {[attempt |-> c, counter |-> auth.counter, token |-> {}] : c \in s.tokens}]
  /\ told' = told \cup s.called

\* Auth's work queue: signing in or out posts a notification.
SignIn(u) ==
  /\ u # auth.user
  /\ spent.signIns < MaxSignIns
  /\ spent' = [spent EXCEPT !.signIns = @ + 1]
  /\ auth' = [auth EXCEPT !.user = u,
                          !.main = Append(@, [type |-> "Changed", user |-> u])]
  /\ UNCHANGED <<client, worker, delivered, refused, told>>

\* Auth's work queue takes the token of the current user,
TokenRead(r) ==
  /\ r \in auth.asked /\ r.token = {}
  /\ auth' = [auth EXCEPT !.asked =
                (@ \ {r}) \cup {[r EXCEPT !.token = {auth.user}]}]
  /\ UNCHANGED <<client, worker, delivered, refused, told, spent>>

\* and, perhaps after a refresh, answers on the main queue; or fails to.
TokenAnswers(r) ==
  /\ r \in auth.asked /\ r.token # {}
  /\ auth' = [auth EXCEPT !.asked = @ \ {r},
                          !.main = Append(@, [type |-> "Token", request |-> r])]
  /\ UNCHANGED <<client, worker, delivered, refused, told, spent>>

TokenFails(r) ==
  /\ r \in auth.asked /\ r.token # {}
  /\ spent.faults < MaxFaults
  /\ spent' = [spent EXCEPT !.faults = @ + 1]
  /\ auth' = [auth EXCEPT !.asked = @ \ {r},
       !.main = Append(@, [type |-> "Token", request |-> [r EXCEPT !.token = {}]])]
  /\ UNCHANGED <<client, worker, delivered, refused, told>>

\* The provider, on the main queue: it notes a change and tells the client;
\* it asks once more for a token during whose request there was a change.
RunMain ==
  /\ auth.main # <<>>
  /\ LET e == Head(auth.main)
         rest == [auth EXCEPT !.main = Tail(@)]
     IN  CASE e.type = "Changed" ->
                /\ auth' = [rest EXCEPT !.counter = @ + 1]
                /\ worker' = Append(worker, [op |-> "User", user |-> e.user])
           [] e.type = "Token" /\ e.request.counter # auth.counter ->
                /\ auth' = [rest EXCEPT !.asked = @ \cup
                     {[e.request EXCEPT !.counter = auth.counter, !.token = {}]}]
                /\ UNCHANGED worker
           [] OTHER ->
                /\ auth' = rest
                /\ worker' = Append(worker,
                     [op |-> "Credentials", attempt |-> e.request.attempt,
                      token |-> e.request.token])
  /\ UNCHANGED <<client, delivered, refused, told, spent>>

\* ResumeStartWithCredentials, if the attempt was not closed since; gRPC
\* reports the stream open, and the handshake is written.
ResumeStart(s, attempt, token) ==
  IF attempt # s.closes THEN s
  ELSE IF token = {} THEN Close(s, "transient")
  ELSE Send([OnStreamStart(s) EXCEPT !.bearer = CHOOSE u \in token : TRUE],
            <<[type |-> "Handshake", write |-> 0]>>)

-----------------------------------------------------------------------------
(* The app and the worker *)

\* FirestoreClient::WriteMutations, from the main thread.
WriteMutations ==
  /\ spent.writes < MaxWrites
  /\ spent' = [spent EXCEPT !.writes = @ + 1]
  /\ worker' = Append(worker, [op |-> "Write", write |-> spent'.writes])
  /\ UNCHANGED <<client, auth, delivered, refused, told>>

RunWorker ==
  /\ worker # <<>>
  /\ worker' = Tail(worker)
  /\ LET o == Head(worker)
     IN  Works(CASE o.op = "Write" -> WriteLocally(client, o.write)
                 [] o.op = "User" -> HandleCredentialChange(client, o.user)
                 [] o.op = "Credentials" ->
                      ResumeStart(client, o.attempt, o.token))
  /\ UNCHANGED <<delivered, refused, spent>>

\* OnStreamRead, or the status that ends the stream behind its last response.
StreamRead ==
  /\ client.down # <<>>
  /\ LET m == Head(client.down)
         s == [client EXCEPT !.down = Tail(@)]
     IN  Works(CASE m.type = "Refused" -> Close(s, "permanent")
                 [] m.type = "Handshake" -> OnWriteStreamHandshakeComplete(s)
                 [] m.type = "Write" -> OnWriteStreamMutationResult(s))
  /\ UNCHANGED <<worker, delivered, refused, spent>>

StreamBreaks ==
  /\ IsOpen(client)
  /\ spent.faults < MaxFaults
  /\ spent' = [spent EXCEPT !.faults = @ + 1]
  /\ Works(Close(client, "transient"))
  /\ UNCHANGED <<worker, delivered, refused>>

BackoffElapses ==
  /\ client.backoff
  /\ Works(Resume(client))
  /\ UNCHANGED <<worker, delivered, refused, spent>>

IdleElapses ==
  /\ client.idle
  /\ Works(Stop(client))
  /\ UNCHANGED <<worker, delivered, refused, spent>>

ConnectivityChanges ==
  /\ spent.faults < MaxFaults
  /\ spent' = [spent EXCEPT !.faults = @ + 1]
  /\ Works(RestartNetwork(client))
  /\ UNCHANGED <<worker, delivered, refused>>

\* The app dies and is started again.  The mutation queues and Auth's user
\* are persisted.
Restart ==
  /\ spent.faults < MaxFaults
  /\ spent' = [spent EXCEPT !.faults = @ + 1, !.restarts = @ + 1]
  /\ worker' = <<>>
  /\ LET s == FillWritePipeline(Client(auth.user, client.queues))
     IN  /\ client' = [s EXCEPT !.tokens = {}]
         /\ auth' = [Auth(auth.user) EXCEPT !.asked =
              {[attempt |-> c, counter |-> 0, token |-> {}] : c \in s.tokens}]
  /\ UNCHANGED <<delivered, refused, told>>

-----------------------------------------------------------------------------
(* The backend answers a stream's requests in order, until it refuses one.   *)

Accepts == /\ client.up # <<>>
           /\ \A i \in DOMAIN client.down : client.down[i].type # "Refused"

BackendAnswers ==
  /\ Accepts
  /\ LET m == Head(client.up)
     IN  /\ client' = [client EXCEPT !.up = Tail(@), !.down = Append(@, m)]
         /\ delivered' = IF m.type # "Write" THEN delivered
                         ELSE [delivered EXCEPT ![client.user] = Append(@, m.write)]
  /\ UNCHANGED <<worker, auth, refused, told, spent>>

BackendRefuses ==
  /\ Accepts
  /\ spent.faults < MaxFaults
  /\ spent' = [spent EXCEPT !.faults = @ + 1]
  /\ client' = [client EXCEPT !.down = Append(@, [type |-> "Refused", write |-> 0])]
  /\ refused' = refused \cup {Head(client.up).write}
  /\ UNCHANGED <<worker, auth, delivered, told>>

-----------------------------------------------------------------------------
Next ==
  \/ WriteMutations
  \/ \E u \in Users : SignIn(u)
  \/ \E r \in auth.asked : TokenRead(r) \/ TokenAnswers(r) \/ TokenFails(r)
  \/ RunMain
  \/ RunWorker
  \/ StreamRead
  \/ StreamBreaks
  \/ BackoffElapses
  \/ IdleElapses
  \/ ConnectivityChanges
  \/ Restart
  \/ BackendAnswers
  \/ BackendRefuses

Spec == Init /\ [][Next]_vars

-----------------------------------------------------------------------------
(* The mutation queue of one user, as WritePipeline has it *)

\* The i-th operation of the worker will find Observed's queue: the last change
\* of user before it, or the present user (j = 0), is Observed.
FindsObserved(i) ==
  \E j \in 0..(i - 1) :
    /\ IF j = 0 THEN client.user = Observed
       ELSE worker[j].op = "User" /\ worker[j].user = Observed
    /\ \A k \in (j + 1)..(i - 1) : worker[k].op # "User"

Mine == {i \in DOMAIN worker : worker[i].op = "Write" /\ FindsObserved(i)}

InOrder(I) == CHOOSE p \in [1..Cardinality(I) -> I] :
                \A i, j \in DOMAIN p : i < j => p[i] < p[j]

Enqueued ==
  LET places == InOrder(Mine)
  IN  [i \in DOMAIN places |-> worker[places[i]].write]

Unanswered ==
  IF client.user # Observed THEN 0
  ELSE Cardinality({i \in DOMAIN client.down : client.down[i].type = "Write"})

\* A queue counts as served throughout: while another user is signed in nothing
\* happens to Observed's, and a death of the app leaves the client with the user
\* Firebase Auth has kept.
OfObserved(x) == [d \in {Observed} |-> x]

Pipeline ==
  INSTANCE OrderedDelivery WITH
    Devices     <- {Observed},
    Mutations   <- Writes,
    MaxRestarts <- MaxFaults,
    writes      <- OfObserved(client.queues[Observed] \o Enqueued),
    stored      <- OfObserved(Len(client.queues[Observed])),
    applied     <- OfObserved(Unanswered),
    served      <- {Observed},
    restarts    <- OfObserved(spent.restarts),
    delivered   <- OfObserved(delivered[Observed])

-----------------------------------------------------------------------------
\* Batches are queued in the order of their numbers, and the pipeline holds
\* the first of them, no more than it has room for.
TypeOK ==
  /\ client.stream \in {"Initial", "Starting", "Open", "Error", "Backoff"}
  /\ {client.user, client.bearer, auth.user} \subseteq Users
  /\ client.queues \in [Users -> Seq(Writes)]
  /\ \A u \in Users : \A i, j \in DOMAIN client.queues[u] :
       i < j => client.queues[u][i] < client.queues[u][j]
  /\ IsPrefix(client.pipeline, Queue(client))
  /\ Len(client.pipeline) <= MaxPending
  /\ client.callbacks \subseteq Writes
  /\ told \subseteq Writes \X {"ok", "refused"}

\* No HARD_ASSERT of the stream, RemoteStore and the mutation queue fails,
\* however idle and backoff timers, late tokens, refusals and changes of user
\* and connectivity meet.
HardAssertsHold == client.broken = {}

\* A completion without an error is that of a write the backend has applied,
\* one with an error that of a write the backend has refused, although an
\* answer is matched to the front of the pipeline by its order alone and a
\* refusal ends the stream without naming a write.
CompletionsTrue ==
  \A w \in Writes :
    /\ <<w, "ok">> \in told => \E u \in Users : w \in Range(delivered[u])
    /\ <<w, "refused">> \in told => w \in refused

\* Writes of a user's queue are sent with credentials of that user only,
\* although Auth changes the user behind the client's back.
OwnCredentials ==
  IsOpen(client) /\ client.handshake /\ client.pipeline # <<>> =>
    client.bearer = client.user

\* Seen from one user's queue the client delivers as WritePipeline has it:
\* every write of the queue, in the order they were made, a write again only
\* together with those behind it, whatever becomes of streams and users.
DeliveryKept == Pipeline!DeliverySpec

\* When nothing is left to be done, by the queues, Auth, the backoff or the
\* network, the queue of the user who is signed in is empty: no refusal, restart
\* or change of user leaves a write behind that nobody will send.
AtRest ==
  /\ worker = <<>> /\ auth.main = <<>> /\ auth.asked = {}
  /\ client.up = <<>> /\ client.down = <<>> /\ ~client.backoff

DrainedAtRest == AtRest => Queue(client) = <<>>

=============================================================================
