--------------------------- MODULE DocumentReads ---------------------------
(* Every getDocument of the app listens to the document until the first      *)
(* event and answers with it; the table of the events listens as long as the *)
(* app runs.  The main thread hands its calls to the client's worker queue,  *)
(* and the worker its events to the main thread, through one queue each.     *)
(* In between: EventManager with its QueryListeners, SyncEngine with a view  *)
(* of every query, and RemoteWatch underneath.                               *)
EXTENDS RemoteWatch

CONSTANTS
  Reads,    \* the calls of getDocument and addSnapshotListener
  Tables,   \* those of them that keep listening
  QueryOf   \* what each listens to

ASSUME DocumentReadsAssumption ==
  /\ IsFiniteSet(Reads) /\ Tables \subseteq Reads
  /\ QueryOf \in [Reads -> Queries]

VARIABLES
  reads,     \* the listener of every call
  views,     \* SyncEngine's views: whether the view of a query is synced
  stored,    \* LocalStore: the cached result and the resumable one
  worker,    \* operations the main thread has queued for the worker
  executor,  \* events the worker has queued for the main thread
  answers,   \* what each call has been answered
  opened     \* the backend's version when the view of a query was opened

readVars == <<reads, views, stored, worker, executor, answers, opened>>
vars == <<remoteVars, readVars>>

Value(version, synced) ==
  [kind |-> "value", version |-> version, synced |-> synced]
Refused     == [kind |-> "refused", version |-> NotKnown, synced |-> FALSE]
Unavailable == [kind |-> "unavailable", version |-> NotKnown, synced |-> FALSE]

Operation(op, r) == [op |-> op, read |-> r]

Init ==
  /\ RemoteInit
  /\ reads = [r \in Reads |->
                [state |-> IF r \in Tables THEN "asked" ELSE "idle",
                 raised |-> FALSE, muted |-> FALSE, since |-> 0]]
  /\ views = <<>>
  /\ \E known \in [Queries -> Versions] :
       /\ \A q \in Queries : known[q] <= server[q]
       /\ stored = [cache |-> known, resume |-> known]
  /\ worker = SetToSeq({Operation("Add", r) : r \in Tables})
  /\ executor = <<>>
  /\ answers = [r \in Reads |-> <<>>]
  /\ opened = server

ListenersOf(q, rs) == {r \in Reads : QueryOf[r] = q /\ rs[r].state = "listening"}

-----------------------------------------------------------------------------
(* What a step of the worker raises, from the views before and after it *)

DocumentsChanged(q) == Max({stored.cache[q], 0}) # Max({stored'.cache[q], 0})
SyncChanged(q)      == q \notin DOMAIN views \/ views[q] # views'[q]

\* getDocument waits for the backend unless the client is known to be offline,
\* a table shows what is cached.
RaisesInitialEvent(r) ==
  LET q == QueryOf[r]
  IN  \/ views'[q]
      \/ remote'.online = "Offline"
      \/ r \in Tables /\ stored'.cache[q] > 0

\* A table ignores changes of the metadata alone.
RaisesEvent(r) ==
  LET q == QueryOf[r]
  IN  DocumentsChanged(q) \/ (SyncChanged(q) /\ r \notin Tables)

Raising(rs) ==
  {r \in Reads : /\ rs[r].state = "listening"
                 /\ QueryOf[r] \in DOMAIN views'
                 /\ IF rs[r].raised THEN RaisesEvent(r)
                    ELSE RaisesInitialEvent(r)}

\* rs are the listeners, queued the errors raised before.
Raise(rs, queued) ==
  /\ reads' = [r \in Reads |->
                 IF r \in Raising(rs) THEN [rs[r] EXCEPT !.raised = TRUE]
                 ELSE rs[r]]
  /\ executor' = executor \o queued \o SetToSeq(
       {[read |-> r, event |-> Value(stored'.cache[QueryOf[r]],
                                     views'[QueryOf[r]])] : r \in Raising(rs)})

\* SyncEngine's and EventManager's HandleOnlineStateChange: going offline,
\* no view is synced any more.
HandleOnlineStateChange ==
  /\ views' = IF remote'.online = "Offline" /\ remote.online # "Offline"
              THEN [q \in DOMAIN views |-> FALSE] ELSE views
  /\ UNCHANGED <<stored, worker, answers, opened>>
  /\ Raise(reads, <<>>)

-----------------------------------------------------------------------------
(* The worker's operations *)

AddQueryListener(r) ==
  LET q == QueryOf[r]
      first == ListenersOf(q, reads) = {}
  IN  /\ IF first
         THEN /\ remote' = Listen(Check(remote, q \notin DOMAIN views,
                                        "already listening"),
                                  q, stored.resume[q])
              /\ views' = Put(views, q, FALSE)
              /\ opened' = [opened EXCEPT ![q] = server[q]]
         ELSE UNCHANGED <<remote, views, opened>>
      /\ UNCHANGED stored
      /\ Raise([reads EXCEPT ![r].state = "listening",
                             ![r].since = opened'[q]], <<>>)

\* Mutant of Without: a view that is forgotten in the books of SyncEngine.
WithoutForgotten(q) == views

Without(q) == [p \in DOMAIN views \ {q} |-> views[p]]

\* After an error the listener is gone already and nothing is stopped.
RemoveQueryListener(r) ==
  LET q == QueryOf[r]
      left == [reads EXCEPT ![r].state = "gone"]
  IN  /\ IF reads[r].state = "listening" /\ ListenersOf(q, left) = {}
         THEN /\ remote' = StopListening(Check(remote, q \in DOMAIN views,
                                               "query not found"), q)
              /\ views' = Without(q)
         ELSE UNCHANGED <<remote, views>>
      /\ UNCHANGED <<stored, opened>>
      /\ Raise(left, <<>>)

RunWorker ==
  /\ worker # <<>>
  /\ worker' = Tail(worker)
  /\ LET o == Head(worker)
     IN  IF o.op = "Add" THEN AddQueryListener(o.read)
         ELSE RemoveQueryListener(o.read)
  /\ UNCHANGED <<server, faults, refused, answers>>

\* SyncEngine.ApplyRemoteEvent, on LocalStore and on the views.
ApplyRemoteEvent(s) ==
  LET changes == TargetChanges(s)
      updates == DocumentUpdates(s)
      seen == [q \in Queries |-> Max({stored.cache[q], updates[q]})]
  IN  /\ stored' = [cache |-> seen,
                    resume |-> [q \in Queries |->
                      IF q \in DOMAIN changes THEN remote'.targets[q]
                      ELSE stored.resume[q]]]
      /\ views' = [q \in DOMAIN views |->
                     IF q \in DOMAIN changes THEN changes[q] ELSE views[q]]
      /\ Raise(reads, <<>>)

HandleRejectedListen(q) ==
  LET failed == ListenersOf(q, reads)
  IN  /\ views' = Without(q)
      /\ UNCHANGED stored
      /\ Raise([r \in Reads |-> IF r \in failed
                                THEN [reads[r] EXCEPT !.state = "gone"]
                                ELSE reads[r]],
               SetToSeq({[read |-> r, event |-> Refused] : r \in failed}))

StreamRead ==
  /\ remote.down # <<>>
  /\ LET m == Head(remote.down)
         s == [remote EXCEPT !.down = Tail(@)]
     IN  /\ remote' = OnWatchStreamChange(s, m)
         /\ CASE m.type = "Snapshot" -> ApplyRemoteEvent(s)
              [] m.type = "Rejected" /\ m.query \in Listening(s) ->
                   HandleRejectedListen(m.query)
              [] OTHER ->
                   UNCHANGED <<views, stored>> /\ Raise(reads, <<>>)
  /\ UNCHANGED <<server, faults, refused, worker, answers, opened>>

-----------------------------------------------------------------------------
(* The main thread *)

GetDocument(r) ==
  /\ reads[r].state = "idle"
  /\ reads' = [reads EXCEPT ![r].state = "asked"]
  /\ worker' = Append(worker, Operation("Add", r))
  /\ UNCHANGED <<remoteVars, views, stored, executor, answers, opened>>

\* Mutant of MuteAndRemove: a removal that only the worker hears of.
RemoveOnly(r) ==
  /\ UNCHANGED reads
  /\ worker' = Append(worker, Operation("Remove", r))

\* QueryListenerRegistration.Remove mutes the listener here and now, the
\* worker hears of it later.
MuteAndRemove(r) ==
  /\ reads' = [reads EXCEPT ![r].muted = TRUE]
  /\ worker' = Append(worker, Operation("Remove", r))

AnswerTo(e) ==
  IF e.kind = "value" /\ e.version <= 0 /\ ~e.synced THEN Unavailable ELSE e

\* ListenOnce: the first event removes the listener and is the answer, an
\* error is passed on as it is.
OnEvent(r, e) ==
  /\ answers' = [answers EXCEPT ![r] = Append(@, AnswerTo(e))]
  /\ IF e.kind = "value" THEN MuteAndRemove(r) ELSE UNCHANGED <<reads, worker>>

RunExecutor ==
  /\ executor # <<>>
  /\ executor' = Tail(executor)
  /\ LET r == Head(executor).read
     IN  IF reads[r].muted \/ r \in Tables
         THEN UNCHANGED <<reads, worker, answers>>
         ELSE OnEvent(r, Head(executor).event)
  /\ UNCHANGED <<remoteVars, views, stored, opened>>

-----------------------------------------------------------------------------
CredentialsArrive == \E c \in remote.tokens : CredentialsAnswer(c)
CredentialsLost   == \E c \in remote.tokens : CredentialsFail(c)

OnClient(step) == step /\ HandleOnlineStateChange

Next ==
  \/ \E r \in Reads : GetDocument(r)
  \/ RunWorker
  \/ RunExecutor
  \/ StreamRead
  \/ OnClient(CredentialsArrive)
  \/ OnClient(CredentialsLost)
  \/ OnClient(StreamBreaks)
  \/ OnClient(BackoffElapses)
  \/ OnClient(IdleElapses)
  \/ OnClient(OnlineTimeout)
  \/ OnClient(ConnectivityChanges)
  \/ OnClient(BackendAnswers)
  \/ OnClient(BackendRefuses)
  \/ OnClient(\E q \in Queries : BackendChanges(q))

Spec == Init /\ [][Next]_vars

-----------------------------------------------------------------------------
\* The books of RemoteStore and SyncEngine name the same queries, and no
\* credentials are awaited for an attempt still to come.
TypeOK ==
  /\ remote.stream \in {"Initial", "Starting", "Open", "Error", "Backoff"}
  /\ remote.online \in {"Unknown", "Online", "Offline"}
  /\ remote.failures \in {0, 1} /\ remote.closes \in Nat
  /\ remote.tokens \subseteq 0..remote.closes
  /\ remote.served \subseteq Queries /\ refused \subseteq Queries
  /\ DOMAIN views \subseteq Queries
  /\ DOMAIN remote.targets = DOMAIN views
  /\ \A r \in Reads : reads[r].state \in {"idle", "asked", "listening", "gone"}
  /\ stored.cache \in [Queries -> Versions]
  /\ stored.resume \in [Queries -> Versions]

\* No HARD_ASSERT of the stream, the online state tracker, RemoteStore and
\* SyncEngine fails, however timers, late credentials, broken streams and
\* changes of connectivity meet.
HardAssertsHold == remote.broken = {}

\* A call of getDocument is answered at most once: the event after the first,
\* queued before the listener was removed, is not delivered.
AnsweredOnce == \A r \in Reads : Len(answers[r]) <= 1

\* A synced answer is no older than the listen it answers: what the backend
\* sent for an earlier listen of the same document is not taken for it, unless
\* a listen of it was refused: RemoveTarget then forgets what is outstanding.
SyncedAnswersFresh ==
  \A r \in Reads : \A i \in DOMAIN answers[r] :
    QueryOf[r] \notin refused /\ answers[r][i].synced
      => answers[r][i].version >= reads[r].since

\* What the client will resume from is what it has: a document the backend
\* will not send again is in the cache, with the same exception.
ResumableIsCached ==
  \A q \in Queries \ refused :
    /\ stored.resume[q] <= stored.cache[q]
    /\ q \in Listening(remote) => remote.targets[q] <= stored.cache[q]

\* remote_event.h:208: "The number of outstanding responses (adds or removes)
\* that we are waiting on."  On an open stream that is what the two wires hold
\* for the target, unless one of its listens was refused.
Outstanding(q) ==
  Cardinality({i \in DOMAIN remote.up : remote.up[i].query = q})
  + Cardinality({i \in DOMAIN remote.down :
                   /\ remote.down[i].query = q
                   /\ remote.down[i].type \in {"Added", "Removed"}})

ResponsesCounted ==
  IsOpen(remote) =>
    \A q \in Queries \ refused :
      remote.aggregator.states[q].pending = Outstanding(q)

\* online_state_tracker.cc:47-49: "If the timeout is reached, we transition to
\* Offline rather than waiting indefinitely."  As long as a table keeps the
\* stream in use, the state is never unknown without the timer running, through
\* backoffs, restarts and broken streams.
UnknownIsTimed ==
  (\E r \in Tables : reads[r].state = "listening")
    => remote.online # "Unknown" \/ remote.timer

\* When nothing is left to be done, by the queues, the timers, the credentials
\* or the network, every call of getDocument has been answered, by the backend,
\* from the cache, or with an error; the refusal of an earlier listen of the
\* document may stand in the way.
AtRest ==
  /\ worker = <<>> /\ executor = <<>>
  /\ remote.up = <<>> /\ remote.down = <<>>
  /\ remote.tokens = {} /\ ~remote.backoff /\ ~remote.timer

AnsweredAtRest ==
  AtRest => \A r \in Reads \ Tables :
    reads[r].state = "idle" \/ answers[r] # <<>> \/ QueryOf[r] \in refused

=============================================================================
