---------------------------- MODULE RemoteWatch ----------------------------
(* The half of the Firestore client that reads: the watch stream, the        *)
(* tracker of the online state, and the part of RemoteStore and of           *)
(* WatchChangeAggregator between them.  Every handler runs on the client's   *)
(* worker queue to its end, calling the other objects on the way, so the     *)
(* state is one record and a handler an operator from records to records.    *)
EXTENDS Stream, FiniteSets, FiniteSetsExt, SequencesExt, TLC

CONSTANTS
  Queries,      \* what is listened to: documents and collections
  Changing,     \* bound: those the backend changes while the app runs
  MaxVersion,   \* bound: how often each is changed
  MaxFaults     \* bound: streams that break, tokens that are not granted,
                \* listens that are refused and changes of connectivity

ASSUME RemoteWatchAssumption ==
  /\ IsFiniteSet(Queries) /\ Changing \subseteq Queries
  /\ {MaxVersion, MaxFaults} \subseteq Nat

VARIABLES
  remote,    \* the record of the client's state, with the two wires
  server,    \* version of every query's result at the backend, 0 if empty
  faults,    \* how many of these there have been
  refused    \* history: queries of which a listen was refused

remoteVars == <<remote, server, faults, refused>>

NotKnown == -1                  \* a result the client has never received
Versions == NotKnown..MaxVersion

\* The outstanding responses of a target, and whether it is current.
NoTargetState == [pending |-> 0, current |-> FALSE]
NewAggregator == [states |-> [q \in Queries |-> NoTargetState],
                  updates |-> [q \in Queries |-> NotKnown]]

RemoteInit ==
  /\ remote = [stream |-> "Initial", closes |-> 0, tokens |-> {},
               backoff |-> FALSE, idle |-> FALSE, enabled |-> TRUE,
               online |-> "Unknown", failures |-> 0, timer |-> FALSE,
               targets |-> <<>>, aggregator |-> NewAggregator,
               up |-> <<>>, down |-> <<>>, served |-> {}, broken |-> {}]
  /\ server = [q \in Queries |-> 0]
  /\ faults = 0
  /\ refused = {}

Fault == faults < MaxFaults /\ faults' = faults + 1

Listening(s) == DOMAIN s.targets

-----------------------------------------------------------------------------
(* OnlineStateTracker *)

UpdateState(s, state) ==
  [s EXCEPT !.timer = FALSE, !.failures = 0, !.online = state]

\* Mutant of HandleWatchStreamStart: an attempt without a limit of time.
HandleWatchStreamStartUntimed(s) ==
  IF s.failures # 0 THEN s ELSE [s EXCEPT !.online = "Unknown"]

HandleWatchStreamStart(s) ==
  IF s.failures # 0 THEN s
  ELSE [Check(s, ~s.timer, "online timer started twice")
          EXCEPT !.online = "Unknown", !.timer = TRUE]

\* One failure is enough to be offline; more are not told apart.
HandleWatchStreamFailure(s) ==
  IF s.online = "Online"
  THEN [Check(s, s.failures = 0 /\ ~s.timer, "online with failures")
          EXCEPT !.online = "Unknown"]
  ELSE [s EXCEPT !.failures = 1, !.timer = FALSE, !.online = "Offline"]

-----------------------------------------------------------------------------
(* What RemoteStore does when the watch stream starts and closes *)

ShouldStartWatchStream(s) ==
  s.enabled /\ ~IsStarted(s) /\ Listening(s) # {}

StartWatchStream(s) ==
  HandleWatchStreamStart(
    Start([Check(s, ShouldStartWatchStream(s), "started without need")
             EXCEPT !.aggregator = NewAggregator]))

\* Mutant of OnWatchStreamClose: a close that leaves it to the next listen to
\* start again.
OnWatchStreamCloseGivingUp(s, graceful) ==
  UpdateState(s, IF graceful THEN "Unknown" ELSE s.online)

OnWatchStreamClose(s, graceful) ==
  LET closed == Check(s, graceful => ~ShouldStartWatchStream(s),
                      "stopped while still needed")
  IN  IF ShouldStartWatchStream(closed)
      THEN StartWatchStream(HandleWatchStreamFailure(closed))
      ELSE UpdateState(closed, "Unknown")

Close(s, graceful) ==
  OnWatchStreamClose([TearDown(s, graceful) EXCEPT !.served = {}], graceful)

Stop(s) == IF IsStarted(s) THEN Close(s, TRUE) ELSE s

\* EnableNetwork after DisableNetworkInternal and InhibitBackoff.
RestartNetwork(s) ==
  LET down == UpdateState(Stop([s EXCEPT !.enabled = FALSE]), "Unknown")
      up   == [InhibitBackoff(down) EXCEPT !.enabled = TRUE]
  IN  IF ShouldStartWatchStream(up) THEN StartWatchStream(up)
      ELSE UpdateState(up, "Unknown")

-----------------------------------------------------------------------------
(* RemoteStore: the targets that are listened to *)

RecordPendingTargetRequest(state) == [state EXCEPT !.pending = @ + 1]

RecordPendingTargetRequests(s, qs) ==
  [s EXCEPT !.aggregator.states =
     [q \in Queries |-> IF q \in qs THEN RecordPendingTargetRequest(@[q]) ELSE @[q]]]

\* A listen carries the resume token, and so the version the client has.
WatchRequest(s, q) == [type |-> "Watch", query |-> q, known |-> s.targets[q]]

SendWatchRequests(s, qs) ==
  Send(RecordPendingTargetRequests(s, qs),
       SetToSeq({WatchRequest(s, q) : q \in qs}))

\* Mutant of SendUnwatchRequest: the end of a listen is not counted.
SendUnwatchRequestUncounted(s, q) ==
  Send(s, <<[type |-> "Unwatch", query |-> q]>>)

SendUnwatchRequest(s, q) ==
  Send(RecordPendingTargetRequests(s, {q}),
       <<[type |-> "Unwatch", query |-> q]>>)

\* An entry that a map of the client gets.
Put(f, q, value) == [p \in DOMAIN f \cup {q} |-> IF p = q THEN value ELSE f[p]]

Listen(s, q, known) ==
  IF q \in Listening(s) THEN s
  ELSE LET added == [s EXCEPT !.targets = Put(@, q, known)]
       IN  IF ShouldStartWatchStream(added) THEN StartWatchStream(added)
           ELSE IF IsOpen(added) THEN SendWatchRequests(added, {q})
           ELSE added

Erase(s, q) ==
  [s EXCEPT !.targets = [t \in Listening(s) \ {q} |-> s.targets[t]]]

StopListening(s, q) ==
  LET erased == Erase(Check(s, q \in Listening(s), "not watched"), q)
      told   == IF IsOpen(s) THEN SendUnwatchRequest(erased, q) ELSE erased
  IN  IF Listening(told) # {} THEN told
      ELSE IF IsOpen(told) THEN MarkIdle(told)
      ELSE UpdateState(told, "Unknown")

OnWatchStreamOpen(s) == SendWatchRequests(s, Listening(s))

\* Mutant of IsActiveTarget: a target that is heard whatever is still to be
\* answered.
IsActiveTargetAtOnce(s, q) == q \in Listening(s)

\* A target is heard again when all that was asked about it is answered.
IsActiveTarget(s, q) ==
  q \in Listening(s) /\ s.aggregator.states[q].pending = 0

\* The remote event of a global snapshot.  Its resume token is a change of
\* every active target.
TargetChanges(s) ==
  [q \in {t \in Queries : IsActiveTarget(s, t)} |->
     s.aggregator.states[q].current]

\* Documents of targets that are not active any more are told too; one that
\* never came is taken for deleted once its target is current.
DocumentUpdates(s) ==
  [q \in Queries |->
     IF /\ s.aggregator.updates[q] = NotKnown
        /\ IsActiveTarget(s, q) /\ s.aggregator.states[q].current
        /\ s.targets[q] <= 0
     THEN 0 ELSE s.aggregator.updates[q]]

\* Mutant of RaiseWatchSnapshot: a snapshot that every target is resumed from,
\* heard or not.
RaiseWatchSnapshotForAll(s, at) ==
  [s EXCEPT !.targets = [q \in Listening(s) |-> at[q]],
            !.aggregator.updates = [q \in Queries |-> NotKnown]]

\* A target that changed is resumed from the snapshot.
RaiseWatchSnapshot(s, at) ==
  [s EXCEPT !.targets = [q \in Listening(s) |->
                           IF q \in DOMAIN TargetChanges(s) THEN at[q]
                           ELSE s.targets[q]],
            !.aggregator.updates = [q \in Queries |-> NotKnown]]

OnWatchStreamChange(s, m) ==
  LET o == UpdateState(s, "Online")
      q == m.query
      answered == o.aggregator.states[q].pending - 1
  IN  CASE m.type = "Added" ->
             [o EXCEPT !.aggregator.states[q].pending = answered]
        [] m.type = "Removed" ->
             IF answered = 0
             THEN [o EXCEPT !.aggregator.states[q] = NoTargetState]
             ELSE [o EXCEPT !.aggregator.states[q].pending = answered]
        [] m.type = "Rejected" ->
             IF q \in Listening(s)
             THEN [Erase(o, q) EXCEPT !.aggregator.states[q] = NoTargetState]
             ELSE o
        [] m.type = "Document" ->
             IF IsActiveTarget(s, q)
             THEN [o EXCEPT !.aggregator.updates[q] = m.at[q]] ELSE o
        [] m.type = "Current" ->
             IF IsActiveTarget(s, q)
             THEN [o EXCEPT !.aggregator.states[q].current = TRUE] ELSE o
        [] m.type = "Snapshot" -> RaiseWatchSnapshot(o, m.at)

-----------------------------------------------------------------------------
(* Steps of the worker queue that come from timers and from the network *)

\* Mutant of CredentialsAnswer: credentials that are used whatever became of
\* the attempt.
CredentialsAnswerLate(c) ==
  /\ c \in remote.tokens
  /\ remote' = OnWatchStreamOpen(
                 OnStreamStart([remote EXCEPT !.tokens = @ \ {c}]))
  /\ UNCHANGED <<server, faults, refused>>

\* Both credentials are there; an answer for an attempt that was closed since
\* is dropped.
CredentialsAnswer(c) ==
  /\ c \in remote.tokens
  /\ LET s == [remote EXCEPT !.tokens = @ \ {c}]
     IN  remote' = IF c # remote.closes THEN s
                   ELSE OnWatchStreamOpen(OnStreamStart(s))
  /\ UNCHANGED <<server, faults, refused>>

CredentialsFail(c) ==
  /\ c \in remote.tokens
  /\ Fault
  /\ LET s == [remote EXCEPT !.tokens = @ \ {c}]
     IN  remote' = IF c # remote.closes THEN s ELSE Close(s, FALSE)
  /\ UNCHANGED <<server, refused>>

StreamBreaks ==
  /\ IsOpen(remote)
  /\ Fault
  /\ remote' = Close(remote, FALSE)
  /\ UNCHANGED <<server, refused>>

BackoffElapses ==
  /\ remote.backoff
  /\ remote' = Resume(remote)
  /\ UNCHANGED <<server, faults, refused>>

IdleElapses ==
  /\ remote.idle
  /\ remote' = Stop(remote)
  /\ UNCHANGED <<server, faults, refused>>

OnlineTimeout ==
  /\ remote.timer
  /\ remote' = [Check(remote, remote.online = "Unknown", "timeout while known")
                  EXCEPT !.timer = FALSE, !.online = "Offline"]
  /\ UNCHANGED <<server, faults, refused>>

ConnectivityChanges ==
  /\ Fault
  /\ remote' = RestartNetwork(remote)
  /\ UNCHANGED <<server, refused>>

-----------------------------------------------------------------------------
(* The backend: it answers every request on the stream in its order, and     *)
(* tells of later changes to what is watched.                                *)

\* Documents and snapshots are those of one moment at the backend.
Message(type, q) == [type |-> type, query |-> q, at |-> server]

BackendAnswers ==
  /\ remote.up # <<>>
  /\ LET m == Head(remote.up)
         news == IF server[m.query] > m.known
                 THEN <<Message("Document", m.query)>> ELSE <<>>
         answer == IF m.type = "Unwatch" THEN <<Message("Removed", m.query)>>
                   ELSE <<Message("Added", m.query)>> \o news
                        \o <<Message("Current", m.query),
                             Message("Snapshot", m.query)>>
     IN  remote' = [remote EXCEPT
                      !.up = Tail(@), !.down = @ \o answer,
                      !.served = IF m.type = "Unwatch" THEN @ \ {m.query}
                                 ELSE @ \cup {m.query}]
  /\ UNCHANGED <<server, faults, refused>>

BackendRefuses ==
  /\ remote.up # <<>> /\ Head(remote.up).type = "Watch"
  /\ Fault
  /\ LET q == Head(remote.up).query
     IN  /\ remote' = [remote EXCEPT !.up = Tail(@),
                                     !.down = Append(@, Message("Rejected", q))]
         /\ refused' = refused \cup {q}
  /\ UNCHANGED server

BackendChanges(q) ==
  /\ q \in Changing /\ server[q] < MaxVersion
  /\ server' = [server EXCEPT ![q] = @ + 1]
  /\ remote' = IF q \notin remote.served THEN remote
               ELSE [remote EXCEPT !.down = @ \o
                       <<[type |-> "Document", query |-> q, at |-> server'],
                         [type |-> "Snapshot", query |-> q, at |-> server']>>]
  /\ UNCHANGED <<faults, refused>>

=============================================================================
