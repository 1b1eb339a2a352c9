--------------------------- MODULE WritePipeline ---------------------------
(***************************************************************************)
(* The path of a write from the app to Cloud Firestore, for every device.  *)
(*                                                                         *)
(* updateData and setData return at once.  The call is enqueued on the     *)
(* client's worker queue (memory), the worker persists it in the user's    *)
(* mutation queue (disk), the write stream sends the queue in order, the   *)
(* server applies the writes in that order and its answers take them off   *)
(* the queue from the front.  All of it is one sequence per device:        *)
(*                                                                         *)
(*     1 .. applied      stored    .. Len(writes)                          *)
(*     |- applied by the server, answer on its way                         *)
(*     |----------- persisted -----|                                       *)
(*                                 |- enqueued in memory only -|           *)
(*                                                                         *)
(* The client keeps a queue for every user and serves the queue of the     *)
(* present one only.  A device is an installation of the app with a user   *)
(* signed up on it: when the app dies it starts again with the sign-up     *)
(* screen, its client is made by the next sign-up, for the next user, and  *)
(* the former user's queue waits for that user to be signed in again.      *)
(*                                                                         *)
(* A module that uses the pipeline gives the writes their content and      *)
(* conjoins their effect on the server's documents to ApplyAtServer.       *)
(***************************************************************************)
EXTENDS Integers, Sequences

CONSTANTS
  Devices,     \* the installations of the app, each with its user
  MaxRestarts  \* bound: how often one device's app dies

ASSUME RestartsAssumption == MaxRestarts \in Nat

VARIABLES
  writes,    \* per device, its outstanding writes, oldest first
  stored,    \* per device, how many of them are in the persisted queue
  applied,   \* per device, how many the server has applied, unacknowledged
  served,    \* the devices whose client is there and serves its user's queue
  restarts   \* per device, how often its app has died so far

pipelineVars == <<writes, stored, applied, served, restarts>>

PipelineInit ==
  /\ writes   = [d \in Devices |-> << >>]
  /\ stored   = [d \in Devices |-> 0]
  /\ applied  = [d \in Devices |-> 0]
  /\ served   = Devices
  /\ restarts = [d \in Devices |-> 0]

(* FirestoreClient::WriteMutations, once per element of ms. *)
WriteMutations(d, ms) ==
  /\ writes' = [writes EXCEPT ![d] = @ \o ms]
  /\ UNCHANGED <<stored, applied, served, restarts>>

(* LocalStore::WriteLocally: the worker adds the batch to the mutation     *)
(* queue of the persistence layer.                                         *)
WriteLocally(d) ==
  /\ stored[d] < Len(writes[d])
  /\ stored' = [stored EXCEPT ![d] = @ + 1]
  /\ UNCHANGED <<writes, applied, served, restarts>>

(* Mutant of NextToApply: the newest write first.                          *)
NextToApplyNewest(d) == writes[d][stored[d]]

NextToApply(d) == writes[d][applied[d] + 1]

(* The backend applies the next write of the device's write stream.  What  *)
(* was on its way when the app died may still arrive.                      *)
ApplyAtServer(d) ==
  /\ applied[d] < stored[d]
  /\ applied' = [applied EXCEPT ![d] = @ + 1]
  /\ UNCHANGED <<writes, stored, served, restarts>>

(* Mutant of HandleSuccessfulWrite: the persisted queue keeps the batch.   *)
HandleSuccessfulWriteKept(d) ==
  /\ d \in served
  /\ applied[d] > 0
  /\ writes'  = [writes EXCEPT ![d] = Tail(@)]
  /\ applied' = [applied EXCEPT ![d] = @ - 1]
  /\ UNCHANGED <<stored, served, restarts>>

(* RemoteStore::OnWriteStreamMutationResult and what it calls: the answer  *)
(* belongs to the front of the pipeline, which leaves the mutation queue.  *)
HandleSuccessfulWrite(d) ==
  /\ d \in served
  /\ applied[d] > 0
  /\ writes'  = [writes EXCEPT ![d] = Tail(@)]
  /\ stored'  = [stored EXCEPT ![d] = @ - 1]
  /\ applied' = [applied EXCEPT ![d] = @ - 1]
  /\ UNCHANGED <<served, restarts>>

(* RemoteStore::HandleWriteError, permanent error: the front of the        *)
(* pipeline is dropped.  The stream answers in order, so every applied     *)
(* write has been answered before.                                         *)
HandleRejectedWrite(d) ==
  /\ d \in served
  /\ applied[d] = 0
  /\ stored[d] > 0
  /\ writes' = [writes EXCEPT ![d] = Tail(@)]
  /\ stored' = [stored EXCEPT ![d] = @ - 1]
  /\ UNCHANGED <<applied, served, restarts>>

(* The write stream breaks and is opened again: the writes whose answers   *)
(* were lost are sent, and applied, a second time.                         *)
OnWriteStreamClose(d) ==
  /\ d \in served
  /\ applied[d] > 0
  /\ applied' = [applied EXCEPT ![d] = 0]
  /\ UNCHANGED <<writes, stored, served, restarts>>

(* Mutant of Restart: the mutation queue is in memory only.                *)
RestartForgetful(d) ==
  /\ d \in served
  /\ restarts[d] < MaxRestarts
  /\ writes'   = [writes EXCEPT ![d] = << >>]
  /\ stored'   = [stored EXCEPT ![d] = 0]
  /\ applied'  = [applied EXCEPT ![d] = 0]
  /\ served'   = served \ {d}
  /\ restarts' = [restarts EXCEPT ![d] = @ + 1]

(* The app dies and is started again, without a client: what the worker    *)
(* had not persisted is lost, the rest stays in the user's queue on disk.  *)
Restart(d) ==
  /\ d \in served
  /\ restarts[d] < MaxRestarts
  /\ writes'   = [writes EXCEPT ![d] = SubSeq(@, 1, stored[d])]
  /\ served'   = served \ {d}
  /\ restarts' = [restarts EXCEPT ![d] = @ + 1]
  /\ UNCHANGED <<stored, applied>>

(* The user is signed in again, where there is a way to: the client serves *)
(* the queue from its front, answered or not.                              *)
ServeAgain(d) ==
  /\ d \notin served
  /\ served'  = served \cup {d}
  /\ applied' = [applied EXCEPT ![d] = 0]
  /\ UNCHANGED <<writes, stored, restarts>>

Drained == \A d \in Devices : writes[d] = << >>

PipelineTypeOK(Mutations) ==
  /\ writes   \in [Devices -> Seq(Mutations)]
  /\ stored   \in [Devices -> Nat]
  /\ applied  \in [Devices -> Nat]
  /\ served   \subseteq Devices
  /\ restarts \in [Devices -> Nat]
  /\ \A d \in Devices : applied[d] <= stored[d] /\ stored[d] <= Len(writes[d])
=============================================================================
