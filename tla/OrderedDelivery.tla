--------------------------- MODULE OrderedDelivery ---------------------------
(* What the modules of the app take WritePipeline for: its steps, and what   *)
(* they bring to the backend, in order.  RemoteWrite is shown to implement   *)
(* it for the mutation queue of every user.                                  *)
EXTENDS WritePipeline

CONSTANT Mutations   \* what is written

VARIABLE delivered   \* per device, the writes the backend has applied

DeliveryInit ==
  /\ PipelineInit
  /\ delivered = [d \in Devices |-> <<>>]

Deliver(d) ==
  /\ ApplyAtServer(d)
  /\ delivered' = [delivered EXCEPT ![d] = Append(@, NextToApply(d))]

(* Restart and ServeAgain at once: Firebase Auth keeps its user over the     *)
(* death of the app, and the client, once it is made, serves the user it     *)
(* finds there.                                                              *)
RestartSignedIn(d) ==
  /\ d \in served
  /\ restarts[d] < MaxRestarts
  /\ writes'   = [writes EXCEPT ![d] = SubSeq(@, 1, stored[d])]
  /\ applied'  = [applied EXCEPT ![d] = 0]
  /\ restarts' = [restarts EXCEPT ![d] = @ + 1]
  /\ UNCHANGED <<stored, served>>

DeliveryNext ==
  \E d \in Devices :
    \/ Deliver(d)
    \/ /\ \/ \E m \in Mutations : WriteMutations(d, <<m>>)
          \/ WriteLocally(d)
          \/ HandleSuccessfulWrite(d)
          \/ HandleRejectedWrite(d)
          \/ OnWriteStreamClose(d)
          \/ Restart(d)
          \/ ServeAgain(d)
          \/ RestartSignedIn(d)
       /\ UNCHANGED delivered

DeliverySpec ==
  DeliveryInit /\ [][DeliveryNext]_<<pipelineVars, delivered>>

=============================================================================
