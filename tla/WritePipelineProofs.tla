------------------------ MODULE WritePipelineProofs ------------------------
(***************************************************************************)
(* What one step of the pipeline keeps and what it does to the writes, for *)
(* any number of devices and any set M of writes.  The modules that use    *)
(* the pipeline cite these facts; none of them opens the sequences again.  *)
(***************************************************************************)
EXTENDS WritePipeline, FiniteSetsExt, SequenceTheorems, WellFoundedInduction, TLAPS

(* A set of positions that is not empty has a last one.                    *)
LEMMA MaxOfPositions ==
  ASSUME NEW n \in Nat, NEW S \in SUBSET (1 .. n), S # {}
  PROVE  Max(S) \in S /\ \A i \in S : i <= Max(S)
<1> DEFINE T == {n - i : i \in S}
<1>1. T \subseteq Nat /\ T # {}
  OBVIOUS
<1>2. PICK x \in T : \A y \in T : ~(<<y, x>> \in OpToRel(<, Nat))
  BY <1>1, NatLessThanWellFounded, WFMin
<1>3. \A y \in T : ~(y < x)
  BY <1>1, <1>2 DEF OpToRel
<1>4. PICK m \in S : x = n - m
  OBVIOUS
<1>5. ASSUME NEW i \in S
      PROVE  i <= m
  <2>1. ~(n - i < n - m)
    BY <1>3, <1>4
  <2>2. i \in 1 .. n /\ m \in 1 .. n
    OBVIOUS
  <2> QED BY <2>1, <2>2
<1>6. \E k \in S : \A y \in S : k >= y
  BY <1>5
<1> QED BY <1>6 DEF Max

(* A write that is enqueued goes behind all the others.                    *)
LEMMA WriteMutationsStep ==
  ASSUME NEW M, PipelineTypeOK(M), NEW d \in Devices, NEW ms \in Seq(M),
         WriteMutations(d, ms)
  PROVE  /\ PipelineTypeOK(M)'
         /\ Len(writes'[d]) = Len(writes[d]) + Len(ms)
         /\ \A i \in 1 .. Len(writes[d]) : writes'[d][i] = writes[d][i]
         /\ \A i \in 1 .. Len(ms) : writes'[d][Len(writes[d]) + i] = ms[i]
         /\ \A c \in Devices : c # d => writes'[c] = writes[c]
<1> USE DEF PipelineTypeOK, WriteMutations
<1>1. writes[d] \in Seq(M)
  OBVIOUS
<1>2. writes'[d] = writes[d] \o ms
  OBVIOUS
<1>3. /\ writes[d] \o ms \in Seq(M)
      /\ Len(writes[d] \o ms) = Len(writes[d]) + Len(ms)
      /\ \A i \in 1 .. Len(writes[d]) + Len(ms) : (writes[d] \o ms)[i] =
            IF i <= Len(writes[d]) THEN writes[d][i] ELSE ms[i - Len(writes[d])]
  BY <1>1, ConcatProperties
<1>4. Len(writes[d]) \in Nat /\ Len(ms) \in Nat
  BY <1>1, LenProperties
<1>5. \A i \in 1 .. Len(writes[d]) : writes'[d][i] = writes[d][i]
  BY <1>2, <1>3, <1>4
<1>6. \A i \in 1 .. Len(ms) : writes'[d][Len(writes[d]) + i] = ms[i]
  BY <1>2, <1>3, <1>4
<1>7. writes' \in [Devices -> Seq(M)]
  BY <1>2, <1>3
<1>8. \A c \in Devices : c # d => writes'[c] = writes[c]
  OBVIOUS
<1>9. \A c \in Devices : applied'[c] <= stored'[c] /\ stored'[c] <= Len(writes'[c])
  BY <1>2, <1>3, <1>4, <1>8
<1> QED BY <1>2, <1>3, <1>5, <1>6, <1>7, <1>8, <1>9

(* Persisting and applying move an index and leave the writes alone.       *)
LEMMA WriteLocallyStep ==
  ASSUME NEW M, PipelineTypeOK(M), NEW d \in Devices, WriteLocally(d)
  PROVE  PipelineTypeOK(M)'
<1> USE DEF PipelineTypeOK, WriteLocally
<1>1. writes[d] \in Seq(M) /\ Len(writes[d]) \in Nat
  BY LenProperties
<1> QED BY <1>1

LEMMA ApplyAtServerStep ==
  ASSUME NEW M, PipelineTypeOK(M), NEW d \in Devices, ApplyAtServer(d)
  PROVE  /\ PipelineTypeOK(M)'
         /\ applied[d] + 1 \in 1 .. Len(writes[d])
         /\ NextToApply(d) \in M
<1> USE DEF PipelineTypeOK, ApplyAtServer
<1>1. writes[d] \in Seq(M) /\ Len(writes[d]) \in Nat
  BY LenProperties
<1>2. applied[d] + 1 \in 1 .. Len(writes[d])
  BY <1>1
<1>3. NextToApply(d) \in M
  BY <1>1, <1>2, ElementOfSeq DEF NextToApply
<1> QED BY <1>2, <1>3

(* Taking the oldest write off the queue moves all the others up by one.   *)
LEMMA DropFirst ==
  ASSUME NEW M, PipelineTypeOK(M), NEW d \in Devices, stored[d] > 0,
         writes' = [writes EXCEPT ![d] = Tail(@)],
         stored' = [stored EXCEPT ![d] = @ - 1]
  PROVE  /\ writes' \in [Devices -> Seq(M)]
         /\ stored' \in [Devices -> Nat]
         /\ stored'[d] = stored[d] - 1
         /\ Len(writes'[d]) = Len(writes[d]) - 1
         /\ \A i \in 1 .. Len(writes'[d]) : writes'[d][i] = writes[d][i + 1]
         /\ Head(writes[d]) = writes[d][1]
         /\ Head(writes[d]) \in M
         /\ \A c \in Devices : c # d => writes'[c] = writes[c] /\ stored'[c] = stored[c]
<1> USE DEF PipelineTypeOK
<1>1. writes[d] \in Seq(M) /\ Len(writes[d]) \in Nat /\ stored[d] \in Nat
  BY LenProperties
<1>2. writes[d] # << >>
  BY <1>1, EmptySeq
<1>3. /\ Head(writes[d]) \in M
      /\ Tail(writes[d]) \in Seq(M)
      /\ Len(Tail(writes[d])) = Len(writes[d]) - 1
      /\ \A i \in 1 .. Len(Tail(writes[d])) : Tail(writes[d])[i] = writes[d][i + 1]
  BY <1>1, <1>2, HeadTailProperties
<1>4. Head(writes[d]) = writes[d][1]
  BY <1>1, <1>2
<1>5. writes'[d] = Tail(writes[d]) /\ stored'[d] = stored[d] - 1
  OBVIOUS
<1> QED BY <1>1, <1>3, <1>4, <1>5

LEMMA HandleSuccessfulWriteStep ==
  ASSUME NEW M, PipelineTypeOK(M), NEW d \in Devices, HandleSuccessfulWrite(d)
  PROVE  /\ PipelineTypeOK(M)'
         /\ stored[d] > 0
         /\ Len(writes'[d]) = Len(writes[d]) - 1
         /\ \A i \in 1 .. Len(writes'[d]) : writes'[d][i] = writes[d][i + 1]
         /\ Head(writes[d]) = writes[d][1] /\ Head(writes[d]) \in M
         /\ \A c \in Devices : c # d => writes'[c] = writes[c]
<1>1. stored[d] > 0
  BY DEF PipelineTypeOK, HandleSuccessfulWrite
<1>2. /\ writes' = [writes EXCEPT ![d] = Tail(@)]
      /\ stored' = [stored EXCEPT ![d] = @ - 1]
  BY DEF HandleSuccessfulWrite
<1>3. /\ writes' \in [Devices -> Seq(M)]
      /\ stored' \in [Devices -> Nat]
      /\ stored'[d] = stored[d] - 1
      /\ Len(writes'[d]) = Len(writes[d]) - 1
      /\ \A i \in 1 .. Len(writes'[d]) : writes'[d][i] = writes[d][i + 1]
      /\ Head(writes[d]) = writes[d][1]
      /\ Head(writes[d]) \in M
      /\ \A c \in Devices : c # d => writes'[c] = writes[c] /\ stored'[c] = stored[c]
  BY <1>1, <1>2, DropFirst
<1>4. /\ applied' \in [Devices -> Nat] /\ restarts' \in [Devices -> Nat]
      /\ served' \subseteq Devices
      /\ applied'[d] = applied[d] - 1
      /\ \A c \in Devices : c # d => applied'[c] = applied[c]
  BY DEF PipelineTypeOK, HandleSuccessfulWrite
<1>5. Len(writes[d]) \in Nat
  BY LenProperties DEF PipelineTypeOK
<1>6. \A c \in Devices : applied'[c] <= stored'[c] /\ stored'[c] <= Len(writes'[c])
  <2> TAKE c \in Devices
  <2>1. /\ applied[c] \in Nat /\ stored[c] \in Nat
        /\ applied[c] <= stored[c] /\ stored[c] <= Len(writes[c])
    BY DEF PipelineTypeOK
  <2>2. CASE c = d
    BY <1>3, <1>4, <1>5, <2>1, <2>2
  <2>3. CASE c # d
    BY <1>3, <1>4, <2>1, <2>3
  <2> QED BY <2>2, <2>3
<1> QED BY <1>1, <1>3, <1>4, <1>6 DEF PipelineTypeOK

LEMMA HandleRejectedWriteStep ==
  ASSUME NEW M, PipelineTypeOK(M), NEW d \in Devices, HandleRejectedWrite(d)
  PROVE  /\ PipelineTypeOK(M)'
         /\ stored[d] > 0
         /\ Len(writes'[d]) = Len(writes[d]) - 1
         /\ \A i \in 1 .. Len(writes'[d]) : writes'[d][i] = writes[d][i + 1]
         /\ Head(writes[d]) = writes[d][1] /\ Head(writes[d]) \in M
         /\ \A c \in Devices : c # d => writes'[c] = writes[c]
<1>1. stored[d] > 0
  BY DEF HandleRejectedWrite
<1>2. /\ writes' = [writes EXCEPT ![d] = Tail(@)]
      /\ stored' = [stored EXCEPT ![d] = @ - 1]
  BY DEF HandleRejectedWrite
<1>3. /\ writes' \in [Devices -> Seq(M)]
      /\ stored' \in [Devices -> Nat]
      /\ stored'[d] = stored[d] - 1
      /\ Len(writes'[d]) = Len(writes[d]) - 1
      /\ \A i \in 1 .. Len(writes'[d]) : writes'[d][i] = writes[d][i + 1]
      /\ Head(writes[d]) = writes[d][1]
      /\ Head(writes[d]) \in M
      /\ \A c \in Devices : c # d => writes'[c] = writes[c] /\ stored'[c] = stored[c]
  BY <1>1, <1>2, DropFirst
<1>4. applied' = applied /\ restarts' = restarts /\ served' = served /\ applied[d] = 0
  BY DEF HandleRejectedWrite
<1>5. Len(writes[d]) \in Nat
  BY LenProperties DEF PipelineTypeOK
<1>6. \A c \in Devices : applied'[c] <= stored'[c] /\ stored'[c] <= Len(writes'[c])
  <2> TAKE c \in Devices
  <2>1. /\ applied[c] \in Nat /\ stored[c] \in Nat
        /\ applied[c] <= stored[c] /\ stored[c] <= Len(writes[c])
    BY DEF PipelineTypeOK
  <2>2. CASE c = d
    BY <1>1, <1>3, <1>4, <1>5, <2>1, <2>2
  <2>3. CASE c # d
    BY <1>3, <1>4, <2>1, <2>3
  <2> QED BY <2>2, <2>3
<1> QED BY <1>1, <1>3, <1>4, <1>6 DEF PipelineTypeOK

LEMMA OnWriteStreamCloseStep ==
  ASSUME NEW M, PipelineTypeOK(M), NEW d \in Devices, OnWriteStreamClose(d)
  PROVE  PipelineTypeOK(M)'
BY DEF PipelineTypeOK, OnWriteStreamClose

(* A restart keeps exactly the persisted writes, in their order.           *)
LEMMA RestartStep ==
  ASSUME NEW M, PipelineTypeOK(M), NEW d \in Devices, Restart(d)
  PROVE  /\ PipelineTypeOK(M)'
         /\ Len(writes'[d]) = stored[d]
         /\ \A i \in 1 .. stored[d] : writes'[d][i] = writes[d][i]
         /\ \A c \in Devices : c # d => writes'[c] = writes[c]
<1> USE DEF PipelineTypeOK, Restart
<1>1. writes[d] \in Seq(M) /\ Len(writes[d]) \in Nat /\ stored[d] \in Nat
  BY LenProperties
<1>2. \A i \in 1 .. stored[d] : writes[d][i] \in M
  BY <1>1, ElementOfSeq
<1>3. /\ SubSeq(writes[d], 1, stored[d]) \in Seq(M)
      /\ Len(SubSeq(writes[d], 1, stored[d])) = stored[d]
      /\ \A i \in 1 .. stored[d] : SubSeq(writes[d], 1, stored[d])[i] = writes[d][i]
  <2>1. /\ SubSeq(writes[d], 1, stored[d]) \in Seq(M)
        /\ Len(SubSeq(writes[d], 1, stored[d]))
             = IF 1 <= stored[d] THEN stored[d] - 1 + 1 ELSE 0
        /\ \A i \in 1 .. stored[d] - 1 + 1 :
             SubSeq(writes[d], 1, stored[d])[i] = writes[d][1 + i - 1]
    BY <1>1, <1>2, SubSeqProperties
  <2> QED BY <1>1, <2>1
<1>4. writes'[d] = SubSeq(writes[d], 1, stored[d])
  OBVIOUS
<1>5. /\ writes' \in [Devices -> Seq(M)]
      /\ \A c \in Devices : c # d => writes'[c] = writes[c]
  BY <1>3
<1>6. \A c \in Devices : applied'[c] <= stored'[c] /\ stored'[c] <= Len(writes'[c])
  BY <1>1, <1>3, <1>4, <1>5
<1> QED BY <1>3, <1>4, <1>5, <1>6

LEMMA ServeAgainStep ==
  ASSUME NEW M, PipelineTypeOK(M), NEW d \in Devices, ServeAgain(d)
  PROVE  PipelineTypeOK(M)'
BY DEF PipelineTypeOK, ServeAgain
=============================================================================
