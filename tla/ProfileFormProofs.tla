------------------------- MODULE ProfileFormProofs -------------------------
(***************************************************************************)
(* Theorems about ProfileForm, for any devices, texts, opens and presses.  *)
(***************************************************************************)
EXTENDS ProfileForm, WritePipelineProofs

(* What View returns: the server's value, or the value of a pending write  *)
(* after which no other write of the field is pending.                     *)
LEMMA ViewCases ==
  ASSUME TypeOK, NEW d \in Devices, NEW f \in Fields
  PROVE  \/ Pending(d, f) = {} /\ View(d, f) = saved[d][f]
         \/ \E i \in Pending(d, f) : /\ \A j \in Pending(d, f) : j <= i
                                     /\ View(d, f) = writes[d][i].value
<1>1. CASE Pending(d, f) = {}
  BY <1>1 DEF View
<1>2. CASE Pending(d, f) # {}
  <2>1. stored[d] \in Nat /\ Pending(d, f) \subseteq 1 .. stored[d]
    BY DEF TypeOK, PipelineTypeOK, Pending
  <2>2. /\ Max(Pending(d, f)) \in Pending(d, f)
        /\ \A j \in Pending(d, f) : j <= Max(Pending(d, f))
    BY <1>2, <2>1, MaxOfPositions
  <2>3. View(d, f) = writes[d][Max(Pending(d, f))].value
    BY <1>2 DEF View
  <2> QED BY <2>2, <2>3
<1> QED BY <1>1, <1>2

(* The outstanding writes of a device are mutations.                       *)
LEMMA WriteIsMutation ==
  ASSUME PipelineTypeOK(Mutations), NEW d \in Devices, NEW i \in 1 .. Len(writes[d])
  PROVE  writes[d][i] \in Mutations
<1>1. writes[d] \in Seq(Mutations)
  BY DEF PipelineTypeOK
<1> QED BY <1>1, ElementOfSeq

LEMMA ViewType ==
  ASSUME TypeOK, NEW d \in Devices, NEW f \in Fields
  PROVE  View(d, f) \in Texts
<1>1. saved[d][f] \in Texts /\ PipelineTypeOK(Mutations)
  BY DEF TypeOK
<1>2. ASSUME NEW i \in Pending(d, f)
      PROVE  writes[d][i].value \in Texts
  <2>1. i \in 1 .. Len(writes[d])
    BY <1>1, <1>2 DEF Pending, PipelineTypeOK
  <2> QED BY <1>1, <2>1, WriteIsMutation DEF Mutations
<1> QED BY <1>1, <1>2, ViewCases

LEMMA AnswerHasValue ==
  ASSUME NEW r \in Reads, r.state = "answered"
  PROVE  r.value \in Texts
BY DEF Reads, NoRead, Asked, Answered

(* A read that is asked waits for the writes the worker has not come to.   *)
LEMMA AskedType ==
  ASSUME TypeOK, NEW d \in Devices
  PROVE  Ahead(d) \in Nat /\ Asked(Ahead(d)) \in Reads
<1>1. Len(writes[d]) \in Nat /\ stored[d] \in Nat /\ stored[d] <= Len(writes[d])
  BY LenProperties DEF TypeOK, PipelineTypeOK
<1> QED BY <1>1 DEF Ahead, Asked, Reads

LEMMA MovedUpType ==
  ASSUME NEW r \in Reads
  PROVE  MovedUp(r) \in Reads
<1>1. CASE r.state = "asked" /\ r.ahead > 0
  <2>1. r.ahead \in Nat
    BY <1>1 DEF Reads, NoRead
  <2>2. MovedUp(r) = Asked(r.ahead - 1) /\ r.ahead - 1 \in Nat
    BY <1>1, <2>1 DEF MovedUp
  <2> QED BY <2>2 DEF Asked, Reads
<1>2. CASE ~(r.state = "asked" /\ r.ahead > 0)
  BY <1>2 DEF MovedUp
<1> QED BY <1>1, <1>2

(* The writes of one press are mutations, the last one of them, and no     *)
(* other, is of the group number.                                          *)
LEMMA CompleteWritesType ==
  ASSUME TypeOK, NEW d \in Devices
  PROVE  /\ CompleteWrites(d) \in Seq(Mutations)
         /\ \A i \in 1 .. Len(CompleteWrites(d)) :
              CompleteWrites(d)[i].field = "groupNumber" =>
                CompleteWrites(d)[i].value = text[d]["groupNumber"]
<1> DEFINE first == IF Valid(text[d]["name"]) THEN Update(d, "name") ELSE << >>
<1>1. /\ Update(d, "name") \in Seq(Mutations) /\ Len(Update(d, "name")) = 1
      /\ Update(d, "groupNumber") \in Seq(Mutations) /\ Len(Update(d, "groupNumber")) = 1
      /\ Update(d, "name")[1].field = "name"
      /\ Update(d, "groupNumber")[1].value = text[d]["groupNumber"]
  BY DEF TypeOK, Update, Mutations, Fields
<1>2. first \in Seq(Mutations)
      /\ \A i \in 1 .. Len(first) : first[i].field = "name"
  BY <1>1
<1> HIDE DEF first
<1>3. /\ first \o Update(d, "groupNumber") \in Seq(Mutations)
      /\ Len(first \o Update(d, "groupNumber")) = Len(first) + 1
      /\ \A i \in 1 .. Len(first) + 1 : (first \o Update(d, "groupNumber"))[i] =
           IF i <= Len(first) THEN first[i] ELSE Update(d, "groupNumber")[i - Len(first)]
  BY <1>1, <1>2, ConcatProperties
<1>4. Len(first) \in Nat
  BY <1>2, LenProperties
<1>5. CompleteWrites(d) = first \o Update(d, "groupNumber")
  BY DEF CompleteWrites, first
<1>6. ASSUME NEW i \in 1 .. Len(CompleteWrites(d)), CompleteWrites(d)[i].field = "groupNumber"
      PROVE  CompleteWrites(d)[i].value = text[d]["groupNumber"]
  <2>1. ~(i <= Len(first))
    BY <1>2, <1>3, <1>4, <1>5, <1>6
  <2>2. i - Len(first) = 1
    BY <1>3, <1>4, <1>5, <2>1
  <2> QED BY <1>1, <1>3, <1>5, <2>1, <2>2
<1> QED BY <1>3, <1>5, <1>6
----------------------------------------------------------------------------
LEMMA InitType == Init => TypeOK
<1> SUFFICES ASSUME Init PROVE TypeOK
  OBVIOUS
<1>1. PipelineTypeOK(Mutations)
  BY EmptySeq DEF Init, PipelineInit, PipelineTypeOK
<1>2. Blank \in Texts /\ MaxOpens \in Nat /\ MaxCompletes \in Nat
  BY FormAssumption
<1>3. saved \in [Devices -> [Fields -> Texts]]
  BY DEF Init
<1> QED BY <1>1, <1>2, <1>3 DEF Init, TypeOK, Reads

LEMMA NextType == TypeOK /\ [Next]_vars => TypeOK'
<1> SUFFICES ASSUME TypeOK, [Next]_vars PROVE TypeOK'
  OBVIOUS
<1> USE FormAssumption
<1>1. PipelineTypeOK(Mutations)
  BY DEF TypeOK
<1>2. ASSUME UNCHANGED pipelineVars
      PROVE  PipelineTypeOK(Mutations)'
  BY <1>1, <1>2 DEF pipelineVars, PipelineTypeOK
<1>3. ASSUME UNCHANGED vars
      PROVE  TypeOK'
  BY <1>3, <1>2 DEF vars, pipelineVars, TypeOK
<1>4. ASSUME NEW d \in Devices, ViewDidLoad(d)
      PROVE  TypeOK'
  <2>1. text' \in [Devices -> [Fields -> Texts]] /\ shown' \in [Devices -> SUBSET Fields]
    BY <1>4 DEF ViewDidLoad, TypeOK
  <2>2. [f \in Fields |-> Asked(Ahead(d))] \in [Fields -> Reads]
    BY AskedType
  <2>3. read' \in [Devices -> [Fields -> Reads]]
    BY <1>4, <2>2 DEF ViewDidLoad, TypeOK
  <2>4. opens' \in [Devices -> 0 .. MaxOpens]
    BY <1>4 DEF ViewDidLoad, TypeOK
  <2> QED BY <2>1, <2>3, <2>4, <1>2, <1>4 DEF ViewDidLoad, TypeOK, historyVars
<1>5. ASSUME NEW d \in Devices, CompleteButton(d)
      PROVE  TypeOK'
  <2>1. PipelineTypeOK(Mutations)'
    BY <1>1, <1>5, CompleteWritesType, WriteMutationsStep DEF CompleteButton
  <2> QED BY <2>1, <1>5 DEF CompleteButton, TypeOK, formVars
<1>6. ASSUME NEW d \in Devices, NEW f \in Fields, GetDocumentAnswers(d, f)
      PROVE  TypeOK'
  <2>1. Answered(View(d, f)) \in Reads
    BY ViewType DEF Answered, Reads
  <2>2. read' \in [Devices -> [Fields -> Reads]]
    BY <2>1, <1>6 DEF GetDocumentAnswers, TypeOK
  <2> QED BY <2>2, <1>2, <1>6 DEF GetDocumentAnswers, TypeOK, historyVars
<1>7. ASSUME NEW d \in Devices, NEW f \in Fields, GetDocumentFails(d, f)
      PROVE  TypeOK'
  <2>1. read' \in [Devices -> [Fields -> Reads]]
    BY <1>7 DEF GetDocumentFails, TypeOK, Reads
  <2> QED BY <2>1, <1>2, <1>7 DEF GetDocumentFails, TypeOK, historyVars
<1>8. ASSUME NEW d \in Devices, NEW f \in Fields, DisplayData(d, f)
      PROVE  TypeOK'
  <2>1. read[d][f].value \in Texts
    BY <1>8, AnswerHasValue DEF DisplayData, TypeOK
  <2>2. read' \in [Devices -> [Fields -> Reads]]
    BY <1>8 DEF DisplayData, TypeOK, Reads
  <2>3. text' \in [Devices -> [Fields -> Texts]]
    BY <1>8, <2>1 DEF DisplayData, TypeOK
  <2> QED BY <2>2, <2>3, <1>2, <1>8 DEF DisplayData, TypeOK, historyVars
<1>9. ASSUME NEW d \in Devices, NEW f \in Fields, NEW v \in Texts, Type(d, f, v)
      PROVE  TypeOK'
  <2>1. text' \in [Devices -> [Fields -> Texts]]
    BY <1>9 DEF Type, TypeOK
  <2> QED BY <2>1, <1>2, <1>9 DEF Type, TypeOK
<1>10. ASSUME NEW d \in Devices, Persist(d)
       PROVE  TypeOK'
  <2>1. PipelineTypeOK(Mutations)'
    BY <1>1, <1>10, WriteLocallyStep DEF Persist
  <2>2. stored[d] + 1 \in 1 .. Len(writes[d])
    BY <1>1, <1>10 DEF Persist, WriteLocally, PipelineTypeOK
  <2>3. writes[d][stored[d] + 1] \in Mutations
    BY <1>1, <2>2, WriteIsMutation
  <2>4. latest' \in [Devices -> [Fields -> Texts]]
    BY <1>10, <2>3 DEF Persist, TypeOK, Mutations
  <2>5. read' \in [Devices -> [Fields -> Reads]]
    BY <1>10, MovedUpType DEF Persist, TypeOK
  <2> QED BY <2>1, <2>4, <2>5, <1>10 DEF Persist, TypeOK
<1>11. ASSUME NEW d \in Devices, ServerApplies(d)
       PROVE  TypeOK'
  <2>1. PipelineTypeOK(Mutations)' /\ NextToApply(d) \in Mutations
    BY <1>1, <1>11, ApplyAtServerStep DEF ServerApplies
  <2>2. saved' \in [Devices -> [Fields -> Texts]]
    BY <1>11, <2>1 DEF ServerApplies, TypeOK, Mutations
  <2> QED BY <2>1, <2>2, <1>11 DEF ServerApplies, TypeOK, formVars, historyVars
<1>12. ASSUME NEW d \in Devices, Acknowledge(d)
       PROVE  TypeOK'
  <2>1. PipelineTypeOK(Mutations)'
    BY <1>1, <1>12, HandleSuccessfulWriteStep DEF Acknowledge
  <2> QED BY <2>1, <1>12 DEF Acknowledge, TypeOK, formVars, historyVars
<1>13. ASSUME NEW d \in Devices, Refuse(d)
       PROVE  TypeOK'
  <2>1. PipelineTypeOK(Mutations)' /\ Head(writes[d]) \in Mutations
    BY <1>1, <1>13, HandleRejectedWriteStep DEF Refuse
  <2>2. refused' \subseteq Devices \X Fields
    BY <1>13, <2>1 DEF Refuse, TypeOK, Mutations
  <2> QED BY <2>1, <2>2, <1>13 DEF Refuse, TypeOK, formVars
<1>14. ASSUME NEW d \in Devices, StreamBreaks(d)
       PROVE  TypeOK'
  <2>1. PipelineTypeOK(Mutations)'
    BY <1>1, <1>14, OnWriteStreamCloseStep DEF StreamBreaks
  <2> QED BY <2>1, <1>14 DEF StreamBreaks, TypeOK, formVars, historyVars
<1>15. ASSUME NEW d \in Devices, Relaunch(d)
       PROVE  TypeOK'
  <2>1. PipelineTypeOK(Mutations)'
    BY <1>1, <1>15, RestartStep DEF Relaunch
  <2> QED BY <2>1, <1>15 DEF Relaunch, TypeOK, historyVars, Reads
<1>16. CASE AllUsed
  BY <1>3, <1>16 DEF AllUsed
<1> QED
  BY <1>3, <1>4, <1>5, <1>6, <1>7, <1>8, <1>9, <1>10, <1>11, <1>12, <1>13,
     <1>14, <1>15, <1>16 DEF Next

(* The variables keep their types: among them, the server has never        *)
(* applied, nor the client persisted, more writes than are outstanding.    *)
THEOREM TypeCorrect == Spec => []TypeOK
BY InitType, NextType, PTL DEF Spec
----------------------------------------------------------------------------
(* ReadYourWrites, and why a step keeps it.  View speaks of the last       *)
(* pending write of a field; the two parts say it for the positions of the *)
(* queue.                                                                  *)
LastOf(d, f, i, n) ==
  /\ i \in 1 .. n /\ writes[d][i].field = f
  /\ \A j \in 1 .. n : writes[d][j].field = f => j <= i

(* The last pending write of a field, or the server's value if there is    *)
(* none, is the value persisted last.                                      *)
LastPending ==
  \A d \in Devices, f \in Fields :
    \/ <<d, f>> \in refused
    \/ /\ \A i \in 1 .. stored[d] :
            LastOf(d, f, i, stored[d]) => writes[d][i].value = latest[d][f]
       /\ Pending(d, f) = {} => saved[d][f] = latest[d][f]

(* The server shows the last of the writes it has applied: the answer that *)
(* takes the only pending write of a field off the queue leaves its value. *)
AppliedShown ==
  \A d \in Devices, f \in Fields : \A i \in 1 .. applied[d] :
    LastOf(d, f, i, applied[d]) => saved[d][f] = writes[d][i].value

LatestInv == LastPending /\ AppliedShown

LEMMA InitLatest == Init => LatestInv
<1> SUFFICES ASSUME Init PROVE LatestInv
  OBVIOUS
<1>1. \A d \in Devices : stored[d] = 0 /\ applied[d] = 0 /\ latest[d] = saved[d]
  BY DEF Init, PipelineInit
<1> QED BY <1>1 DEF LatestInv, LastPending, AppliedShown

(* A step that leaves the queue of a device, its values and what was       *)
(* refused alone, keeps the two parts for this device.                     *)
LEMMA LatestKept ==
  ASSUME TypeOK, LatestInv, NEW c \in Devices, NEW f \in Fields,
         stored'[c] = stored[c], applied'[c] \in {0, applied[c]},
         \A i \in 1 .. stored[c] : writes'[c][i] = writes[c][i],
         saved'[c] = saved[c], latest'[c] = latest[c], refused \subseteq refused'
  PROVE  /\ \/ <<c, f>> \in refused'
            \/ /\ \A i \in 1 .. stored'[c] :
                    LastOf(c, f, i, stored[c])' => writes'[c][i].value = latest'[c][f]
               /\ Pending(c, f)' = {} => saved'[c][f] = latest'[c][f]
         /\ \A i \in 1 .. applied'[c] :
              LastOf(c, f, i, applied[c])' => saved'[c][f] = writes'[c][i].value
<1>1. applied[c] \in Nat /\ stored[c] \in Nat /\ applied[c] <= stored[c]
  BY DEF TypeOK, PipelineTypeOK
<1>2. Pending(c, f)' = Pending(c, f)
  BY DEF Pending
<1>3. ASSUME NEW i \in 1 .. stored[c], LastOf(c, f, i, stored[c])'
      PROVE  LastOf(c, f, i, stored[c])
  BY <1>3 DEF LastOf
<1>4. ASSUME NEW i \in 1 .. applied'[c], LastOf(c, f, i, applied[c])'
      PROVE  saved'[c][f] = writes'[c][i].value
  <2>1. i \in 1 .. applied[c] /\ applied'[c] = applied[c] /\ i \in 1 .. stored[c]
    BY <1>1
  <2>2. \A j \in 1 .. applied[c] : writes'[c][j] = writes[c][j]
    BY <1>1
  <2>3. LastOf(c, f, i, applied[c])
    BY <1>4, <2>1, <2>2 DEF LastOf
  <2> QED BY <2>1, <2>2, <2>3 DEF LatestInv, AppliedShown
<1> QED BY <1>2, <1>3, <1>4 DEF LatestInv, LastPending

(* Persisting a write makes it the last pending write of its field.        *)
LEMMA PersistLatest ==
  ASSUME TypeOK, LatestInv, NEW d \in Devices, Persist(d), NEW f \in Fields
  PROVE  /\ \/ <<d, f>> \in refused'
            \/ /\ \A i \in 1 .. stored'[d] :
                    LastOf(d, f, i, stored[d])' => writes'[d][i].value = latest'[d][f]
               /\ Pending(d, f)' = {} => saved'[d][f] = latest'[d][f]
         /\ \A i \in 1 .. applied'[d] :
              LastOf(d, f, i, applied[d])' => saved'[d][f] = writes'[d][i].value
<1> DEFINE n == stored[d] + 1
           m == writes[d][n]
<1>1. /\ stored[d] \in Nat /\ stored'[d] = n /\ writes' = writes /\ applied' = applied
      /\ saved' = saved /\ refused' = refused
      /\ n \in 1 .. Len(writes[d])
  BY DEF TypeOK, PipelineTypeOK, Persist, WriteLocally
<1>2. m \in Mutations
  BY <1>1, WriteIsMutation DEF TypeOK
<1>3. latest' = [latest EXCEPT ![d][m.field] = m.value]
  BY DEF Persist
<1>4. latest'[d][f] = IF m.field = f THEN m.value ELSE latest[d][f]
  BY <1>2, <1>3 DEF TypeOK, Mutations
<1> HIDE DEF m
<1>5. \A i \in 1 .. applied'[d] :
        LastOf(d, f, i, applied[d])' => saved'[d][f] = writes'[d][i].value
  BY <1>1 DEF LatestInv, AppliedShown, LastOf
<1>6. CASE m.field = f
  <2>1. n \in 1 .. stored'[d] /\ writes'[d][n].field = f
    BY <1>1, <1>6 DEF m
  <2>2. \A i \in 1 .. stored'[d] : LastOf(d, f, i, stored[d])' => i = n
    BY <1>1, <2>1 DEF LastOf
  <2>3. Pending(d, f)' # {}
    BY <2>1 DEF Pending
  <2>4. writes'[d][n].value = latest'[d][f]
    BY <1>1, <1>4, <1>6 DEF m
  <2> QED BY <1>5, <2>2, <2>3, <2>4
<1>7. CASE m.field # f
  <2>1. \A i \in 1 .. stored'[d] :
          LastOf(d, f, i, stored[d])' => i \in 1 .. stored[d] /\ LastOf(d, f, i, stored[d])
    BY <1>1, <1>7 DEF LastOf, m
  <2>2. Pending(d, f)' = Pending(d, f)
    BY <1>1, <1>7 DEF Pending, m
  <2> QED BY <1>1, <1>4, <1>5, <1>7, <2>1, <2>2 DEF LatestInv, LastPending
<1> QED BY <1>6, <1>7

(* The server applies a pending write: for its field one is pending still. *)
LEMMA AppliesLatest ==
  ASSUME TypeOK, LatestInv, NEW d \in Devices, ServerApplies(d), NEW f \in Fields
  PROVE  /\ \/ <<d, f>> \in refused'
            \/ /\ \A i \in 1 .. stored'[d] :
                    LastOf(d, f, i, stored[d])' => writes'[d][i].value = latest'[d][f]
               /\ Pending(d, f)' = {} => saved'[d][f] = latest'[d][f]
         /\ \A i \in 1 .. applied'[d] :
              LastOf(d, f, i, applied[d])' => saved'[d][f] = writes'[d][i].value
<1> DEFINE n == applied[d] + 1
           m == writes[d][n]
<1>1. /\ applied[d] \in Nat /\ applied'[d] = n /\ writes' = writes /\ stored' = stored
      /\ latest' = latest /\ refused' = refused
      /\ n \in 1 .. stored[d] /\ n \in 1 .. Len(writes[d])
  BY DEF TypeOK, PipelineTypeOK, ServerApplies, ApplyAtServer, historyVars
<1>2. m \in Mutations
  BY <1>1, WriteIsMutation DEF TypeOK
<1>3. saved' = [saved EXCEPT ![d][m.field] = m.value]
  BY DEF ServerApplies, NextToApply
<1>4. saved'[d][f] = IF m.field = f THEN m.value ELSE saved[d][f]
  BY <1>2, <1>3 DEF TypeOK, Mutations
<1> HIDE DEF m
<1>5. Pending(d, f)' = Pending(d, f)
  BY <1>1 DEF Pending
<1>6. \A i \in 1 .. stored'[d] :
        LastOf(d, f, i, stored[d])' => LastOf(d, f, i, stored[d])
  BY <1>1 DEF LastOf
<1>7. m.field = f => n \in Pending(d, f)
  BY <1>1 DEF Pending, m
<1>8. \/ <<d, f>> \in refused'
      \/ /\ \A i \in 1 .. stored'[d] :
               LastOf(d, f, i, stored[d])' => writes'[d][i].value = latest'[d][f]
         /\ Pending(d, f)' = {} => saved'[d][f] = latest'[d][f]
  BY <1>1, <1>4, <1>5, <1>6, <1>7 DEF LatestInv, LastPending
<1>9. ASSUME NEW i \in 1 .. applied'[d], LastOf(d, f, i, applied[d])'
      PROVE  saved'[d][f] = writes'[d][i].value
  <2>1. CASE m.field = f
    <3>1. i = n
      BY <1>1, <1>9, <2>1 DEF LastOf, m
    <3> QED BY <3>1, <1>1, <1>4, <2>1 DEF m
  <2>2. CASE m.field # f
    <3>1. i \in 1 .. applied[d] /\ LastOf(d, f, i, applied[d])
      BY <1>1, <1>9, <2>2 DEF LastOf, m
    <3> QED BY <3>1, <1>1, <1>4, <2>2 DEF LatestInv, AppliedShown
  <2> QED BY <2>1, <2>2
<1> QED BY <1>8, <1>9

(* When the first write leaves the queue, the last one of a field is the   *)
(* same, one position further to the front.                                *)
LEMMA ShiftLast ==
  ASSUME NEW d \in Devices, NEW f \in Fields, NEW n \in Nat, 1 <= n,
         \A k \in 1 .. n - 1 : writes'[d][k] = writes[d][k + 1],
         NEW i \in 1 .. n - 1, LastOf(d, f, i, n - 1)'
  PROVE  LastOf(d, f, i + 1, n)
<1>1. ASSUME NEW j \in 1 .. n, writes[d][j].field = f
      PROVE  j <= i + 1
  <2>1. CASE j = 1
    BY <2>1
  <2>2. CASE j # 1
    <3>1. j - 1 \in 1 .. n - 1 /\ (j - 1) + 1 = j
      BY <2>2
    <3>2. writes'[d][j - 1].field = f
      BY <3>1, <1>1
    <3> QED BY <3>1, <3>2 DEF LastOf
  <2> QED BY <2>1, <2>2
<1> QED BY <1>1 DEF LastOf

(* An answer takes the first write off the queue.  If no other one of its  *)
(* field is pending, the server has its value.                             *)
LEMMA AcknowledgeLatest ==
  ASSUME TypeOK, LatestInv, NEW d \in Devices, Acknowledge(d), NEW f \in Fields
  PROVE  /\ \/ <<d, f>> \in refused'
            \/ /\ \A i \in 1 .. stored'[d] :
                    LastOf(d, f, i, stored[d])' => writes'[d][i].value = latest'[d][f]
               /\ Pending(d, f)' = {} => saved'[d][f] = latest'[d][f]
         /\ \A i \in 1 .. applied'[d] :
              LastOf(d, f, i, applied[d])' => saved'[d][f] = writes'[d][i].value
<1>1. /\ stored[d] \in Nat /\ stored'[d] = stored[d] - 1
      /\ applied[d] \in Nat /\ applied'[d] = applied[d] - 1
      /\ 1 <= applied[d] /\ applied[d] <= stored[d] /\ stored[d] <= Len(writes[d])
      /\ saved' = saved /\ latest' = latest /\ refused' = refused
  BY DEF TypeOK, PipelineTypeOK, Acknowledge, HandleSuccessfulWrite, historyVars
<1>2. /\ Len(writes'[d]) = Len(writes[d]) - 1
      /\ \A i \in 1 .. Len(writes'[d]) : writes'[d][i] = writes[d][i + 1]
  BY HandleSuccessfulWriteStep DEF TypeOK, Acknowledge
<1>3. \A i \in 1 .. stored'[d] : writes'[d][i] = writes[d][i + 1]
  BY <1>1, <1>2, LenProperties DEF TypeOK, PipelineTypeOK
<1>4. ASSUME NEW n \in Nat, 1 <= n, n <= stored[d],
             NEW i \in 1 .. n - 1, LastOf(d, f, i, n - 1)'
      PROVE  LastOf(d, f, i + 1, n)
  <2>1. \A k \in 1 .. n - 1 : writes'[d][k] = writes[d][k + 1]
    BY <1>1, <1>3, <1>4
  <2> QED BY <2>1, <1>4, ShiftLast
<1>5. ASSUME NEW i \in 1 .. stored'[d], LastOf(d, f, i, stored[d])'
      PROVE  <<d, f>> \in refused' \/ writes'[d][i].value = latest'[d][f]
  <2>1. LastOf(d, f, i + 1, stored[d]) /\ i + 1 \in 1 .. stored[d]
    BY <1>1, <1>4, <1>5
  <2> QED BY <2>1, <1>1, <1>3 DEF LatestInv, LastPending
<1>6. ASSUME Pending(d, f)' = {}
      PROVE  <<d, f>> \in refused' \/ saved'[d][f] = latest'[d][f]
  <2>1. ASSUME NEW j \in 1 .. stored[d], writes[d][j].field = f
        PROVE  j = 1
    <3>1. CASE j # 1
      <4>1. j - 1 \in 1 .. stored'[d] /\ writes'[d][j - 1] = writes[d][j]
        BY <1>1, <1>3, <3>1
      <4> QED BY <4>1, <2>1, <1>6 DEF Pending
    <3> QED BY <3>1
  <2>2. CASE writes[d][1].field = f
    <3>1. LastOf(d, f, 1, stored[d]) /\ LastOf(d, f, 1, applied[d])
      BY <1>1, <2>1, <2>2 DEF LastOf
    <3> QED BY <3>1, <1>1 DEF LatestInv, LastPending, AppliedShown
  <2>3. CASE writes[d][1].field # f
    <3>1. Pending(d, f) = {}
      BY <2>1, <2>3 DEF Pending
    <3> QED BY <3>1, <1>1 DEF LatestInv, LastPending
  <2> QED BY <2>2, <2>3
<1>7. ASSUME NEW i \in 1 .. applied'[d], LastOf(d, f, i, applied[d])'
      PROVE  saved'[d][f] = writes'[d][i].value
  <2>1. LastOf(d, f, i + 1, applied[d]) /\ i + 1 \in 1 .. applied[d] /\ i \in 1 .. stored'[d]
    BY <1>1, <1>4, <1>7
  <2> QED BY <2>1, <1>1, <1>3 DEF LatestInv, AppliedShown
<1> QED BY <1>5, <1>6, <1>7

(* A refused write leaves the queue unanswered: its field is given up, the *)
(* other fields do not notice.                                             *)
LEMMA RefuseLatest ==
  ASSUME TypeOK, LatestInv, NEW d \in Devices, Refuse(d), NEW f \in Fields
  PROVE  /\ \/ <<d, f>> \in refused'
            \/ /\ \A i \in 1 .. stored'[d] :
                    LastOf(d, f, i, stored[d])' => writes'[d][i].value = latest'[d][f]
               /\ Pending(d, f)' = {} => saved'[d][f] = latest'[d][f]
         /\ \A i \in 1 .. applied'[d] :
              LastOf(d, f, i, applied[d])' => saved'[d][f] = writes'[d][i].value
<1>1. /\ stored[d] \in Nat /\ stored'[d] = stored[d] - 1
      /\ applied'[d] = 0 /\ 1 <= stored[d] /\ stored[d] <= Len(writes[d])
      /\ saved' = saved /\ latest' = latest
      /\ refused' = refused \cup {<<d, Head(writes[d]).field>>}
  BY DEF TypeOK, PipelineTypeOK, Refuse, HandleRejectedWrite
<1>2. /\ Len(writes'[d]) = Len(writes[d]) - 1
      /\ \A i \in 1 .. Len(writes'[d]) : writes'[d][i] = writes[d][i + 1]
      /\ Head(writes[d]) = writes[d][1]
  BY HandleRejectedWriteStep DEF TypeOK, Refuse
<1>3. \A i \in 1 .. stored[d] - 1 : writes'[d][i] = writes[d][i + 1]
  BY <1>1, <1>2, LenProperties DEF TypeOK, PipelineTypeOK
<1>4. CASE writes[d][1].field = f
  BY <1>1, <1>2, <1>4
<1>5. CASE writes[d][1].field # f
  <2>1. ASSUME NEW i \in 1 .. stored'[d], LastOf(d, f, i, stored[d])'
        PROVE  <<d, f>> \in refused' \/ writes'[d][i].value = latest'[d][f]
    <3>0. ASSUME NEW n \in Nat, n = stored[d]
          PROVE  LastOf(d, f, i + 1, n) /\ i + 1 \in 1 .. n
      <4>1. i \in 1 .. n - 1 /\ LastOf(d, f, i, n - 1)'
        BY <1>1, <2>1, <3>0 DEF LastOf
      <4>2. 1 <= n /\ \A k \in 1 .. n - 1 : writes'[d][k] = writes[d][k + 1]
        BY <1>1, <1>3, <3>0
      <4>3. LastOf(d, f, i + 1, n)
        BY <4>1, <4>2, <3>0, ShiftLast
      <4> QED BY <4>1, <4>3
    <3>1. LastOf(d, f, i + 1, stored[d]) /\ i + 1 \in 1 .. stored[d]
      BY <1>1, <3>0
    <3> QED BY <3>1, <1>1, <1>3 DEF LatestInv, LastPending
  <2>2. ASSUME Pending(d, f)' = {}
        PROVE  Pending(d, f) = {}
    <3>1. ASSUME NEW j \in 1 .. stored[d], writes[d][j].field = f
          PROVE  FALSE
      <4>1. j - 1 \in 1 .. stored'[d] /\ writes'[d][j - 1] = writes[d][j]
        BY <1>1, <1>3, <1>5, <3>1
      <4> QED BY <4>1, <3>1, <2>2 DEF Pending
    <3> QED BY <3>1 DEF Pending
  <2> QED BY <2>1, <2>2, <1>1 DEF LatestInv, LastPending
<1> QED BY <1>4, <1>5

LEMMA NextLatest == TypeOK /\ LatestInv /\ [Next]_vars => LatestInv'
<1> SUFFICES ASSUME TypeOK, LatestInv, [Next]_vars,
                    NEW c \in Devices, NEW f \in Fields
             PROVE  /\ \/ <<c, f>> \in refused'
                       \/ /\ \A i \in 1 .. stored'[c] :
                               LastOf(c, f, i, stored[c])' =>
                                 writes'[c][i].value = latest'[c][f]
                          /\ Pending(c, f)' = {} => saved'[c][f] = latest'[c][f]
                    /\ \A i \in 1 .. applied'[c] :
                         LastOf(c, f, i, applied[c])' => saved'[c][f] = writes'[c][i].value
  BY DEF LatestInv, LastPending, AppliedShown
<1>1. PipelineTypeOK(Mutations)
  BY DEF TypeOK
<1> DEFINE Untouched == /\ stored'[c] = stored[c] /\ applied'[c] \in {0, applied[c]}
                        /\ \A i \in 1 .. stored[c] : writes'[c][i] = writes[c][i]
                        /\ saved'[c] = saved[c] /\ latest'[c] = latest[c]
                        /\ refused \subseteq refused'
<1>2. CASE Untouched
  BY <1>2, LatestKept
<1>3. ASSUME UNCHANGED <<pipelineVars, saved, latest, refused>>
      PROVE  Untouched
  BY <1>3 DEF pipelineVars
<1>4. ASSUME NEW d \in Devices, CompleteButton(d)
      PROVE  Untouched
  <2>1. /\ \A i \in 1 .. Len(writes[d]) : writes'[d][i] = writes[d][i]
        /\ \A b \in Devices : b # d => writes'[b] = writes[b]
    BY <1>1, <1>4, CompleteWritesType, WriteMutationsStep DEF CompleteButton
  <2>2. stored[d] \in Nat /\ Len(writes[d]) \in Nat /\ stored[d] <= Len(writes[d])
    BY <1>1, LenProperties DEF PipelineTypeOK
  <2>3. \A i \in 1 .. stored[c] : writes'[c][i] = writes[c][i]
    BY <2>1, <2>2
  <2> QED BY <2>3, <1>4 DEF CompleteButton, WriteMutations
<1>5. ASSUME NEW d \in Devices, Persist(d), c # d
      PROVE  Untouched
  <2>1. latest'[c] = latest[c] /\ stored'[c] = stored[c]
    BY <1>5 DEF Persist, WriteLocally, TypeOK, PipelineTypeOK
  <2> QED BY <1>5, <2>1 DEF Persist, WriteLocally
<1>6. ASSUME NEW d \in Devices, ServerApplies(d), c # d
      PROVE  Untouched
  <2>1. saved'[c] = saved[c] /\ applied'[c] = applied[c]
    BY <1>6 DEF ServerApplies, ApplyAtServer, TypeOK, PipelineTypeOK
  <2> QED BY <1>6, <2>1 DEF ServerApplies, ApplyAtServer, historyVars
<1>7. ASSUME NEW d \in Devices, Acknowledge(d), c # d
      PROVE  Untouched
  <2>1. writes'[c] = writes[c] /\ stored'[c] = stored[c] /\ applied'[c] = applied[c]
    BY <1>7 DEF Acknowledge, HandleSuccessfulWrite, TypeOK, PipelineTypeOK
  <2> QED BY <1>7, <2>1 DEF Acknowledge, historyVars
<1>8. ASSUME NEW d \in Devices, Refuse(d), c # d
      PROVE  Untouched
  <2>1. writes'[c] = writes[c] /\ stored'[c] = stored[c] /\ applied'[c] = applied[c]
    BY <1>8 DEF Refuse, HandleRejectedWrite, TypeOK, PipelineTypeOK
  <2> QED BY <1>8, <2>1 DEF Refuse
<1>9. ASSUME NEW d \in Devices, StreamBreaks(d)
      PROVE  Untouched
  <2>1. applied'[c] \in {0, applied[c]}
    BY <1>9 DEF StreamBreaks, OnWriteStreamClose, TypeOK, PipelineTypeOK
  <2> QED BY <1>9, <2>1 DEF StreamBreaks, OnWriteStreamClose, historyVars
<1>10. ASSUME NEW d \in Devices, Relaunch(d)
       PROVE  Untouched
  <2>1. applied'[c] \in {0, applied[c]} /\ stored'[c] = stored[c]
    BY <1>10 DEF Relaunch, Restart, TypeOK, PipelineTypeOK
  <2>2. \A i \in 1 .. stored[c] : writes'[c][i] = writes[c][i]
    BY <1>1, <1>10, RestartStep DEF Relaunch
  <2> QED BY <1>10, <2>1, <2>2 DEF Relaunch, historyVars
<1>11. ASSUME NEW d \in Devices, NEW g \in Fields,
              \/ ViewDidLoad(d) \/ GetDocumentAnswers(d, g) \/ GetDocumentFails(d, g)
              \/ DisplayData(d, g) \/ \E v \in Texts : Type(d, g, v)
       PROVE  Untouched
  BY <1>3, <1>11 DEF ViewDidLoad, GetDocumentAnswers, GetDocumentFails, DisplayData, Type,
     historyVars
<1>12. CASE UNCHANGED vars
  BY <1>2, <1>3, <1>12 DEF vars, pipelineVars
<1>13. CASE AllUsed
  BY <1>12, <1>13 DEF AllUsed
<1> HIDE DEF Untouched
<1>14. ASSUME NEW d \in Devices, ViewDidLoad(d)
       PROVE  Untouched
  BY <1>11, <1>14 DEF Fields
<1> QED
  BY <1>2, <1>4, <1>5, <1>6, <1>7, <1>8, <1>9, <1>10, <1>11, <1>12, <1>13, <1>14,
     PersistLatest, AppliesLatest, AcknowledgeLatest, RefuseLatest DEF Next

(* A read of the device returns, unless a write of the field was refused,  *)
(* the value the device persisted last.                                    *)
THEOREM ReadsOwnWrites == Spec => []ReadYourWrites
<1>1. TypeOK /\ LatestInv => ReadYourWrites
  <2> SUFFICES ASSUME TypeOK, LatestInv, NEW d \in Devices, NEW f \in Fields
               PROVE  <<d, f>> \in refused \/ View(d, f) = latest[d][f]
    BY DEF ReadYourWrites
  <2>1. stored[d] \in Nat
    BY DEF TypeOK, PipelineTypeOK
  <2>2. CASE Pending(d, f) = {}
    BY <2>2, ViewCases DEF LatestInv, LastPending
  <2>3. CASE Pending(d, f) # {}
    <3>1. PICK i \in Pending(d, f) : /\ \A j \in Pending(d, f) : j <= i
                                     /\ View(d, f) = writes[d][i].value
      BY <2>3, ViewCases
    <3>2. i \in 1 .. stored[d] /\ LastOf(d, f, i, stored[d])
      BY <3>1 DEF Pending, LastOf
    <3> QED BY <3>1, <3>2 DEF LatestInv, LastPending
  <2> QED BY <2>2, <2>3
<1> QED BY <1>1, InitType, NextType, InitLatest, NextLatest, PTL DEF Spec
----------------------------------------------------------------------------
----------------------------------------------------------------------------
(* GroupNumberLossExplained, and why a step keeps it.  A device whose user *)
(* did none of what explains a loss is in a safe state: once a number has  *)
(* been entered, no blank one is written behind it, shown or on its way to *)
(* a form that does not show the field yet.                                *)
G == "groupNumber"

Given(d, i) == writes[d][i].field = G /\ writes[d][i].value # Blank
Wiped(d, i) == writes[d][i].field = G /\ writes[d][i].value = Blank
Entered(d)  == d \in numbered \/ \E i \in 1 .. Len(writes[d]) : Given(d, i)

Excused(d) == d \in cleared \cup early \cup replaced \/ <<d, G>> \in refused

(* The queue: no blank number behind another one.                          *)
InOrder(d) ==
  \A i, j \in 1 .. Len(writes[d]) : Given(d, i) /\ Wiped(d, j) => j < i

(* A number the document has had is there and will not be overwritten by a *)
(* blank one, or one is persisted, behind every blank one.                 *)
StillThere(d) ==
  d \in numbered =>
    \/ NumberQueued(d)
    \/ Numbered(d) /\ \A i \in 1 .. Len(writes[d]) : ~Wiped(d, i)

(* The server shows the numbers it has applied.                            *)
GivenApplied(d) == (\E i \in 1 .. applied[d] : Given(d, i)) => Numbered(d)

(* The form: once the field has been shown or typed it holds the number; a *)
(* blank answer is there before the first number was typed only; a read is *)
(* behind all writes until the field has been shown.                       *)
FieldHolds(d) == Entered(d) /\ G \in shown[d] => text[d][G] # Blank
ReadHolds(d)  == Entered(d) /\ read[d][G] = Answered(Blank) => G \in shown[d]
ReadInTurn(d) ==
  read[d][G].state = "asked" /\ G \notin shown[d] => read[d][G] = Asked(Ahead(d))

NumberSafe(d) ==
  /\ InOrder(d) /\ StillThere(d) /\ GivenApplied(d)
  /\ FieldHolds(d) /\ ReadHolds(d) /\ ReadInTurn(d)

NumbersKnown == \A d \in Devices : Numbered(d) => d \in numbered

NumberInv == NumbersKnown /\ \A d \in Devices : Excused(d) \/ NumberSafe(d)

(* The sizes of a queue, and what its parts are.                           *)
LEMMA Queue ==
  ASSUME TypeOK, NEW d \in Devices
  PROVE  /\ Len(writes[d]) \in Nat /\ stored[d] \in Nat /\ applied[d] \in Nat
         /\ applied[d] <= stored[d] /\ stored[d] <= Len(writes[d])
         /\ PipelineTypeOK(Mutations) /\ G \in Fields
         /\ saved[d][G] \in Texts /\ text[d][G] \in Texts /\ read[d][G] \in Reads
         /\ \A i \in 1 .. Len(writes[d]) : writes[d][i] \in Mutations
BY LenProperties, WriteIsMutation DEF TypeOK, PipelineTypeOK, G, Fields

LEMMA NumberQueuedIs ==
  ASSUME NEW d \in Devices
  PROVE  /\ NumberQueued(d) <=> \E i \in 1 .. stored[d] : Given(d, i)
         /\ NumberQueued(d)' <=> \E i \in 1 .. stored'[d] : Given(d, i)'
BY DEF NumberQueued, Given, G

LEMMA InitNumber == Init => NumberInv
<1> SUFFICES ASSUME Init PROVE NumberInv
  OBVIOUS
<1>1. numbered = {d \in Devices : Numbered(d)}
  BY DEF Init
<1>2. ASSUME NEW d \in Devices
      PROVE  NumberSafe(d)
  <2>1. /\ Len(writes[d]) = 0 /\ applied[d] = 0 /\ shown[d] = {}
        /\ read[d][G] = NoRead
    BY DEF Init, PipelineInit, G, Fields
  <2>2. read[d][G] # Answered(Blank) /\ read[d][G].state # "asked"
    BY <2>1 DEF NoRead, Answered
  <2>3. d \in numbered => Numbered(d)
    BY <1>1
  <2> QED BY <2>1, <2>2, <2>3 DEF NumberSafe, InOrder, StillThere, GivenApplied,
             FieldHolds, ReadHolds, ReadInTurn
<1> QED BY <1>1, <1>2 DEF NumberInv, NumbersKnown
----------------------------------------------------------------------------
(* What a device shares with none of the others.                           *)
Same(c) ==
  /\ writes'[c] = writes[c] /\ stored'[c] = stored[c] /\ applied'[c] = applied[c]
  /\ saved'[c] = saved[c] /\ text'[c] = text[c] /\ read'[c] = read[c]
  /\ shown'[c] = shown[c] /\ (c \in numbered' <=> c \in numbered)

LEMMA SameIsSafe ==
  ASSUME NEW c \in Devices, Same(c), NumberSafe(c)
  PROVE  NumberSafe(c)'
<1>1. \A i : Given(c, i)' = Given(c, i) /\ Wiped(c, i)' = Wiped(c, i)
  BY DEF Same, Given, Wiped
<1>2. Entered(c)' <=> Entered(c)
  BY <1>1 DEF Same, Entered
<1>3. InOrder(c)' /\ GivenApplied(c)'
  BY <1>1 DEF Same, NumberSafe, InOrder, GivenApplied, Numbered
<1>4. StillThere(c)'
  BY <1>1, NumberQueuedIs DEF Same, NumberSafe, StillThere, Numbered
<1>5. FieldHolds(c)' /\ ReadHolds(c)' /\ ReadInTurn(c)'
  BY <1>2 DEF Same, NumberSafe, FieldHolds, ReadHolds, ReadInTurn, Ahead
<1> QED BY <1>3, <1>4, <1>5 DEF NumberSafe

(* A step that only concerns the form of a device leaves its queue, the    *)
(* document and what has been entered alone.                               *)
FormOnly == UNCHANGED <<pipelineVars, saved, numbered>>

LEMMA FormOnlyIsSafe ==
  ASSUME NEW d \in Devices, FormOnly, NumberSafe(d),
         FieldHolds(d)', ReadHolds(d)', ReadInTurn(d)'
  PROVE  NumberSafe(d)'
<1>1. \A i : Given(d, i)' = Given(d, i) /\ Wiped(d, i)' = Wiped(d, i)
  BY DEF FormOnly, pipelineVars, Given, Wiped
<1>2. InOrder(d)' /\ GivenApplied(d)'
  BY <1>1 DEF FormOnly, pipelineVars, NumberSafe, InOrder, GivenApplied, Numbered
<1>3. StillThere(d)'
  BY <1>1, NumberQueuedIs DEF FormOnly, pipelineVars, NumberSafe, StillThere, Numbered
<1> QED BY <1>2, <1>3 DEF NumberSafe

LEMMA EnteredKept ==
  ASSUME NEW d \in Devices, FormOnly
  PROVE  Entered(d)' <=> Entered(d)
BY DEF FormOnly, pipelineVars, Entered, Given
----------------------------------------------------------------------------
(* The steps of the form.                                                  *)
LEMMA ViewDidLoadSafe ==
  ASSUME TypeOK, NEW d \in Devices, NumberSafe(d), ViewDidLoad(d)
  PROVE  NumberSafe(d)'
<1>1. /\ FormOnly /\ shown'[d] = {}
      /\ read'[d][G] = Asked(Ahead(d)) /\ Ahead(d)' = Ahead(d)
  BY Queue DEF ViewDidLoad, FormOnly, historyVars, pipelineVars, TypeOK, Ahead
<1>2. read'[d][G] # Answered(Blank)
  BY <1>1 DEF Asked, Answered
<1> QED BY <1>1, <1>2, FormOnlyIsSafe DEF FieldHolds, ReadHolds, ReadInTurn

(* A blank answer means that the document has no number and none is        *)
(* persisted; if none waits in memory either, none has been entered.       *)
LEMMA BlankView ==
  ASSUME TypeOK, NEW d \in Devices, NumberSafe(d), Entered(d), Ahead(d) = 0
  PROVE  View(d, G) # Blank
<1>1. /\ stored[d] = Len(writes[d]) /\ stored[d] \in Nat /\ G \in Fields
  BY Queue DEF Ahead
<1>2. CASE Pending(d, G) = {}
  <2>1. View(d, G) = saved[d][G]
    BY <1>1, <1>2, ViewCases
  <2>2. \A i \in 1 .. stored[d] : ~Given(d, i)
    BY <1>2 DEF Pending, Given
  <2>3. d \in numbered /\ ~NumberQueued(d)
    BY <1>1, <2>2, NumberQueuedIs DEF Entered
  <2> QED BY <2>1, <2>3 DEF NumberSafe, StillThere, Numbered, G
<1>3. CASE Pending(d, G) # {}
  <2>1. PICK m \in Pending(d, G) : /\ \A j \in Pending(d, G) : j <= m
                                   /\ View(d, G) = writes[d][m].value
    BY <1>1, <1>3, ViewCases
  <2>2. SUFFICES ASSUME Wiped(d, m) PROVE FALSE
    BY <2>1 DEF Pending, Wiped
  <2>3. m \in 1 .. Len(writes[d])
    BY <1>1 DEF Pending
  <2>4. \E i \in 1 .. Len(writes[d]) : Given(d, i)
    <3>1. CASE d \in numbered
      BY <1>1, <2>2, <2>3, <3>1, NumberQueuedIs DEF NumberSafe, StillThere
    <3>2. CASE d \notin numbered
      BY <3>2 DEF Entered
    <3> QED BY <3>1, <3>2
  <2>5. PICK i \in 1 .. Len(writes[d]) : Given(d, i)
    BY <2>4
  <2>6. i <= m
    BY <1>1, <2>1, <2>5 DEF Pending, Given
  <2>7. m < i
    BY <2>2, <2>3, <2>5 DEF NumberSafe, InOrder
  <2> QED BY <1>1, <2>3, <2>6, <2>7
<1> QED BY <1>2, <1>3

LEMMA AnswersSafe ==
  ASSUME TypeOK, NEW d \in Devices, NumberSafe(d), NEW f \in Fields, GetDocumentAnswers(d, f)
  PROVE  NumberSafe(d)'
<1>1. FormOnly /\ shown' = shown /\ text' = text /\ Ahead(d)' = Ahead(d)
  BY DEF GetDocumentAnswers, FormOnly, historyVars, pipelineVars, Ahead
<1>2. FieldHolds(d)'
  BY <1>1, EnteredKept DEF NumberSafe, FieldHolds
<1>3. CASE f = G
  <2>1. read'[d][G] = Answered(View(d, G)) /\ read[d][G] = Asked(0)
    BY <1>3 DEF GetDocumentAnswers, TypeOK
  <2>2. ReadInTurn(d)'
    BY <2>1 DEF ReadInTurn, Answered
  <2>3. ReadHolds(d)'
    <3> SUFFICES ASSUME Entered(d), Answered(View(d, G)) = Answered(Blank), G \notin shown[d]
                 PROVE  FALSE
      BY <1>1, <2>1, EnteredKept DEF ReadHolds
    <3>1. Asked(0) = Asked(Ahead(d))
      BY <2>1 DEF NumberSafe, ReadInTurn, Asked
    <3>2. Ahead(d) = 0 /\ View(d, G) = Blank
      BY <3>1 DEF Asked, Answered
    <3> QED BY <3>2, BlankView
  <2> QED BY <1>1, <1>2, <2>2, <2>3, FormOnlyIsSafe
<1>4. CASE f # G
  <2>1. read'[d][G] = read[d][G]
    BY <1>4, Queue DEF GetDocumentAnswers, TypeOK
  <2>2. ReadHolds(d)' /\ ReadInTurn(d)'
    BY <1>1, <2>1, EnteredKept DEF NumberSafe, ReadHolds, ReadInTurn
  <2> QED BY <1>1, <1>2, <2>2, FormOnlyIsSafe
<1> QED BY <1>3, <1>4

LEMMA FailsSafe ==
  ASSUME TypeOK, NEW d \in Devices, NumberSafe(d), NEW f \in Fields, GetDocumentFails(d, f)
  PROVE  NumberSafe(d)'
<1>1. FormOnly /\ shown' = shown /\ text' = text /\ Ahead(d)' = Ahead(d)
  BY DEF GetDocumentFails, FormOnly, historyVars, pipelineVars, Ahead
<1>2. read'[d][G] \in {read[d][G], NoRead}
  BY Queue DEF GetDocumentFails, TypeOK
<1>3. NoRead # Answered(Blank) /\ NoRead.state # "asked"
  BY DEF NoRead, Answered
<1>4. FieldHolds(d)' /\ ReadHolds(d)' /\ ReadInTurn(d)'
  BY <1>1, <1>2, <1>3, EnteredKept DEF NumberSafe, FieldHolds, ReadHolds, ReadInTurn
<1> QED BY <1>1, <1>4, FormOnlyIsSafe

(* An answer that replaces another text is one of the reasons of a loss;   *)
(* the first one is blank only where no number has been entered.           *)
LEMMA DisplaySafe ==
  ASSUME TypeOK, NEW d \in Devices, NumberSafe(d), NEW f \in Fields, DisplayData(d, f),
         ~Excused(d)'
  PROVE  NumberSafe(d)'
<1>1. FormOnly /\ Ahead(d)' = Ahead(d)
  BY DEF DisplayData, FormOnly, pipelineVars, Ahead
<1>2. CASE f = G
  <2>1. /\ read[d][G].state = "answered"
        /\ text'[d][G] = read[d][G].value
        /\ read'[d][G] = NoRead
    BY <1>2 DEF DisplayData, TypeOK
  <2>2. read[d][G] = Answered(read[d][G].value)
    BY <2>1, Queue DEF Reads, NoRead, Answered
  <2>3. G \in shown[d] => text[d][G] = read[d][G].value
    BY <1>2 DEF DisplayData, Excused, G
  <2>4. FieldHolds(d)'
    BY <1>1, <2>1, <2>2, <2>3, EnteredKept DEF NumberSafe, FieldHolds, ReadHolds
  <2>5. ReadHolds(d)' /\ ReadInTurn(d)'
    BY <2>1 DEF ReadHolds, ReadInTurn, NoRead, Answered
  <2> QED BY <1>1, <2>4, <2>5, FormOnlyIsSafe
<1>3. CASE f # G
  <2>1. /\ read'[d][G] = read[d][G] /\ text'[d][G] = text[d][G]
        /\ G \in shown'[d] <=> G \in shown[d]
    BY <1>3, Queue DEF DisplayData, TypeOK
  <2>2. FieldHolds(d)' /\ ReadHolds(d)' /\ ReadInTurn(d)'
    BY <1>1, <2>1, EnteredKept DEF NumberSafe, FieldHolds, ReadHolds, ReadInTurn
  <2> QED BY <1>1, <2>2, FormOnlyIsSafe
<1> QED BY <1>2, <1>3

LEMMA TypeSafe ==
  ASSUME TypeOK, NEW d \in Devices, NumberSafe(d), NEW f \in Fields, NEW v \in Texts,
         Type(d, f, v), ~Excused(d)'
  PROVE  NumberSafe(d)'
<1>1. FormOnly /\ Ahead(d)' = Ahead(d) /\ read' = read
  BY DEF Type, FormOnly, pipelineVars, Ahead
<1>2. CASE f = G
  <2>1. text'[d][G] = v /\ G \in shown'[d] /\ v # Blank
    BY <1>2 DEF Type, TypeOK, Excused, G
  <2>2. FieldHolds(d)' /\ ReadHolds(d)' /\ ReadInTurn(d)'
    BY <2>1 DEF FieldHolds, ReadHolds, ReadInTurn
  <2> QED BY <1>1, <2>2, FormOnlyIsSafe
<1>3. CASE f # G
  <2>1. text'[d][G] = text[d][G] /\ (G \in shown'[d] <=> G \in shown[d])
    BY <1>3, Queue DEF Type, TypeOK
  <2>2. FieldHolds(d)' /\ ReadHolds(d)' /\ ReadInTurn(d)'
    BY <1>1, <2>1, EnteredKept DEF NumberSafe, FieldHolds, ReadHolds, ReadInTurn
  <2> QED BY <1>1, <2>2, FormOnlyIsSafe
<1> QED BY <1>2, <1>3

(* The button, once the field has been shown, writes what it holds, which  *)
(* is blank only where no number has been entered.                         *)
LEMMA CompleteSafe ==
  ASSUME TypeOK, NEW d \in Devices, NumberSafe(d), CompleteButton(d), ~Excused(d)'
  PROVE  NumberSafe(d)'
<1> DEFINE L == Len(writes[d])
           t == text[d][G]
<1>1. /\ G \in shown[d]
      /\ UNCHANGED <<stored, applied, saved, numbered, text, read, shown>>
  BY DEF CompleteButton, WriteMutations, formVars, Excused, G
<1>2. /\ CompleteWrites(d) \in Seq(Mutations)
      /\ \A i \in 1 .. Len(CompleteWrites(d)) :
           CompleteWrites(d)[i].field = G => CompleteWrites(d)[i].value = t
  BY CompleteWritesType DEF G
<1>3. /\ Len(writes'[d]) = L + Len(CompleteWrites(d))
      /\ \A i \in 1 .. L : writes'[d][i] = writes[d][i]
      /\ \A i \in 1 .. Len(CompleteWrites(d)) : writes'[d][L + i] = CompleteWrites(d)[i]
  BY <1>2, Queue, WriteMutationsStep DEF CompleteButton
<1>4. /\ L \in Nat /\ Len(CompleteWrites(d)) \in Nat
      /\ stored[d] \in Nat /\ stored[d] <= L /\ applied[d] \in Nat /\ applied[d] <= L
  BY <1>2, Queue, LenProperties
<1> HIDE DEF L, t
<1>5. \A i \in 1 .. L : Given(d, i)' = Given(d, i) /\ Wiped(d, i)' = Wiped(d, i)
  BY <1>3 DEF Given, Wiped
<1>6. ASSUME NEW i \in 1 .. Len(writes'[d]), ~(i <= L)
      PROVE  (Given(d, i)' => t # Blank) /\ (Wiped(d, i)' => t = Blank)
  <2>1. i - L \in 1 .. Len(CompleteWrites(d)) /\ L + (i - L) = i
    BY <1>3, <1>4, <1>6
  <2>2. writes'[d][i] = CompleteWrites(d)[i - L]
    BY <1>3, <2>1
  <2> QED BY <1>2, <2>1, <2>2 DEF Given, Wiped
<1>7. ASSUME NEW i \in 1 .. Len(writes'[d])
      PROVE  i \in Nat /\ (i <= L => i \in 1 .. L)
  BY <1>3, <1>4
<1>8. Entered(d) => t # Blank
  BY <1>1 DEF NumberSafe, FieldHolds, t
<1>9. InOrder(d)'
  <2> SUFFICES ASSUME NEW i \in 1 .. Len(writes'[d]), NEW j \in 1 .. Len(writes'[d]),
                      Given(d, i)', Wiped(d, j)'
               PROVE  j < i
    BY DEF InOrder
  <2>1. CASE j <= L /\ i <= L
    BY <1>5, <1>7, <2>1 DEF NumberSafe, InOrder, L
  <2>2. CASE j <= L /\ ~(i <= L)
    BY <1>4, <1>7, <2>2
  <2>3. CASE ~(j <= L) /\ i <= L
    <3>1. Entered(d)
      BY <1>5, <1>7, <2>3 DEF Entered, L
    <3> QED BY <1>6, <1>8, <2>3, <3>1
  <2>4. CASE ~(j <= L) /\ ~(i <= L)
    BY <1>6, <2>4
  <2> QED BY <2>1, <2>2, <2>3, <2>4
<1>10. StillThere(d)'
  <2> SUFFICES ASSUME d \in numbered
               PROVE  \/ NumberQueued(d)'
                      \/ Numbered(d)' /\ \A i \in 1 .. Len(writes'[d]) : ~Wiped(d, i)'
    BY <1>1 DEF StillThere
  <2>1. t # Blank
    BY <1>8 DEF Entered
  <2>2. CASE NumberQueued(d)
    <3>1. PICK i \in 1 .. stored[d] : Given(d, i)
      BY <2>2, NumberQueuedIs
    <3>2. i \in 1 .. stored'[d] /\ Given(d, i)'
      BY <1>1, <1>4, <1>5, <3>1
    <3> QED BY <3>2, NumberQueuedIs
  <2>3. CASE Numbered(d) /\ \A i \in 1 .. L : ~Wiped(d, i)
    <3>1. ASSUME NEW i \in 1 .. Len(writes'[d])
          PROVE  ~Wiped(d, i)'
      BY <1>5, <1>6, <1>7, <2>1, <2>3
    <3> QED BY <1>1, <2>3, <3>1 DEF Numbered
  <2> QED BY <2>2, <2>3 DEF NumberSafe, StillThere, L
<1>11. GivenApplied(d)'
  <2>1. \A i \in 1 .. applied[d] : i \in 1 .. L
    BY <1>4
  <2> QED BY <1>1, <1>5, <2>1 DEF NumberSafe, GivenApplied, Numbered
<1>12. FieldHolds(d)'
  <2>1. Entered(d)' => t # Blank
    <3>1. CASE d \in numbered
      BY <1>8, <3>1 DEF Entered
    <3>2. ASSUME NEW i \in 1 .. Len(writes'[d]), Given(d, i)'
          PROVE  t # Blank
      <4>1. CASE i <= L
        BY <1>5, <1>7, <1>8, <3>2, <4>1 DEF Entered, L
      <4> QED BY <1>6, <3>2, <4>1
    <3> QED BY <1>1, <3>1, <3>2 DEF Entered
  <2> QED BY <1>1, <2>1 DEF FieldHolds, t
<1> QED BY <1>1, <1>9, <1>10, <1>11, <1>12 DEF NumberSafe, ReadHolds, ReadInTurn
----------------------------------------------------------------------------
(* The steps of the queue.                                                 *)
LEMMA PersistSafe ==
  ASSUME TypeOK, NEW d \in Devices, NumberSafe(d), Persist(d)
  PROVE  NumberSafe(d)'
<1>1. /\ UNCHANGED <<writes, applied, saved, numbered, text, shown>>
      /\ stored[d] < Len(writes[d]) /\ stored'[d] = stored[d] + 1
      /\ read'[d][G] = MovedUp(read[d][G])
  BY Queue DEF Persist, WriteLocally, TypeOK, PipelineTypeOK
<1>2. \A i : Given(d, i)' = Given(d, i) /\ Wiped(d, i)' = Wiped(d, i)
  BY <1>1 DEF Given, Wiped
<1>3. Entered(d)' <=> Entered(d)
  BY <1>1, <1>2 DEF Entered
<1>4. InOrder(d)' /\ GivenApplied(d)' /\ FieldHolds(d)'
  BY <1>1, <1>2, <1>3 DEF NumberSafe, InOrder, GivenApplied, Numbered, FieldHolds
<1>5. StillThere(d)'
  <2>1. NumberQueued(d) => NumberQueued(d)'
    BY <1>1, <1>2, Queue, NumberQueuedIs
  <2> QED BY <1>1, <1>2, <2>1 DEF NumberSafe, StillThere, Numbered
<1>6. ReadHolds(d)'
  <2>1. MovedUp(read[d][G]) = Answered(Blank) => read[d][G] = Answered(Blank)
    BY DEF MovedUp, Asked, Answered
  <2> QED BY <1>1, <1>3, <2>1 DEF NumberSafe, ReadHolds
<1>7. ReadInTurn(d)'
  <2> SUFFICES ASSUME MovedUp(read[d][G]).state = "asked", G \notin shown[d]
               PROVE  MovedUp(read[d][G]) = Asked(Ahead(d)')
    BY <1>1 DEF ReadInTurn
  <2>1. read[d][G].state = "asked"
    BY DEF MovedUp, Asked
  <2>2. read[d][G] = Asked(Ahead(d))
    BY <2>1 DEF NumberSafe, ReadInTurn
  <2>3. Ahead(d) > 0 /\ Ahead(d)' = Ahead(d) - 1
    BY <1>1, Queue DEF Ahead
  <2>4. read[d][G].ahead = Ahead(d)
    BY <2>2 DEF Asked
  <2> QED BY <2>1, <2>3, <2>4 DEF MovedUp
<1> QED BY <1>4, <1>5, <1>6, <1>7 DEF NumberSafe

(* The document changes: behind a number no blank one is applied, and      *)
(* behind a blank one a number waits, if there has been one.               *)
LEMMA AppliesSafe ==
  ASSUME TypeOK, NumbersKnown, NEW d \in Devices, NumberSafe(d), ServerApplies(d)
  PROVE  NumberSafe(d)'
<1> DEFINE n == applied[d] + 1
<1>1. /\ UNCHANGED <<writes, stored, text, read, shown>>
      /\ applied'[d] = n /\ n \in 1 .. stored[d] /\ n \in 1 .. Len(writes[d])
      /\ d \in numbered' <=> d \in numbered \/ Numbered(d)'
  BY Queue DEF ServerApplies, ApplyAtServer, formVars, TypeOK, PipelineTypeOK
<1>2. saved'[d][G] = IF writes[d][n].field = G THEN writes[d][n].value ELSE saved[d][G]
  <2>1. writes[d][n] \in Mutations
    BY <1>1, Queue
  <2> QED BY <2>1, Queue DEF ServerApplies, NextToApply, TypeOK, Mutations
<1>3. applied[d] \in Nat
  BY Queue
<1> HIDE DEF n
<1>4. \A i : Given(d, i)' = Given(d, i) /\ Wiped(d, i)' = Wiped(d, i)
  BY <1>1 DEF Given, Wiped
<1>5. /\ Given(d, n) => Numbered(d)'
      /\ Wiped(d, n) => ~Numbered(d)'
      /\ ~Given(d, n) /\ ~Wiped(d, n) => (Numbered(d)' <=> Numbered(d))
  BY <1>2 DEF Given, Wiped, Numbered, G
<1>6. Entered(d)' <=> Entered(d)
  <2>1. d \in numbered' => Entered(d)
    BY <1>1, <1>5 DEF NumbersKnown, Entered
  <2> QED BY <1>1, <1>4, <2>1 DEF Entered
<1>7. InOrder(d)' /\ FieldHolds(d)' /\ ReadHolds(d)' /\ ReadInTurn(d)'
  BY <1>1, <1>4, <1>6 DEF NumberSafe, InOrder, FieldHolds, ReadHolds, ReadInTurn, Ahead
<1>8. GivenApplied(d)'
  <2> SUFFICES ASSUME NEW i \in 1 .. n, Given(d, i)
               PROVE  Numbered(d)'
    BY <1>1, <1>4 DEF GivenApplied
  <2>1. CASE Wiped(d, n)
    <3>1. i \in 1 .. Len(writes[d])
      BY <1>1, Queue
    <3>2. n < i
      BY <1>1, <2>1, <3>1 DEF NumberSafe, InOrder
    <3> QED BY <1>1, <3>1, <3>2
  <2>2. CASE ~Given(d, n) /\ ~Wiped(d, n)
    <3>1. i \in 1 .. applied[d]
      BY <1>1, <1>3, <2>2 DEF n
    <3> QED BY <1>5, <2>2, <3>1 DEF NumberSafe, GivenApplied
  <2> QED BY <1>5, <2>1, <2>2
<1>9. StillThere(d)'
  <2>1. NumberQueued(d)' <=> NumberQueued(d)
    BY <1>1, <1>4, NumberQueuedIs
  <2>2. CASE Given(d, n)
    BY <1>1, <2>1, <2>2, NumberQueuedIs DEF StillThere
  <2>3. CASE Wiped(d, n)
    BY <1>1, <1>5, <2>1, <2>3 DEF NumberSafe, StillThere
  <2>4. CASE ~Given(d, n) /\ ~Wiped(d, n)
    BY <1>1, <1>4, <1>5, <2>1, <2>4 DEF NumberSafe, StillThere, NumbersKnown
  <2> QED BY <2>2, <2>3, <2>4
<1> QED BY <1>7, <1>8, <1>9 DEF NumberSafe

(* When the first write leaves the queue the others move up.               *)
LEMMA MovedToFront ==
  ASSUME TypeOK, NEW d \in Devices,
         stored[d] > 0, stored'[d] = stored[d] - 1, Len(writes'[d]) = Len(writes[d]) - 1,
         \A i \in 1 .. Len(writes'[d]) : writes'[d][i] = writes[d][i + 1]
  PROVE  /\ \A i \in 1 .. Len(writes'[d]) :
              /\ i + 1 \in 1 .. Len(writes[d])
              /\ Given(d, i)' = Given(d, i + 1) /\ Wiped(d, i)' = Wiped(d, i + 1)
         /\ \A i \in 1 .. stored[d] : i # 1 => i - 1 \in 1 .. stored'[d]
         /\ \A i \in 1 .. stored[d] : i # 1 /\ Given(d, i) => Given(d, i - 1)'
         /\ Ahead(d)' = Ahead(d)
<1>1. /\ Len(writes[d]) \in Nat /\ stored[d] \in Nat /\ stored[d] <= Len(writes[d])
  BY Queue
<1>2. ASSUME NEW i \in 1 .. Len(writes'[d])
      PROVE  /\ i + 1 \in 1 .. Len(writes[d])
             /\ Given(d, i)' = Given(d, i + 1) /\ Wiped(d, i)' = Wiped(d, i + 1)
  BY <1>1, <1>2 DEF Given, Wiped
<1>3. ASSUME NEW i \in 1 .. stored[d], i # 1
      PROVE  i - 1 \in 1 .. stored'[d] /\ (Given(d, i) => Given(d, i - 1)')
  <2>1. /\ i - 1 \in 1 .. stored'[d] /\ i - 1 \in 1 .. Len(writes'[d])
        /\ (i - 1) + 1 = i
    BY <1>1, <1>3
  <2>2. Given(d, i - 1)' = Given(d, (i - 1) + 1)
    BY <1>2, <2>1
  <2> QED BY <2>1, <2>2
<1> QED BY <1>1, <1>2, <1>3 DEF Ahead

LEMMA AcknowledgeSafe ==
  ASSUME TypeOK, NEW d \in Devices, NumberSafe(d), Acknowledge(d)
  PROVE  NumberSafe(d)'
<1>1. /\ UNCHANGED <<saved, numbered, text, read, shown>>
      /\ applied[d] > 0 /\ applied'[d] = applied[d] - 1 /\ stored'[d] = stored[d] - 1
  BY DEF Acknowledge, HandleSuccessfulWrite, historyVars, formVars, TypeOK, PipelineTypeOK
<1>2. /\ stored[d] > 0 /\ Len(writes'[d]) = Len(writes[d]) - 1
      /\ \A i \in 1 .. Len(writes'[d]) : writes'[d][i] = writes[d][i + 1]
  BY Queue, HandleSuccessfulWriteStep DEF Acknowledge
<1>3. /\ \A i \in 1 .. Len(writes'[d]) :
           /\ i + 1 \in 1 .. Len(writes[d])
           /\ Given(d, i)' = Given(d, i + 1) /\ Wiped(d, i)' = Wiped(d, i + 1)
      /\ \A i \in 1 .. stored[d] : i # 1 => i - 1 \in 1 .. stored'[d]
      /\ \A i \in 1 .. stored[d] : i # 1 /\ Given(d, i) => Given(d, i - 1)'
      /\ Ahead(d)' = Ahead(d)
  BY <1>1, <1>2, MovedToFront
<1>4. Entered(d)' => Entered(d)
  BY <1>1, <1>3 DEF Entered
<1>5. InOrder(d)'
  BY <1>3 DEF NumberSafe, InOrder
<1>6. FieldHolds(d)' /\ ReadHolds(d)' /\ ReadInTurn(d)'
  BY <1>1, <1>3, <1>4 DEF NumberSafe, FieldHolds, ReadHolds, ReadInTurn
<1>7. GivenApplied(d)'
  <2> SUFFICES ASSUME NEW i \in 1 .. applied'[d], Given(d, i)'
               PROVE  Numbered(d)'
    BY DEF GivenApplied
  <2>1. i \in 1 .. Len(writes'[d]) /\ i + 1 \in 1 .. applied[d]
    BY <1>1, <1>2, Queue
  <2>2. Given(d, i + 1)
    BY <1>3, <2>1
  <2> QED BY <1>1, <2>1, <2>2 DEF NumberSafe, GivenApplied, Numbered
<1>8. StillThere(d)'
  <2> SUFFICES ASSUME d \in numbered
               PROVE  \/ NumberQueued(d)'
                      \/ Numbered(d)' /\ \A i \in 1 .. Len(writes'[d]) : ~Wiped(d, i)'
    BY <1>1 DEF StillThere
  <2>1. ASSUME NEW i \in 1 .. stored[d], Given(d, i), i # 1
        PROVE  NumberQueued(d)'
    BY <1>3, <2>1, NumberQueuedIs
  <2>2. CASE Given(d, 1)
    <3>1. Numbered(d)'
      BY <1>1, <2>2, Queue DEF NumberSafe, GivenApplied, Numbered
    <3>2. ASSUME NEW i \in 1 .. Len(writes'[d]), Wiped(d, i)'
          PROVE  FALSE
      <4>1. i + 1 \in 1 .. Len(writes[d]) /\ 1 \in 1 .. Len(writes[d]) /\ Wiped(d, i + 1)
        BY <1>3, <3>2
      <4>2. i + 1 < 1
        BY <2>2, <4>1 DEF NumberSafe, InOrder
      <4> QED BY <3>2, <4>2
    <3> QED BY <3>1, <3>2
  <2>3. CASE ~Given(d, 1) /\ NumberQueued(d)
    BY <2>1, <2>3, NumberQueuedIs
  <2>4. CASE Numbered(d) /\ \A i \in 1 .. Len(writes[d]) : ~Wiped(d, i)
    BY <1>1, <1>3, <2>4 DEF Numbered
  <2> QED BY <2>2, <2>3, <2>4 DEF NumberSafe, StillThere
<1> QED BY <1>5, <1>6, <1>7, <1>8 DEF NumberSafe

(* A refused number is one of the reasons of a loss; another field's write *)
(* leaves the numbers in the queue where they are.                         *)
LEMMA RefuseSafe ==
  ASSUME TypeOK, NEW d \in Devices, NumberSafe(d), Refuse(d), ~Excused(d)'
  PROVE  NumberSafe(d)'
<1>1. /\ UNCHANGED <<saved, numbered, text, read, shown>>
      /\ applied'[d] = 0 /\ stored'[d] = stored[d] - 1
      /\ refused' = refused \cup {<<d, Head(writes[d]).field>>}
  BY DEF Refuse, HandleRejectedWrite, formVars, TypeOK, PipelineTypeOK
<1>2. /\ stored[d] > 0 /\ Len(writes'[d]) = Len(writes[d]) - 1
      /\ \A i \in 1 .. Len(writes'[d]) : writes'[d][i] = writes[d][i + 1]
      /\ Head(writes[d]) = writes[d][1]
  BY Queue, HandleRejectedWriteStep DEF Refuse
<1>3. /\ \A i \in 1 .. Len(writes'[d]) :
           /\ i + 1 \in 1 .. Len(writes[d])
           /\ Given(d, i)' = Given(d, i + 1) /\ Wiped(d, i)' = Wiped(d, i + 1)
      /\ \A i \in 1 .. stored[d] : i # 1 => i - 1 \in 1 .. stored'[d]
      /\ \A i \in 1 .. stored[d] : i # 1 /\ Given(d, i) => Given(d, i - 1)'
      /\ Ahead(d)' = Ahead(d)
  BY <1>1, <1>2, MovedToFront
<1>4. ~Given(d, 1)
  BY <1>1, <1>2 DEF Excused, Given
<1>5. Entered(d)' => Entered(d)
  BY <1>1, <1>3 DEF Entered
<1>6. InOrder(d)'
  BY <1>3 DEF NumberSafe, InOrder
<1>7. FieldHolds(d)' /\ ReadHolds(d)' /\ ReadInTurn(d)'
  BY <1>1, <1>3, <1>5 DEF NumberSafe, FieldHolds, ReadHolds, ReadInTurn
<1>8. GivenApplied(d)'
  BY <1>1 DEF GivenApplied
<1>9. StillThere(d)'
  <2>1. NumberQueued(d) => NumberQueued(d)'
    BY <1>3, <1>4, NumberQueuedIs
  <2> QED BY <1>1, <1>3, <2>1 DEF NumberSafe, StillThere, Numbered
<1> QED BY <1>6, <1>7, <1>8, <1>9 DEF NumberSafe

LEMMA BreaksSafe ==
  ASSUME TypeOK, NEW d \in Devices, NumberSafe(d), StreamBreaks(d)
  PROVE  NumberSafe(d)'
<1>1. /\ UNCHANGED <<writes, stored, saved, numbered, text, read, shown>>
      /\ applied'[d] = 0
  BY DEF StreamBreaks, OnWriteStreamClose, historyVars, formVars, TypeOK, PipelineTypeOK
<1>2. \A i : Given(d, i)' = Given(d, i) /\ Wiped(d, i)' = Wiped(d, i)
  BY <1>1 DEF Given, Wiped
<1>3. Entered(d)' <=> Entered(d)
  BY <1>1, <1>2 DEF Entered
<1>4. InOrder(d)' /\ GivenApplied(d)'
  BY <1>1, <1>2 DEF NumberSafe, InOrder, GivenApplied
<1>5. StillThere(d)'
  BY <1>1, <1>2, NumberQueuedIs DEF NumberSafe, StillThere, Numbered
<1>6. FieldHolds(d)' /\ ReadHolds(d)' /\ ReadInTurn(d)'
  BY <1>1, <1>3 DEF NumberSafe, FieldHolds, ReadHolds, ReadInTurn, Ahead
<1> QED BY <1>4, <1>5, <1>6 DEF NumberSafe

(* The death of the app takes the form and the writes in memory away; the  *)
(* number StillThere speaks of is in the document or persisted.            *)
LEMMA RelaunchSafe ==
  ASSUME TypeOK, NEW d \in Devices, NumberSafe(d), Relaunch(d)
  PROVE  NumberSafe(d)'
<1>1. /\ UNCHANGED <<stored, applied, saved, numbered>>
      /\ shown'[d] = {} /\ read'[d][G] = NoRead
  BY Queue DEF Relaunch, Restart, historyVars, TypeOK
<1>2. /\ Len(writes'[d]) = stored[d]
      /\ \A i \in 1 .. stored[d] : writes'[d][i] = writes[d][i]
  BY Queue, RestartStep DEF Relaunch
<1>3. ASSUME NEW i \in 1 .. Len(writes'[d])
      PROVE  /\ i \in 1 .. Len(writes[d])
             /\ Given(d, i)' = Given(d, i) /\ Wiped(d, i)' = Wiped(d, i)
  BY <1>2, <1>3, Queue DEF Given, Wiped
<1>4. InOrder(d)'
  BY <1>3 DEF NumberSafe, InOrder
<1>5. GivenApplied(d)'
  <2>1. \A i \in 1 .. applied[d] : i \in 1 .. Len(writes'[d])
    BY <1>2, Queue
  <2> QED BY <1>1, <1>3, <2>1 DEF NumberSafe, GivenApplied, Numbered
<1>6. StillThere(d)'
  <2>1. NumberQueued(d) => NumberQueued(d)'
    BY <1>1, <1>2, <1>3, NumberQueuedIs
  <2> QED BY <1>1, <1>3, <2>1 DEF NumberSafe, StillThere, Numbered
<1>7. FieldHolds(d)' /\ ReadHolds(d)' /\ ReadInTurn(d)'
  BY <1>1 DEF FieldHolds, ReadHolds, ReadInTurn, NoRead, Answered
<1> QED BY <1>4, <1>5, <1>6, <1>7 DEF NumberSafe
----------------------------------------------------------------------------
(* A step of one device changes nothing another one's number depends on.   *)
StepOf(d) ==
  \/ ViewDidLoad(d) \/ CompleteButton(d)
  \/ \E f \in Fields : \/ GetDocumentAnswers(d, f) \/ GetDocumentFails(d, f)
                       \/ DisplayData(d, f)
                       \/ \E v \in Texts : Type(d, f, v)
  \/ Persist(d) \/ ServerApplies(d) \/ Acknowledge(d) \/ Refuse(d)
  \/ StreamBreaks(d) \/ Relaunch(d)

LEMMA OthersSame ==
  ASSUME TypeOK, NumbersKnown, NEW d \in Devices, StepOf(d), NEW c \in Devices, c # d
  PROVE  Same(c)
<1> USE DEF TypeOK, PipelineTypeOK
<1>1. CASE ViewDidLoad(d)
  BY <1>1 DEF ViewDidLoad, pipelineVars, historyVars, Same
<1>2. CASE CompleteButton(d)
  BY <1>2 DEF CompleteButton, WriteMutations, formVars, Same
<1>3. ASSUME NEW f \in Fields, GetDocumentAnswers(d, f) \/ GetDocumentFails(d, f)
      PROVE  Same(c)
  BY <1>3 DEF GetDocumentAnswers, GetDocumentFails, pipelineVars, historyVars, Same
<1>4. ASSUME NEW f \in Fields, DisplayData(d, f)
      PROVE  Same(c)
  BY <1>4 DEF DisplayData, pipelineVars, Same
<1>5. ASSUME NEW f \in Fields, NEW v \in Texts, Type(d, f, v)
      PROVE  Same(c)
  BY <1>5 DEF Type, pipelineVars, Same
<1>6. CASE Persist(d)
  BY <1>6 DEF Persist, WriteLocally, Same
<1>7. CASE ServerApplies(d)
  <2>1. saved'[c] = saved[c]
    BY <1>7 DEF ServerApplies
  <2>2. c \in numbered' <=> c \in numbered
    BY <1>7, <2>1 DEF ServerApplies, NumbersKnown, Numbered
  <2> QED BY <1>7, <2>1, <2>2 DEF ServerApplies, ApplyAtServer, formVars, Same
<1>8. CASE Acknowledge(d)
  BY <1>8 DEF Acknowledge, HandleSuccessfulWrite, formVars, historyVars, Same
<1>9. CASE Refuse(d)
  BY <1>9 DEF Refuse, HandleRejectedWrite, formVars, Same
<1>10. CASE StreamBreaks(d)
  BY <1>10 DEF StreamBreaks, OnWriteStreamClose, formVars, historyVars, Same
<1>11. CASE Relaunch(d)
  BY <1>11 DEF Relaunch, Restart, historyVars, Same
<1> QED BY <1>1, <1>2, <1>3, <1>4, <1>5, <1>6, <1>7, <1>8, <1>9, <1>10, <1>11 DEF StepOf

(* What explains a loss stays, and the history knows every number.         *)
LEMMA HistoryGrows ==
  ASSUME TypeOK, NumbersKnown, [Next]_vars
  PROVE  NumbersKnown' /\ \A c \in Devices : Excused(c) => Excused(c)'
<1>1. ASSUME UNCHANGED <<saved, numbered>>
      PROVE  NumbersKnown'
  BY <1>1 DEF NumbersKnown, Numbered
<1>2. ASSUME cleared \subseteq cleared', early \subseteq early', replaced \subseteq replaced',
             refused \subseteq refused'
      PROVE  \A c \in Devices : Excused(c) => Excused(c)'
  BY <1>2 DEF Excused
<1>3. ASSUME NEW d \in Devices, ServerApplies(d)
      PROVE  NumbersKnown'
  BY <1>3 DEF ServerApplies, NumbersKnown
<1>4. (UNCHANGED <<saved, numbered>>) \/ \E d \in Devices : ServerApplies(d)
  BY DEF Next, vars, historyVars, ViewDidLoad, CompleteButton, GetDocumentAnswers,
     GetDocumentFails, DisplayData, Type, Persist, Acknowledge, Refuse,
     StreamBreaks, Relaunch, AllUsed
<1>5. /\ cleared \subseteq cleared' /\ early \subseteq early' /\ replaced \subseteq replaced'
      /\ refused \subseteq refused'
  BY DEF Next, vars, historyVars, ViewDidLoad, CompleteButton, GetDocumentAnswers,
     GetDocumentFails, DisplayData, Type, Persist, ServerApplies, Acknowledge, Refuse,
     StreamBreaks, Relaunch, AllUsed
<1> QED BY <1>1, <1>2, <1>3, <1>4, <1>5

LEMMA NextNumber == TypeOK /\ NumberInv /\ [Next]_vars => NumberInv'
<1> SUFFICES ASSUME TypeOK, NumberInv, [Next]_vars, NEW c \in Devices, ~Excused(c)'
             PROVE  NumberSafe(c)'
  BY HistoryGrows DEF NumberInv
<1>1. NumbersKnown /\ NumberSafe(c)
  BY HistoryGrows DEF NumberInv
<1>2. ASSUME NEW d \in Devices, StepOf(d), c # d
      PROVE  NumberSafe(c)'
  BY <1>1, <1>2, OthersSame, SameIsSafe
<1>3. CASE StepOf(c)
  BY <1>1, <1>3, ViewDidLoadSafe, CompleteSafe, AnswersSafe, FailsSafe, DisplaySafe,
     TypeSafe, PersistSafe, AppliesSafe, AcknowledgeSafe, RefuseSafe, BreaksSafe,
     RelaunchSafe DEF StepOf
<1>4. CASE AllUsed \/ UNCHANGED vars
  BY <1>1, <1>4, SameIsSafe DEF AllUsed, vars, Same
<1> QED BY <1>2, <1>3, <1>4 DEF Next, StepOf

(* A profile that has had a group number is without one only after its     *)
(* user cleared it, the button was pressed before the field had been       *)
(* shown, a late answer replaced what had been typed or the backend        *)
(* refused a number, or while a number waits in the persisted queue.       *)
THEOREM GroupNumberKept == Spec => []GroupNumberLossExplained
<1>1. TypeOK /\ NumberInv => GroupNumberLossExplained
  <2> SUFFICES ASSUME NumberInv, NEW d \in Devices, d \in numbered, ~Excused(d)
               PROVE  Numbered(d) \/ NumberQueued(d)
    BY DEF TypeOK, Excused, G, GroupNumberLossExplained
  <2> QED BY DEF NumberInv, NumberSafe, StillThere
<1> QED BY <1>1, InitType, NextType, InitNumber, NextNumber, PTL DEF Spec
=============================================================================
