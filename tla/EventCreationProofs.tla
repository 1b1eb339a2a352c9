------------------------- MODULE EventCreationProofs -------------------------
(***************************************************************************)
(* Theorems about EventCreation, for any devices, events and refusals.     *)
(***************************************************************************)
EXTENDS EventCreation, WritePipelineProofs

AdminTypeOK ==
  /\ newEvent \in [Devices -> SUBSET FormFields]
  /\ add      \in [Events -> Calls \cup {Unused}]
  /\ toRead   \in [Devices -> SUBSET Events]
  /\ listRead \in [Devices -> BOOLEAN]

ServerTypeOK ==
  /\ documents \in [Events -> Documents]
  /\ createdEvents \in [Devices -> SUBSET Events]

RestTypeOK ==
  /\ entered  \subseteq Events
  /\ rowReads \subseteq entered
  /\ cut      \subseteq Events \ Imported
  /\ trapped  \subseteq {"list", "adminRow", "studentRow"}

LEMMA TypeParts ==
  TypeOK <=> /\ PipelineTypeOK(Mutations)
             /\ AdminTypeOK /\ ServerTypeOK /\ RestTypeOK
BY DEF TypeOK, AdminTypeOK, ServerTypeOK, RestTypeOK

(* A write has an operation, an event and fields of a row.                 *)
LEMMA WriteIsMutation ==
  ASSUME NEW o \in Ops, NEW e \in Events, NEW f \in SUBSET RowFields
  PROVE  /\ Write(o, e, f) \in Mutations
         /\ <<Write(o, e, f)>> \in Seq(Mutations)
         /\ Write(o, e, f).op = o
         /\ Write(o, e, f).event = e
         /\ Write(o, e, f).fields = f
BY DEF Write, Mutations

(* What a queue holds after a step: an old write, or one behind them all.  *)
OldWrite(c, i) == \E j \in 1 .. Len(writes[c]) : writes'[c][i] = writes[c][j]

NoNewWrites == \A c \in Devices : \A i \in 1 .. Len(writes'[c]) : OldWrite(c, i)

OneNewWrite(d, m) ==
  \A c \in Devices : \A i \in 1 .. Len(writes'[c]) :
    OldWrite(c, i) \/ (c = d /\ writes'[c][i] = m)

LEMMA QueueSizes ==
  ASSUME TypeOK, NEW c \in Devices
  PROVE  /\ Len(writes[c]) \in Nat /\ stored[c] \in Nat /\ applied[c] \in Nat
         /\ applied[c] <= stored[c] /\ stored[c] <= Len(writes[c])
         /\ applied[c] <= Len(writes[c])
<1>1. writes[c] \in Seq(Mutations) /\ Len(writes[c]) \in Nat
  BY LenProperties DEF TypeOK, PipelineTypeOK
<1> QED BY <1>1 DEF TypeOK, PipelineTypeOK

LEMMA WriteInQueue ==
  ASSUME TypeOK, NEW d \in Devices, NEW i \in 1 .. Len(writes[d])
  PROVE  writes[d][i] \in Mutations /\ writes[d][i].event \in Events
<1>1. writes[d][i] \in Mutations
  BY ElementOfSeq DEF TypeOK, PipelineTypeOK
<1> QED BY <1>1 DEF Mutations

(* The applied writes were applied before.                                 *)
OldApplied ==
  \A c \in Devices : \A i \in 1 .. applied'[c] :
    \E j \in 1 .. applied[c] : writes'[c][i] = writes[c][j]

LEMMA EnqueuedBehind ==
  ASSUME TypeOK, NEW d \in Devices, NEW m \in Mutations, WriteMutations(d, <<m>>)
  PROVE  /\ PipelineTypeOK(Mutations)'
         /\ OneNewWrite(d, m)
         /\ \A c \in Devices : \A i \in 1 .. Len(writes[c]) :
              i \in 1 .. Len(writes'[c]) /\ writes'[c][i] = writes[c][i]
         /\ Len(writes[d]) + 1 \in 1 .. Len(writes'[d])
         /\ writes'[d][Len(writes[d]) + 1] = m
         /\ OldApplied
<1>1. PipelineTypeOK(Mutations)
  BY TypeParts
<1>2. PICK ms \in Seq(Mutations) : ms = <<m>>
  <2>1. <<m>> \in Seq(Mutations)
    OBVIOUS
  <2> QED BY <2>1, Zenon
<1>3. /\ PipelineTypeOK(Mutations)'
      /\ Len(writes'[d]) = Len(writes[d]) + 1
      /\ \A i \in 1 .. Len(writes[d]) : writes'[d][i] = writes[d][i]
      /\ writes'[d][Len(writes[d]) + 1] = m
      /\ \A c \in Devices : c # d => writes'[c] = writes[c]
  <2>1. WriteMutations(d, ms)
    BY <1>2
  <2>2. /\ PipelineTypeOK(Mutations)'
        /\ Len(writes'[d]) = Len(writes[d]) + Len(ms)
        /\ \A i \in 1 .. Len(writes[d]) : writes'[d][i] = writes[d][i]
        /\ \A i \in 1 .. Len(ms) : writes'[d][Len(writes[d]) + i] = ms[i]
        /\ \A c \in Devices : c # d => writes'[c] = writes[c]
    BY <1>1, <2>1, WriteMutationsStep
  <2>3. Len(ms) = 1 /\ ms[1] = m
    BY <1>2
  <2>4. writes'[d][Len(writes[d]) + 1] = ms[1]
    BY <2>2, <2>3
  <2> QED BY <2>2, <2>3, <2>4
<1>4. \A c \in Devices : Len(writes[c]) \in Nat
  BY QueueSizes
<1>5. ASSUME NEW c \in Devices, NEW i \in 1 .. Len(writes'[c])
      PROVE  OldWrite(c, i) \/ (c = d /\ writes'[c][i] = m)
  <2>1. CASE c = d /\ i = Len(writes[d]) + 1
    BY <2>1, <1>3
  <2>2. CASE c # d \/ i # Len(writes[d]) + 1
    <3>1. i \in 1 .. Len(writes[c]) /\ writes'[c][i] = writes[c][i]
      <4>1. CASE c # d
        BY <4>1, <1>3
      <4>2. CASE c = d
        <5>1. i \in 1 .. Len(writes[d])
          BY <4>2, <2>2, <1>3, <1>4
        <5> QED BY <5>1, <4>2, <1>3
      <4> QED BY <4>1, <4>2
    <3> QED BY <3>1 DEF OldWrite
  <2> QED BY <2>1, <2>2
<1>6. \A c \in Devices : \A i \in 1 .. Len(writes[c]) :
        i \in 1 .. Len(writes'[c]) /\ writes'[c][i] = writes[c][i]
  <2>1. ASSUME NEW c \in Devices, NEW i \in 1 .. Len(writes[c])
        PROVE  i \in 1 .. Len(writes'[c]) /\ writes'[c][i] = writes[c][i]
    <3>1. CASE c # d
      BY <3>1, <1>3
    <3>2. CASE c = d
      BY <3>2, <1>3, <1>4
    <3> QED BY <3>1, <3>2
  <2> QED BY <2>1
<1>7. OldApplied
  <2>1. applied' = applied
    BY DEF WriteMutations
  <2>2. \A c \in Devices : applied[c] \in Nat /\ applied[c] <= Len(writes[c])
    BY QueueSizes
  <2>3. \A c \in Devices : \A i \in 1 .. applied[c] : writes'[c][i] = writes[c][i]
    BY <1>4, <1>6, <2>2
  <2> QED BY <2>1, <2>3 DEF OldApplied
<1>8. OneNewWrite(d, m)
  BY <1>5 DEF OneNewWrite
<1>9. Len(writes[d]) + 1 \in 1 .. Len(writes'[d])
  BY <1>3, <1>4
<1> QED BY <1>3, <1>6, <1>7, <1>8, <1>9

(* What leaves a queue leaves at its front, what a restart cuts at its end. *)
LEMMA DroppedFirst ==
  ASSUME TypeOK, NEW d \in Devices,
         HandleSuccessfulWrite(d) \/ HandleRejectedWrite(d)
  PROVE  /\ PipelineTypeOK(Mutations)'
         /\ NoNewWrites /\ OldApplied
         /\ Head(writes[d]) = writes[d][1]
         /\ Head(writes[d]) \in Mutations
         /\ 1 \in 1 .. Len(writes[d])
         /\ \A c \in Devices : \A i \in 1 .. Len(writes[c]) :
              \/ c = d /\ i = 1
              \/ \E j \in 1 .. Len(writes'[c]) : writes'[c][j] = writes[c][i]
<1>1. PipelineTypeOK(Mutations)
  BY TypeParts
<1>2. /\ PipelineTypeOK(Mutations)'
      /\ Len(writes'[d]) = Len(writes[d]) - 1
      /\ \A i \in 1 .. Len(writes'[d]) : writes'[d][i] = writes[d][i + 1]
      /\ Head(writes[d]) = writes[d][1] /\ Head(writes[d]) \in Mutations
      /\ \A c \in Devices : c # d => writes'[c] = writes[c]
      /\ stored[d] > 0
  BY <1>1, HandleSuccessfulWriteStep, HandleRejectedWriteStep
<1>3. \A c \in Devices : Len(writes[c]) \in Nat /\ stored[c] \in Nat /\ stored[c] <= Len(writes[c])
  BY QueueSizes
<1>4. ASSUME NEW c \in Devices, NEW i \in 1 .. Len(writes'[c])
      PROVE  OldWrite(c, i)
  <2>1. CASE c = d
    <3>1. i + 1 \in 1 .. Len(writes[d]) /\ writes'[c][i] = writes[c][i + 1]
      BY <1>2, <1>3, <1>4, <2>1
    <3> QED BY <2>1, <3>1 DEF OldWrite
  <2>2. CASE c # d
    BY <1>2, <1>4, <2>2 DEF OldWrite
  <2> QED BY <2>1, <2>2
<1>5. ASSUME NEW c \in Devices, NEW i \in 1 .. applied'[c]
      PROVE  \E j \in 1 .. applied[c] : writes'[c][i] = writes[c][j]
  <2>1. applied[c] \in Nat /\ applied[c] <= Len(writes[c])
    BY <1>1, <1>3 DEF PipelineTypeOK
  <2>2. CASE c = d
    <3>1. applied'[d] = applied[d] - 1
      <4>1. CASE HandleSuccessfulWrite(d)
        BY <4>1, <1>1 DEF HandleSuccessfulWrite, PipelineTypeOK
      <4>2. CASE HandleRejectedWrite(d)
        BY <4>2, <1>5, <2>2 DEF HandleRejectedWrite
      <4> QED BY <4>1, <4>2
    <3>2. i + 1 \in 1 .. applied[c] /\ i \in 1 .. Len(writes'[d])
      BY <1>2, <1>3, <1>5, <2>1, <2>2, <3>1
    <3>3. writes'[c][i] = writes[c][i + 1]
      BY <1>2, <2>2, <3>2
    <3> QED BY <3>2, <3>3
  <2>3. CASE c # d
    <3>1. applied'[c] = applied[c] /\ writes'[c] = writes[c]
      BY <1>1, <1>2, <2>3 DEF HandleSuccessfulWrite, HandleRejectedWrite, PipelineTypeOK
    <3> QED BY <1>5, <3>1
  <2> QED BY <2>2, <2>3
<1>6. ASSUME NEW c \in Devices, NEW i \in 1 .. Len(writes[c]), ~(c = d /\ i = 1)
      PROVE  \E j \in 1 .. Len(writes'[c]) : writes'[c][j] = writes[c][i]
  <2>1. CASE c = d
    <3>1. i - 1 \in 1 .. Len(writes'[d]) /\ (i - 1) + 1 = i
      BY <1>2, <1>3, <1>6, <2>1
    <3>2. writes'[d][i - 1] = writes[d][i]
      BY <1>2, <3>1
    <3> QED BY <2>1, <3>1, <3>2
  <2>2. CASE c # d
    BY <1>2, <1>6, <2>2
  <2> QED BY <2>1, <2>2
<1>7. 1 \in 1 .. Len(writes[d])
  BY <1>2, <1>3
<1>8. NoNewWrites /\ OldApplied
  BY <1>4, <1>5 DEF NoNewWrites, OldApplied
<1> QED BY <1>2, <1>6, <1>7, <1>8

LEMMA CutOff ==
  ASSUME TypeOK, NEW d \in Devices, Restart(d)
  PROVE  /\ PipelineTypeOK(Mutations)'
         /\ NoNewWrites /\ OldApplied
         /\ \A c \in Devices : \A i \in 1 .. Len(writes[c]) :
              \/ c = d /\ i \in stored[d] + 1 .. Len(writes[d])
              \/ i \in 1 .. Len(writes'[c]) /\ writes'[c][i] = writes[c][i]
<1>1. PipelineTypeOK(Mutations)
  BY TypeParts
<1>2. /\ PipelineTypeOK(Mutations)'
      /\ Len(writes'[d]) = stored[d]
      /\ \A i \in 1 .. stored[d] : writes'[d][i] = writes[d][i]
      /\ \A c \in Devices : c # d => writes'[c] = writes[c]
  BY <1>1, RestartStep
<1>3. \A c \in Devices : Len(writes[c]) \in Nat /\ stored[c] \in Nat /\ stored[c] <= Len(writes[c])
  BY QueueSizes
<1>4. ASSUME NEW c \in Devices, NEW i \in 1 .. Len(writes'[c])
      PROVE  OldWrite(c, i)
  <2>1. CASE c = d
    <3>1. i \in 1 .. Len(writes[d]) /\ writes'[c][i] = writes[c][i]
      BY <1>2, <1>3, <1>4, <2>1
    <3> QED BY <2>1, <3>1 DEF OldWrite
  <2>2. CASE c # d
    BY <1>2, <1>4, <2>2 DEF OldWrite
  <2> QED BY <2>1, <2>2
<1>5. OldApplied
  <2>1. ASSUME NEW c \in Devices, NEW i \in 1 .. applied'[c]
        PROVE  \E j \in 1 .. applied[c] : writes'[c][i] = writes[c][j]
    <3>1. CASE c = d
      BY <1>1, <2>1, <3>1 DEF Restart, PipelineTypeOK
    <3>2. CASE c # d
      <4>1. applied'[c] = applied[c]
        BY <1>1, <3>2 DEF Restart, PipelineTypeOK
      <4> QED BY <1>2, <2>1, <3>2, <4>1
    <3> QED BY <3>1, <3>2
  <2> QED BY <2>1 DEF OldApplied
<1>6. ASSUME NEW c \in Devices, NEW i \in 1 .. Len(writes[c]),
             ~(c = d /\ i \in stored[d] + 1 .. Len(writes[d]))
      PROVE  i \in 1 .. Len(writes'[c]) /\ writes'[c][i] = writes[c][i]
  BY <1>2, <1>3, <1>6
<1> QED BY <1>2, <1>4, <1>5, <1>6 DEF NoNewWrites
----------------------------------------------------------------------------
(* Type correctness, one lemma per action that writes.                     *)

LEMMA TypeInitially == Init => TypeOK
<1>1. RowFields \in SUBSET RowFields
  OBVIOUS
<1> QED
  BY <1>1, CreationAssumption
     DEF Init, PipelineInit, TypeOK, PipelineTypeOK, Documents, Document, Unused

(* The form, the reads and the students leave the queues alone.            *)
LEMMA TypeWithoutWrites ==
  ASSUME TypeOK, UNCHANGED <<pipelineVars, serverVars>>, AdminTypeOK', RestTypeOK'
  PROVE  TypeOK'
<1>1. PipelineTypeOK(Mutations)'
  BY DEF TypeOK, PipelineTypeOK, pipelineVars
<1>2. ServerTypeOK'
  BY DEF TypeOK, ServerTypeOK, serverVars
<1> QED BY <1>1, <1>2 DEF TypeOK, AdminTypeOK, ServerTypeOK, RestTypeOK

LEMMA AddEventTyped ==
  ASSUME TypeOK, NEW d \in Devices, NEW e \in Events, AddEvent(d, e)
  PROVE  TypeOK'
<1>1. PICK m \in Mutations : m = Write("addDocument", e, newEvent[d])
  BY WriteIsMutation DEF TypeOK, RowFields, Ops
<1>2. WriteMutations(d, <<m>>)
  BY <1>1 DEF AddEvent
<1>3. PipelineTypeOK(Mutations)'
  BY <1>2, EnqueuedBehind
<1>4. ServerTypeOK' /\ RestTypeOK'
  BY DEF AddEvent, serverVars, studentVars, TypeOK, ServerTypeOK, RestTypeOK
<1>5. AdminTypeOK'
  BY DEF AddEvent, TypeOK, AdminTypeOK, Calls
<1> QED BY <1>3, <1>4, <1>5 DEF TypeOK, AdminTypeOK, ServerTypeOK, RestTypeOK

(* A call under way has its device.                                        *)
LEMMA CallHasDevice ==
  ASSUME TypeOK, NEW e \in Events,
         add[e].state \in {"sent", "answered", "refused", "over"}
  PROVE  add[e] \in Calls /\ add[e].device \in Devices
BY DEF TypeOK, Calls, Unused

LEMMA AddEventAnswersTyped ==
  ASSUME TypeOK, NEW e \in Events, AddEventAnswers(e)
  PROVE  TypeOK'
<1>1. PICK d \in Devices : d = add[e].device
  BY CallHasDevice DEF AddEventAnswers
<1>2. PICK m \in Mutations : m = Write("createdEvents", e, {})
  BY WriteIsMutation DEF Ops
<1>3. WriteMutations(d, <<m>>)
  BY <1>1, <1>2 DEF AddEventAnswers
<1>4. PipelineTypeOK(Mutations)'
  BY <1>3, EnqueuedBehind
<1>5. ServerTypeOK' /\ RestTypeOK'
  BY DEF AddEventAnswers, serverVars, studentVars, TypeOK, ServerTypeOK, RestTypeOK
<1>6. add[e] \in Calls
  BY CallHasDevice DEF AddEventAnswers
<1>7. AdminTypeOK'
  BY <1>6 DEF AddEventAnswers, TypeOK, AdminTypeOK, Calls
<1> QED BY <1>4, <1>5, <1>7 DEF TypeOK, AdminTypeOK, ServerTypeOK, RestTypeOK

LEMMA ServerAppliesTyped ==
  ASSUME TypeOK, NEW d \in Devices, ServerApplies(d)
  PROVE  TypeOK'
<1>1. /\ PipelineTypeOK(Mutations)'
      /\ NextToApply(d) \in Mutations
  BY TypeParts, ApplyAtServerStep DEF ServerApplies
<1>2. PICK m \in Mutations : m = NextToApply(d)
  BY <1>1
<1>3. /\ documents' = IF m.op = "addDocument"
                       THEN [documents EXCEPT ![m.event] = Document(m.fields)] ELSE documents
      /\ createdEvents' = IF m.op = "createdEvents"
                          THEN [createdEvents EXCEPT ![d] = @ \cup {m.event}] ELSE createdEvents
  BY <1>2 DEF ServerApplies
<1>4. m.event \in Events /\ Document(m.fields) \in Documents
  BY DEF Mutations, Document, Documents
<1>5. ServerTypeOK'
  BY <1>3, <1>4 DEF TypeOK, ServerTypeOK
<1>6. AdminTypeOK' /\ RestTypeOK'
  BY DEF ServerApplies, adminVars, studentVars, TypeOK, AdminTypeOK, RestTypeOK
<1> QED BY <1>1, <1>5, <1>6 DEF TypeOK, AdminTypeOK, ServerTypeOK, RestTypeOK

LEMMA NotifyTyped ==
  ASSUME TypeOK, NEW m \in Mutations, NEW s \in {"answered", "refused"}
  PROVE  Notify(m, s) \in [Events -> Calls \cup {Unused}]
<1>1. m.event \in Events
  BY DEF Mutations
<1>2. CASE add[m.event].state = "sent"
  <2>1. add[m.event] \in Calls
    BY <1>1, <1>2, CallHasDevice
  <2> QED BY <1>1, <2>1 DEF Notify, TypeOK, Calls
<1>3. CASE add[m.event].state # "sent"
  BY <1>3 DEF Notify, TypeOK
<1> QED BY <1>2, <1>3

LEMMA AcknowledgeTyped ==
  ASSUME TypeOK, NEW d \in Devices, Acknowledge(d)
  PROVE  TypeOK'
<1>1. PipelineTypeOK(Mutations)' /\ Head(writes[d]) \in Mutations
  BY DroppedFirst DEF Acknowledge
<1>2. add' \in [Events -> Calls \cup {Unused}]
  BY <1>1, NotifyTyped DEF Acknowledge
<1>3. ServerTypeOK' /\ RestTypeOK'
  BY DEF Acknowledge, serverVars, studentVars, TypeOK, ServerTypeOK, RestTypeOK
<1>4. AdminTypeOK'
  BY <1>2 DEF Acknowledge, TypeOK, AdminTypeOK
<1> QED BY <1>1, <1>3, <1>4 DEF TypeOK, AdminTypeOK, ServerTypeOK, RestTypeOK

----------------------------------------------------------------------------
(* What the app writes: no imported event is ever the subject of a write,  *)
(* and a form has no count of members.                                     *)
Fresh ==
  /\ \A c \in Devices : \A i \in 1 .. Len(writes[c]) :
       /\ writes[c][i].event \notin Imported
       /\ writes[c][i].op = "addDocument" => writes[c][i].fields \subseteq FormFields
  /\ \A e \in Imported : add[e].state = "unused"

Quiet == UNCHANGED <<pipelineVars, serverVars, add, cut>>

LEMMA QuietFresh == Fresh /\ Quiet => Fresh'
BY DEF Fresh, Quiet, pipelineVars

LEMMA FreshInitially == Init => Fresh
BY CreationAssumption DEF Init, PipelineInit, Fresh, Unused

LEMMA FreshWithout ==
  ASSUME Fresh, NoNewWrites, \A e \in Imported : add'[e].state = "unused"
  PROVE  Fresh'
<1>1. ASSUME NEW c \in Devices, NEW i \in 1 .. Len(writes'[c])
      PROVE  /\ writes'[c][i].event \notin Imported
             /\ writes'[c][i].op = "addDocument" => writes'[c][i].fields \subseteq FormFields
  <2>1. PICK j \in 1 .. Len(writes[c]) : writes'[c][i] = writes[c][j]
    BY <1>1 DEF NoNewWrites, OldWrite
  <2> QED BY <2>1 DEF Fresh
<1> QED BY <1>1 DEF Fresh

LEMMA FreshWith ==
  ASSUME Fresh, NEW d \in Devices, NEW m \in Mutations, OneNewWrite(d, m),
         m.event \notin Imported,
         m.op = "addDocument" => m.fields \subseteq FormFields,
         \A e \in Imported : add'[e].state = "unused"
  PROVE  Fresh'
<1>1. ASSUME NEW c \in Devices, NEW i \in 1 .. Len(writes'[c])
      PROVE  /\ writes'[c][i].event \notin Imported
             /\ writes'[c][i].op = "addDocument" => writes'[c][i].fields \subseteq FormFields
  <2>1. CASE OldWrite(c, i)
    <3>1. PICK j \in 1 .. Len(writes[c]) : writes'[c][i] = writes[c][j]
      BY <2>1 DEF OldWrite
    <3> QED BY <3>1 DEF Fresh
  <2>2. CASE writes'[c][i] = m
    BY <2>2
  <2> QED BY <1>1, <2>1, <2>2 DEF OneNewWrite
<1> QED BY <1>1 DEF Fresh

LEMMA AddEventFresh ==
  ASSUME TypeOK, Fresh, NEW d \in Devices, NEW e \in Events, AddEvent(d, e)
  PROVE  Fresh'
<1>1. PICK m \in Mutations : /\ m = Write("addDocument", e, newEvent[d])
                             /\ m.event = e /\ m.fields = newEvent[d]
  BY WriteIsMutation DEF TypeOK, RowFields, Ops
<1>2. OneNewWrite(d, m)
  BY <1>1, EnqueuedBehind DEF AddEvent
<1>3. m.event \notin Imported /\ m.fields \subseteq FormFields
  BY <1>1 DEF AddEvent, TypeOK
<1>4. \A x \in Imported : add'[x].state = "unused"
  BY CreationAssumption DEF AddEvent, TypeOK, Fresh
<1> QED BY <1>2, <1>3, <1>4, FreshWith

LEMMA AddEventAnswersFresh ==
  ASSUME TypeOK, Fresh, NEW e \in Events, AddEventAnswers(e)
  PROVE  Fresh'
<1>1. PICK m \in Mutations : /\ m = Write("createdEvents", e, {})
                             /\ m.event = e /\ m.op = "createdEvents"
  BY WriteIsMutation DEF Ops
<1>2. PICK d \in Devices : d = add[e].device
  BY CallHasDevice DEF AddEventAnswers
<1>3. OneNewWrite(d, m)
  BY <1>1, <1>2, EnqueuedBehind DEF AddEventAnswers
<1>4. e \notin Imported
  BY DEF AddEventAnswers, Fresh
<1>5. \A x \in Imported : add'[x] = add[x]
  BY <1>4, CreationAssumption DEF AddEventAnswers, TypeOK
<1> QED BY <1>1, <1>3, <1>4, <1>5, FreshWith DEF Fresh

(* An answer changes a call that is under way, and to what it says.        *)
LEMMA NotifyChanges ==
  ASSUME TypeOK, NEW m \in Mutations, NEW s \in {"answered", "refused"},
         NEW e \in Events
  PROVE  \/ Notify(m, s)[e] = add[e] /\ ~(m.op = "addDocument" /\ m.event = e /\ add[e].state = "sent")
         \/ /\ m.op = "addDocument" /\ m.event = e /\ add[e].state = "sent"
            /\ Notify(m, s)[e].state = s
<1>1. m.event \in Events
  BY DEF Mutations
<1>2. CASE m.op = "addDocument" /\ add[m.event].state = "sent"
  <2>1. add[m.event] \in Calls
    BY <1>1, <1>2, CallHasDevice
  <2>2. Notify(m, s) = [add EXCEPT ![m.event].state = s]
    BY <1>2 DEF Notify
  <2> QED BY <1>1, <1>2, <2>1, <2>2 DEF TypeOK, Calls
<1>3. CASE ~(m.op = "addDocument" /\ add[m.event].state = "sent")
  BY <1>3 DEF Notify
<1> QED BY <1>2, <1>3

LEMMA AcknowledgeFresh ==
  ASSUME TypeOK, Fresh, NEW d \in Devices, Acknowledge(d) \/ Refuse(d)
  PROVE  Fresh'
<1>1. PICK m \in Mutations : m = Head(writes[d])
  BY DroppedFirst DEF Acknowledge, Refuse
<1>2. NoNewWrites
  BY DroppedFirst DEF Acknowledge, Refuse
<1>3. add' = Notify(m, "answered") \/ add' = Notify(m, "refused")
  BY <1>1 DEF Acknowledge, Refuse
<1>4. \A e \in Imported : add'[e].state = "unused"
  BY <1>3, NotifyChanges, CreationAssumption DEF Fresh
<1> QED BY <1>2, <1>4, FreshWithout

(* A death ends calls that were made.                                      *)
LEMMA AppEndsCalls ==
  ASSUME TypeOK, NEW d \in Devices, AppEnds(d), NEW e \in Events
  PROVE  \/ add'[e] = add[e] /\ e \notin Calling(d)
         \/ add'[e].state = "over" /\ e \in Calling(d) /\ add[e] \in Calls
<1>1. CASE e \in Calling(d)
  <2>1. add[e] \in Calls
    BY <1>1, CallHasDevice DEF Calling
  <2> QED BY <1>1, <2>1 DEF AppEnds, Calls
<1>2. CASE e \notin Calling(d)
  BY <1>2 DEF AppEnds
<1> QED BY <1>1, <1>2

LEMMA AppEndsFresh ==
  ASSUME TypeOK, Fresh, NEW d \in Devices, AppEnds(d)
  PROVE  Fresh'
<1>1. NoNewWrites
  BY CutOff DEF AppEnds
<1>2. \A e \in Imported : add'[e].state = "unused"
  BY AppEndsCalls, CreationAssumption DEF Fresh, Calling
<1> QED BY <1>1, <1>2, FreshWithout

LEMMA PipelineOnlyFresh ==
  ASSUME Fresh, writes' = writes, add' = add
  PROVE  Fresh'
BY DEF Fresh

LEMMA AddEventFailsFresh ==
  ASSUME TypeOK, Fresh, NEW e \in Events, AddEventFails(e)
  PROVE  Fresh'
<1>1. \A x \in Imported : add'[x] = add[x]
  BY CreationAssumption DEF AddEventFails, TypeOK, Fresh
<1>2. writes' = writes
  BY DEF AddEventFails, pipelineVars
<1> QED BY <1>1, <1>2 DEF Fresh

----------------------------------------------------------------------------
(* The steps by what they do to queues, calls and documents: all that only *)
(* read, show or fill in are Quiet.                                        *)
LEMMA Kinds ==
  ASSUME [Next]_vars
  PROVE  \/ \E d \in Devices, e \in Events : AddEvent(d, e)
         \/ \E e \in Events : AddEventAnswers(e)
         \/ \E e \in Events : AddEventFails(e)
         \/ \E d \in Devices : ServerApplies(d)
         \/ \E d \in Devices : Acknowledge(d) \/ Refuse(d)
         \/ \E d \in Devices : AppEnds(d)
         \/ \E d \in Devices : Persist(d) \/ StreamBreaks(d) \/ SignIn(d)
         \/ Quiet
<1>1. ASSUME NEW d \in Devices, NEW e \in Events, AddEvent(d, e)
      PROVE  \E c \in Devices, x \in Events : AddEvent(c, x)
  BY <1>1
<1>2. ASSUME NEW d \in Devices,
             \/ \E f \in FormFields : TextFieldDidEnd(d, f)
             \/ ShowAdminEvents(d) \/ ReadFails(d)
      PROVE  Quiet
  BY <1>2 DEF TextFieldDidEnd, ShowAdminEvents, ReadFails, Quiet
<1>3. ASSUME NEW d \in Devices, NEW e \in Events, EventRowAnswers(d, e)
      PROVE  AppEnds(d) \/ Quiet
  BY <1>3 DEF EventRowAnswers, Quiet
<1>4. ASSUME NEW d \in Devices, GetAdminEventsAnswers(d)
      PROVE  AppEnds(d) \/ Quiet
  BY <1>4 DEF GetAdminEventsAnswers, Quiet
<1>5. ASSUME NEW d \in Devices, Relaunch(d)
      PROVE  AppEnds(d)
  BY <1>5 DEF Relaunch
<1>6. ASSUME NEW e \in Events, EntryToEvent(e) \/ UserEventAnswers(e) \/ UserEventFails(e)
      PROVE  Quiet
  BY <1>6 DEF EntryToEvent, UserEventAnswers, UserEventFails, Quiet, adminVars
<1>7. ShowUserEvents => Quiet
  BY DEF ShowUserEvents, Quiet, adminVars
<1>8. UNCHANGED vars => Quiet
  BY DEF vars, Quiet, pipelineVars, serverVars
<1> QED BY <1>1, <1>2, <1>3, <1>4, <1>5, <1>6, <1>7, <1>8 DEF Next

LEMMA FreshStep ==
  ASSUME TypeOK, Fresh, [Next]_vars
  PROVE  Fresh'
<1>1. ASSUME NEW d \in Devices, Persist(d) \/ StreamBreaks(d) \/ SignIn(d) \/ ServerApplies(d)
      PROVE  Fresh'
  <2>1. writes' = writes /\ add' = add
    BY <1>1 DEF Persist, StreamBreaks, SignIn, ServerApplies, WriteLocally, OnWriteStreamClose, ServeAgain,
                ApplyAtServer, adminVars
  <2> QED BY <2>1, PipelineOnlyFresh
<1> QED BY <1>1, Kinds, AddEventFresh, AddEventAnswersFresh, AddEventFailsFresh,
           AcknowledgeFresh, AppEndsFresh, QuietFresh

LEMMA RefuseTyped ==
  ASSUME TypeOK, Fresh, NEW d \in Devices, Refuse(d)
  PROVE  TypeOK'
<1>1. /\ PipelineTypeOK(Mutations)'
      /\ Head(writes[d]) \in Mutations
      /\ Head(writes[d]) = writes[d][1] /\ 1 \in 1 .. Len(writes[d])
  BY DroppedFirst DEF Refuse
<1>2. add' \in [Events -> Calls \cup {Unused}]
  BY <1>1, NotifyTyped DEF Refuse
<1>3. Head(writes[d]).event \in Events \ Imported
  BY <1>1 DEF Fresh, Mutations
<1>4. RestTypeOK'
  BY <1>3 DEF Refuse, studentVars, TypeOK, RestTypeOK
<1>5. AdminTypeOK' /\ ServerTypeOK'
  BY <1>2 DEF Refuse, serverVars, TypeOK, AdminTypeOK, ServerTypeOK
<1> QED BY <1>1, <1>4, <1>5 DEF TypeOK, AdminTypeOK, ServerTypeOK, RestTypeOK

LEMMA AppEndsTyped ==
  ASSUME TypeOK, Fresh, NEW d \in Devices, AppEnds(d),
         trapped' \subseteq {"list", "adminRow", "studentRow"}
  PROVE  TypeOK'
<1>1. PipelineTypeOK(Mutations)'
  BY CutOff DEF AppEnds
<1>2. Calling(d) \subseteq Events \ Imported
  BY DEF Calling, Fresh
<1>3. Unlisted(d) \subseteq Events \ Imported
  <2>1. \A i \in stored[d] + 1 .. Len(writes[d]) : i \in 1 .. Len(writes[d])
    BY QueueSizes
  <2>2. \A i \in 1 .. Len(writes[d]) : writes[d][i].event \in Events
    BY WriteInQueue
  <2> QED BY <2>1, <2>2 DEF Unlisted, Fresh
<1>4. RestTypeOK'
  BY <1>2, <1>3 DEF AppEnds, studentVars, TypeOK, RestTypeOK
<1>5. add' \in [Events -> Calls \cup {Unused}]
  <2>1. \A e \in Events : add'[e] \in Calls \cup {Unused}
    <3>1. ASSUME NEW e \in Calling(d)
          PROVE  add'[e] \in Calls \cup {Unused}
      <4>1. e \in Events /\ add[e] \in Calls
        BY <3>1, CallHasDevice DEF Calling
      <4> QED BY <3>1, <4>1 DEF AppEnds, Calls
    <3>2. ASSUME NEW e \in Events, e \notin Calling(d)
          PROVE  add'[e] \in Calls \cup {Unused}
      BY <3>2 DEF AppEnds, TypeOK
    <3> QED BY <3>1, <3>2
  <2>2. add' = [e \in Events |-> add'[e]]
    BY DEF AppEnds
  <2> QED BY <2>1, <2>2
<1>6. AdminTypeOK'
  BY <1>5 DEF AppEnds, TypeOK, AdminTypeOK
<1>7. ServerTypeOK'
  BY DEF AppEnds, serverVars, TypeOK, ServerTypeOK
<1> QED BY <1>1, <1>4, <1>6, <1>7 DEF TypeOK, AdminTypeOK, ServerTypeOK, RestTypeOK

LEMMA FormTyped ==
  ASSUME TypeOK, NEW d \in Devices, NEW f \in FormFields, TextFieldDidEnd(d, f)
  PROVE  TypeOK'
<1>1. UNCHANGED <<pipelineVars, serverVars>> /\ AdminTypeOK' /\ RestTypeOK'
  BY DEF TextFieldDidEnd, studentVars, TypeOK, AdminTypeOK, RestTypeOK
<1> QED BY <1>1, TypeWithoutWrites

LEMMA AddEventFailsTyped ==
  ASSUME TypeOK, NEW e \in Events, AddEventFails(e)
  PROVE  TypeOK'
<1>1. add[e] \in Calls
  BY CallHasDevice DEF AddEventFails
<1>2. UNCHANGED <<pipelineVars, serverVars>> /\ AdminTypeOK' /\ RestTypeOK'
  BY <1>1 DEF AddEventFails, studentVars, TypeOK, AdminTypeOK, RestTypeOK, Calls
<1> QED BY <1>2, TypeWithoutWrites

LEMMA AdminReadsTyped ==
  ASSUME TypeOK, Fresh, NEW d \in Devices,
         \/ ShowAdminEvents(d) \/ GetAdminEventsAnswers(d) \/ ReadFails(d)
         \/ \E e \in Events : EventRowAnswers(d, e)
  PROVE  TypeOK'
<1>1. CASE ShowAdminEvents(d) \/ ReadFails(d)
  <2>1. UNCHANGED <<pipelineVars, serverVars>> /\ AdminTypeOK' /\ RestTypeOK'
    BY <1>1 DEF ShowAdminEvents, ReadFails, studentVars, TypeOK, AdminTypeOK, RestTypeOK
  <2> QED BY <2>1, TypeWithoutWrites
<1>2. ASSUME AppEnds(d), trapped' = trapped \cup {"list"} \/ trapped' = trapped \cup {"adminRow"}
      PROVE  TypeOK'
  <2>1. trapped' \subseteq {"list", "adminRow", "studentRow"}
    BY <1>2 DEF TypeOK
  <2> QED BY <1>2, <2>1, AppEndsTyped
<1>3. CASE GetAdminEventsAnswers(d)
  <2>1. CASE CreatedEventsOn(d) = {} /\ ~ListThere
    BY <1>2, <1>3, <2>1 DEF GetAdminEventsAnswers
  <2>2. CASE ~(CreatedEventsOn(d) = {} /\ ~ListThere)
    <3>1. CreatedEventsOn(d) \subseteq Events
      <4>1. \A i \in Pending(d, "createdEvents") : writes[d][i].event \in Events
        <5>1. \A i \in Pending(d, "createdEvents") : i \in 1 .. Len(writes[d])
          BY QueueSizes DEF Pending
        <5> QED BY <5>1, WriteInQueue
      <4> QED BY <4>1 DEF CreatedEventsOn, TypeOK
    <3>2. /\ listRead' = [listRead EXCEPT ![d] = FALSE]
          /\ toRead'   = [toRead EXCEPT ![d] = CreatedEventsOn(d)]
          /\ UNCHANGED <<pipelineVars, serverVars, newEvent, add, studentVars, cut, trapped>>
      BY <1>3, <2>2, Zenon DEF GetAdminEventsAnswers
    <3>3. AdminTypeOK'
      BY <3>1, <3>2 DEF TypeOK, AdminTypeOK
    <3>4. RestTypeOK'
      BY <3>2 DEF studentVars, TypeOK, RestTypeOK
    <3> QED BY <3>2, <3>3, <3>4, TypeWithoutWrites
  <2> QED BY <2>1, <2>2
<1>4. ASSUME NEW e \in Events, EventRowAnswers(d, e)
      PROVE  TypeOK'
  <2>1. CASE ~TakesForGranted(DocumentsOn(d)[e])
    BY <1>2, <1>4, <2>1 DEF EventRowAnswers
  <2>2. CASE TakesForGranted(DocumentsOn(d)[e])
    <3>1. /\ toRead' = [toRead EXCEPT ![d] = @ \ {e}]
          /\ UNCHANGED <<pipelineVars, serverVars, newEvent, add, listRead, studentVars, cut, trapped>>
      BY <1>4, <2>2, Zenon DEF EventRowAnswers
    <3>2. AdminTypeOK'
      BY <3>1 DEF TypeOK, AdminTypeOK
    <3>3. RestTypeOK'
      BY <3>1 DEF studentVars, TypeOK, RestTypeOK
    <3> QED BY <3>1, <3>2, <3>3, TypeWithoutWrites
  <2> QED BY <2>1, <2>2
<1> QED BY <1>1, <1>3, <1>4

LEMMA StudentTyped ==
  ASSUME TypeOK,
         \/ ShowUserEvents
         \/ \E e \in Events : EntryToEvent(e) \/ UserEventAnswers(e) \/ UserEventFails(e)
  PROVE  TypeOK'
<1>1. UNCHANGED <<pipelineVars, serverVars>>
  BY DEF ShowUserEvents, EntryToEvent, UserEventAnswers, UserEventFails
<1>2. AdminTypeOK'
  BY DEF ShowUserEvents, EntryToEvent, UserEventAnswers, UserEventFails, adminVars,
         TypeOK, AdminTypeOK
<1>3. RestTypeOK'
  BY DEF ShowUserEvents, EntryToEvent, UserEventAnswers, UserEventFails,
         TypeOK, RestTypeOK
<1> QED BY <1>1, <1>2, <1>3, TypeWithoutWrites

LEMMA TypeStep ==
  ASSUME TypeOK, Fresh, [Next]_vars
  PROVE  TypeOK'
<1>1. ASSUME NEW d \in Devices, Persist(d) \/ StreamBreaks(d) \/ SignIn(d)
      PROVE  TypeOK'
  <2>1. PipelineTypeOK(Mutations)'
    BY <1>1, TypeParts, WriteLocallyStep, OnWriteStreamCloseStep, ServeAgainStep
     DEF Persist, StreamBreaks, SignIn
  <2>2. AdminTypeOK' /\ ServerTypeOK' /\ RestTypeOK'
    BY <1>1 DEF Persist, StreamBreaks, SignIn, adminVars, serverVars, studentVars,
                TypeOK, AdminTypeOK, ServerTypeOK, RestTypeOK
  <2> QED BY <2>1, <2>2 DEF TypeOK, AdminTypeOK, ServerTypeOK, RestTypeOK
<1>2. ASSUME NEW d \in Devices, Relaunch(d)
      PROVE  TypeOK'
  <2>1. trapped' \subseteq {"list", "adminRow", "studentRow"}
    BY <1>2 DEF Relaunch, TypeOK
  <2> QED BY <1>2, <2>1, AppEndsTyped DEF Relaunch
<1>3. CASE UNCHANGED vars
  BY <1>3, TypeWithoutWrites
     DEF vars, pipelineVars, serverVars, TypeOK, AdminTypeOK, RestTypeOK
<1> QED
  BY <1>1, <1>2, <1>3, FormTyped, AddEventTyped, AddEventAnswersTyped, AddEventFailsTyped,
     ServerAppliesTyped, AcknowledgeTyped, RefuseTyped, AdminReadsTyped, StudentTyped
     DEF Next

(* The types hold in every state: acknowledged, applied and persisted      *)
(* writes stay in their order, reads wait only for events that were        *)
(* entered, and only events of the app can be cut off.                     *)
THEOREM TypeCorrect == Spec => []TypeOK
<1>1. TypeOK /\ Fresh /\ [Next]_vars => TypeOK' /\ Fresh'
  BY TypeStep, FreshStep
<1> QED BY TypeInitially, FreshInitially, <1>1, PTL DEF Spec

----------------------------------------------------------------------------
(* The second write of addEvent is made for a document that is there.      *)
Exists(e) == documents[e].exists = TRUE

MadeFirst ==
  /\ \A d \in Devices : \A e \in createdEvents[d] : Exists(e)
  /\ \A d \in Devices : \A i \in 1 .. Len(writes[d]) :
       writes[d][i].op = "createdEvents" => Exists(writes[d][i].event)
  /\ \A e \in Events : add[e].state = "answered" => Exists(e)
  /\ \A d \in Devices : \A i \in 1 .. applied[d] :
       writes[d][i].op = "addDocument" => Exists(writes[d][i].event)

LEMMA MadeFirstInitially == Init => MadeFirst
BY DEF Init, PipelineInit, MadeFirst, Unused

LEMMA MadeFirstSays == MadeFirst => CreatedEventsExist
BY DEF MadeFirst, Exists, CreatedEventsExist

(* Documents stay, whatever is written.                                    *)
LEMMA DocumentsStay ==
  ASSUME TypeOK, [Next]_vars, NEW e \in Events, Exists(e)
  PROVE  documents'[e].exists = TRUE
<1>1. ASSUME NEW d \in Devices, ServerApplies(d)
      PROVE  documents'[e].exists = TRUE
  BY <1>1 DEF ServerApplies, Document, Exists, TypeOK
<1>2. ASSUME documents' = documents
      PROVE  documents'[e].exists = TRUE
  BY <1>2 DEF Exists
<1>3. ASSUME NEW d \in Devices,
             \/ \E x \in Events : AddEvent(d, x)
             \/ Acknowledge(d) \/ Refuse(d) \/ AppEnds(d)
             \/ Persist(d) \/ StreamBreaks(d) \/ SignIn(d)
      PROVE  documents' = documents
  BY <1>3 DEF AddEvent, Acknowledge, Refuse, AppEnds, Persist, StreamBreaks, SignIn, serverVars
<1>4. ASSUME NEW x \in Events, AddEventAnswers(x) \/ AddEventFails(x)
      PROVE  documents' = documents
  BY <1>4 DEF AddEventAnswers, AddEventFails, serverVars
<1>5. Quiet => documents' = documents
  BY DEF Quiet, serverVars
<1> QED BY <1>1, <1>2, <1>3, <1>4, <1>5, Kinds

(* A step that puts nothing unmade on a list, on a queue or behind an      *)
(* answer.                                                                 *)
LEMMA MadeFirstStays ==
  ASSUME TypeOK, TypeOK', MadeFirst, [Next]_vars, OldApplied, createdEvents' = createdEvents,
         \A c \in Devices : \A i \in 1 .. Len(writes'[c]) :
           \/ OldWrite(c, i)
           \/ writes'[c][i].op = "createdEvents" => Exists(writes'[c][i].event),
         \A e \in Events : add'[e].state = "answered" => Exists(e)
  PROVE  MadeFirst'
<1>1. \A e \in Events : Exists(e) => documents'[e].exists = TRUE
  BY DocumentsStay
<1>2. \A d \in Devices : \A e \in createdEvents'[d] : documents'[e].exists = TRUE
  BY <1>1 DEF MadeFirst, TypeOK
<1>3. ASSUME NEW c \in Devices, NEW i \in 1 .. Len(writes'[c]),
             writes'[c][i].op = "createdEvents"
      PROVE  documents'[writes'[c][i].event].exists = TRUE
  <2>1. Exists(writes'[c][i].event) /\ writes'[c][i].event \in Events
    <3>1. CASE OldWrite(c, i)
      <4>1. PICK j \in 1 .. Len(writes[c]) : writes'[c][i] = writes[c][j]
        BY <3>1 DEF OldWrite
      <4>2. writes[c][j].event \in Events
        BY WriteInQueue
      <4> QED BY <1>3, <4>1, <4>2 DEF MadeFirst
    <3>2. CASE ~OldWrite(c, i)
      <4>1. writes'[c][i] \in Mutations
        BY ElementOfSeq DEF TypeOK, PipelineTypeOK
      <4> QED BY <1>3, <3>2, <4>1 DEF Mutations
    <3> QED BY <3>1, <3>2
  <2> QED BY <1>1, <2>1
<1>4. \A e \in Events : add'[e].state = "answered" => documents'[e].exists = TRUE
  BY <1>1
<1>5. ASSUME NEW c \in Devices, NEW i \in 1 .. applied'[c],
             writes'[c][i].op = "addDocument"
      PROVE  documents'[writes'[c][i].event].exists = TRUE
  <2>1. PICK j \in 1 .. applied[c] : writes'[c][i] = writes[c][j]
    BY <1>5 DEF OldApplied
  <2>2. j \in 1 .. Len(writes[c])
    BY QueueSizes
  <2>3. writes[c][j].event \in Events
    BY <2>2, WriteInQueue
  <2>4. Exists(writes[c][j].event)
    BY <1>5, <2>1 DEF MadeFirst
  <2> QED BY <1>1, <2>1, <2>3, <2>4
<1> QED BY <1>2, <1>3, <1>4, <1>5 DEF MadeFirst, Exists

LEMMA MadeFirstStep ==
  ASSUME TypeOK, TypeOK', Fresh, MadeFirst, [Next]_vars
  PROVE  MadeFirst'
<1>1. ASSUME NEW d \in Devices, NEW e \in Events, AddEvent(d, e)
      PROVE  MadeFirst'
  <2>1. PICK m \in Mutations : m = Write("addDocument", e, newEvent[d]) /\ m.op = "addDocument"
    BY WriteIsMutation DEF TypeOK, RowFields, Ops
  <2>2. OneNewWrite(d, m) /\ OldApplied
    BY <1>1, <2>1, EnqueuedBehind DEF AddEvent
  <2>3. \A x \in Events : add'[x].state = "answered" => Exists(x)
    BY <1>1 DEF AddEvent, TypeOK, MadeFirst
  <2>4. createdEvents' = createdEvents
    BY <1>1 DEF AddEvent, serverVars
  <2> QED BY <2>1, <2>2, <2>3, <2>4, MadeFirstStays DEF OneNewWrite
<1>2. ASSUME NEW e \in Events, AddEventAnswers(e)
      PROVE  MadeFirst'
  <2>1. PICK m \in Mutations : m = Write("createdEvents", e, {}) /\ m.event = e
    BY WriteIsMutation DEF Ops
  <2>2. PICK d \in Devices : d = add[e].device
    BY <1>2, CallHasDevice DEF AddEventAnswers
  <2>3. OneNewWrite(d, m) /\ OldApplied
    BY <1>2, <2>1, <2>2, EnqueuedBehind DEF AddEventAnswers
  <2>4. Exists(e)
    BY <1>2 DEF AddEventAnswers, MadeFirst
  <2>5. add[e] \in Calls
    BY <1>2, CallHasDevice DEF AddEventAnswers
  <2>6. \A x \in Events : add'[x].state = "answered" => Exists(x)
    BY <1>2, <2>5 DEF AddEventAnswers, TypeOK, MadeFirst, Calls
  <2>7. createdEvents' = createdEvents
    BY <1>2 DEF AddEventAnswers, serverVars
  <2> QED BY <2>1, <2>3, <2>4, <2>6, <2>7, MadeFirstStays DEF OneNewWrite
<1>3. ASSUME NEW e \in Events, AddEventFails(e)
      PROVE  MadeFirst'
  <2>1. add[e] \in Calls
    BY <1>3, CallHasDevice DEF AddEventFails
  <2>2. \A x \in Events : add'[x].state = "answered" => add[x].state = "answered"
    BY <1>3, <2>1 DEF AddEventFails, TypeOK, Calls
  <2>3. writes' = writes /\ applied' = applied /\ documents' = documents
        /\ createdEvents' = createdEvents
    BY <1>3 DEF AddEventFails, pipelineVars, serverVars
  <2> QED BY <2>2, <2>3 DEF MadeFirst, Exists
<1>4. ASSUME NEW d \in Devices, ServerApplies(d)
      PROVE  MadeFirst'
  <2>1. PICK m \in Mutations : m = NextToApply(d) /\ applied[d] + 1 \in 1 .. Len(writes[d])
    BY <1>4, TypeParts, ApplyAtServerStep DEF ServerApplies
  <2>2. /\ documents' = IF m.op = "addDocument"
                        THEN [documents EXCEPT ![m.event] = Document(m.fields)] ELSE documents
        /\ createdEvents' = IF m.op = "createdEvents"
                            THEN [createdEvents EXCEPT ![d] = @ \cup {m.event}] ELSE createdEvents
        /\ writes' = writes /\ add' = add
        /\ applied' = [applied EXCEPT ![d] = @ + 1]
    BY <1>4, <2>1 DEF ServerApplies, ApplyAtServer, adminVars
  <2>3. m = writes[d][applied[d] + 1] /\ m.event \in Events
    BY <2>1 DEF NextToApply, Mutations
  <2>4. \A e \in Events : Exists(e) => documents'[e].exists = TRUE
    BY DocumentsStay
  <2>5. m.op = "addDocument" => documents'[m.event].exists = TRUE
    BY <2>2, <2>3 DEF Document, TypeOK
  <2>6. m.op = "createdEvents" => Exists(m.event)
    BY <2>1, <2>3 DEF MadeFirst
  <2>7. \A c \in Devices : \A e \in createdEvents'[c] : documents'[e].exists = TRUE
    <3>1. \A c \in Devices : \A e \in createdEvents'[c] : Exists(e) /\ e \in Events
      BY <2>2, <2>3, <2>6 DEF MadeFirst, TypeOK
    <3> QED BY <2>4, <3>1
  <2>8. \A c \in Devices : \A i \in 1 .. Len(writes[c]) :
          writes[c][i].op = "createdEvents" => documents'[writes[c][i].event].exists = TRUE
    BY <2>4, WriteInQueue DEF MadeFirst
  <2>9. ASSUME NEW c \in Devices, NEW i \in 1 .. applied'[c],
               writes[c][i].op = "addDocument"
        PROVE  documents'[writes[c][i].event].exists = TRUE
    <3>1. CASE c = d /\ i = applied[d] + 1
      BY <2>3, <2>5, <2>9, <3>1
    <3>2. CASE ~(c = d /\ i = applied[d] + 1)
      <4>1. i \in 1 .. applied[c] /\ i \in 1 .. Len(writes[c])
        <5>1. applied[c] \in Nat /\ applied[c] <= Len(writes[c]) /\ Len(writes[c]) \in Nat
          BY QueueSizes
        <5>2. applied'[c] = IF c = d THEN applied[c] + 1 ELSE applied[c]
          BY <2>2 DEF TypeOK, PipelineTypeOK
        <5> QED BY <2>9, <3>2, <5>1, <5>2
      <4>2. Exists(writes[c][i].event) /\ writes[c][i].event \in Events
        BY <2>9, <4>1, WriteInQueue DEF MadeFirst
      <4> QED BY <2>4, <4>2
    <3> QED BY <3>1, <3>2
  <2>10. \A e \in Events : add[e].state = "answered" => documents'[e].exists = TRUE
    BY <2>4 DEF MadeFirst
  <2> QED BY <2>2, <2>7, <2>8, <2>9, <2>10 DEF MadeFirst, Exists
<1>5. ASSUME NEW d \in Devices, Acknowledge(d) \/ Refuse(d)
      PROVE  MadeFirst'
  <2>1. PICK m \in Mutations : m = Head(writes[d]) /\ m = writes[d][1]
    BY <1>5, DroppedFirst DEF Acknowledge, Refuse
  <2>2. NoNewWrites /\ OldApplied
    BY <1>5, DroppedFirst DEF Acknowledge, Refuse
  <2>3. createdEvents' = createdEvents
    BY <1>5 DEF Acknowledge, Refuse, serverVars
  <2>4. ASSUME NEW e \in Events, add'[e].state = "answered"
        PROVE  Exists(e)
    <3>1. CASE Acknowledge(d)
      <4>1. add' = Notify(m, "answered")
        BY <2>1, <3>1 DEF Acknowledge
      <4>2. 1 \in 1 .. applied[d]
        BY <3>1, QueueSizes DEF Acknowledge, HandleSuccessfulWrite
      <4>3. m.op = "addDocument" => Exists(m.event)
        BY <2>1, <4>2 DEF MadeFirst
      <4> QED BY <2>4, <4>1, <4>3, NotifyChanges DEF MadeFirst
    <3>2. CASE Refuse(d)
      <4>1. add' = Notify(m, "refused")
        BY <2>1, <3>2 DEF Refuse
      <4> QED BY <2>4, <4>1, NotifyChanges DEF MadeFirst
    <3> QED BY <1>5, <3>1, <3>2
  <2> QED BY <2>2, <2>3, <2>4, MadeFirstStays DEF NoNewWrites
<1>6. ASSUME NEW d \in Devices, AppEnds(d)
      PROVE  MadeFirst'
  <2>1. NoNewWrites /\ OldApplied
    BY <1>6, CutOff DEF AppEnds
  <2>2. createdEvents' = createdEvents
    BY <1>6 DEF AppEnds, serverVars
  <2>3. \A e \in Events : add'[e].state = "answered" => Exists(e)
    BY <1>6, AppEndsCalls DEF MadeFirst
  <2> QED BY <2>1, <2>2, <2>3, MadeFirstStays DEF NoNewWrites
<1>7. ASSUME NEW d \in Devices, Persist(d) \/ StreamBreaks(d) \/ SignIn(d)
      PROVE  MadeFirst'
  <2>1. writes' = writes /\ documents' = documents /\ createdEvents' = createdEvents /\ add' = add
    BY <1>7 DEF Persist, StreamBreaks, SignIn, WriteLocally, OnWriteStreamClose, ServeAgain,
       serverVars, adminVars
  <2>2. \A c \in Devices : applied'[c] = applied[c] \/ applied'[c] = 0
    BY <1>7 DEF Persist, StreamBreaks, SignIn, WriteLocally, OnWriteStreamClose, ServeAgain,
       TypeOK, PipelineTypeOK
  <2>3. \A c \in Devices : \A i \in 1 .. applied'[c] : i \in 1 .. applied[c]
    BY <2>2
  <2> QED BY <2>1, <2>3 DEF MadeFirst, Exists
<1>8. Quiet => MadeFirst'
  BY DEF Quiet, pipelineVars, serverVars, MadeFirst, Exists
<1> QED BY <1>1, <1>2, <1>3, <1>4, <1>5, <1>6, <1>7, <1>8, Kinds

(* The ids on an administrator's list, and those on their way to it, name  *)
(* documents the server has: addEvent makes its second write only behind   *)
(* the answer to the first.                                                *)
THEOREM CreatedEventsAlwaysExist == Spec => []CreatedEventsExist
<1>1. TypeOK /\ Fresh /\ MadeFirst /\ [Next]_vars => TypeOK' /\ Fresh' /\ MadeFirst'
  BY TypeStep, FreshStep, MadeFirstStep
<1> QED BY TypeInitially, FreshInitially, MadeFirstInitially, MadeFirstSays, <1>1, PTL DEF Spec

----------------------------------------------------------------------------
(* What students can enter: the events made outside the app, since a form  *)
(* never writes the count of members a row is made of.                     *)
DocumentsUnchanged == documents' = documents

LEMMA DocumentsChange ==
  ASSUME [Next]_vars
  PROVE  DocumentsUnchanged \/ \E d \in Devices : ServerApplies(d)
<1>1. ASSUME NEW d \in Devices,
             \/ \E x \in Events : AddEvent(d, x)
             \/ Acknowledge(d) \/ Refuse(d) \/ AppEnds(d)
             \/ Persist(d) \/ StreamBreaks(d) \/ SignIn(d)
      PROVE  DocumentsUnchanged
  BY <1>1 DEF AddEvent, Acknowledge, Refuse, AppEnds, Persist, StreamBreaks, SignIn, serverVars,
              DocumentsUnchanged
<1>2. ASSUME NEW x \in Events, AddEventAnswers(x) \/ AddEventFails(x)
      PROVE  DocumentsUnchanged
  BY <1>2 DEF AddEventAnswers, AddEventFails, serverVars, DocumentsUnchanged
<1>3. Quiet => DocumentsUnchanged
  BY DEF Quiet, serverVars, DocumentsUnchanged
<1> QED BY <1>1, <1>2, <1>3, Kinds

Uncounted(e) == Exists(e) => "eventMembersCount" \notin documents[e].fields

RowsKnown ==
  /\ \A e \in Imported : documents[e] = Document(RowFields)
  /\ \A e \in Events \ Imported : Uncounted(e)

StudentSafe == entered \subseteq Imported /\ "studentRow" \notin trapped

LEMMA StudentInitially == Init => RowsKnown /\ StudentSafe
BY CreationAssumption DEF Init, RowsKnown, Uncounted, Exists, NoDocument, StudentSafe

LEMMA RowsKnownStep ==
  ASSUME TypeOK, Fresh, RowsKnown, [Next]_vars
  PROVE  RowsKnown'
<1>1. CASE DocumentsUnchanged
  BY <1>1 DEF DocumentsUnchanged, RowsKnown, Uncounted, Exists
<1>2. ASSUME NEW d \in Devices, ServerApplies(d)
      PROVE  RowsKnown'
  <2>1. applied[d] + 1 \in 1 .. Len(writes[d]) /\ NextToApply(d) = writes[d][applied[d] + 1]
    BY <1>2, TypeParts, ApplyAtServerStep DEF ServerApplies, NextToApply
  <2>2. PICK m \in Mutations : m = NextToApply(d) /\ m = writes[d][applied[d] + 1]
    BY <2>1, WriteInQueue
  <2>3. documents' = IF m.op = "addDocument"
                     THEN [documents EXCEPT ![m.event] = Document(m.fields)] ELSE documents
    BY <1>2, <2>2 DEF ServerApplies
  <2>4. /\ m.event \in Events \ Imported
        /\ m.op = "addDocument" => "eventMembersCount" \notin m.fields
    BY <2>1, <2>2 DEF Fresh, Mutations, FormFields
  <2>5. \A e \in Imported : documents'[e] = documents[e]
    BY <2>3, <2>4, CreationAssumption DEF TypeOK
  <2>6. ASSUME NEW e \in Events \ Imported, documents'[e].exists = TRUE
        PROVE  "eventMembersCount" \notin documents'[e].fields
    <3>1. CASE m.op = "addDocument" /\ m.event = e
      BY <2>3, <2>4, <3>1 DEF Document, TypeOK
    <3>2. CASE ~(m.op = "addDocument" /\ m.event = e)
      <4>1. documents'[e] = documents[e]
        BY <2>3, <2>4, <3>2 DEF TypeOK
      <4> QED BY <2>6, <4>1 DEF RowsKnown, Uncounted, Exists
    <3> QED BY <3>1, <3>2
  <2> QED BY <2>5, <2>6 DEF RowsKnown, Uncounted, Exists
<1> QED BY <1>1, <1>2, DocumentsChange

(* Every event in the table of events is an imported one.                  *)
LEMMA RowsAreImported ==
  ASSUME TypeOK, RowsKnown
  PROVE  EventsArray \subseteq Imported
<1>1. ASSUME NEW e \in EventsArray, e \notin Imported
      PROVE  FALSE
  <2>1. e \in Events /\ documents[e].exists /\ "eventMembersCount" \in documents[e].fields
    BY <1>1 DEF EventsArray, RowFields
  <2>2. Exists(e)
    BY <2>1 DEF TypeOK, Documents, NoDocument, Exists
  <2> QED BY <1>1, <2>1, <2>2 DEF RowsKnown, Uncounted
<1> QED BY <1>1

LEMMA StudentSafeStep ==
  ASSUME TypeOK, RowsKnown, StudentSafe, [Next]_vars
  PROVE  StudentSafe'
<1>1. ASSUME NEW d \in Devices,
             \/ \E f \in FormFields : TextFieldDidEnd(d, f)
             \/ \E e \in Events : AddEvent(d, e)
             \/ Persist(d) \/ ServerApplies(d) \/ Acknowledge(d) \/ Refuse(d)
             \/ StreamBreaks(d) \/ SignIn(d) \/ Relaunch(d) \/ ShowAdminEvents(d) \/ ReadFails(d)
      PROVE  StudentSafe'
  BY <1>1 DEF TextFieldDidEnd, AddEvent, Persist, ServerApplies, Acknowledge, Refuse,
              StreamBreaks, SignIn, Relaunch, AppEnds, ShowAdminEvents, ReadFails, studentVars,
              StudentSafe
<1>2. ASSUME NEW d \in Devices,
             GetAdminEventsAnswers(d) \/ \E e \in Events : EventRowAnswers(d, e)
      PROVE  StudentSafe'
  <2>1. /\ entered' = entered
        /\ trapped' \subseteq trapped \cup {"list", "adminRow"}
    BY <1>2 DEF GetAdminEventsAnswers, EventRowAnswers, AppEnds, studentVars
  <2> QED BY <2>1 DEF StudentSafe
<1>3. ASSUME NEW e \in Events, AddEventAnswers(e) \/ AddEventFails(e) \/ UserEventFails(e)
      PROVE  StudentSafe'
  BY <1>3 DEF AddEventAnswers, AddEventFails, UserEventFails, studentVars, StudentSafe
<1>4. ASSUME NEW e \in Events, EntryToEvent(e)
      PROVE  StudentSafe'
  BY <1>4, RowsAreImported DEF EntryToEvent, StudentSafe
<1>5. ASSUME NEW e \in Events, UserEventAnswers(e)
      PROVE  StudentSafe'
  <2>1. e \in Imported
    BY <1>5 DEF UserEventAnswers, TypeOK, StudentSafe
  <2>2. TakesForGranted(documents[e])
    BY <2>1 DEF RowsKnown, TakesForGranted, Document, Unwrapped
  <2>3. entered' = entered /\ trapped' = trapped
    BY <1>5, <2>2 DEF UserEventAnswers
  <2> QED BY <2>3 DEF StudentSafe
<1>6. ShowUserEvents => StudentSafe'
  BY DEF ShowUserEvents, StudentSafe
<1>7. UNCHANGED vars => StudentSafe'
  BY DEF vars, StudentSafe
<1> QED BY <1>1, <1>2, <1>3, <1>4, <1>5, <1>6, <1>7 DEF Next

(* The profile of a student never ends the app on a missing value: only    *)
(* imported events are ever in the table, so only these can be entered,    *)
(* and no write of the app touches their documents.                        *)
THEOREM StudentProfileAlwaysHolds == Spec => []StudentProfileHolds
<1>1. TypeOK /\ Fresh /\ RowsKnown /\ StudentSafe /\ [Next]_vars
      => TypeOK' /\ Fresh' /\ RowsKnown' /\ StudentSafe'
  BY TypeStep, FreshStep, RowsKnownStep, StudentSafeStep
<1>2. StudentSafe => StudentProfileHolds
  BY DEF StudentSafe, StudentProfileHolds
<1> QED BY TypeInitially, FreshInitially, StudentInitially, <1>1, <1>2, PTL DEF Spec
----------------------------------------------------------------------------
(* Where an added event is: its call or its write for the list is under    *)
(* way, it is on a list, or it was cut off.                                *)
Used(e) == add[e].state # "unused"

(* Only added events are written, and only written ones exist.             *)
UsedOnly ==
  /\ \A d \in Devices : \A i \in 1 .. Len(writes[d]) : Used(writes[d][i].event)
  /\ \A e \in Events \ Imported : Exists(e) => Used(e)

(* What the server has applied is on the list.                             *)
AppliedListed ==
  \A d \in Devices : \A i \in 1 .. applied[d] :
    writes[d][i].op = "createdEvents" => writes[d][i].event \in createdEvents[d]

Queued(e) == \E d \in Devices : \E i \in 1 .. Len(writes[d]) :
               writes[d][i].op = "createdEvents" /\ writes[d][i].event = e

Explained(e) == Listed(e) \/ Underway(e) \/ e \in cut

Accounted == \A e \in Events \ Imported : Used(e) => Explained(e)

LEMMA AccountedInitially == Init => UsedOnly /\ AppliedListed /\ Accounted
BY DEF Init, PipelineInit, UsedOnly, AppliedListed, Accounted, Used, Unused, Exists,
       NoDocument

LEMMA AccountedSays ==
  ASSUME TypeOK, UsedOnly, Accounted
  PROVE  OrphansExplained
<1>1. \A e \in Events : documents[e].exists => Exists(e)
  BY DEF TypeOK, Documents, NoDocument, Exists
<1> QED BY <1>1 DEF UsedOnly, Accounted, Explained, OrphansExplained

(* A call leaves its id used for good.                                     *)
LEMMA UsedStays ==
  ASSUME TypeOK, [Next]_vars, NEW e \in Events, Used(e)
  PROVE  add'[e].state # "unused"
<1>1. ASSUME NEW d \in Devices, NEW x \in Events, AddEvent(d, x)
      PROVE  add'[e].state # "unused"
  BY <1>1 DEF AddEvent, TypeOK, Used, Unused
<1>2. ASSUME NEW x \in Events, AddEventAnswers(x) \/ AddEventFails(x)
      PROVE  add'[e].state # "unused"
  <2>1. add[x] \in Calls
    BY <1>2, CallHasDevice DEF AddEventAnswers, AddEventFails
  <2> QED BY <1>2, <2>1 DEF AddEventAnswers, AddEventFails, TypeOK, Used, Calls
<1>3. ASSUME NEW d \in Devices, Acknowledge(d) \/ Refuse(d)
      PROVE  add'[e].state # "unused"
  <2>1. PICK m \in Mutations : m = Head(writes[d])
    BY <1>3, DroppedFirst DEF Acknowledge, Refuse
  <2>2. add' = Notify(m, "answered") \/ add' = Notify(m, "refused")
    BY <1>3, <2>1 DEF Acknowledge, Refuse
  <2> QED BY <2>2, NotifyChanges DEF Used
<1>4. ASSUME NEW d \in Devices, AppEnds(d)
      PROVE  add'[e].state # "unused"
  BY <1>4, AppEndsCalls DEF Used
<1>5. ASSUME NEW d \in Devices, ServerApplies(d) \/ Persist(d) \/ StreamBreaks(d) \/ SignIn(d)
      PROVE  add'[e].state # "unused"
  BY <1>5 DEF ServerApplies, Persist, StreamBreaks, SignIn, adminVars, Used
<1>6. Quiet => add'[e].state # "unused"
  BY DEF Quiet, Used
<1> QED BY <1>1, <1>2, <1>3, <1>4, <1>5, <1>6, Kinds

(* What is on a queue after a step was there, or is of an added event.     *)
LEMMA QueueChanges ==
  ASSUME TypeOK, [Next]_vars, NEW c \in Devices, NEW i \in 1 .. Len(writes'[c])
  PROVE  OldWrite(c, i) \/ add'[writes'[c][i].event].state # "unused"
<1>1. ASSUME writes' = writes
      PROVE  OldWrite(c, i)
  BY <1>1 DEF OldWrite
<1>2. ASSUME NEW d \in Devices, NEW e \in Events, AddEvent(d, e)
      PROVE  OldWrite(c, i) \/ add'[writes'[c][i].event].state # "unused"
  <2>1. PICK m \in Mutations : m = Write("addDocument", e, newEvent[d]) /\ m.event = e
    BY WriteIsMutation DEF TypeOK, RowFields, Ops
  <2>2. OneNewWrite(d, m)
    BY <1>2, <2>1, EnqueuedBehind DEF AddEvent
  <2>3. add'[e].state # "unused"
    BY <1>2 DEF AddEvent, TypeOK
  <2> QED BY <2>1, <2>2, <2>3 DEF OneNewWrite
<1>3. ASSUME NEW e \in Events, AddEventAnswers(e)
      PROVE  OldWrite(c, i) \/ add'[writes'[c][i].event].state # "unused"
  <2>1. PICK m \in Mutations : m = Write("createdEvents", e, {}) /\ m.event = e
    BY WriteIsMutation DEF Ops
  <2>2. PICK d \in Devices : d = add[e].device
    BY <1>3, CallHasDevice DEF AddEventAnswers
  <2>3. OneNewWrite(d, m)
    BY <1>3, <2>1, <2>2, EnqueuedBehind DEF AddEventAnswers
  <2>4. add'[e].state # "unused"
    BY <1>3, UsedStays DEF AddEventAnswers, Used
  <2> QED BY <2>1, <2>3, <2>4 DEF OneNewWrite
<1>4. ASSUME NEW d \in Devices, Acknowledge(d) \/ Refuse(d) \/ AppEnds(d)
      PROVE  OldWrite(c, i)
  <2>1. NoNewWrites
    BY <1>4, DroppedFirst, CutOff DEF Acknowledge, Refuse, AppEnds
  <2> QED BY <2>1 DEF NoNewWrites
<1>5. ASSUME NEW d \in Devices, ServerApplies(d) \/ Persist(d) \/ StreamBreaks(d) \/ SignIn(d)
      PROVE  writes' = writes
  BY <1>5 DEF ServerApplies, Persist, StreamBreaks, SignIn, ApplyAtServer, WriteLocally,
              OnWriteStreamClose, ServeAgain
<1>6. ASSUME NEW e \in Events, AddEventFails(e)
      PROVE  writes' = writes
  BY <1>6 DEF AddEventFails, pipelineVars
<1>7. Quiet => writes' = writes
  BY DEF Quiet, pipelineVars
<1> QED BY <1>1, <1>2, <1>3, <1>4, <1>5, <1>6, <1>7, Kinds

LEMMA UsedOnlyStep ==
  ASSUME TypeOK, UsedOnly, [Next]_vars
  PROVE  UsedOnly'
<1>1. ASSUME NEW c \in Devices, NEW i \in 1 .. Len(writes'[c])
      PROVE  add'[writes'[c][i].event].state # "unused"
  <2>1. CASE OldWrite(c, i)
    <3>1. PICK j \in 1 .. Len(writes[c]) : writes'[c][i] = writes[c][j]
      BY <2>1 DEF OldWrite
    <3>2. PICK e \in Events : e = writes[c][j].event
      BY WriteInQueue
    <3>3. Used(e)
      BY <3>2 DEF UsedOnly
    <3>4. add'[e].state # "unused"
      BY <3>3, UsedStays
    <3> QED BY <3>1, <3>2, <3>4
  <2> QED BY <2>1, QueueChanges
<1>2. ASSUME NEW e \in Events \ Imported, documents'[e].exists = TRUE
      PROVE  add'[e].state # "unused"
  <2>1. Used(e)
    <3>1. CASE Exists(e)
      BY <3>1 DEF UsedOnly
    <3>2. CASE ~Exists(e)
      <4>1. PICK d \in Devices : ServerApplies(d)
        BY <1>2, <3>2, DocumentsChange DEF DocumentsUnchanged, Exists
      <4>2. applied[d] + 1 \in 1 .. Len(writes[d]) /\ NextToApply(d) = writes[d][applied[d] + 1]
        BY <4>1, TypeParts, ApplyAtServerStep DEF ServerApplies, NextToApply
      <4>3. PICK m \in Mutations : m = NextToApply(d) /\ m = writes[d][applied[d] + 1]
        BY <4>2, WriteInQueue
      <4>4. documents' = IF m.op = "addDocument"
                         THEN [documents EXCEPT ![m.event] = Document(m.fields)] ELSE documents
        BY <4>1, <4>3 DEF ServerApplies
      <4>5. m.event = e
        BY <1>2, <3>2, <4>4 DEF Exists, TypeOK
      <4> QED BY <4>2, <4>3, <4>5 DEF UsedOnly
    <3> QED BY <3>1, <3>2
  <2> QED BY <2>1, UsedStays
<1> QED BY <1>1, <1>2 DEF UsedOnly, Used, Exists

(* A list loses nothing.                                                   *)
LEMMA ListsGrow ==
  ASSUME TypeOK, [Next]_vars, NEW c \in Devices
  PROVE  createdEvents[c] \subseteq createdEvents'[c]
<1>1. ASSUME NEW d \in Devices, ServerApplies(d)
      PROVE  createdEvents[c] \subseteq createdEvents'[c]
  <2>1. PICK m \in Mutations : m = NextToApply(d)
    BY <1>1, TypeParts, ApplyAtServerStep DEF ServerApplies
  <2>2. createdEvents' = IF m.op = "createdEvents"
                         THEN [createdEvents EXCEPT ![d] = @ \cup {m.event}] ELSE createdEvents
    BY <1>1, <2>1 DEF ServerApplies
  <2> QED BY <2>2 DEF TypeOK
<1>2. ASSUME NEW d \in Devices,
             \/ \E e \in Events : AddEvent(d, e)
             \/ Acknowledge(d) \/ Refuse(d) \/ AppEnds(d)
             \/ Persist(d) \/ StreamBreaks(d) \/ SignIn(d)
      PROVE  createdEvents' = createdEvents
  BY <1>2 DEF AddEvent, Acknowledge, Refuse, AppEnds, Persist, StreamBreaks, SignIn, serverVars
<1>3. ASSUME NEW e \in Events, AddEventAnswers(e) \/ AddEventFails(e)
      PROVE  createdEvents' = createdEvents
  BY <1>3 DEF AddEventAnswers, AddEventFails, serverVars
<1>4. Quiet => createdEvents' = createdEvents
  BY DEF Quiet, serverVars
<1> QED BY <1>1, <1>2, <1>3, <1>4, Kinds

LEMMA AppliedChange ==
  ASSUME TypeOK, [Next]_vars
  PROVE  OldApplied \/ \E d \in Devices : ServerApplies(d)
<1>1. ASSUME NEW d \in Devices, NEW e \in Events, AddEvent(d, e)
      PROVE  OldApplied
  <2>1. PICK m \in Mutations : m = Write("addDocument", e, newEvent[d])
    BY WriteIsMutation DEF TypeOK, RowFields, Ops
  <2> QED BY <1>1, <2>1, EnqueuedBehind DEF AddEvent
<1>2. ASSUME NEW e \in Events, AddEventAnswers(e)
      PROVE  OldApplied
  <2>1. PICK m \in Mutations : m = Write("createdEvents", e, {})
    BY WriteIsMutation DEF Ops
  <2>2. PICK d \in Devices : d = add[e].device
    BY <1>2, CallHasDevice DEF AddEventAnswers
  <2> QED BY <1>2, <2>1, <2>2, EnqueuedBehind DEF AddEventAnswers
<1>3. ASSUME NEW d \in Devices, Acknowledge(d) \/ Refuse(d) \/ AppEnds(d)
      PROVE  OldApplied
  BY <1>3, DroppedFirst, CutOff DEF Acknowledge, Refuse, AppEnds
<1>4. ASSUME NEW d \in Devices, Persist(d) \/ StreamBreaks(d) \/ SignIn(d)
      PROVE  OldApplied
  <2>1. writes' = writes /\ \A c \in Devices : applied'[c] = applied[c] \/ applied'[c] = 0
    BY <1>4 DEF Persist, StreamBreaks, SignIn, WriteLocally, OnWriteStreamClose, ServeAgain,
       TypeOK, PipelineTypeOK
  <2> QED BY <2>1 DEF OldApplied
<1>5. ASSUME NEW e \in Events, AddEventFails(e)
      PROVE  OldApplied
  BY <1>5 DEF AddEventFails, pipelineVars, OldApplied
<1>6. Quiet => OldApplied
  BY DEF Quiet, pipelineVars, OldApplied
<1> QED BY <1>1, <1>2, <1>3, <1>4, <1>5, <1>6, Kinds

LEMMA AppliedListedStep ==
  ASSUME TypeOK, AppliedListed, [Next]_vars
  PROVE  AppliedListed'
<1>1. CASE OldApplied
  <2>1. ASSUME NEW c \in Devices, NEW i \in 1 .. applied'[c],
               writes'[c][i].op = "createdEvents"
        PROVE  writes'[c][i].event \in createdEvents'[c]
    <3>1. PICK j \in 1 .. applied[c] : writes'[c][i] = writes[c][j]
      BY <1>1, <2>1 DEF OldApplied
    <3>2. writes[c][j].event \in createdEvents[c]
      BY <2>1, <3>1 DEF AppliedListed
    <3> QED BY <3>1, <3>2, ListsGrow
  <2> QED BY <2>1 DEF AppliedListed
<1>2. ASSUME NEW d \in Devices, ServerApplies(d)
      PROVE  AppliedListed'
  <2>1. applied[d] + 1 \in 1 .. Len(writes[d]) /\ NextToApply(d) = writes[d][applied[d] + 1]
    BY <1>2, TypeParts, ApplyAtServerStep DEF ServerApplies, NextToApply
  <2>2. PICK m \in Mutations : m = NextToApply(d) /\ m = writes[d][applied[d] + 1]
    BY <2>1, WriteInQueue
  <2>3. /\ createdEvents' = IF m.op = "createdEvents"
                            THEN [createdEvents EXCEPT ![d] = @ \cup {m.event}] ELSE createdEvents
        /\ writes' = writes
        /\ applied' = [applied EXCEPT ![d] = @ + 1]
    BY <1>2, <2>2 DEF ServerApplies, ApplyAtServer
  <2>4. ASSUME NEW c \in Devices, NEW i \in 1 .. applied'[c],
               writes[c][i].op = "createdEvents"
        PROVE  writes[c][i].event \in createdEvents'[c]
    <3>1. CASE c = d /\ i = applied[d] + 1
      <4>1. m.event \in createdEvents'[d]
        BY <2>2, <2>3, <2>4, <3>1 DEF TypeOK
      <4> QED BY <2>2, <3>1, <4>1
    <3>2. CASE ~(c = d /\ i = applied[d] + 1)
      <4>1. applied'[c] = IF c = d THEN applied[c] + 1 ELSE applied[c]
        BY <2>3 DEF TypeOK, PipelineTypeOK
      <4>2. applied[c] \in Nat
        BY QueueSizes
      <4>3. i \in 1 .. applied[c]
        BY <2>4, <3>2, <4>1, <4>2
      <4>4. writes[c][i].event \in createdEvents[c]
        BY <2>4, <4>3 DEF AppliedListed
      <4> QED BY <4>4, ListsGrow
    <3> QED BY <3>1, <3>2
  <2> QED BY <2>3, <2>4 DEF AppliedListed
<1> QED BY <1>1, <1>2, AppliedChange

(* What was accounted for stays so while its writes and its call last, or  *)
(* what ends them says so.                                                 *)
LEMMA ExplainedStays ==
  ASSUME TypeOK, [Next]_vars, NEW e \in Events, Explained(e), cut \subseteq cut',
         add[e].state \in {"sent", "answered"}
           => add'[e].state \in {"sent", "answered"} \/ e \in cut' \/ Queued(e)',
         \A c \in Devices : \A i \in 1 .. Len(writes[c]) :
           writes[c][i].op = "createdEvents" /\ writes[c][i].event = e
             => Listed(e)' \/ e \in cut' \/ Queued(e)'
  PROVE  Explained(e)'
<1>1. CASE Listed(e)
  <2>1. PICK d \in Devices : e \in createdEvents[d]
    BY <1>1 DEF Listed
  <2>2. e \in createdEvents'[d]
    BY <2>1, ListsGrow
  <2> QED BY <2>2 DEF Explained, Listed
<1>2. CASE Underway(e)
  BY <1>2 DEF Underway, Queued, Explained
<1>3. CASE e \in cut
  BY <1>3 DEF Explained
<1> QED BY <1>1, <1>2, <1>3 DEF Explained

(* The lemma for the steps that take no write off a queue.                 *)
LEMMA ExplainedStaysQueued ==
  ASSUME TypeOK, [Next]_vars, NEW e \in Events, Explained(e), cut' = cut,
         add[e].state \in {"sent", "answered"}
           => add'[e].state \in {"sent", "answered"} \/ Queued(e)',
         \A c \in Devices : \A i \in 1 .. Len(writes[c]) :
           i \in 1 .. Len(writes'[c]) /\ writes'[c][i] = writes[c][i]
  PROVE  Explained(e)'
<1>1. ASSUME NEW c \in Devices, NEW i \in 1 .. Len(writes[c]),
             writes[c][i].op = "createdEvents" /\ writes[c][i].event = e
      PROVE  Queued(e)'
  BY <1>1 DEF Queued
<1> QED BY <1>1, ExplainedStays

LEMMA AddEventAccounted ==
  ASSUME TypeOK, Accounted, [Next]_vars, NEW d \in Devices, NEW x \in Events, AddEvent(d, x)
  PROVE  Accounted'
<1>1. PICK m \in Mutations : m = Write("addDocument", x, newEvent[d])
  BY WriteIsMutation DEF TypeOK, RowFields, Ops
<1>2. \A c \in Devices : \A i \in 1 .. Len(writes[c]) :
        i \in 1 .. Len(writes'[c]) /\ writes'[c][i] = writes[c][i]
  BY <1>1, EnqueuedBehind DEF AddEvent
<1>3. ASSUME NEW e \in Events \ Imported, add'[e].state # "unused"
      PROVE  Explained(e)'
  <2>1. CASE e = x
    <3>1. add'[e].state = "sent"
      BY <2>1 DEF AddEvent, TypeOK
    <3> QED BY <3>1 DEF Explained, Underway
  <2>2. CASE e # x
    <3>1. add'[e] = add[e] /\ cut' = cut
      BY <2>2 DEF AddEvent, TypeOK
    <3>2. Explained(e)
      BY <1>3, <3>1 DEF Accounted, Used
    <3> QED BY <1>2, <3>1, <3>2, ExplainedStaysQueued
  <2> QED BY <2>1, <2>2
<1> QED BY <1>3 DEF Accounted, Used

LEMMA AddEventAnswersAccounted ==
  ASSUME TypeOK, Accounted, [Next]_vars, NEW x \in Events, AddEventAnswers(x)
  PROVE  Accounted'
<1>1. PICK m \in Mutations : /\ m = Write("createdEvents", x, {})
                             /\ m.event = x /\ m.op = "createdEvents"
  BY WriteIsMutation DEF Ops
<1>2. PICK d \in Devices : d = add[x].device
  BY CallHasDevice DEF AddEventAnswers
<1>3. /\ \A c \in Devices : \A i \in 1 .. Len(writes[c]) :
           i \in 1 .. Len(writes'[c]) /\ writes'[c][i] = writes[c][i]
      /\ Len(writes[d]) + 1 \in 1 .. Len(writes'[d])
      /\ writes'[d][Len(writes[d]) + 1] = m
  BY <1>1, <1>2, EnqueuedBehind DEF AddEventAnswers
<1>4. Queued(x)'
  BY <1>1, <1>3 DEF Queued
<1>5. ASSUME NEW e \in Events \ Imported, add'[e].state # "unused"
      PROVE  Explained(e)'
  <2>1. CASE e = x
    BY <1>4, <2>1 DEF Explained, Underway, Queued
  <2>2. CASE e # x
    <3>1. add'[e] = add[e] /\ cut' = cut
      BY <2>2 DEF AddEventAnswers, TypeOK
    <3>2. Explained(e)
      BY <1>5, <3>1 DEF Accounted, Used
    <3> QED BY <1>3, <3>1, <3>2, ExplainedStaysQueued
  <2> QED BY <2>1, <2>2
<1> QED BY <1>5 DEF Accounted, Used

LEMMA AddEventFailsAccounted ==
  ASSUME TypeOK, Accounted, [Next]_vars, NEW x \in Events, AddEventFails(x)
  PROVE  Accounted'
<1>1. add[x] \in Calls /\ add[x].state = "refused"
  BY CallHasDevice DEF AddEventFails
<1>2. \A e \in Events : \/ add'[e] = add[e]
                        \/ add[e].state = "refused"
  BY <1>1 DEF AddEventFails, TypeOK
<1>3. cut' = cut /\ writes' = writes
  BY DEF AddEventFails, pipelineVars
<1>4. ASSUME NEW e \in Events \ Imported, add'[e].state # "unused"
      PROVE  Explained(e)'
  <2>1. Explained(e)
    BY <1>2, <1>4 DEF Accounted, Used
  <2>2. add[e].state \in {"sent", "answered"} => add'[e].state \in {"sent", "answered"}
    BY <1>2
  <2> QED BY <1>3, <2>1, <2>2, ExplainedStaysQueued
<1> QED BY <1>4 DEF Accounted, Used

(* The first write leaves its queue: an answered id is on the list, a      *)
(* refused one is cut off.                                                 *)
LEMMA AnswerAccounted ==
  ASSUME TypeOK, AppliedListed, Accounted, [Next]_vars, NEW d \in Devices,
         Acknowledge(d) \/ Refuse(d)
  PROVE  Accounted'
<1>1. /\ Head(writes[d]) = writes[d][1] /\ 1 \in 1 .. Len(writes[d])
      /\ Head(writes[d]) \in Mutations
      /\ \A c \in Devices : \A i \in 1 .. Len(writes[c]) :
           \/ c = d /\ i = 1
           \/ \E j \in 1 .. Len(writes'[c]) : writes'[c][j] = writes[c][i]
  BY DroppedFirst DEF Acknowledge, Refuse
<1>2. PICK m \in Mutations : m = Head(writes[d]) /\ m = writes[d][1]
  BY <1>1
<1>3. cut \subseteq cut'
  BY DEF Acknowledge, Refuse
<1>4. \/ Acknowledge(d) /\ add' = Notify(m, "answered")
      \/ Refuse(d) /\ add' = Notify(m, "refused") /\ m.event \in cut'
  BY <1>2 DEF Acknowledge, Refuse
<1>5. m.op = "createdEvents" => Listed(m.event)' \/ m.event \in cut'
  <2>1. CASE Acknowledge(d)
    <3>1. 1 \in 1 .. applied[d]
      BY <2>1, QueueSizes DEF Acknowledge, HandleSuccessfulWrite
    <3>2. m.op = "createdEvents" => m.event \in createdEvents[d]
      BY <1>2, <3>1 DEF AppliedListed
    <3> QED BY <3>2, ListsGrow DEF Listed
  <2> QED BY <1>4, <2>1
<1>6. ASSUME NEW e \in Events \ Imported, add'[e].state # "unused"
      PROVE  Explained(e)'
  <2>1. \/ add'[e] = add[e]
        \/ add[e].state = "sent" /\ (add'[e].state = "answered" \/ e \in cut')
    BY <1>4, NotifyChanges
  <2>2. Explained(e)
    BY <1>6, <2>1 DEF Accounted, Used
  <2>3. add[e].state \in {"sent", "answered"}
          => add'[e].state \in {"sent", "answered"} \/ e \in cut'
    BY <2>1
  <2>4. ASSUME NEW c \in Devices, NEW i \in 1 .. Len(writes[c]),
               writes[c][i].op = "createdEvents" /\ writes[c][i].event = e
        PROVE  Listed(e)' \/ e \in cut' \/ Queued(e)'
    <3>1. CASE c = d /\ i = 1
      BY <1>2, <1>5, <2>4, <3>1
    <3>2. CASE ~(c = d /\ i = 1)
      BY <1>1, <2>4, <3>2 DEF Queued
    <3> QED BY <3>1, <3>2
  <2> QED BY <1>3, <2>2, <2>3, <2>4, ExplainedStays
<1> QED BY <1>6 DEF Accounted, Used

(* The app ends: what it had still to do is cut off.                       *)
LEMMA AppEndsAccounted ==
  ASSUME TypeOK, Accounted, [Next]_vars, NEW d \in Devices, AppEnds(d)
  PROVE  Accounted'
<1>1. \A c \in Devices : \A i \in 1 .. Len(writes[c]) :
        \/ c = d /\ i \in stored[d] + 1 .. Len(writes[d])
        \/ i \in 1 .. Len(writes'[c]) /\ writes'[c][i] = writes[c][i]
  BY CutOff DEF AppEnds
<1>2. cut' = cut \cup Calling(d) \cup Unlisted(d)
  BY DEF AppEnds
<1>3. ASSUME NEW e \in Events \ Imported, add'[e].state # "unused"
      PROVE  Explained(e)'
  <2>1. \/ add'[e] = add[e] /\ e \notin Calling(d)
        \/ e \in Calling(d) /\ add[e].state # "unused"
    BY AppEndsCalls DEF Calls
  <2>2. Explained(e)
    BY <1>3, <2>1 DEF Accounted, Used
  <2>3. add[e].state \in {"sent", "answered"}
          => add'[e].state \in {"sent", "answered"} \/ e \in cut'
    BY <1>2, <2>1
  <2>4. ASSUME NEW c \in Devices, NEW i \in 1 .. Len(writes[c]),
               writes[c][i].op = "createdEvents" /\ writes[c][i].event = e
        PROVE  Listed(e)' \/ e \in cut' \/ Queued(e)'
    <3>1. CASE c = d /\ i \in stored[d] + 1 .. Len(writes[d])
      <4>1. e \in Unlisted(d)
        BY <2>4, <3>1 DEF Unlisted
      <4> QED BY <1>2, <4>1
    <3>2. CASE ~(c = d /\ i \in stored[d] + 1 .. Len(writes[d]))
      BY <1>1, <2>4, <3>2 DEF Queued
    <3> QED BY <3>1, <3>2
  <2>5. cut \subseteq cut'
    BY <1>2
  <2> QED BY <2>2, <2>3, <2>4, <2>5, ExplainedStays
<1> QED BY <1>3 DEF Accounted, Used

LEMMA AccountedStep ==
  ASSUME TypeOK, AppliedListed, Accounted, [Next]_vars
  PROVE  Accounted'
<1>1. ASSUME writes' = writes, add' = add, cut' = cut
      PROVE  Accounted'
  <2>1. \A e \in Events \ Imported : Used(e) => Explained(e)'
    BY <1>1, ExplainedStaysQueued DEF Accounted
  <2> QED BY <1>1, <2>1 DEF Accounted, Used
<1>2. ASSUME NEW d \in Devices, ServerApplies(d) \/ Persist(d) \/ StreamBreaks(d) \/ SignIn(d)
      PROVE  Accounted'
  BY <1>1, <1>2 DEF ServerApplies, Persist, StreamBreaks, SignIn, ApplyAtServer, WriteLocally,
                    OnWriteStreamClose, ServeAgain, adminVars
<1>3. Quiet => Accounted'
  BY <1>1 DEF Quiet, pipelineVars
<1> QED BY <1>2, <1>3, Kinds, AddEventAccounted, AddEventAnswersAccounted,
           AddEventFailsAccounted, AnswerAccounted, AppEndsAccounted

(* An event on nobody's list has one of addEvent's two steps under way, or *)
(* a crash or a refusal came between them: the calls that were answered,   *)
(* sent again after a lost answer or cut off by a death leave no other.    *)
THEOREM OrphansAlwaysExplained == Spec => []OrphansExplained
<1>1. /\ TypeOK /\ Fresh /\ UsedOnly /\ AppliedListed /\ Accounted /\ [Next]_vars
      => TypeOK' /\ Fresh' /\ UsedOnly' /\ AppliedListed' /\ Accounted'
  BY TypeStep, FreshStep, UsedOnlyStep, AppliedListedStep, AccountedStep
<1> QED BY TypeInitially, FreshInitially, AccountedInitially, AccountedSays, <1>1, PTL DEF Spec

=============================================================================
