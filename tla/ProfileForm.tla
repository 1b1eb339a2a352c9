----------------------------- MODULE ProfileForm -----------------------------
(***************************************************************************)
(* Updating the profile: the form reads each field of users/<email> when   *)
(* it opens and shows an answer whenever it comes; the complete button     *)
(* writes the fields one by one, each only if its text is valid, except    *)
(* the group number, which is written as it stands.                        *)
(*                                                                         *)
(* A read waits on the client's worker queue behind the writes called      *)
(* before it.  It returns the server's document with the device's own      *)
(* persisted writes on top; its answer then waits for the main queue.      *)
(* Each device has its own user, whose profile no other device writes.     *)
(***************************************************************************)
EXTENDS WritePipeline, FiniteSetsExt

CONSTANTS
  Texts,         \* what a text field can hold
  Refusable,     \* whether the backend may refuse a write for good
  MaxOpens,      \* bound: how often a device opens the form
  MaxCompletes   \* bound: how often its complete button is pressed

Blank == ""

ASSUME FormAssumption ==
  /\ Blank \in Texts
  /\ Texts \subseteq STRING
  /\ Refusable \in BOOLEAN
  /\ MaxOpens \in Nat /\ MaxCompletes \in Nat

Fields == {"name", "groupNumber"}   \* name stands for surname and phone, too

VARIABLES
  saved,      \* server: the fields of the profile of each device's user
  text,       \* per device, the text fields of the form
  read,       \* per device and field, its read
  shown,      \* history: per device, the fields shown or typed since the form opened
  cleared,    \* history: devices whose user cleared the group number
  early,      \* history: devices whose button was pressed before it was shown
  replaced,   \* history: devices where an answer replaced a number just typed
  numbered,   \* history: devices whose profile has had a group number
  latest,     \* history: per device and field, the value persisted last
  refused,    \* history: <<device, field>> of which a write was refused
  opens, completes

historyVars == <<cleared, early, replaced, numbered, latest, refused>>
formVars == <<text, read, shown>>
vars == <<writes, stored, applied, served, restarts, saved, text, read, shown,
          cleared, early, replaced, numbered, latest, refused, opens, completes>>

Mutations == [field : Fields, value : Texts]

(* An asked read knows how many writes are ahead of it on the worker queue. *)
NoRead      == [state |-> "none"]
Asked(n)    == [state |-> "asked", ahead |-> n]
Answered(v) == [state |-> "answered", value |-> v]
Reads ==
  {NoRead} \cup [state : {"asked"}, ahead : Nat]
           \cup [state : {"answered"}, value : Texts]

Numbered(d) == saved[d]["groupNumber"] # Blank

(* The sign-up shows an alert for an empty field and goes on: any field of *)
(* a profile can be blank from the start.                                  *)
Init ==
  /\ PipelineInit
  /\ saved \in [Devices -> [Fields -> Texts]]
  /\ text  = [d \in Devices |-> [f \in Fields |-> Blank]]
  /\ read  = [d \in Devices |-> [f \in Fields |-> NoRead]]
  /\ shown = [d \in Devices |-> {}]
  /\ cleared = {}
  /\ early   = {}
  /\ replaced = {}
  /\ numbered = {d \in Devices : Numbered(d)}
  /\ latest  = saved
  /\ refused = {}
  /\ opens = [d \in Devices |-> 0]
  /\ completes = [d \in Devices |-> 0]
----------------------------------------------------------------------------
(* What the device shows of a field: the last of its persisted writes, or  *)
(* else the server's value.                                                *)
Pending(d, f) == {i \in 1 .. stored[d] : writes[d][i].field = f}

(* Mutant of View: the first of the pending writes.                        *)
ViewOldest(d, f) ==
  IF Pending(d, f) = {} THEN saved[d][f] ELSE writes[d][Min(Pending(d, f))].value

View(d, f) ==
  IF Pending(d, f) = {} THEN saved[d][f] ELSE writes[d][Max(Pending(d, f))].value

(* The writes the worker has not come to yet.                              *)
Ahead(d) == Len(writes[d]) - stored[d]

(* The form is a new object each time: empty fields, all reads started;    *)
(* what an older one still waits for has nowhere to go.                    *)
ViewDidLoad(d) ==
  /\ d \in served
  /\ opens[d] < MaxOpens
  /\ opens' = [opens EXCEPT ![d] = @ + 1]
  /\ text'  = [text EXCEPT ![d] = [f \in Fields |-> Blank]]
  /\ read'  = [read EXCEPT ![d] = [f \in Fields |-> Asked(Ahead(d))]]
  /\ shown' = [shown EXCEPT ![d] = {}]
  /\ UNCHANGED <<pipelineVars, saved, historyVars, completes>>

(* The client raises the snapshot of a document that exists.               *)
GetDocumentAnswers(d, f) ==
  /\ read[d][f] = Asked(0)
  /\ read' = [read EXCEPT ![d][f] = Answered(View(d, f))]
  /\ UNCHANGED <<pipelineVars, saved, text, shown, historyVars, opens, completes>>

(* Mutant of GetDocumentFails: without an answer the field is shown empty.  *)
GetDocumentFailsBlank(d, f) ==
  /\ read[d][f] = Asked(0)
  /\ read' = [read EXCEPT ![d][f] = Answered(Blank)]
  /\ UNCHANGED <<pipelineVars, saved, text, shown, historyVars, opens, completes>>

(* An error is printed.                                                    *)
GetDocumentFails(d, f) ==
  /\ read[d][f] = Asked(0)
  /\ read' = [read EXCEPT ![d][f] = NoRead]
  /\ UNCHANGED <<pipelineVars, saved, text, shown, historyVars, opens, completes>>

(* displayDataName and the like, on the main queue: whatever the field     *)
(* holds by then is replaced.                                              *)
DisplayData(d, f) ==
  /\ read[d][f].state = "answered"
  /\ text' = [text EXCEPT ![d][f] = read[d][f].value]
  /\ read' = [read EXCEPT ![d][f] = NoRead]
  /\ shown' = [shown EXCEPT ![d] = @ \cup {f}]
  /\ replaced' = IF /\ f = "groupNumber" /\ f \in shown[d]
                     /\ text[d][f] # read[d][f].value
                  THEN replaced \cup {d} ELSE replaced
  /\ UNCHANGED <<pipelineVars, saved, cleared, early, numbered, latest, refused,
                 opens, completes>>

Type(d, f, v) ==
  /\ d \in served
  /\ opens[d] > 0 /\ completes[d] < MaxCompletes
  /\ text[d][f] # v
  /\ text'  = [text EXCEPT ![d][f] = v]
  /\ shown' = [shown EXCEPT ![d] = @ \cup {f}]
  /\ cleared' = IF f = "groupNumber" /\ v = Blank THEN cleared \cup {d} ELSE cleared
  /\ UNCHANGED <<pipelineVars, saved, read, early, replaced, numbered, latest,
                 refused, opens, completes>>

Valid(v) == v # Blank

Update(d, f) == <<[field |-> f, value |-> text[d][f]]>>

(* The writes of one press, in order; the group number is not validated.   *)
CompleteWrites(d) ==
  (IF Valid(text[d]["name"]) THEN Update(d, "name") ELSE << >>)
    \o Update(d, "groupNumber")

CompleteButton(d) ==
  /\ d \in served
  /\ opens[d] > 0 /\ completes[d] < MaxCompletes
  /\ completes' = [completes EXCEPT ![d] = @ + 1]
  /\ WriteMutations(d, CompleteWrites(d))
  /\ early' = IF "groupNumber" \in shown[d] THEN early ELSE early \cup {d}
  /\ UNCHANGED <<saved, formVars, cleared, replaced, numbered, latest, refused, opens>>
----------------------------------------------------------------------------
(* The worker comes to a write; the reads behind it move up.               *)
MovedUp(r) == IF r.state = "asked" /\ r.ahead > 0 THEN Asked(r.ahead - 1) ELSE r

Persist(d) ==
  /\ WriteLocally(d)
  /\ LET m == writes[d][stored[d] + 1]
     IN  latest' = [latest EXCEPT ![d][m.field] = m.value]
  /\ read' = [read EXCEPT ![d] = [f \in Fields |-> MovedUp(@[f])]]
  /\ UNCHANGED <<saved, text, shown, cleared, early, replaced, numbered, refused,
                 opens, completes>>

ServerApplies(d) ==
  /\ ApplyAtServer(d)
  /\ saved' = [saved EXCEPT ![d][NextToApply(d).field] = NextToApply(d).value]
  /\ numbered' = numbered \cup {c \in Devices : Numbered(c)'}
  /\ UNCHANGED <<formVars, cleared, early, replaced, latest, refused, opens, completes>>

Acknowledge(d) ==
  /\ HandleSuccessfulWrite(d)
  /\ UNCHANGED <<saved, formVars, historyVars, opens, completes>>

(* The error handler lets every error pass.                                *)
Refuse(d) ==
  /\ Refusable
  /\ HandleRejectedWrite(d)
  /\ refused' = refused \cup {<<d, Head(writes[d]).field>>}
  /\ UNCHANGED <<saved, formVars, cleared, early, replaced, numbered, latest,
                 opens, completes>>

StreamBreaks(d) ==
  /\ OnWriteStreamClose(d)
  /\ UNCHANGED <<saved, formVars, historyVars, opens, completes>>

(* The app starts with the sign-up screen and has no way to sign in: the   *)
(* user does not come back to the form, and nobody serves the queue.       *)
Relaunch(d) ==
  /\ Restart(d)
  /\ text'  = [text EXCEPT ![d] = [f \in Fields |-> Blank]]
  /\ read'  = [read EXCEPT ![d] = [f \in Fields |-> NoRead]]
  /\ shown' = [shown EXCEPT ![d] = {}]
  /\ UNCHANGED <<saved, historyVars, opens, completes>>
----------------------------------------------------------------------------
(* The bounds are used up where an app lives, and nothing is under way.    *)
AllUsed ==
  /\ \A d \in served :
       /\ opens[d] = MaxOpens /\ completes[d] = MaxCompletes
       /\ writes[d] = << >>
       /\ \A f \in Fields : read[d][f] = NoRead
  /\ UNCHANGED vars

Next ==
  \/ \E d \in Devices :
       \/ ViewDidLoad(d) \/ CompleteButton(d)
       \/ \E f \in Fields : \/ GetDocumentAnswers(d, f) \/ GetDocumentFails(d, f)
                            \/ DisplayData(d, f)
                            \/ \E v \in Texts : Type(d, f, v)
       \/ Persist(d) \/ ServerApplies(d) \/ Acknowledge(d) \/ Refuse(d)
       \/ StreamBreaks(d) \/ Relaunch(d)
  \/ AllUsed

Spec == Init /\ [][Next]_vars

(* While its app lives the client persists, sends and, repeated often      *)
(* enough, gets its answer.                                                *)
Fairness == \A d \in Devices :
  /\ WF_vars(Persist(d))
  /\ WF_vars(d \in served /\ ServerApplies(d))
  /\ SF_vars(Acknowledge(d))

FairSpec == Spec /\ Fairness
----------------------------------------------------------------------------
(* The types of the variables, and the order of the parts of the queue.    *)
TypeOK ==
  /\ PipelineTypeOK(Mutations)
  /\ saved \in [Devices -> [Fields -> Texts]]
  /\ text  \in [Devices -> [Fields -> Texts]]
  /\ read  \in [Devices -> [Fields -> Reads]]
  /\ shown \in [Devices -> SUBSET Fields]
  /\ cleared \subseteq Devices /\ early \subseteq Devices
  /\ replaced \subseteq Devices /\ numbered \subseteq Devices
  /\ latest  \in [Devices -> [Fields -> Texts]]
  /\ refused \subseteq Devices \X Fields
  /\ opens \in [Devices -> 0 .. MaxOpens]
  /\ completes \in [Devices -> 0 .. MaxCompletes]

(* A read returns the value its device has persisted last, unless a write  *)
(* of the field was refused: also while the server repeats older writes    *)
(* after a lost answer, and when an answer takes a write off the queue.    *)
ReadYourWrites ==
  \A d \in Devices, f \in Fields : <<d, f>> \in refused \/ View(d, f) = latest[d][f]

(* A profile that has had a group number, from the sign-up or from a later *)
(* save, can be without one for these reasons only: the user cleared it;   *)
(* the button was pressed before the field had been shown; a late answer   *)
(* replaced the number that had just been typed; the backend refused a     *)
(* number; or an older save is being repeated and the number is still in   *)
(* the queue behind it.  Never by a failed read, by a blank read that was  *)
(* answered in time, or by a form left over from before.                   *)
NumberQueued(d) ==
  \E i \in 1 .. stored[d] :
    writes[d][i].field = "groupNumber" /\ writes[d][i].value # Blank

GroupNumberLossExplained ==
  \A d \in numbered :
    \/ Numbered(d)
    \/ d \in cleared \cup early \cup replaced
    \/ <<d, "groupNumber">> \in refused
    \/ NumberQueued(d)

(* In the end the server has the value persisted last, unless the app died *)
(* with a write of the field in its queue.                                 *)
Stranded(d, f) == d \notin served /\ Pending(d, f) # {}

SavesArrive ==
  \A d \in Devices, f \in Fields :
    <>[](<<d, f>> \in refused \/ saved[d][f] = latest[d][f] \/ Stranded(d, f))
=============================================================================
