---------------------------- MODULE EventCreation ----------------------------
(***************************************************************************)
(* An administrator adds events.  addEvent writes a document of "events"   *)
(* and, in the completion of that write, the document's id into the list   *)
(* "createdEvents" of the administrator's profile; the administrator's     *)
(* profile reads the list and then every event on it.  Students see an     *)
(* event in their table only if all the fields of a row are there, and     *)
(* their profile reads the events they have entered.                       *)
(*                                                                         *)
(* Each administrator uses one device.  A document is the set of its       *)
(* fields that hold a value; a field written as null is not among them.    *)
(***************************************************************************)
EXTENDS WritePipeline

CONSTANTS
  Events,     \* ids of documents of "events", drawn by addDocument or imported
  Imported,   \* the events made outside the app, with every field
  ListThere,  \* whether an administrator's profile starts with an empty list
  Refusable   \* the operations the backend may refuse for good

(* What the form fills in: a text, and the places, which stand for all it  *)
(* fills in that the profiles unwrap.  eventNote always gets a value,      *)
(* eventMembersCount never.                                                *)
FormFields == {"eventName", "eventMaxMemberCount"}

Ops == {"addDocument", "createdEvents"}

ASSUME CreationAssumption ==
  /\ Imported \subseteq Events
  /\ ListThere \in BOOLEAN
  /\ Refusable \subseteq Ops

VARIABLES
  documents,      \* server: events/<id>
  createdEvents,  \* server: users/<administrator>.createdEvents
  newEvent,       \* per device, the fields of the form that are set
  add,            \* the calls of addEvent, by the id each of them drew
  toRead,         \* per device, the event reads its profile waits for
  listRead,       \* per device, whether the read of the list is under way
  entered,        \* the events a student has entered
  rowReads,       \* the event reads that student's profile waits for
  cut,            \* history: added events cut off from the list by a crash or refusal
  trapped         \* history: screens whose app ended on a missing value

vars == <<writes, stored, applied, served, restarts, documents, createdEvents, newEvent,
          add, toRead, listRead, entered, rowReads, cut, trapped>>

adminVars   == <<newEvent, add, toRead, listRead>>
studentVars == <<entered, rowReads>>
serverVars  == <<documents, createdEvents>>

RowFields == FormFields \cup {"eventMembersCount"}   \* what a row is made of
Unwrapped == RowFields \ {"eventName"}                \* what a profile takes for granted

NoDocument == [exists |-> FALSE]
Document(fields) == [exists |-> TRUE, fields |-> fields]
Documents  == [exists : {TRUE}, fields : SUBSET RowFields] \cup {NoDocument}
Mutations  == [op : Ops, event : Events, fields : SUBSET RowFields]

Unused == [state |-> "unused"]
Calls  == [state : {"sent", "answered", "refused", "over"}, device : Devices]

Init ==
  /\ PipelineInit
  /\ documents = [e \in Events |-> IF e \in Imported THEN Document(RowFields) ELSE NoDocument]
  /\ createdEvents = [d \in Devices |-> {}]
  /\ newEvent = [d \in Devices |-> {}]
  /\ add      = [e \in Events |-> Unused]
  /\ toRead   = [d \in Devices |-> {}]
  /\ listRead = [d \in Devices |-> FALSE]
  /\ entered  = {}
  /\ rowReads = {}
  /\ cut      = {}
  /\ trapped  = {}
----------------------------------------------------------------------------
(* The form.                                                               *)

(* Each field is taken over when it holds a valid value and kept since.    *)
TextFieldDidEnd(d, f) ==
  /\ d \in served
  /\ f \notin newEvent[d]
  /\ newEvent' = [newEvent EXCEPT ![d] = @ \cup {f}]
  /\ UNCHANGED <<pipelineVars, serverVars, add, toRead, listRead, studentVars, cut, trapped>>

Write(o, e, fields) == [op |-> o, event |-> e, fields |-> fields]

(* Mutant of AddEvent: both writes at once.                                *)
AddEventAtOnce(d, e) ==
  /\ d \in served
  /\ e \notin Imported /\ add[e] = Unused
  /\ WriteMutations(d, <<Write("addDocument", e, newEvent[d]), Write("createdEvents", e, {})>>)
  /\ add' = [add EXCEPT ![e] = [state |-> "sent", device |-> d]]
  /\ UNCHANGED <<serverVars, newEvent, toRead, listRead, studentVars, cut, trapped>>

(* okButtonPressed: addEvent with a fresh id.  No field is required, the   *)
(* result is TRUE before any answer, and the screen stays as it is.        *)
AddEvent(d, e) ==
  /\ d \in served
  /\ e \notin Imported /\ add[e] = Unused
  /\ WriteMutations(d, <<Write("addDocument", e, newEvent[d])>>)
  /\ add' = [add EXCEPT ![e] = [state |-> "sent", device |-> d]]
  /\ UNCHANGED <<serverVars, newEvent, toRead, listRead, studentVars, cut, trapped>>

(* addDocument's completion without an error.                              *)
AddEventAnswers(e) ==
  /\ add[e].state = "answered"
  /\ add' = [add EXCEPT ![e].state = "over"]
  /\ WriteMutations(add[e].device, <<Write("createdEvents", e, {})>>)
  /\ UNCHANGED <<serverVars, newEvent, toRead, listRead, studentVars, cut, trapped>>

(* With an error: a result nobody reads any more.                          *)
AddEventFails(e) ==
  /\ add[e].state = "refused"
  /\ add' = [add EXCEPT ![e].state = "over"]
  /\ UNCHANGED <<pipelineVars, serverVars, newEvent, toRead, listRead, studentVars, cut, trapped>>
----------------------------------------------------------------------------
(* The writes on their way.                                                *)

Persist(d) ==
  /\ WriteLocally(d)
  /\ UNCHANGED <<serverVars, adminVars, studentVars, cut, trapped>>

ServerApplies(d) ==
  LET m == NextToApply(d)
  IN  /\ ApplyAtServer(d)
      /\ documents' = IF m.op = "addDocument"
                      THEN [documents EXCEPT ![m.event] = Document(m.fields)] ELSE documents
      /\ createdEvents' = IF m.op = "createdEvents"
                          THEN [createdEvents EXCEPT ![d] = @ \cup {m.event}] ELSE createdEvents
      /\ UNCHANGED <<adminVars, studentVars, cut, trapped>>

(* The completion of a write is called if the app has not died meanwhile.  *)
Notify(m, state) ==
  IF m.op = "addDocument" /\ add[m.event].state = "sent"
  THEN [add EXCEPT ![m.event].state = state] ELSE add

Acknowledge(d) ==
  /\ HandleSuccessfulWrite(d)
  /\ add' = Notify(Head(writes[d]), "answered")
  /\ UNCHANGED <<serverVars, newEvent, toRead, listRead, studentVars, cut, trapped>>

Refuse(d) ==
  /\ HandleRejectedWrite(d)
  /\ Head(writes[d]).op \in Refusable
  /\ add' = Notify(Head(writes[d]), "refused")
  /\ cut' = cut \cup {Head(writes[d]).event}
  /\ UNCHANGED <<serverVars, newEvent, toRead, listRead, studentVars, trapped>>

StreamBreaks(d) ==
  /\ OnWriteStreamClose(d)
  /\ UNCHANGED <<serverVars, adminVars, studentVars, cut, trapped>>

(* The app ends: with the form, the reads and the completions go the ids   *)
(* that had still to be put on the list.                                   *)
Calling(d) == {e \in Events : /\ add[e].state \in {"sent", "answered", "refused"}
                              /\ add[e].device = d}
Unlisted(d) == {writes[d][i].event : i \in {j \in stored[d] + 1 .. Len(writes[d]) :
                                              writes[d][j].op = "createdEvents"}}

AppEnds(d) ==
  /\ Restart(d)
  /\ newEvent' = [newEvent EXCEPT ![d] = {}]
  /\ toRead'   = [toRead EXCEPT ![d] = {}]
  /\ listRead' = [listRead EXCEPT ![d] = FALSE]
  /\ add' = [e \in Events |-> IF e \in Calling(d) THEN [add[e] EXCEPT !.state = "over"] ELSE add[e]]
  /\ cut' = cut \cup Calling(d) \cup Unlisted(d)
  /\ UNCHANGED <<serverVars, studentVars>>

Relaunch(d) == AppEnds(d) /\ UNCHANGED trapped

(* The administrator comes back with a sign-in, or never.                  *)
SignIn(d) ==
  /\ ServeAgain(d)
  /\ UNCHANGED <<serverVars, adminVars, studentVars, cut, trapped>>
----------------------------------------------------------------------------
(* What a row of a profile unwraps by force, if there is a document.       *)
TakesForGranted(doc) == doc.exists => Unwrapped \subseteq doc.fields

(* The administrator's profile.  Reads return the server's documents with  *)
(* the device's persisted writes on top.                                   *)

Pending(d, o) == {i \in 1 .. stored[d] : writes[d][i].op = o}

CreatedEventsOn(d) ==
  createdEvents[d] \cup {writes[d][i].event : i \in Pending(d, "createdEvents")}

DocumentsOn(d) ==
  [e \in Events |->
     IF \E i \in Pending(d, "addDocument") : writes[d][i].event = e
     THEN Document(writes[d][CHOOSE i \in Pending(d, "addDocument") : writes[d][i].event = e].fields)
     ELSE documents[e]]

(* viewDidLoad -> showAdminEvents -> getAdminEvents.                       *)
ShowAdminEvents(d) ==
  /\ d \in served
  /\ ~listRead[d] /\ toRead[d] = {}
  /\ listRead' = [listRead EXCEPT ![d] = TRUE]
  /\ UNCHANGED <<pipelineVars, serverVars, newEvent, add, toRead, studentVars, cut, trapped>>

(* The list answers: one read per id.  A profile without the list ends the *)
(* app at "as! [String]".                                                  *)
GetAdminEventsAnswers(d) ==
  /\ listRead[d]
  /\ IF CreatedEventsOn(d) = {} /\ ~ListThere
     THEN AppEnds(d) /\ trapped' = trapped \cup {"list"}
     ELSE /\ listRead' = [listRead EXCEPT ![d] = FALSE]
          /\ toRead'   = [toRead EXCEPT ![d] = CreatedEventsOn(d)]
          /\ UNCHANGED <<pipelineVars, serverVars, newEvent, add, studentVars, cut, trapped>>

(* One event answers, in any order: a row, if the values a row unwraps are *)
(* there; nothing, if there is no document.                                *)
EventRowAnswers(d, e) ==
  /\ e \in toRead[d]
  /\ IF ~TakesForGranted(DocumentsOn(d)[e])
     THEN AppEnds(d) /\ trapped' = trapped \cup {"adminRow"}
     ELSE /\ toRead' = [toRead EXCEPT ![d] = @ \ {e}]
          /\ UNCHANGED <<pipelineVars, serverVars, newEvent, add, listRead, studentVars, cut, trapped>>

(* The list or an event cannot be read: the error is printed.              *)
ReadFails(d) ==
  /\ \/ listRead[d] /\ listRead' = [listRead EXCEPT ![d] = FALSE] /\ UNCHANGED toRead
     \/ \E e \in toRead[d] : toRead' = [toRead EXCEPT ![d] = @ \ {e}] /\ UNCHANGED listRead
  /\ UNCHANGED <<pipelineVars, serverVars, newEvent, add, studentVars, cut, trapped>>
----------------------------------------------------------------------------
(* The students' table of events and the profile of a student.             *)

(* Mutant of EventsArray: a missing count of members is shown as none.     *)
EventsArrayLax == {e \in Events : documents[e].exists /\ FormFields \subseteq documents[e].fields}

(* The rows of the table of events: documents with every field.            *)
EventsArray == {e \in Events : documents[e].exists /\ RowFields \subseteq documents[e].fields}

EntryToEvent(e) ==
  /\ e \in EventsArray \ entered
  /\ entered' = entered \cup {e}
  /\ UNCHANGED <<pipelineVars, serverVars, adminVars, rowReads, cut, trapped>>

(* viewDidLoad -> showUserEvents: one read per event of the list.          *)
ShowUserEvents ==
  /\ rowReads = {} /\ entered # {}
  /\ rowReads' = entered
  /\ UNCHANGED <<pipelineVars, serverVars, adminVars, entered, cut, trapped>>

UserEventAnswers(e) ==
  /\ e \in rowReads
  /\ rowReads' = IF TakesForGranted(documents[e]) THEN rowReads \ {e} ELSE {}
  /\ trapped'  = IF TakesForGranted(documents[e]) THEN trapped ELSE trapped \cup {"studentRow"}
  /\ UNCHANGED <<pipelineVars, serverVars, adminVars, entered, cut>>

UserEventFails(e) ==
  /\ e \in rowReads
  /\ rowReads' = rowReads \ {e}
  /\ UNCHANGED <<pipelineVars, serverVars, adminVars, entered, cut, trapped>>
----------------------------------------------------------------------------
Next ==
  \/ \E d \in Devices :
       \/ \E f \in FormFields : TextFieldDidEnd(d, f)
       \/ \E e \in Events : AddEvent(d, e) \/ EventRowAnswers(d, e)
       \/ Persist(d) \/ ServerApplies(d) \/ Acknowledge(d) \/ Refuse(d)
       \/ StreamBreaks(d) \/ Relaunch(d) \/ SignIn(d)
       \/ ShowAdminEvents(d) \/ GetAdminEventsAnswers(d) \/ ReadFails(d)
  \/ \E e \in Events :
       \/ AddEventAnswers(e) \/ AddEventFails(e)
       \/ EntryToEvent(e) \/ UserEventAnswers(e) \/ UserEventFails(e)
  \/ ShowUserEvents

Spec == Init /\ [][Next]_vars

(* A client that is there persists, sends and, repeated often enough, gets *)
(* its answer; a completion is called.  Nothing is asked of people, not    *)
(* even that an administrator comes back, nor of reads or crashes.         *)
Fairness ==
  /\ \A d \in Devices :
       /\ WF_vars(Persist(d))
       /\ WF_vars(d \in served /\ ServerApplies(d))
       /\ SF_vars(Acknowledge(d))
  /\ \A e \in Events : WF_vars(AddEventAnswers(e))

FairSpec == Spec /\ Fairness
----------------------------------------------------------------------------
(* The types of the variables; reads wait only for events that were entered. *)
TypeOK ==
  /\ PipelineTypeOK(Mutations)
  /\ documents \in [Events -> Documents]
  /\ createdEvents \in [Devices -> SUBSET Events]
  /\ newEvent \in [Devices -> SUBSET FormFields]
  /\ add      \in [Events -> Calls \cup {Unused}]
  /\ toRead   \in [Devices -> SUBSET Events]
  /\ listRead \in [Devices -> BOOLEAN]
  /\ entered  \subseteq Events
  /\ rowReads \subseteq entered
  /\ cut      \subseteq Events \ Imported
  /\ trapped  \subseteq {"list", "adminRow", "studentRow"}

(* The ids on an administrator's list, and those on their way to it, are   *)
(* ids of documents the server has: addEvent's second write waits for the  *)
(* answer of the first, through lost answers, refusals and restarts.       *)
CreatedEventsExist ==
  \A d \in Devices :
    /\ \A e \in createdEvents[d] : documents[e].exists
    /\ \A i \in 1 .. Len(writes[d]) :
         writes[d][i].op = "createdEvents" => documents[writes[d][i].event].exists

(* An event that is on nobody's list has addEvent's two steps under way,   *)
(* or a crash or a refusal came between them.                              *)
Listed(e)   == \E d \in Devices : e \in createdEvents[d]
Underway(e) ==
  \/ add[e].state \in {"sent", "answered"}
  \/ \E d \in Devices : \E i \in 1 .. Len(writes[d]) :
       writes[d][i].op = "createdEvents" /\ writes[d][i].event = e

OrphansExplained ==
  \A e \in Events \ Imported :
    documents[e].exists => Listed(e) \/ Underway(e) \/ e \in cut

(* A student's profile never ends on a missing value: what it takes for    *)
(* granted about the events of the list is what the table demanded before  *)
(* any of them could be entered, and no write of the app takes a field     *)
(* away again.                                                             *)
StudentProfileHolds == "studentRow" \notin trapped

(* Every event that was added ends up on its administrator's list, unless  *)
(* it was cut off, or the app died with the second write in its queue and  *)
(* the administrator does not come back.                                   *)
Stranded(e) ==
  \E d \in Devices \ served : \E i \in 1 .. stored[d] :
    writes[d][i].op = "createdEvents" /\ writes[d][i].event = e

EventsGetListed ==
  \A e \in Events \ Imported :
    documents[e].exists ~> (Listed(e) \/ e \in cut \/ Stranded(e))
=============================================================================
