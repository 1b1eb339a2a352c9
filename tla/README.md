# ItisRequestApp: a TLA+ verification project

ItisRequestApp is an iOS app with which the students of a faculty sign up, look
at events and enrol in them. The app has no server of its own. It works on
Firebase Auth and on documents in Cloud Firestore:

| document | fields the app relies on | written by |
|---|---|---|
| `users/<email>` | `events`, the profile, `role`, `code`, `createdEvents` | `SignUpModel`, `EventService`, `UserStudentService`, `UserAdminService` |
| `events/<id>` | `users`, `eventMaxMemberCount` (places left), `eventMembersCount`, texts | `EventService`, `UserAdminService` |

No operation of the app uses a transaction or a batch, and no document is ever
deleted. What can go wrong therefore lies between the single calls: what a
device reads before a callback and uses after it, the order in which writes of
several devices reach the backend, and what is left when the app dies, an
answer is lost or a write is refused. All of that is decided by the app together with
the Firestore client it links, so the client's two halves (the one that writes
and the one that reads) are modelled as well.

## 1. Inventory

Paths of the app are relative to `src/ITISRequest/ITISRequest/`, those of the
client to `src/ITISRequest/Pods/FirebaseFirestore/Firestore/core/src/`.

**Enrolling in an event** (`Events/`). *State*: `EventPresenter.eventsArray`
(the rows), one `EventPresenter.event` per detail screen (a copy of a row), the
reads under way, the two documents. *Operations*: `showEvents` (snapshot
listener), `didSelectRowAt`, `viewDidLoad` (the only test for places),
`entryToEvent` (read the user's events, then four writes). *Hard*: the copy is
old when the answer arrives; several answers share one copy; four writes
without a transaction; other devices do the same. *Correct when*: the two lists
agree except for explained half-made entries; nobody is dropped; the counters
stay within the entries that were made; persisted entries arrive while the app
lives; tables catch up. *Claimed but not kept*: no more users than places, no second entry.

**Sign-up** (`SignUp/`). *State*: the account, the profile document, the present
user of the Firestore client, the screen. *Operations*: `signUp` (`createUser`,
then `setData`), success, alert. *Hard*: two services, a crash or a lost answer
between them, taps that race, a change of user under a pending write.
*Correct when*: a profile is written once; an account without one is explained;
who is told of success has a profile unless its write was refused.

**Settings and sign-out** (`Settings/`): `signOutButton` signs out at Auth and
leaves the screens open (`toSignIn` is empty). *Hard*: services keep the old
e-mail, new ones are built with nobody signed in. *Correct when*: an update
made in its own user's queue finds that user's profile.

**Administrator** (`AdminProfile/`). *State*: the form, the document of the new
event, `createdEvents`. *Operations*: `addEvent` writes the event and, behind
its answer, `createdEvents`, and returns `true` before either; `showAdminEvents`
reads every created event. *Hard*: a crash or refusal between the two writes;
events without some of the fields that the profiles unwrap by force. *Correct
when*: the list names only events that exist, an event on no list was cut off,
students never meet an event that ends their app.

**Student's profile** (`StudentProfile/`): the profile's fields and events, each
by a read of its own, and `UpdateProfile`, whose button writes four fields one
by one. *Hard*: late reads overwrite what has been typed, the button may come
before them, a field may be blank since the sign-up, older writes are applied
again after a lost answer. *Correct when*: a device reads what it saved last, the
server ends with it, the group number is lost in no way but those the form has.

**The client's write path** (`core/sync_engine.cc`, `local/local_store.cc`,
`remote/remote_store.cc`, `remote/write_stream.cc`, `remote/stream.cc`,
`credentials/`). *State*: the worker queue, one persisted mutation queue per
user, the pipeline of at most ten writes taken from it, the stream with its
timers and its credentials, the completions. *Operations*: enqueue, persist,
fill the pipeline, handshake, send, answer, refuse, back off, idle, restart,
change of user. *Hard*: four queues (Auth's, the main one, the worker's, the
wires) run beside each other; answers are matched by order alone. *Correct
when*: a user's writes take effect in order, each at least once unless lost in
a crash or refused, with that user's credentials, and the completions tell the
truth.

**The client's read path** (`core/event_manager.cc`, `core/query_listener.cc`,
`core/view.cc`, `remote/remote_event.cc`, `remote/online_state_tracker.cc`,
`api/document_reference.cc`). *State*: listeners, views, watched targets with
the count of responses that are still to come, the online state and its timer,
the cache with its resume tokens. *Operations*: `getDocument`,
`addSnapshotListener`, listen, unlisten, responses of the watch stream, going
online and offline. *Hard*: a document is listened to again while answers to an
earlier listen are on the wire; timers meet stops and restarts; a listener is
removed while events for it are queued. *Correct when*: a read is answered once
and not with something older than itself, nobody waits for an answer that will
not come, the client never resumes from what it has not got.

**Sign-in and role** (`SignIn/`), **code check** (`CheckCodeForAdmin/`): `signIn`
makes a user the present one again, whose queue the client then serves. The
role and the code are read, and the function decides before the read answers.

**Without state of the system**: coordinators, `IBDesignables`, table cells,
the template code of the delegates, tests (regular expressions of the two
presenters and template code).

*About the build.* The target's `Sources` phase (`project.pbxproj`) does not
list `SignIn/`, `CheckCodeForAdmin/`, `AdminProfile/` and `Coordinator/`. The
app starts with the sign-up storyboard; `TabBar.storyboard` has no
`tabBarSecondVC`, which sign-in shows to everybody who is not an administrator.
`AdminProfile/` is modelled all the same, as the students' screens, which are
built, read the documents it makes, and with it, in `EventCreation` only, the
sign-in by which an administrator would come back.

*After the app has died.* The app starts with the sign-up screen, the former
screens are not shown again, and the Firestore client is made by its first use,
the profile write of the next sign-up, for the next user (`api/firestore.cc`
225-235). The former user's mutation queue stays on disk, and the client serves
the present user's only. In the modules of what is built (`Enrolment`,
`ProfileForm`, `SignUp`, `Session`) it is therefore never served again: what was on
its way when the app died may have arrived or not, and the rest is stranded.

*How the parts interact.* Sign-up creates the account, the user of the
Firestore client and the document `users/<email>` that `entryToEvent` reads and
updates. All writes of a device go through one pipeline; `Auth` tells it about
every change of user. Screens share nothing but the documents and the cache
their listeners show.

## 2. Modules

| module | what it is | built on |
|---|---|---|
| `WritePipeline` | the way of a device's writes to the backend | |
| `EntryLedger` | what enrolling promises, without the mechanism | |
| `Enrolment` | enrolling in an event, on every device | `WritePipeline`, `EntryLedger` |
| `SignUp` | account, profile and change of user | |
| `Session` | the screens and their services while users change | `SignUp` |
| `EventCreation` | adding events and showing them in the profiles | `WritePipeline` |
| `ProfileForm` | the form of the student's profile | `WritePipeline` |
| `Stream` | what both streams of the client share | |
| `OrderedDelivery` | what the app's modules take `WritePipeline` for | `WritePipeline` |
| `RemoteWrite` | the writing half of the client | `Stream`, `OrderedDelivery` |
| `RemoteWatch` | the watch stream and what hangs on it | `Stream` |
| `DocumentReads` | reads, from the call to the answer | `RemoteWatch` |
| `MCEnrolment`, `MCSignUp`, ... | small instances for TLC, symmetries | |
| `WritePipelineProofs`, `EnrolmentProofs`, `SignUpProofs`, `SessionProofs`, `EventCreationProofs`, `ProfileFormProofs`, `RemoteWriteProofs`, `DocumentReadsProofs` | theorems | TLAPS |

`OrderedDelivery` joins the two levels: `Enrolment`, `EventCreation` and
`ProfileForm` are written with `WritePipeline`'s actions, and `RemoteWrite`,
written from the client's handlers, is shown to implement those (with a death of the
app and a new start with the user kept by Firebase Auth as one step).

### WritePipeline

All a device has outstanding is one sequence `writes[d]`, oldest first. Of it
the first `stored[d]` are in the persisted mutation queue, of these the first
`applied[d]` have taken effect at the backend and wait for their answer.

| action | code |
|---|---|
| `WriteMutations` | `FirestoreClient::WriteMutations`: enqueue on the worker queue |
| `WriteLocally` | `LocalStore::WriteLocally`: the worker persists one |
| `ApplyAtServer`, `NextToApply` | the stream sends in order, the backend applies |
| `HandleSuccessfulWrite` | `OnWriteStreamMutationResult`: off the front of pipeline and queue |
| `HandleRejectedWrite` | `HandleWriteError`, permanent error: the front is dropped |
| `OnWriteStreamClose` | stream lost: everything unanswered is sent again |
| `Restart` | death and start: the memory's part is lost, the rest stays in a queue that nobody serves |
| `ServeAgain` | `LocalStore::HandleUserChange`: the user is signed in again, the rest is sent again |

`served` are the devices whose client exists and serves their user's queue. A device is
an installation with its user: whoever signs up next on it is another element of
`Devices`. A user module gives the writes their content and conjoins their effect. What
the abstraction rests on:

* One batch per call, as the app never builds a batch itself.
* `kMaxPendingWrites` (10) limits how many writes are on the stream at a time;
  the stream is refilled after every answer, so it bounds neither order nor
  number. `RemoteWrite` has it and shows that.
* What was on the wire when the app died may still arrive, so `ApplyAtServer` does
  not ask for `served`; fairness does not oblige it to, either. The backend is assumed
  not to apply a write of a broken stream after it has applied one of the stream
  that replaced it.
* Which errors are permanent is the backend's choice; a module says which of its
  writes may be refused.

### Enrolment

| variable | in the code |
|---|---|
| `userEvents`, `eventUsers`, `counts` | `users/<email>.events`, `events/<id>.users`, its two counters, at the backend |
| `seen`, `watched` | the device's cache of `events`; how many of the applied, unanswered writes it already contains |
| `screen` | detail screens: the presenter's copy of the row, whether the button is enabled, taps made, reads under way |
| `entries`, `lost` | history: entries made per event; roster writes a crash or refusal took |

| action | code |
|---|---|
| `ShowEvents` | the listener of `showEvents` gets the documents; the rows (`EventsArray`) are the cache with the device's pending writes on top |
| `OpenDetail` | `didSelectRowAt` and `viewDidLoad` with its test for places (`ButtonEnabled`) |
| `TapEntry` | `button` -> `entryToEvent` -> `getUserEvents`: a read is started |
| `GetUserEventsAnswers` | its completion: nothing (never, see `twice`) or `EnterEvent`, the copy counted on and the four writes enqueued |
| `GetUserEventsFails` | error or missing document: nothing more happens |
| `CloseDetail` | back to the table; `[self]` keeps presenter and read alive |
| `Persist` ... `Relaunch` | the pipeline's actions with their effect on documents, cache and screens |

Abstractions. Rows are compared by their counters, the other fields of an event
never change. The rows are computed from cache and pending writes instead of
being stored: the listener is called after every change of either, and a tap
on a row in the short time before the main queue runs the callback is the tap
on the row before the change, which `OpenDetail` may take one step earlier. A
listener brings all events at one version. `getDocument` waits for the backend
when the device is online and merges pending writes; offline without a cached
document it fails (`DocumentReads` has the details). A counter's arithmetic
stays far from 64 bits and is that of
the integers. `eventMaxMemberCount` starts as `Capacity[e]`, `eventMembersCount`
as 0. After `Relaunch` the user of the device does not come back: no rows
come, no screen is opened, no write is answered.

### SignUp and Session

| variable | in the code |
|---|---|
| `call` | one `SignUpModel.signUp` each: request sent, sent by an app that died (`orphaned`), account made and answer on its way (`created`), error on its way, over |
| `accounts`, `profiles` | Auth's accounts, documents of `users` |
| `enqueued` | the client's worker queue: changes of user; the entry of a new account stands for the change and the `setData` right behind it |
| `user` | whose mutation queue the client serves |
| `profile` | an address's one profile write: `stored`, `applied`, `over`; whether the completion still exists |
| `screen` | sign-up screen or tab bar |
| `welcomed`, `cut` | history: reported successes; accounts whose profile write was lost |
| `captured` (`Session`) | the services alive, with the e-mail address each of them captured |
| `update` (`Session`) | updates of `users/<captured address>`: in the worker queue, with what is ahead of them; in the mutation queue of whoever is signed in by then |
| `dead` (`Session`) | devices whose app ended on `currentUser!` |

`SignUpButtonTapped`, `CreateUser`, `CreateUserFails`, `CreateUserAnswers`,
`ReportError`, `SignOut`, `RunWorker`, `ServerApplies`, `Acknowledge`, `Refuse`,
`StreamBreaks` and `Relaunch` are the steps. `Complete`, in which both answers to a
profile write end, reports success; as `present` does nothing while an alert is up, the
tab bar appears or not. The validation of the sign-up screen is not a guard because it
is none in the code: both checks show alerts and return `nil`. An address has one
profile write at most, which is not assumed: `OneProfileWrite` says so. `Session` adds
`OpenScreen`, `UpdateData`, the worker's and the backend's part of an update, and
refines the completion of `setData` to what `toProfile` does: `NewService` builds the
services of the tab bar, for whoever is signed in at that moment; they go again if it is
not presented. `SignUp` alone leaves that out, so a device whose app ended on
`currentUser!` goes on there; `Session` does not.

Abstractions. `profile` is indexed by the address, as `users/<email>` and the
mutation queue are. Two creations that finish on one device at the same time
are taken one after the other: the change of user reaches the worker queue
with the completion it belongs to, and change of user, notification and
completion are one step. The client is made by its first use; before
it, and after a restart, no queue is served (`user[d] = Nobody`), because
nothing else in the build uses Firestore before a sign-up succeeds. `Session`
does not order the updates among themselves, which go to different documents or
fields; that the profile write comes first is `InTurn`.

### EventCreation

| variable | in the code |
|---|---|
| `documents`, `createdEvents` | `events/<id>` as the set of its fields that hold a value; the administrators' lists |
| `newEvent` | the fields of the form that `textFieldDidEndEditing` has taken over |
| `add` | the calls of `addEvent`, by the id each drew |
| `listRead`, `toRead` | the reads of the administrator's profile: the list, then one per event |
| `entered`, `rowReads` | a student's list, and the reads of that student's profile |
| `cut`, `trapped` | history: events cut off from the list; screens whose app ended on a missing value |

`AddEvent`, `AddEventAnswers` and `AddEventFails` are `addEvent` and the completion of
its first write; `GetAdminEventsAnswers`, `EventRowAnswers`, `UserEventAnswers` and the
failures are the profiles' reads. A row that unwraps what is not there ends the app
(`AppEnds`), with the form, the reads and the completions. `SignIn` brings the
administrator back, at some time or never; it is `signIn` of `SignInModel`, in no build
just as the administrator's screens. The form is reduced to a text and the places: the
two kinds of field that matter are those a profile takes for granted and those it does
not. `eventMembersCount`, which the form never sets and the profiles unwrap, is the
third. Events made outside the app (`Imported`) have every field; without them no
student could enter anything, as the table shows only complete rows.

### ProfileForm

| variable | in the code |
|---|---|
| `saved` | the fields of the profile at the backend |
| `text`, `read` | the form's text fields; the read of each field: asked, with the number of writes ahead of it in the worker's queue, or answered and waiting for the main queue |
| `shown` | history: fields shown or typed |
| `cleared`, `early`, `replaced` | history: who cleared the group number; who pressed the button before it was shown; on whose form a late answer replaced it |
| `numbered` | history: whose profile has had a group number |
| `latest`, `refused` | history: the value persisted last; fields of which a write was refused |

`View` is what a read returns: the backend's value with the device's persisted
writes on top. `CompleteButton` enqueues the valid fields in the order of the
code (`CompleteWrites`); the group number is not validated there. Every profile
is a possible start, with blank fields or without: the sign-up screen shows
alerts for them and goes on (`SignUpViewController` 103-143, `SignUpPresenter` 16-43).
A read is a task of the worker's queue as every write is (`ListenToQuery`,
`WriteMutations`): it answers when no write is ahead of it (`Asked(0)`), and
`Persist`, which takes the writes in their order, moves the reads up. Surname
and phone behave as the name does and are left out.

### Stream, RemoteWrite, RemoteWatch, DocumentReads

The client's worker runs each handler to its end, and a handler calls half a
dozen objects on the way. These modules therefore keep the worker's state in one
record (`client`, `remote`), and a handler is an operator from records to records,
composed as the code composes calls; an action applies one handler. `Check`
collects the `HARD_ASSERT`s that fail in `broken`. `Stream` has the operations
of `remote/stream.cc` that both streams share: `Start`, `TearDown` (`Close` up to
what it tells its delegate), `InhibitBackoff`, `MarkIdle`, `Send`, `Resume`,
`OnStreamStart`. An attempt is known by the number of closes before it, as in
`close_count_`, so that credentials that come late are told apart.

*RemoteWrite.* `client` has the stream, the pipeline, the mutation queues of all users
and the completions; `worker` the operations queued for it; `auth` Auth's user, the
credentials provider's `token_counter_`, the tokens asked for and the main queue.
`SignIn`, `TokenRead`, `TokenAnswers`, `TokenFails` run on Auth's queue, `RunMain` on
the main one, `RunWorker` and the stream's and timers' actions on the worker's.
`delivered`, `refused` and `told` are history. `DeliveryKept` maps the state to
`OrderedDelivery`: the queue of one user, with what the worker will append to it when it
gets there (`Enqueued`), is `writes`; the answers on the wire (`Unanswered`) are
`applied`.

Firebase Auth keeps its user over a death of the app, and `Restart` makes the client
for that user at once. `OrderedDelivery` therefore has, beside `WritePipeline`'s
`Restart` and `ServeAgain`, an action that is both in one step (`RestartSignedIn`), and
`served` is mapped to the observed user throughout: while another user is present
nothing happens to the queue at all. That the built app makes no client until the next
sign-up is a matter of the app, and modelled there.

*RemoteWatch* has the targets with their resume tokens, the watch change
aggregator (`pending`, `current`, the documents received since the last
snapshot), the online state tracker and the two wires. *DocumentReads* composes it
with the calls of `getDocument` and `addSnapshotListener`, the worker queue, the
listeners, the views, the cache and the queue back to the main thread.

Abstractions. `Open` stands for `Open` and `Healthy`. A document is its version, a
query the one document or collection it names. The backend is external: it
answers a listen with `Added`, the document if the client has not got it,
`Current` and a snapshot, and the end of a listen with `Removed`; it applies a
write before it answers, or not at all when the stream breaks; a stream
ends with an error or by the client. Snapshots carry resume tokens for every
target that is active. Online failures are counted up to one, which is
`kMaxWatchStreamFailures`. Batch ids are unique across users. What the app
cannot bring about is left out: limbo documents and existence filters (no
document is deleted, no query has a limit), target resets, `disableNetwork`,
bundles, garbage collection.

## 3. Properties

| property | says | hazard |
|---|---|---|
| `RosterBackedByUser` | who is on a roster has the event in the own list | partial failure, order, redelivery |
| `HalfEntriesExplained` | a half-made entry's roster write is in a queue of that user, or a crash or refusal took exactly it | crash, partial failure |
| `CountersWithinEntries` | no counter moves further than the number of entries made | stale copies, redelivery |
| `SoloPairWhole` | one device, nothing lost, all arrived: both counters come from one copy | half-updated rows, reads in flight |
| `NobodyDropped` | no step takes anybody off a list | lost updates |
| `LedgerHolds` | `Enrolment` implements `EntryLedger` | all of the above |
| `PersistedEntryArrives` | a persisted roster write reaches the roster, unless a death of the app stranded it | lost answers, deaths |
| `RowsConverge` | every table of an app that lives ends up with the server's counters | stale view |
| `OneProfileWrite` | one profile write per address, at one place at a time | racing taps, change of user |
| `HalfSignUpsExplained` | an account without a profile has it under way, or was cut | crash between two services |
| `WelcomeExplained` | who was told of success has a profile, or its write was lost to a refusal | early or wrong report |
| `SignUpCompletes` | an account gets its profile unless cut or stranded | lost answers, change of user |
| `UpdatesFindProfile` | an update in its own user's queue finds the profile, unless the profile write was refused | sign-ups racing for the tab bar, captured e-mails |
| `CreatedEventsExist` | what is on, or on its way to, an administrator's list is an event the backend has | two dependent writes |
| `OrphansExplained` | an event on no list has its second write under way, or was cut off | crash, refusal between two writes |
| `EventsGetListed` | every added event gets on its list, unless cut off, or stranded while its administrator does not come back | lost answers, completions lost in a death |
| `StudentProfileHolds` | a student's profile never ends on a missing value | half-filled documents |
| `ReadYourWrites` | a device reads what it persisted last | older writes repeated after a lost answer |
| `SavesArrive` | the backend ends with the value persisted last, unless a death of the app stranded a write of the field | repetition, deaths |
| `GroupNumberLossExplained` | a number the profile has had is lost only by clearing it, by pressing early, to a late answer that replaced a typed one, to a refusal, or while it waits behind an older save that is repeated | late, blank and failed reads |
| `HardAssertsHold` (two modules) | no assertion of the client fails | timers, late credentials, refusals, restarts |
| `AnsweredOnce` | `getDocument` calls back at most once | events queued before the listener's removal |
| `SyncedAnswersFresh` | a synced answer is no older than the listen it answers | answers to an earlier listen |
| `ResumableIsCached` | the client resumes only from what it has | the same |
| `ResponsesCounted` | the pending count of a target is what the wires hold for it | listens overtaking answers |
| `UnknownIsTimed` | an unknown online state has its timer running while a table listens | attempts that neither succeed nor fail |
| `AnsweredAtRest` | when nothing is left to do, every call has its answer | answers overtaken by changes of the connection |
| `DeliveryKept` | `RemoteWrite` implements `OrderedDelivery`, for the queue of one user among others | everything under the app's modules |
| `CompletionsTrue` | success is told only of applied, failure only of refused writes | answers matched by order |
| `OwnCredentials` | a queue is sent with its own user's token | Auth's user changing behind the client |
| `DrainedAtRest` | when nothing is left to do, the present user's queue is empty | full pipeline, refusals, change of user |

Two stronger statements about the counters do *not* hold and are not stated:
the counters need not add up to the capacity even with one device (a detail
screen opened between the snapshots of the two counter writes copies a
half-updated row), and with two devices `eventMembersCount` need not be the
number of entries (each device counts on from its own copy).

## 4. Runs

| run | instance | distinct states |
|---|---|---|
| `users` | 2 devices with their users, 1 event of 2 places, 2 screens with 1 tap, roster writes refusable | 1,488,301 |
| `solo` | 1 device, 2 screens with 2 taps | 627,295 |
| `converge` | 2 devices, 1 screen with 2 taps, 1 restart each, counter writes refusable, fairness | 148,352 |
| `full`, `twice` | refute `NeverOversubscribed`, `NoSecondEntry` | |
| `live` | 1 device, 2 addresses, 3 calls, 1 restart, refusals, fairness | 54,188 |
| `welcome` | refutes `WelcomedHasProfile` when the backend may refuse | |
| `owners` | 2 devices, 2 addresses, 2 calls, 2 updates, 1 restart each, refusals | 745,355 |
| `record` | 1 administrator, 2 new events and 1 imported, 1 restart and any number of sign-ins, refusals, fairness | 264,840 |
| `edit` | 1 device, any profile, 2 openings, 2 presses, 1 restart, refusals, fairness | 423,680 |
| `reads` | 2 queries, a table and 2 calls of `getDocument`, 1 change, 1 fault | 379,612 |
| `delivery` | 2 users, 3 writes, a pipeline of 2, 1 change of user, 2 faults | 1,760,716 |

*Bounds.* `Screens`: a screen object is opened once, so its number bounds the entries to
be seen; two are needed for two copies of one row, two taps for two reads on one copy.
`MaxTaps` and `MaxRestarts` are guards of `TapEntry` and `Restart` / `Relaunch`. Two
devices give every interleaving of two queues; a third would repeat what the second
does, as all devices meet only in the documents. One death per device suffices where the
queue is not served after it; in `record` it lets a write be applied before and after
it; stream losses are not bounded in the app's modules. `Calls`, `Updates`, the events
to be added, `MaxOpens` and `MaxCompletes` bound what people do; two of each give a
newer one beside an older one. In `delivery` three writes and a pipeline of two give a
full pipeline with one waiting; two faults give each pair of a broken stream, a lost
token, a refusal, a change of connectivity and a death. In `reads` the table keeps the
stream in use and the two calls meet on the document that changes. Larger instances of
`reads` (two faults, 2,376,085 states) and `edit` (a third text, 3,945,410 states) were
checked once, with the same result. Symmetry is used for screens, calls, devices,
addresses and updates, only in runs of safety properties, and only where the instance
treats its values alike.

*Stopping.* A finite instance uses up its screens or calls. In `Enrolment`, `SignUp` and
`ProfileForm` `AllUsed` is a stutter step enabled in just those quiet states (of the
apps that live; a dead one may have left a queue), so that deadlock stays checked for
all the others; `EventCreation` never stops, as profiles can be read again. In `owners`,
`reads` and `delivery` deadlock is not checked: their calls are used up in many ways,
and for the client `AnsweredAtRest` and `DrainedAtRest` say what must be true where
nothing is left to be done.

*Fairness.* Weak for `Persist` / `RunWorker` (a serial worker queue runs its tasks),
`ServerApplies` while the device is `served` (a client starts the stream again, with
backoff, whenever the present user's queue holds writes: `ShouldStartWriteStream`),
`ShowEvents` (the listener stays registered while the app lives), `CreateUserAnswers`
and `AddEventAnswers` (a completion that is due is called on the main queue); strong for
`Acknowledge`, as streams may break again and again but not every time just before the
answer. `Persist`, `Acknowledge` and `ShowEvents` are not even enabled on a device that
is not served, so nothing is asked of the queue of a dead app. Users, crashes, refusals,
failures, `SignIn` and `SignOut` are under no obligation: each liveness property names
what a user who never comes back leaves behind (`Stranded`). In the modules of the
client, progress is stated at rest instead of under fairness: no state in which every
queue, wire and timer is empty has an unanswered call or an unsent write. With the
faults bounded, what is left is that the handlers do not keep each other busy for ever;
that is not checked.

*Refuted claims.* `full`: two users open the last place, both enter; places are
tested when the screen loads. `twice`: the test for an earlier entry compares
with the description of an `Optional`. `welcome`: the completion of `setData`
tests the error of `createUser`. Each is a finding in `PROJECT.json` with the
quoted line.

*Seen on the way, each by reading one place of the code:*

* `addEvent` never sets `eventMembersCount`, and
  `AdminProfilePresenter.swift:55` unwraps it: every event the app adds ends the
  administrator's profile. The model has it (`trapped` gets `"adminRow"`).
* `addEvent` returns `true` before any answer (`UserAdmin.swift:118`), so the
  alert for a failed addition cannot appear.
* A read that answers late overwrites what has been typed
  (`UpdateProfileViewController.swift:64`), and the complete button writes the
  group number as it stands (line 53), empty if pressed early. Both lose a saved
  number, the first where the profile's was blank: the answer takes the place of a number
  typed and saved meanwhile, and the next press saves the blank. `GroupNumberLossExplained`
  names them (`replaced`, `early`).
* A death of the app strands what the client had not sent: the entry, the save or the
  profile waits in a queue the built app has no way to serve again.
* After signing out the screens stay; the next one opened ends the app at
  `currentUser!` (`UserStudent.swift:57`). `Session` has it (`dead`).
* A listen that is refused after its target was removed and listened to again
  leaves the aggregator's count off (`remote_store.cc:354`), so that the later
  read waits until the stream restarts, or an answer to an earlier listen passes for
  one to the last: with three reads of one document `RaiseWatchSnapshot` then
  marks the target as current at a version that is not in the cache.
  `ResponsesCounted`, `SyncedAnswersFresh`, `ResumableIsCached` and
  `AnsweredAtRest` leave out the targets of which a listen was refused.
* `StopListening` of the last target while the stream backs off clears the
  online timer (`remote_store.cc:186`), and a listen before the backoff is over
  waits without one, against `online_state_tracker.cc:47`. `UnknownIsTimed` is
  therefore stated for a table that keeps listening.

*Mutants.* Definitions whose comment says "Mutant of" are plausible bugs of that
code; each property of a passing run is violated under one of them
(`PROJECT.json`, `mutants`).

## 5. Proofs

Proved with TLAPS for all values of the constants that satisfy the modules'
assumptions (any numbers of devices, users, events, screens, taps, restarts):

| theorem | property | extra assumption |
|---|---|---|
| `EnrolmentProofs!TypeCorrect` | `TypeOK` | |
| `NobodyEverDropped` | `NobodyDropped` | |
| `HalfEntriesAlwaysExplained` | `HalfEntriesExplained` | |
| `CountersAlwaysWithinEntries` | `CountersWithinEntries` | |
| `SoloPairAlwaysWhole` | `SoloPairWhole` | `IsFiniteSet(Devices)` |
| `RosterAlwaysBacked` | `RosterBackedByUser` | `"updateUserEvent" \notin Rejectable` |
| `ImplementsLedger` | `LedgerHolds` | the same |
| `SignUpTypeCorrect` | `TypeOK` of `SignUp` | |
| `ProfileWrittenOnce` | `OneProfileWrite` | |
| `HalfSignUpsAlwaysExplained` | `HalfSignUpsExplained` | |
| `WelcomeAlwaysExplained` | `WelcomeExplained` | |
| `WelcomedAlwaysHasProfile` | `WelcomedHasProfile` | `~Refusable` |
| `SessionRefinesSignUp` | `SessionSpec => Spec` | |
| `SessionTypeCorrect` | `SessionTypeOK` | |
| `UpdatesAlwaysFindProfile` | `UpdatesFindProfile` | |
| `EventCreationProofs!TypeCorrect` | `TypeOK` of `EventCreation` | |
| `CreatedEventsAlwaysExist` | `CreatedEventsExist` | |
| `OrphansAlwaysExplained` | `OrphansExplained` | |
| `StudentProfileAlwaysHolds` | `StudentProfileHolds` | |
| `ProfileFormProofs!TypeCorrect` | `TypeOK` of `ProfileForm` | |
| `ReadsOwnWrites` | `ReadYourWrites` | |
| `GroupNumberKept` | `GroupNumberLossExplained` | |
| `RemoteWriteProofs!TypeCorrect` | `TypeOK` of `RemoteWrite` | |
| `HardAssertsAlwaysHold` | `HardAssertsHold` of `RemoteWrite` | |
| `CompletionsAlwaysTrue` | `CompletionsTrue` | |
| `OwnCredentialsAlways` | `OwnCredentials` | |
| `AlwaysDrainedAtRest` | `DrainedAtRest` | |
| `DeliveryAlwaysKept` | `DeliveryKept`: `RemoteWrite` implements `OrderedDelivery` | |
| `DocumentReadsProofs!TypeCorrect` | `TypeOK` of `DocumentReads` | |
| `HardAssertsAlwaysHold` | `HardAssertsHold` of `DocumentReads` | |
| `AlwaysAnsweredOnce` | `AnsweredOnce` | |
| `UnknownAlwaysTimed` | `UnknownIsTimed` | |
| `ResponsesAlwaysCounted` | `ResponsesCounted` | |
| `ResumableAlwaysCached` | `ResumableIsCached` | |
| `SyncedAlwaysFresh` | `SyncedAnswersFresh` | |
| `AlwaysAnsweredAtRest` | `AnsweredAtRest` | |

The extra assumption on `Rejectable` is needed: were the write to the user's own list refused
and the roster's accepted, the roster would have a user without the entry. The
write follows a read that found the document, and documents are not deleted;
access rules, which could still refuse it, are not in the repository. Without `~Refusable`
the run `welcome` refutes `WelcomedHasProfile`. As the theorems hold for every
`Owner`, they cover several devices with one account, which the runs do not.

*Roster.* `RosterBackedByUser` alone is not inductive, as the queues may hold
anything. `RosterInv` adds `UserWriteFirst` (in every queue, in front of a
roster write is the user's write for that event, unless it has arrived) and
`AppliedTakesEffect` (applied writes are in the documents, so an acknowledged
write may leave the queue, and a second delivery changes nothing).

*Half-made entries.* `HalfInv` adds `RosterWriteFollows` (behind a user's write
comes its roster write, unless lost). A death cuts a suffix of the queue and
records in `lost` what it takes; the rest stays in it, served or not.

*Counters.* `CountersInv` says that every copy of a counter, in the documents,
the caches, the screens and the queues, lies within the entries made. An entry
widens the range by one, just as far as the copy on its screen moves.

*Ledger.* Every step maps to a `NoteForUser`, a `PutOnRoster` or a stutter;
`RosterInv` gives the guard of `PutOnRoster`.

*Sign-up.* `OneProfileWrite` is inductive with `TypeOK`: an address is free, or
one call has made its account, or one queue holds its profile write, or the
write is persisted, and each step only moves it along that way (`NothingNew` is
the lemma for all the steps that move nothing). `HalfSignUpsExplained` needs
`AppliedIsThere` besides (an applied write has made its document): without it
an answer could end a write whose document is missing. The same part gives
`WelcomeExplained` and `WelcomedHasProfile`.

*Adding events.* `TypeOK` needs `Fresh` (no write and no call is about an
imported event, and no form writes the count of members), or a refusal could
cut off an imported one. Each property adds what it needs to these two:

* `CreatedEventsExist`: `MadeFirst`, that the document of an answered call, and
  of every applied first write, is there. The second write is made only behind
  an answer, an answer comes only to an applied write, and documents stay.
* `OrphansExplained`: `UsedOnly` (only called ids are written, only written ones
  exist), `AppliedListed` (an applied write is on the list, so its answer may
  take it off the queue) and `Accounted`, the property for every called id,
  whether or not its document is there yet.
* `StudentProfileHolds`: `RowsKnown` (imported documents are whole, the app's own
  never have the count of members) and that only imported events are entered.

The steps are first sorted by what they do to queues, calls and documents
(`Kinds`); what only reads, shows or fills in is one case, `Quiet`.

*Both counters.* `SoloInv` follows the pair of counters of an event that the
only device has entered: there is a screen's copy of the row (`CopyShows`) whose two
values the counters will have once the queue has been applied (`PairOnItsWay`,
`EndsUpAs`), and each counter is what the last applied write to it says
(`CountsLastApplied`). That there is no other device comes from
`Cardinality(Devices) = 1`, which says so for finite sets only.

*Session.* Every step of `Session` is a step of `SignUp` or leaves its variables
alone, so `SignUp`'s theorems hold of it. `SessionInv` adds `UserServed`: the
user whose queue a device serves has had the profile written, in that
device's queue and ahead of any update.

*Profile.* `LatestInv` is what `ReadYourWrites` needs: the last persisted write to a field, or
the document if there is none, has the value persisted last (`LastPending`), and
a field all of whose pending writes have been applied shows the last of them (`AppliedShown`).
An older value may be back in the document meanwhile, never in what the device reads.
For the group number the profile may be blank at the start, so blank values may be on
their way, and the invariant must say which of them come too late to harm. `NumberInv`:
a device where nothing of what explains a loss has happened (`Excused`) is `NumberSafe`.

* The queue: behind a number no blank one is written (`InOrder`). A profile that has
  had a number has it still, with no blank one outstanding, or has one persisted, which by
  `InOrder` is behind all blank ones (`StillThere`); what has been applied of numbers
  shows (`GivenApplied`), so an answer may take one off the queue.
* The form: once a number has been entered anywhere, a field that has been shown holds
  one (`FieldHolds`), and a blank answer that still waits finds a field that has been
  shown already, where replacing it is recorded (`ReadHolds`). A read whose field has
  not been shown has all outstanding writes ahead of it (`ReadInTurn`), as no press can
  come before the field is shown without being early: when it answers, it sees the
  number.

`ReadInTurn` is where the order of the worker's queue is needed; with reads that
may answer before earlier writes the property fails.

*The writing client.* A handler is a chain of operators on one record, so
`RemoteWriteProofs` first proves what each operator makes of a record: from
`Rests` (what any handler leaves) through the half-done states (`Sound`,
`Ready`, `Settled`) back to `Rests`. Of an open stream `Wires` says that the answers on
one wire and then the requests on the other are the pipeline, in its order, with
a refusal at most behind the answers (`Answers`). That is what the assertions
check, and why the front of the pipeline is the right one to complete. `IInv` adds, for
what is not in the record:

* `TokenOnItsWay`: a stream that starts has its token in exactly one place (Auth,
  the main queue, the worker's), any other stream in none; with `Filled`
  (the pipeline has what it has room for) this gives `DrainedAtRest`.
* `UserKnown` and `TokensMatch`: the last change of the user is on the way to the client,
  and a token with the present count is that of the user whom the client will serve
  when it gets to it. The provider's count is looked at on the main queue,
  behind every change that came before the token, and this is just enough for
  `OwnCredentials`.
* `Numbered`: writes still queued for the worker are later than all in the
  mutation queues. `FillWritePipeline` looks for the first batch behind the last
  of the pipeline, which is the next one because of it.
* `AnswersTrue`: an answer on the wire is for an applied write, a refusal for a
  refused one.

Each step of the worker is then `Handled`, a summary of what it does to the
record, from which the preservation of all these parts follows once. The
provider's steps, Auth's, the app's and the backend's have a lemma each.

*Delivery.* With `IInv` every step of `RemoteWrite` is one step of `OrderedDelivery` for
the observed user's queue, or none (`Maps`, one lemma per action). Only two things have
to be followed. `Enqueued` lists the operations that will find that queue: one that
joins the worker's queue can only make it longer by one at its end
(`EnqueuedBehindOthers`), and the worker's next operation is its first element or leaves
it alone, a change of user included (`EnqueuedBehindFirst`). `Unanswered` is the `n` of
`Answers` (`AnswersCounted`), so an answer takes one off, a refusal is read only when
none is left, and whatever closes the stream or serves another user leaves none. That
nothing is removed but the front of the queue, and an answer is for it, is `Wires`.

*The reading client.* `WatchInv` joins three arguments, which need one another. The
record again goes from `Rests` to `Rests` through `Sound`, operator by operator; the
assertions of the stream, the tracker and `RemoteStore` follow from `Sound`, those of
`SyncEngine` from the books: what `RemoteStore` listens to, the views, and the queries
that have a listener (`Listened`) are the same set between any two steps.

* The two queues: a listener is added once, and only then told or removed
  (`AddedOnce`); an error is the last it is told (`ErrorIsLast`), which is why
  no removal follows one; after its answer it is muted, or there is nothing left
  to tell it (`AnsweredThenSilent`). `AnsweredOnce` by itself would not survive an
  event that is behind the first in the queue.
* `UnknownIsTimed` of the tables is inductive only with the tables that are
  asked for and not yet listened to, and with their being added first
  (`TablesFirst`): otherwise a document's removal could empty the targets while the
  stream backs off, and clear the timer, before the table comes.
* `Counted` is about the two wires. A closed stream has nothing on them and
  nothing that is served, a starting one waits for nothing; from there every request adds one
  to the count and to the wire, the backend turns it into one response, and
  reading that takes both away. A refusal is not a response: it is among the
  queries the property leaves out (`refused`) as long as it is on the wire.

*What the wires tell.* `ResumableIsCached` and `SyncedAnswersFresh` speak of the
cache and of answers; what makes them true is on its way long before.
`TargetsKept` follows every target whose listens were all granted (`Kept`):

* As long as a request about it is on the wire the last one is a listen
  (`AskedLast`), with a version that is in the cache (`Quoted`). Until it is
  answered `IsActiveTarget` is false, because of `Counted`, so nothing that
  is told of an earlier listen is taken in.
* From the answer on (`Heard`; `Silent` says that no response to a request is
  still ahead) the backend's version is in the cache, in the aggregator or in a
  message (`Told`), the target is current or will be (`Ready`), and both come before
  the snapshot that resumes the target at that version. As long as its view is not
  synced, that snapshot is still to come.
* Versions on the wire do not go down (`Ordered`), and the view was opened at a
  version the backend had already, so a synced view has a cache at least as new as its
  opening (`Synced`).

Neither property is inductive without this: a snapshot says of each target only that it
*is* current, and what it is current with was sent as separate messages before.
`EventsFair` carries the second property through the executor's queue: an event that is synced
was made from a synced view, at a moment when its listener had `since` already.

*Nothing left waiting.* `CallsWait` names what each call waits for: one that is asked
for, for its operation in the worker's queue; one that was raised or is gone, for an
event in the executor's queue, if it has no answer; one that listens, for its view to
become synced, while the client is not offline. Together with `Starting` (a stream that
starts has its token) and the last part of `Heard` this gives `AnsweredAtRest`: at rest
the stream can only be open, and what is open with empty wires has its views synced. The
step of the timeout that goes offline raises the waiting listeners itself; without that
part (`online # "Offline"`) a call could be left behind.

`WritePipelineProofs` has the lemmas about sequences (append, tail, prefix) and
the pipeline's type that the theorems about `Enrolment`, `EventCreation` and
`ProfileForm` rest on.

*Written to be proved.* The prover cannot follow an operator as an argument
(`FoldSet`, `SelectSeq`), nor `@@` and an `@` within another's path. So `RemoteWatch`
writes a count for a set of targets as one function (`RecordPendingTargetRequests`),
a new entry of a map as `Put`, the requests as `SetToSeq` of a set, and
`Outstanding` counts positions. `RemoteWrite` says which operations are the observed
user's by their places (`FindsObserved`, `Mine`) and puts them in order with `InOrder`.

*Only model-checked.* What is stated under fairness (`PersistedEntryArrives`, `RowsConverge`,
`SignUpCompletes`, `EventsGetListed`, `SavesArrive`) is out of the prover's reach.
Every safety property of a passing run is proved.

## 6. Plan

1. `WritePipeline`, `EntryLedger`, `Enrolment` and their proofs: done.
2. `SignUp` and its proofs: done.
3. `EventCreation`, `ProfileForm`, `Session`: done.
4. The client below: `Stream`, `RemoteWrite` with `OrderedDelivery`,
   `RemoteWatch` and `DocumentReads`: done.
5. Proofs about `EventCreation`, `ProfileForm`, `Session` and `RemoteWrite`, its
   refinement of `OrderedDelivery` included: done.
6. Proofs about `DocumentReads`: types, assertions, answers, the timer, the
   count of responses, what is resumed, the freshness of answers and rest: done.

## 7. Not modelled

* The role after a sign-in and the code check. Both are in no build; in both the
  function decides before its read answers, and the answer goes to a variable
  nobody reads again. Every interleaving has the same result, so a module would
  have nothing to check.
* Coordinators, designable views, table cells, the mail composer, Core Data (template
  code), texts, formats, layout and validation expressions: no state of the system.
* The tests: regular expressions of the two presenters and template code.
* The rest of the pods (BoringSSL, gRPC, abseil, leveldb, nanopb, the generated
  protocol code, the other parts of Firebase). They are the bulk of the
  repository's lines, more than 99 of 100. The app reaches them only through
  the client that is modelled, whose assumptions on them (a stream delivers in
  order or ends with an error; a committed leveldb transaction survives) are
  the external actions of the modules. A model of them would be a model of other programs.
* Of the Firestore client: transactions, batches, limbo resolution, existence
  filters, target resets, bundles, garbage collection, several tabs,
  `disableNetwork`, and queries with limits, none of which the app uses.
