# ChatAppTFS: a TLA+ model

ChatAppTFS is an iOS chat. Channels and messages live in Firestore; the app
keeps a local replica of them in Core Data and shows the replica. The user's
identity, the theme and a profile live in a property list in the app's
documents. The app's own code is the Swift under
`src/ChatAppTFS/ChatAppTFS`; paths below are relative to it. Pods, assets and
generated project files are not the app's own code.

## Inventory

| Component | State | Operations | Hard behaviour |
|---|---|---|---|
| `CoreLayer/CoreData/CoreDataManager.swift` and the data model `ChatDB` | rows of `DBChannel` and `DBMessage`; one private context per background task | `updateDatabase(with:)` for channels (an upsert and a delete task) and for messages | tasks run concurrently, each with several fetches and saves; saves are refused by constraints and by row versions; a refused save keeps its changes pending; `fatalError`s |
| `CoreLayer/Firestore/FirestoreManager.swift` | one reference to a channel listener, one to a message listener, the channel of the latter | get, stop, add, delete | listeners that are replaced, fail, or call late |
| `ServiceLayer/Chat/ChatService.swift` | `channelId`, a weak `databaseUpdater` | start, stop, and the completion of a save | the completion runs on the queue of the task and calls whichever screen is `databaseUpdater` by then |
| list and conversation (`PresentationLayer/ConversationsList`, `Conversation`) | what the `NSFetchedResultsController` has fetched; the table's count and cells | appear, disappear, open, `updateData`; count, configure a cell, tap, swipe | swipes back that are cancelled; channels deleted while open; index paths of an older fetch |
| `CoreLayer/Plist/PlistManager.swift` | one file | save, load all, load a value | a save is a read, change and write for each key; writes are not atomic |
| `ServiceLayer/Storage/StorageService.swift` | a global concurrent queue, no lock | the same, with results on the main queue | requests overlap |
| identity and theme (`ConversationsListPresenter`, `loadThemeFor`) | `userId`, the theme | load at launch, create, change | a failed load makes a new identity |
| profile screen (`PresentationLayer/UserProfile`) | `stored`, `updated`, fields, buttons, alerts, what is on its way to the screen | edit, pick, save, cancel, try again, close | edits, arrivals and results interleave; alerts may be dropped |
| pictures screen (`PresentationLayer/Pictures`), `ServiceLayer/Network/RequestSender.swift` | the pictures of a category, a spinner, cells that are reused, a URL cache | choose a category, lay out a row, pick | answers in any order, for cells that have another row by then; cached answers that do not parse |
| router, assembly, views, themes, animators | navigation | present, push, dismiss | none of their own |

Calls go down: screens to `ChatService` or `StorageService`, these to a
manager. Results come up by closures: Firestore's on the main queue, Core
Data's on the queue of a task, the storage's on the main queue.

What makes each part correct:

- replica: it converges to the snapshot, holds no message twice and none
  without its channel, and a channel grows at its new end;
- session: only the screen that is up listens, messages go to their own
  channel, and the screen that is up comes to show the database;
- property list: a save that is not disturbed leaves all its pairs and
  nothing else changed;
- profile, identity, theme: what the screens say is what the file holds, and
  the identity and theme survive a restart; the profile screen shows what Save
  would store, and every save is answered;
- tables: no row is asked for that is not there, a tap means the cell it hits,
  and the table catches up with the database;
- pictures: rows that can be tapped exist, an image is at its row, the category
  on screen is the one that was chosen, and neither the spinner nor a blank cell
  waits for what will never come.

`PROJECT.json` lists the hazards, each at its line.

## Modules

| Module | Models |
|---|---|
| `CoreDataManager` | the database and its background tasks |
| `ChatReplica` | abstract: what the database promises |
| `ChatSession` | extends `CoreDataManager` with Firestore's listeners, `ChatService` and the two chat screens |
| `FetchedTable` | the table of a chat screen over the rows its controller fetches |
| `PlistStorage` | `StorageService` over `PlistManager` |
| `LocalProfile` | extends `PlistStorage` with identity, theme and the profile screen |
| `Settings` | abstract: what identity, theme and profile promise a user who waits |
| `Pictures` | the pictures screen over `RequestSender` and its cache |
| `MC*` | instances for TLC: stamps of messages, lists of pictures, symmetry |
| `CoreDataManagerProofs`, `ChatSessionProofs`, `FetchedTableProofs`, `PlistStorageProofs`, `PicturesProofs` | theorems about the module they are named for |
| `LocalProfileProofs`, `PatientProofs`, `ScreenProofs` | theorems about `LocalProfile`: for any user; for one who waits; about what the profile screen shows |

### CoreDataManager

`dbChannels[c]` is the row of channel `c`, or `None`; `dbMessages[c][m]` counts
the rows of message `m` below it. `task[t]` is the closure of
`performBackgroundTask` that task `t` runs, with the arguments it captured;
`context[t]` is its private context: pending inserts, updates, deletes and
messages, and for each row whether the store still has the version the context
read. Each request of the store is one step: the fetch of a channel
(`UpsertChannel`, `FetchAll`, `FetchChannel`), the relationship that is
followed (`AddMessages`), the attribute of a row that may be gone
(`VisitChannel`), the save (`SaveSucceeds`, `SaveFails`). `VisitDeletedChannel`,
`AddToMissingChannel`, `AddToDeletedChannel` and `AddUndatedMessage` are the
`fatalError`s.

Core Data is external. What is taken from it: a save is a transaction; it is
refused when an attribute the data model makes mandatory is nil, when a
uniqueness constraint breaks, or when a row it changes has another version than
was read, since no merge policy is set; refused changes stay pending, since
nothing rolls them back. A message added below a channel is a change of the
channel's row as well, since both ends of the relationship change. Whether the
deletion of a row that is gone already is a conflict is left open
(`Deletable`), and so is what an attribute of such a row reads as.

A value in `Values` stands for `name`, `lastMessage` and `lastActivity` of a
document; `Unnamed` is that of a document without a name. A row that is inserted
gets the time of the insert for a missing `lastActivity` (`DBChannel.swift:32`), one
that is changed gets nil: `WithDate` maps a value to what an insert makes of it.
A message without sender gets default ones (`DBMessage.swift:31-32`), so the stamp
is the only attribute that a row of a message may lack (`Complete`).

`clean` and `before` in a task are history variables: the request met no other
request and no I/O error, and the channels there were when it was made. The two
tasks of one channel snapshot count as one request.

### ChatSession

Firestore's callbacks and UIKit's run on the main queue, so each is one action,
with every call it makes down to `performBackgroundTask`. A save's completion
runs on the queue of its task: `SaveOfTask` and `UpdateData` are two steps, and
the screen may change between them. `listed` and `shown` are what the two
fetched-results controllers hold. `leaving` is a conversation that is being
swiped away: the pop may complete or be cancelled, after which the same view
appears again. `cloud[c] = None` also stands for a document that
`getChannelsFrom` cannot decode and skips.

Left out: deletions of message documents (the app requests none). Errors of
`performFetch`, the tables and taps that open nothing are in `FetchedTable`.

### FetchedTable

What lies between a save and a table that shows it. `performFetching` runs on the
thread of the background task that saved and replaces `fetched`;
`DispatchReload` puts a `reload` into the main queue; until that runs, `count` and
`cells` are of an older fetch. Each task's two steps and each step of the main
queue interleave. The list validates an index path (`validateIndexPath`) and then
takes the object (`ShowChannel`), with room for a fetch in between; the
conversation takes it at once (`ShowMessage`). `didTapAt` is a tap and
`commitDelete` a swipe that deletes (`tableView(_:commit:forRowAt:)`), both by an
index path of what the cell showed. A fetched row that a save has removed since may
read with nil attributes (`EndsAt`): laid out it ends the app with "invalid data
from database" or "Wrong DBMessage", swiped with "Channel don't have identifier";
tapped it opens nothing, as any row does before the user's identity is loaded.
`removed` and `failed` are history. The
delegate methods that insert, move and delete single rows are left out: no save
of another context is merged into the view context, so the controller has
nothing to tell between two fetches.

### PlistStorage

`file` is whole with a dictionary, torn, or missing. A write first tears it
(`WriteBegins`) and then fills it (`WriteEnds`); writes that overlap may leave a
mixture. A save reads, changes and writes for each key, in any order, as a
dictionary's keys have none; `SaveMeetsError` gives a key up. `main` is the
queue of results. A launch copies the template when there is no file, and the
copy may fail; it is one step, before anything else runs. `clean` and `before`
are history: a save that met no other save and no I/O error, and what it
started from.

### LocalProfile

The clients of the storage. `alert` is the alert on screen; a second one, or one
that comes while a picker covers the screen, is dropped, as UIKit does. `mode` and
the two buttons give the taps that are possible. Placeholders matter (`ended`): a
field whose text equals its placeholder is not noted. `getValues` sends what is
to be shown through a global queue and the main queue, so `values` reach the
screen in any order (`updateScreen`). A picture of the gallery is there at once, and
shown but not noted if it has no JPEG data (`imagePickerController(v, FALSE)`); one
of the pictures screen is loaded first (`picks`) and comes to the profile screen
whatever that does by then; it may be no image (`PictureLoaded(v, FALSE)`).
`firstId`, `asked` and `cancelled` are history: the identity this install made
first, what Save was tapped for, and the edits that Cancel took off the screen.
Left out: the list's name and picture (`loadProfileData`), texts typed in a field
that is still being edited when Cancel is tapped, and the default texts of empty
fields.

### Pictures

A category is the URL of its list. `request` holds what is on the network, waits
for `asyncAfter` ("delayed": lists keep no order) or is in the main queue ("main":
images keep theirs). An answer is put into `cached` before it is parsed, so one
that does not parse stays there as "bad" until it is evicted. A cell that is
reused keeps its tag until it is given another, and an image is shown only if the
tag is still that of its request (`imageLoaded`); data that is no image empties the
cell (`NotAnImage`). `ScreenEnds` leaves requests
that find nobody. `fetched` and `loads` are history: the categories this screen has
shown, the one it asked for last, and whether such requests overlapped or
failed.

## Runs

| Run | Shows | Bounds |
|---|---|---|
| `CoreDataManager_channels` | `ConvergesAlone`: upsert and delete task of a snapshot have one outcome; `IdentifiersLostByOverlapOnly` | 3 channels, a content with and one without `lastActivity` and the nameless one, 2 tasks |
| `CoreDataManager_messages` | `TasksInv`; `OnlyNewerMessagesAdded`; `MessagesCompleteAlone`: all new messages of a batch or none | 1 channel, nameless too, 3 tasks, an old, a newer and an unstamped message |
| `CoreDataManager_store` | `NoDuplicateMessages`, `NoOrphanMessages`, `ImplementsReplica`, `MessagesCompleteAlone`, `TasksShorten`, `TasksFinish` | 2 channels, nameless ones too, 2 tasks, two messages of one stamp and one without |
| `ChatSession_safety` | `ChatInv`, `OnlyScreenListens`, `MessagesStayInTheirChannel` | 2 channels, 1 message, 2 tasks |
| `ChatSession_liveness` | `ConversationShowsDatabase`, `ListShowsDatabase`, `ScreensAwait` | 1 channel, 2 messages, 2 tasks |
| `ChatSession_missing` | violation of `ConversationHasChannel` | 1 channel, 1 message, 2 tasks |
| `FetchedTable` | `IInv`, `RowsOutlastTheirCount`, `QuietShowsDatabase`, `ChoicesMeanTheirCell`, `CatchesUp` | lists of up to 2 of 3 rows, 2 tasks, 1 reload due when a save comes |
| `PlistStorage_saves` | `SavedAlone`, `JobsShorten` | 2 keys, 3 requests in flight |
| `LocalProfile_errors` | `SaveAnswered`, `AnswersKept`, with any I/O errors, files and order of results | 3 keys, 1 value, 2 requests in flight |
| `LocalProfile_patient` | `ScreenInv`, `DataSavedMeansSaved`, `IdentityKept`, `ThemeRemembered`, `CancelRestoresFile`, `ScreenShowsEdits`, `StuckLosesNothing`, `ImplementsSettings` | 4 keys, 2 values, 2 requests in flight |
| `LocalProfile_saved` | violation of `DataSavedMeansSaved` | 4 keys, 2 values, 2 requests in flight |
| `Pictures` | `IInv`, `ImagesAtTheirRow`, `LoadedAlone`, `NobodyForgotten`, `SpinnerStops`, `CellsFill` | 2 categories of 2 and 1 pictures, one in both, 1 cell, 2 requests |

Only `FetchedTable` disables the deadlock check: an exception or a `fatalError` ends
the process there, and its launch is not part of that module. Everywhere else the
process can be ended or launched, or a tap is possible. Nothing but the number of
jobs, tasks and requests in flight, `Backlog` (clients make no request, and Cancel
sends no values, while more wait), `MaxRows` and `MaxReloads` bounds the models; all
other state is finite.

Why the bounds are enough for the interesting cases: one request of the database
makes two tasks at most, so two tasks already overlap with one another and three
with an earlier request; a lost update, a duplicate, a conflict or a reordering
needs two. Three channels are the fewest for a failed save to have a channel
before it and one after it. Message stamps cover older, equal, newer, missing;
two channels let a message of one take the stamp of the other's.
`ChatSession_safety` has two conversations because a listener of one that survives
into the other needs both. Two rows of three identifiers let rows come, go and
change places, and two tasks fetch and reload around each other. Of two
categories that share a picture one is shorter, so that a row of the first has
no row in the second, and one cell is then reused for every row; two requests are
what arriving out of order takes.

### The two violations

`ChatSession_missing`: the cloud deletes a channel while the list is up, or comes up
again in a swipe back that is then cancelled, and the list's listener starts a
delete task. Opening the conversation removes that listener but not the task; it
removes the row, and a message task of the open conversation then runs into the
`fatalError` of `CoreDataManager.swift:108`.

`LocalProfile_saved`: `PlistManager.save` calls its completion with a failure for
the key that failed and, since the `return` leaves the closure of one key only,
with success at the end. The profile screen shows the failure alert, and after
it is dismissed "Data saved", or saves an empty dictionary on "Try again" after
`updated` was cleared.

### What the passing runs assume

`LocalProfile_patient` restricts the user and the system (`PatientNext`): nothing is
requested or edited while something is under way to the storage or to the
screen, Cancel waits for the storage, the app is not ended during a save, there is
no I/O error, and a picture is an image with JPEG data. Without these its properties do not
hold: saves that overlap lose keys, a load during a write finds no property list
and a new identity is made, a process that ends during a write leaves a file
that no launch repairs, a load that comes after an edit covers it, and Cancel
during the load may leave the defaults on screen. These are hazards in
`PROJECT.json`. In `LocalProfile_errors` the user of
the profile screen waits for nothing and everything may fail; it is one launch, on
a file that is whole, torn or missing.

`ConvergesAlone` and `MessagesCompleteAlone` are about requests that meet no other,
whatever they bring: nameless documents and colliding or missing stamps are part
of the outcome. What holds for requests that overlap is `ChatReplica`.
`RowsOutlastTheirCount` is about saves that only add and move rows: a channel that
is deleted while its row is being laid out does end the process, and so may a
message of a conversation whose channel is deleted. `ChoicesMeanTheirCell` leaves
the time between a fetch and its reload, in which a tap or a swipe does take
whatever row is at that place by then. `LoadedAlone` is about a category chosen
while no other list is under way: of two that overlap, the one that arrives
last stays on screen. `ScreenShowsEdits` leaves out edits that Cancel has taken
off the screen: `updated` keeps them, and the next Save stores them unseen.

### Fairness

`TasksFinish`: weak fairness of each task's steps, since every background context
has a queue of its own, which the system serves. The two liveness properties of
`ChatSession` add weak fairness of the delivery of what listeners have, and exclude
I/O errors of the local store. The user, the cloud and the system have no
fairness: the properties say, if the cloud comes to rest and the screen stays up
with its listener alive, then it comes to show the database. The list's property
also needs a named channel in the cloud and no nameless one, since only a save
that succeeds calls `updateData`.

`SaveAnswered`: weak fairness of each job of the global queue and of the main
queue; no tap and no picture has any. `SpinnerStops` and `CellsFill`: a data task
ends, by an answer or an error, a timer fires, and the main queue runs.
`CatchesUp`: weak fairness of each task's fetch and dispatch and of the end of
`cellForRowAt`, and strong fairness of `reload`, since the main queue serves its
blocks in turn while scrolling keeps entering `cellForRowAt`.

## Proofs

`CoreDataManagerProofs`, for any channels, messages and number of tasks:
`TypeCorrect`, `Invariant` (`IInv`), `NoDuplicates`, `NoOrphans`,
`MessagesAddedInOrder`, `Implements`, `AloneInvariant` (`AloneInv`),
`TasksInvariant` (`TasksInv`, which is both), `RequestConverges`,
`BatchIsComplete`, `IdentifiersSafeAlone`, `TasksNeverGrow`.

The safety properties are not inductive: a save stores what was computed from
rows read earlier. `IInv` ties the pending changes of a context to the rows that
the store would let it change: a context that holds the current version of a
channel's row has pending only messages newer than all that are stored below it
(`PendingMessagesNewer`); rows it holds as current or changed exist
(`HeldRowsExist`); what is pending fits the kind and the arguments of its task
(`PendingByKind`, `NothingAddedYet`, `PendingFromArguments`). A save that changes
a row makes every other context's version of it stale, which is what preserves the
first two. The refinement maps a save to `Store`, `Remove` or `Extend` of
`ChatReplica` by the kind of its task, and every other step to a stutter.

`AloneInv` is a second invariant, about clean tasks: those of a request that met
no other and no I/O error. `CleanAlone` says that a clean task shares the database
with nothing but the other task of its snapshot. Then the store refuses neither:
an upsert has only rows pending that it holds as current or that are not there
(`CleanUpserts`), a delete task only rows outside the snapshot, which the upsert
does not touch (`CleanDeletes`). A nameless document stays pending, so from it on every save
is refused, and what is still to do or refused is as it was before (`UpsertAlone`).
`CleanProgress` follows the request through both tasks: every channel of the
snapshot has its outcome (`Outcome`), or is pending or still to be visited, and
every row outside it is gone, pending as a delete or still to be listed. It asks
for the work that is left and not for the task, so that when the last of the two
ends nothing is left and the database is the outcome (`RequestConverges`).
`CleanMessages` does the same for a batch: the row of its channel stays current,
so that what is pending when it saves are the messages newer than all that are
stored; whether the save is refused is then a matter of stamps alone
(`BatchIsComplete`).
`IdentifiersSafeAlone` follows from `CleanDeletes`: a row that a clean delete task
has listed is still there when its identifier is read.

`TasksNeverGrow` (`TasksShorten`) is the part of `TasksFinish` that is about
steps. `Left` counts the steps a task has before it: two for each channel it has
still to visit and what its phases add, at most two for each channel and two
more. Every step of the task makes it smaller: a failed fetch gives the task up
or goes on to the next channel, a refused save is not tried again, and a loop
over a list that was made once ends with it. No step of anybody else makes it
larger, and a new request only takes a task that is at rest. The documents of a
snapshot are visited in their order, so the proof needs that a set of numbers
that is not empty has a least one (`LeastNumber`, from the library's
well-founded induction).

`ChatSessionProofs`: `ChatInvariant` (`ChatInv`), `ScreenListensAlone`,
`MessagesInTheirChannel`. With `IInv` the invariant says that the conversation on
screen is the one both remembered channels name, that a conversation is being
left only when the list is up, and that what a context has pending is of its
batch. `ChatUsesCoreData` is the composition: every step of the session is a step
of `CoreDataManager` or leaves the database alone, so `ChatSpec => Spec`; what is
proved of the database then holds for the app: `ChatImplementsReplica`, and
`ChatRequestsAlone` for the three properties of requests that meet no other, and
`ChatTasksNeverGrow`.

`ScreensNeverLeftBehind` (`ScreensAwait`) is what is true of `ListShowsDatabase` and
`ConversationShowsDatabase` without fairness, under `ReliableChatSpec`, where the
local store has no I/O error: a screen that is up and does not show what is stored
has a delivery due, a completion to run (`reporting`), or a task whose next save
nothing refuses (`WillBringMessages`, `WillBringChannels`). Only the successful save
of another task can make such a task's save fail, and that save reports in its
place; and a completion calls `databaseUpdater`, which is the screen that is up.

`FetchedTableProofs`: `FetchedTableInvariant` (`IInv`), `CountsOutlasted`,
`QuietTableShowsDatabase`, `ChosenIsShown`. The invariant adds what holds in the
middle of an update: what is fetched is the database unless a fetch is due or
failed; the cells show what is fetched unless a reload is due; and as long as no
save removes rows, the count is at most what is fetched, and every row fetched is
stored.

`PicturesProofs`: `PicturesInvariant` (`IInv`),
`ImagesStayAtTheirRow`, `LoadedAloneIsShown`, `NobodyIsForgotten`. The invariant
ties each request to the screen it is for (`RequestsMatchScreen`) and each block
of the main queue to one request (`BlocksOfRequests`). `NobodyForgotten` is the
other direction, and what is true of `SpinnerStops` and `CellsFill` without
fairness: to whoever waits, a request or a block is on its way. It is inductive
together with `IInv`, which says that the block that ends a request has the image
of the cell's row, shown or found to be none.

`PlistStorageProofs`, for any keys, data and number of requests:
`StorageInvariant` and `SavesAloneComplete`. `CleanSaves` says that a clean save
is the only save, that no other write overlaps its writes, and that the file, or
the dictionary it is about to write, is what it started from with the pairs done
so far. `LocalProfileProofs`: `ClientsAreSafe` and `ClientsSaveAlone` carry both
over to the app, for any user and any errors, and add that each client saves its
own keys.

`JobsNeverGrow` (`JobsShorten`) says of requests what `TasksNeverGrow` says of
tasks: `JobLeft` is at most three for each key and one, a read that finds no
file or a write that fails gives its key up and makes it smaller, and a save
that is disturbed has no more to do. `ClientJobsNeverGrow` carries it over to
the app, where a launch puts its loads where there are none, since a process
that was killed leaves no request (`KilledIdle`). `AnswersAreKept`
(`AnswersKept`) follows the answer that the profile screen is owed: it is a save
of its own or a result of one; a save that ends puts its result into the main
queue in the same step, other results leave it there, and its turn makes an
alert unless one is up already or the screen is covered or gone.
`AnswersAreKeptOnScreen` states it of the specification of the run as well.

`PatientProofs`: `PatientInvariant` (`PatientInv`), `IdentityIsKept`,
`ThemeIsRemembered`, `SavedIsInFile`, `CancelIsRestored`. None of the four is
inductive, because what a client knows and what the file holds agree only
between requests. `PatientInv` compares both with `Final`, what the file will hold
when the save under way is through. Each client awaits one thing at a time
(`AwaitedAlone`); a save overlaps no load but that of the theme, and then it is the
first save of a new identity (`SavesApart`); results that wait say what `Final` says
(`ResultsTrue`); and what a client knows is `Final`, or it awaits something
(`IdentityKnown`, `ThemeKnown`, `ProfileKnown`, `AskedKnown`).

`SettingsAreKept` is the refinement: under the mapping of the abstract
dictionary to `Final`, of what is told to `userId`, `theme` and `stored`, a
patient user's system implements `Settings`. A tap that saves is the step that
changes the dictionary, all keys at once; the reads and writes of single keys
that follow are stutters, since a save that overlaps no other does not change
what the file will hold; a result tells what `Final` holds, by `ResultsTrue`;
and an end of the process between saves keeps the dictionary.

`ScreenProofs`: `EditsAreKnown` (`EditsKnown`), `ScreenInvariant` (`ScreenInv`,
which is `PatientInv` and `EditsKnown`), `EditsAreShown`, `StuckIsSaved`, from
`PatientInv`: nothing is touched before the load is through, whatever is on its
way to the screen is `stored`, a placeholder is what a save would leave, and two
disabled buttons have nothing left to save.

The assumptions are those on the constants: channels are numbers (document
order) and finitely many, as are the keys of the property list, `None` is
neither a channel nor a value nor `Unnamed`, `WithDate` maps values to values and leaves the nameless
one, and only it, nameless, stamps are numbers, `Nil` is no datum, the keys
of identity, theme and profile differ, lists are sequences of pictures and no
picture is a category, the bounds are numbers. TLC evaluates them in every run.

Only model-checked: what needs fairness (`TasksFinish`, `ListShowsDatabase`,
`ConversationShowsDatabase`, `SaveAnswered`, `SpinnerStops`, `CellsFill`,
`CatchesUp`), which is out of the prover's reach. Of each the part that is a
safety property is proved: for the tasks (`TasksShorten`), the session
(`ScreensAwait`), the profile screen (`AnswersKept`, `JobsShorten`), the
pictures (`NobodyForgotten`) and the tables (`QuietShowsDatabase`). What is left
to TLC is that whoever is to take the next step takes it: that it is enabled,
and the fairness of the queues.

## Not modelled

- Layout, drawing, colours, animation and keyboard, `loadProfileData`, and the
  construction of objects in the assembly: they keep no state that the rest reads.
- Pure helpers for display: initials (`String.getCapitalLetters`), the
  recognition of a URL in a message (`String.isValidURL`), the lookup in `Array+`.
- `Trash` and `Managers`, which nothing calls; tests, which are read for what they
  assert.
- Pods. They are most of the repository by size and all of its C, C++ and
  Objective-C: third-party code that is vendored, of which the app calls a few
  methods of Firestore. These, and what the app uses of Core Data, UIKit and
  URLSession, are modelled as external from how the app's Swift uses them. Every
  line the models translate is Swift or the data model of the app, so that of the
  repository's C and C++ lines none is covered, and none could be without
  modelling what is not the app.

## What could come next

Two conversations with messages in a liveness run, which is beyond TLC in
reasonable time as the session stands.
