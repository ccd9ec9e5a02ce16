---------------------------- MODULE CoreDataManager ----------------------------
(***************************************************************************)
(* CoreLayer/CoreData/CoreDataManager.swift: the local replica of the      *)
(* cloud's channels and messages, and the background tasks that keep it up *)
(* to date.  Every call of updateDatabase starts one or two tasks with     *)
(* performBackgroundTask; each has a private NSManagedObjectContext, and   *)
(* tasks run concurrently.  A task requests something of the store when it *)
(* fetches, when it follows a relationship of a row it fetched, and when   *)
(* it saves: these are the atomic steps, and anything may happen between   *)
(* them.                                                                   *)
(*                                                                         *)
(* Core Data itself is not under src/.  What is used of it: a save is one  *)
(* transaction; it is refused when it breaks a constraint of the data      *)
(* model, or when a row it changes was changed by another context since    *)
(* this one read it (the default NSErrorMergePolicy); a refused save       *)
(* leaves the pending changes in the context, which CoreDataManager never  *)
(* rolls back, so that the next save of the task tries them all again.     *)
(***************************************************************************)
EXTENDS Integers, FiniteSets

CONSTANTS Channels,  \* identifiers of channel documents, numbered in document order
          Values,    \* what a channel document says: name, lastMessage, lastActivity
          Unnamed,   \* the value of a document that has no name
          None,      \* no document, no row, no channel
          Messages,  \* message documents
          WithDate,  \* WithDate[v]: v, with the time of the insert for a missing lastActivity
          Created,   \* Created[m]: the `created` stamp of m, NoDate when it is nil
          Tasks      \* how many background tasks can be in flight

NoDate == 0

ASSUME ChannelsAssumption == Channels \subseteq Nat /\ IsFiniteSet(Channels)
ASSUME NoneAssumption == None \notin Values /\ None \notin Channels
ASSUME UnnamedAssumption == Unnamed # None
ASSUME DatesAssumption == /\ WithDate \in [Values -> Values]
                          /\ \A v \in Values : WithDate[v] = Unnamed <=> v = Unnamed
ASSUME CreatedAssumption == Created \in [Messages -> Nat]

VARIABLES
  app,         \* "running", "killed" by the system, or the fatalError that ended it
  dbChannels,  \* rows of DBChannel: what is stored for an identifier, or None
  dbMessages,  \* dbMessages[c][m]: how many DBMessage rows of channel c hold m
  task,        \* the closure each background task is running
  context      \* the private context of each task

vars == <<app, dbChannels, dbMessages, task, context>>

(***************************************************************************)
(* State.                                                                  *)
(***************************************************************************)
Snapshots == [Channels -> Values \cup {None}]

Fatal == { "There is no channel with this identifier in the database",
           "DatabaseError! Channel has no array of messages",
           "Wrong data from firestore. Message has no created date",
           "Wrong fetching database. Channel does not have identifier" }

(* `snap` and `batch` are the arguments of updateDatabase, `todo` what is   *)
(* left of the forEach.  `clean` and `before` are not in the code: whether  *)
(* the request that started the task met no other request and no I/O error *)
(* so far, and if so the channels there were when it was made.             *)
Task == [ kind    : {"none", "upsert", "delete", "messages"},
          pc      : {"fetch", "list", "next", "save"},
          snap    : Snapshots,
          channel : Channels \cup {None},
          batch   : SUBSET Messages,
          todo    : SUBSET Channels,
          clean   : BOOLEAN,
          before  : Snapshots ]

(* The pending changes of a context, and for each channel row it holds      *)
(* whether the store still has the version it read.                         *)
Context == [ ins : SUBSET Channels, upd : SUBSET Channels, del : SUBSET Channels,
             add : SUBSET Messages,
             row : [Channels -> {"unread", "current", "changed", "gone"}] ]

NoSnapshot == [c \in Channels |-> None]
NoTask     == [ kind |-> "none", pc |-> "fetch", snap |-> NoSnapshot, channel |-> None,
                batch |-> {}, todo |-> {}, clean |-> FALSE, before |-> NoSnapshot ]
NewContext == [ ins |-> {}, upd |-> {}, del |-> {}, add |-> {},
                row |-> [c \in Channels |-> "unread"] ]

Rows      == {c \in Channels : dbChannels[c] # None}
Stored(c) == {m \in Messages : dbMessages[c][m] > 0}
Idle(t)   == task[t].kind = "none"
Quiet     == \A t \in Tasks : Idle(t)

TypeOK == /\ app \in {"running", "killed"} \cup Fatal
          /\ dbChannels \in Snapshots
          /\ dbMessages \in [Channels -> [Messages -> Nat]]
          /\ task \in [Tasks -> Task]
          /\ context \in [Tasks -> Context]

Init == /\ app = "running"
        /\ dbChannels = NoSnapshot
        /\ dbMessages = [c \in Channels |-> [m \in Messages |-> 0]]
        /\ task = [t \in Tasks |-> NoTask]
        /\ context = [t \in Tasks |-> NewContext]

(***************************************************************************)
(* The requests: updateDatabase(with: channels) starts an upsert task and, *)
(* from deleteChannelIfNeeded, a delete task; updateDatabase(with:         *)
(* messages, toChannel:) starts one message task.                          *)
(***************************************************************************)
Unclean(k) == [k EXCEPT !.clean = FALSE, !.before = NoSnapshot]

Disturbed == [t \in Tasks |-> Unclean(task[t])]

Before == IF Quiet THEN dbChannels ELSE NoSnapshot

UpdateChannels(snap) ==
  \E u, d \in Tasks :
    /\ app = "running"
    /\ u # d /\ Idle(u) /\ Idle(d)
    /\ task' = [Disturbed EXCEPT
          ![u] = [NoTask EXCEPT !.kind = "upsert", !.pc = "next", !.snap = snap,
                                !.todo = {c \in Channels : snap[c] # None},
                                !.clean = Quiet, !.before = Before],
          ![d] = [NoTask EXCEPT !.kind = "delete", !.snap = snap,
                                !.clean = Quiet, !.before = Before]]
    /\ UNCHANGED <<app, dbChannels, dbMessages, context>>

UpdateMessages(channel, batch) ==
  \E t \in Tasks :
    /\ app = "running"
    /\ Idle(t)
    /\ task' = [Disturbed EXCEPT
          ![t] = [NoTask EXCEPT !.kind = "messages", !.channel = channel,
                                !.batch = batch, !.clean = Quiet]]
    /\ UNCHANGED <<app, dbChannels, dbMessages, context>>

(***************************************************************************)
(* The end of the process, and a new launch.  Only the store survives.     *)
(***************************************************************************)
EndWith(cause) == /\ app' = cause
                  /\ task' = [t \in Tasks |-> NoTask]
                  /\ context' = [t \in Tasks |-> NewContext]
                  /\ UNCHANGED <<dbChannels, dbMessages>>

Kill == app = "running" /\ EndWith("killed")

Launch == /\ app # "running"
          /\ app' = "running"
          /\ UNCHANGED <<dbChannels, dbMessages, task, context>>

(***************************************************************************)
(* Steps of the tasks, up to the save.                                     *)
(***************************************************************************)
Running(t, kind, pc) == task[t].kind = kind /\ task[t].pc = pc

Advance(t, pc, todo) ==
  task' = [task EXCEPT ![t] = [task[t] EXCEPT !.pc = pc, !.todo = todo]]

Read(t, c) == [context[t].row EXCEPT ![c] = "current"]

(* Mutant: a channel is inserted without looking for its row.               *)
UpsertChannel_Inserts(t, c) ==
  /\ Running(t, "upsert", "next")
  /\ c \in task[t].todo /\ \A d \in task[t].todo : c <= d
  /\ Advance(t, "save", task[t].todo \ {c})
  /\ context' = [context EXCEPT ![t] =
        [context[t] EXCEPT !.ins = context[t].ins \cup {c}]]
  /\ UNCHANGED <<app, dbChannels, dbMessages>>

(* Mutant: a row that is there is deleted, to be made anew.                 *)
UpsertChannel_Replaces(t, c) ==
  /\ Running(t, "upsert", "next")
  /\ c \in task[t].todo /\ \A d \in task[t].todo : c <= d
  /\ Advance(t, "save", task[t].todo \ {c})
  /\ context' = [context EXCEPT ![t] =
        IF dbChannels[c] = None
        THEN [context[t] EXCEPT !.ins = context[t].ins \cup {c}]
        ELSE [context[t] EXCEPT !.del = context[t].del \cup {c}, !.row = Read(t, c)]]
  /\ UNCHANGED <<app, dbChannels, dbMessages>>

(* The fetch of the next channel of the snapshot, and the object inserted   *)
(* or changed accordingly.                                                  *)
UpsertChannel(t, c) ==
  /\ Running(t, "upsert", "next")
  /\ c \in task[t].todo /\ \A d \in task[t].todo : c <= d
  /\ Advance(t, "save", task[t].todo \ {c})
  /\ context' = [context EXCEPT ![t] =
        IF dbChannels[c] = None
        THEN [context[t] EXCEPT !.ins = context[t].ins \cup {c}]
        ELSE [context[t] EXCEPT !.upd = context[t].upd \cup {c}, !.row = Read(t, c)]]
  /\ UNCHANGED <<app, dbChannels, dbMessages>>

(* The delete task lists the rows there are.                                *)
FetchAll(t) ==
  /\ Running(t, "delete", "fetch")
  /\ Advance(t, "next", Rows)
  /\ context' = [context EXCEPT ![t] = [context[t] EXCEPT
        !.row = [c \in Channels |-> IF c \in Rows THEN "current" ELSE "unread"]]]
  /\ UNCHANGED <<app, dbChannels, dbMessages>>

(* The identifier of a listed row is read only now, which brings the row up *)
(* to date.  Of a row that is gone it may still be there from the fetch.    *)
VisitChannel(t, c) ==
  /\ Running(t, "delete", "next")
  /\ c \in task[t].todo
  /\ Advance(t, IF task[t].snap[c] = None THEN "save" ELSE "next", task[t].todo \ {c})
  /\ context' = [context EXCEPT ![t] = [context[t] EXCEPT
        !.del = context[t].del \cup (IF task[t].snap[c] = None THEN {c} ELSE {}),
        !.row = IF context[t].row[c] = "changed" THEN Read(t, c) ELSE context[t].row]]
  /\ UNCHANGED <<app, dbChannels, dbMessages>>

(* The identifier of a row that is gone may also read as nil.               *)
VisitDeletedChannel(t, c) ==
  /\ Running(t, "delete", "next")
  /\ c \in task[t].todo
  /\ context[t].row[c] = "gone"
  /\ EndWith("Wrong fetching database. Channel does not have identifier")

(* A message task fetches its channel ...                                   *)
FetchChannel(t) ==
  /\ Running(t, "messages", "fetch")
  /\ task[t].channel \in Rows
  /\ Advance(t, "list", {})
  /\ context' = [context EXCEPT ![t] = [context[t] EXCEPT !.row = Read(t, task[t].channel)]]
  /\ UNCHANGED <<app, dbChannels, dbMessages>>

AddToMissingChannel(t) ==
  /\ Running(t, "messages", "fetch")
  /\ task[t].channel \notin Rows
  /\ EndWith("There is no channel with this identifier in the database")

(* ... and then lists its messages.  There are none below a row that is     *)
(* gone, whether or not another row took its identifier, or nil for a set. *)
Listed(t) == LET c == task[t].channel
             IN  IF context[t].row[c] = "gone" THEN {} ELSE Stored(c)

(* Mutant: the batch is not compared with what the channel holds.           *)
NewMessages_All(old, batch) == batch

(* The messages of a batch that are inserted: all of them into an empty     *)
(* channel, and otherwise those newer than the last one it has.             *)
NewMessages(old, batch) == {m \in batch : \A n \in old : Created[m] > Created[n]}

AddMessages(t) ==
  /\ Running(t, "messages", "list")
  /\ Listed(t) = {} \/ \A m \in task[t].batch : Created[m] # NoDate
  /\ Advance(t, "save", {})
  /\ context' = [context EXCEPT ![t] =
        [context[t] EXCEPT !.add = NewMessages(Listed(t), task[t].batch)]]
  /\ UNCHANGED <<app, dbChannels, dbMessages>>

AddToDeletedChannel(t) ==
  /\ Running(t, "messages", "list")
  /\ context[t].row[task[t].channel] = "gone"
  /\ EndWith("DatabaseError! Channel has no array of messages")

AddUndatedMessage(t) ==
  /\ Running(t, "messages", "list")
  /\ Listed(t) # {}
  /\ \E m \in task[t].batch : Created[m] = NoDate
  /\ EndWith("Wrong data from firestore. Message has no created date")

(***************************************************************************)
(* The save.                                                               *)
(***************************************************************************)
(* Mutants: `name` is optional in the data model; `created` is unique in    *)
(* each channel; contexts overwrite what they conflict with.               *)
Complete_NameOptional(t) == \A m \in context[t].add : Created[m] # NoDate

UniqueCreated_InChannel(t) ==
  \A m \in context[t].add :
    /\ \A n \in context[t].add : Created[m] = Created[n] => m = n
    /\ \A n \in Stored(task[t].channel) : Created[m] # Created[n]

Unconflicted_Overwrite(t) == TRUE

(* The constraints of the data model on what a context wants to store: no   *)
(* mandatory attribute is nil, of which DBMessage fills in all but the      *)
(* stamp, and DBChannel all but the name ...                                *)
Complete(t) == /\ \A c \in context[t].ins \cup context[t].upd : task[t].snap[c] # Unnamed
               /\ \A m \in context[t].add : Created[m] # NoDate

(* ... and `identifier` and `created` are unique, the latter over all       *)
(* channels.                                                                *)
UniqueIdentifiers(t) == context[t].ins \cap Rows = {}

UniqueCreated(t) ==
  \A m \in context[t].add :
    /\ \A n \in context[t].add : Created[m] = Created[n] => m = n
    /\ \A c \in Channels : \A n \in Stored(c) : Created[m] # Created[n]

(* Optimistic locking: the rows a context changes are as it read them. A    *)
(* message added to a channel is a change of the channel's row too.         *)
Unconflicted(t) ==
  /\ \A c \in context[t].upd : context[t].row[c] = "current"
  /\ context[t].add # {} => context[t].row[task[t].channel] = "current"

(* A row to be deleted may be gone already; whether Core Data takes this    *)
(* for a conflict is left open.                                             *)
Deletable(t, states) == \A c \in context[t].del : context[t].row[c] \in states

MaySave(t)  == /\ Complete(t) /\ UniqueIdentifiers(t) /\ UniqueCreated(t)
               /\ Unconflicted(t) /\ Deletable(t, {"current", "gone"})
MustSave(t) == MaySave(t) /\ Deletable(t, {"current"})

Deleted(t) == {c \in context[t].del : context[t].row[c] = "current"}
Written(t) == context[t].ins \cup context[t].upd
Grown(t)   == IF context[t].add = {} THEN {} ELSE {task[t].channel}

(* What a save by t does to the version of row c that another context read. *)
Overtaken(t, c, version) ==
  CASE version \in {"current", "changed"} /\ c \in Deleted(t) -> "gone"
    [] version = "current" /\ c \in (Written(t) \cup Grown(t)) \ Deleted(t) -> "changed"
    [] OTHER -> version

SaveSucceeds(t) ==
  /\ task[t].pc = "save"
  /\ MaySave(t)
  /\ dbChannels' = [c \in Channels |->
        CASE c \in Deleted(t) -> None
          [] c \in context[t].ins \ Deleted(t) -> WithDate[task[t].snap[c]]
          [] c \in context[t].upd \ (context[t].ins \cup Deleted(t)) -> task[t].snap[c]
          [] OTHER -> dbChannels[c]]
  /\ dbMessages' = [c \in Channels |-> [m \in Messages |->
        CASE c \in Deleted(t) -> 0
          [] c \in Grown(t) \ Deleted(t) /\ m \in context[t].add -> dbMessages[c][m] + 1
          [] OTHER -> dbMessages[c][m]]]
  /\ context' = [u \in Tasks |->
        IF u = t
        THEN [NewContext EXCEPT !.row = [c \in Channels |->
                IF c \in Written(t) \cup Grown(t) \cup context[t].del
                THEN "unread" ELSE context[t].row[c]]]
        ELSE [context[u] EXCEPT !.row = [c \in Channels |->
                Overtaken(t, c, context[u].row[c])]]]
  /\ Advance(t, "next", task[t].todo)
  /\ UNCHANGED app

(* Mutant: a refused save is tried again until it succeeds.                 *)
SaveFails_Retries(t) ==
  /\ task[t].pc = "save"
  /\ UNCHANGED vars

(* A refused save, and one that meets an I/O error, are reported to the     *)
(* completion and otherwise ignored.                                        *)
SaveFails(t) ==
  /\ task[t].pc = "save"
  /\ task' = [IF MustSave(t) THEN Disturbed ELSE task EXCEPT ![t].pc = "next"]
  /\ UNCHANGED <<app, dbChannels, dbMessages, context>>

(* Mutant: a channel whose fetch failed stays to be done.                   *)
FetchFails_Again(t) ==
  /\ \/ task[t].pc = "fetch" /\ ~Idle(t)
     \/ Running(t, "upsert", "next") /\ task[t].todo # {}
  /\ task' = [Disturbed EXCEPT ![t] = [Disturbed[t] EXCEPT !.pc = "next"]]
  /\ UNCHANGED <<app, dbChannels, dbMessages, context>>

(* A fetch that meets an I/O error: the task goes on with its next channel  *)
(* when it has one, and otherwise ends.                                     *)
FetchFails(t) ==
  /\ \/ task[t].pc = "fetch" /\ ~Idle(t)
     \/ Running(t, "upsert", "next") /\ task[t].todo # {}
  /\ task' = [Disturbed EXCEPT ![t] = [Disturbed[t] EXCEPT
        !.pc = "next",
        !.todo = {c \in task[t].todo : \E d \in task[t].todo : d < c}]]
  /\ UNCHANGED <<app, dbChannels, dbMessages, context>>

(* The closure returns; its context is released with whatever is pending.   *)
Finish(t) ==
  /\ ~Idle(t)
  /\ task[t].pc = "next" /\ task[t].todo = {}
  /\ task' = [task EXCEPT ![t] = NoTask]
  /\ context' = [context EXCEPT ![t] = NewContext]
  /\ UNCHANGED <<app, dbChannels, dbMessages>>

(* All a task does but a save that succeeds.                                *)
Work(t) == \/ \E c \in Channels : \/ UpsertChannel(t, c)
                                  \/ VisitChannel(t, c)
                                  \/ VisitDeletedChannel(t, c)
           \/ FetchAll(t)
           \/ FetchChannel(t)
           \/ AddMessages(t)
           \/ AddToMissingChannel(t)
           \/ AddToDeletedChannel(t)
           \/ AddUndatedMessage(t)
           \/ SaveFails(t)
           \/ FetchFails(t)
           \/ Finish(t)

Step(t) == Work(t) \/ SaveSucceeds(t)

Request == \/ \E snap \in Snapshots : UpdateChannels(snap)
           \/ \E c \in Channels : \E batch \in SUBSET Messages : UpdateMessages(c, batch)

Next == \/ Request
        \/ Kill
        \/ Launch
        \/ \E t \in Tasks : Step(t)

Spec == Init /\ [][Next]_vars

(* The queues of the contexts are served: a task that can take a step does. *)
Fairness == \A t \in Tasks : WF_vars(Step(t))

FairSpec == Spec /\ Fairness

(***************************************************************************)
(* Properties.                                                             *)
(***************************************************************************)
(* No two DBMessage rows carry the same stamp, in one channel or in two.    *)
(* Overlapping message tasks select the same documents as new, because     *)
(* each looks at the channel before the others have saved; nothing but the *)
(* save keeps the document from being stored twice.                        *)
NoDuplicateMessages ==
  \A c, d \in Channels : \A m \in Stored(c), n \in Stored(d) :
    /\ dbMessages[c][m] = 1
    /\ Created[m] = Created[n] => c = d /\ m = n

(* A message row belongs to a channel row: a message task that found its    *)
(* channel adds nothing once a delete task has removed it.                 *)
NoOrphanMessages == \A c \in Channels \ Rows : Stored(c) = {}

(* A channel grows at its new end only, however message tasks overlap: no   *)
(* step adds a message that is not newer than all the channel had.         *)
OnlyNewerMessagesAdded ==
  [][\A c \in Channels, m \in Messages :
       dbMessages'[c][m] > dbMessages[c][m] =>
         \A n \in Stored(c) : Created[m] > Created[n]]_vars

(* A change without a name is refused and stays pending in the context of   *)
(* its task, so that each save for a later document is refused with it.    *)
Refused(snap, c) == \E d \in Channels : d <= c /\ snap[d] = Unnamed

Outcome(k) == [c \in Channels |->
  IF k.snap[c] = None THEN None
  ELSE IF Refused(k.snap, c) THEN k.before[c]
  ELSE IF k.before[c] = None THEN WithDate[k.snap[c]] ELSE k.snap[c]]

(* The two tasks of updateDatabase(with: channels), which run concurrently  *)
(* with one another, have one outcome if they met no other request and no  *)
(* I/O error.  The rows outside the snapshot are gone; the documents before *)
(* the first that has no name are stored, those that were not there with a *)
(* lastActivity; and from the nameless one on nothing has changed.         *)
ConvergesAlone ==
  [][\A t \in Tasks :
       (/\ task[t].kind \in {"upsert", "delete"} /\ task[t].clean
        /\ Quiet' /\ app' = "running")
         => dbChannels' = Outcome(task[t])]_vars

(* A delete task that met no other request finds the identifier of every    *)
(* row it has listed: the assertion on it fails only for requests that     *)
(* overlap, although two tasks of each request run at once.                *)
IdentifiersLostByOverlapOnly ==
  [][app = "running" /\ app' = "Wrong fetching database. Channel does not have identifier" =>
       \E t \in Tasks : task[t].kind = "delete" /\ ~task[t].clean]_vars

(* Messages that break no constraint of the data model when they are stored *)
(* in channel c: each has a stamp, which no other has, there or elsewhere.  *)
WellFormed(c, batch) ==
  \A m \in batch :
    /\ Created[m] # NoDate
    /\ \A n \in batch : Created[n] = Created[m] => n = m
    /\ \A d \in Channels \ {c} : \A n \in Stored(d) : Created[n] # Created[m]

(* A message task that met no other request stores all messages of its      *)
(* batch that are newer than those the channel has, or nothing at all: one *)
(* message without a stamp, or with that of another message in whatever    *)
(* channel, keeps the others of the batch out of the database.             *)
MessagesCompleteAlone ==
  [][\A t \in Tasks :
       LET c   == task[t].channel
           new == {m \in task[t].batch : \A n \in Stored(c) : Created[m] > Created[n]}
       IN  Running(t, "messages", "save") /\ task'[t].pc = "next" /\ task'[t].clean
             => \A d \in Channels :
                  Stored(d)' = Stored(d) \cup (IF d = c /\ WellFormed(c, new)
                                              THEN new ELSE {})]_vars

(* The database implements ChatReplica, although a task computes what it    *)
(* stores from what it read some time before.                              *)
Replica == INSTANCE ChatReplica WITH rows <- dbChannels,
                                     log <- [c \in Channels |-> Stored(c)]

ImplementsReplica == Replica!Spec

(***************************************************************************)
(* The inductive invariant behind them: what a context has pending is of   *)
(* the kind of its task, comes from its arguments, and is still true of    *)
(* the rows the store would let it change.                                 *)
(***************************************************************************)
PendingByKind ==
  \A t \in Tasks :
    /\ task[t].kind # "upsert" => context[t].ins = {} /\ context[t].upd = {}
    /\ task[t].kind # "delete" => context[t].del = {}
    /\ task[t].kind # "messages" => context[t].add = {}

NothingAddedYet ==
  \A t \in Tasks : task[t].pc \in {"fetch", "list"} => context[t].add = {}

PendingFromArguments ==
  \A t \in Tasks :
    /\ task[t].kind = "upsert" =>
         \A c \in task[t].todo \cup Written(t) : task[t].snap[c] # None
    /\ task[t].kind = "messages" => task[t].channel \in Channels

HeldRowsExist ==
  \A t \in Tasks, c \in Channels :
    context[t].row[c] \in {"current", "changed"} => c \in Rows

PendingMessagesNewer ==
  \A t \in Tasks, c \in Channels :
    task[t].channel = c /\ context[t].row[c] = "current" =>
      \A m \in context[t].add : \A n \in Stored(c) : Created[m] > Created[n]

IInv == /\ TypeOK
        /\ PendingByKind
        /\ NothingAddedYet
        /\ PendingFromArguments
        /\ HeldRowsExist
        /\ PendingMessagesNewer
        /\ NoDuplicateMessages
        /\ NoOrphanMessages

(***************************************************************************)
(* What a request that meets no other goes through: another inductive       *)
(* invariant, of the tasks that are `clean`.                                *)
(***************************************************************************)
(* The only tasks beside one that is clean are those of the same request.   *)
SameRequest(t, u) == /\ task[u].clean
                     /\ task[u].snap = task[t].snap /\ task[u].before = task[t].before
                     /\ {task[t].kind, task[u].kind} = {"upsert", "delete"}

CleanAlone ==
  \A t \in Tasks : task[t].clean =>
    /\ ~Idle(t)
    /\ \A u \in Tasks \ {t} : Idle(u) \/ SameRequest(t, u)

(* An upsert task goes through the documents in their order, and has not    *)
(* changed what it has still to do.  What it has pending nothing but a     *)
(* missing name keeps from being saved: it is the document just visited    *)
(* alone, or refused with a nameless one.                                  *)
UpsertAlone(t) ==
  LET snap == task[t].snap
  IN  /\ task[t].pc \in {"next", "save"}
      /\ context[t].ins \cap Rows = {}
      /\ \A c \in context[t].upd : context[t].row[c] = "current"
      /\ \A c \in Written(t) : \A d \in task[t].todo : c < d
      /\ \A c \in Channels : snap[c] = Unnamed => c \in task[t].todo \cup Written(t)
      /\ \A c \in Written(t) : \/ Refused(snap, c)
                               \/ task[t].pc = "save" /\ Written(t) = {c}
      /\ \A c \in task[t].todo \cup Written(t) : dbChannels[c] = task[t].before[c]

CleanUpserts ==
  \A t \in Tasks : task[t].clean /\ task[t].kind = "upsert" => UpsertAlone(t)

(* A delete task has listed the rows, holds those it is to delete as they   *)
(* are in the store, and has none of the snapshot pending.                 *)
CleanDeletes ==
  \A t \in Tasks : task[t].clean /\ task[t].kind = "delete" =>
    /\ task[t].pc \in {"fetch", "next", "save"}
    /\ task[t].pc = "fetch" => task[t].todo = {}
    /\ task[t].pc # "save" => context[t].del = {}
    /\ \A c \in context[t].del : task[t].snap[c] = None /\ c \notin task[t].todo
    /\ \A c \in task[t].todo : context[t].row[c] \in {"current", "changed"}
    /\ \A c \in task[t].todo \cup context[t].del :
         task[t].snap[c] = None => context[t].row[c] = "current"

(* What the request makes of a channel is stored, or the channel is as it   *)
(* was and a task of the request has it still to do.                       *)
ToUpsert(c) == \E u \in Tasks : /\ task[u].kind = "upsert"
                                /\ c \in task[u].todo \cup Written(u)

ToDelete(c) == \E u \in Tasks : /\ task[u].kind = "delete"
                                /\ task[u].pc = "fetch" \/ c \in task[u].todo \cup context[u].del

CleanProgress ==
  \A t \in Tasks, c \in Channels :
    task[t].clean /\ task[t].kind \in {"upsert", "delete"} =>
      IF task[t].snap[c] = None
      THEN c \in Rows => ToDelete(c)
      ELSE \/ dbChannels[c] = Outcome(task[t])[c]
           \/ dbChannels[c] = task[t].before[c] /\ ToUpsert(c)

(* A message task holds the row of its channel, and has pending exactly the *)
(* messages of its batch that are newer than all the channel has.          *)
CleanMessages ==
  \A t \in Tasks : task[t].clean /\ task[t].kind = "messages" =>
    LET c == task[t].channel
    IN  /\ task[t].pc \in {"list", "save"} => context[t].row[c] = "current"
        /\ task[t].pc = "save" => context[t].add = NewMessages(Stored(c), task[t].batch)

CleanInv == CleanAlone /\ CleanUpserts /\ CleanDeletes /\ CleanProgress /\ CleanMessages

(* All of it, with what the saves need to be known of the tasks at rest:    *)
(* none of them is about to save.                                          *)
IdleAtRest == \A t \in Tasks : Idle(t) => task[t].pc = "fetch"

AloneInv == IdleAtRest /\ CleanInv

(* Both invariants: of requests that overlap, and of those that do not.     *)
TasksInv == IInv /\ AloneInv

(* The steps a task has left at most: a fetch and a save for each channel   *)
(* it still has to visit, and what its phases add.                         *)
Left(t) ==
  LET phase == [ fetch |-> 2 * Cardinality(Channels) + 2, list |-> 3, save |-> 2, next |-> 1 ]
  IN  IF Idle(t) THEN 0 ELSE 2 * Cardinality(task[t].todo) + phase[task[t].pc]

(* A task has a number of steps before it that depends on the channels      *)
(* alone, each of its steps makes it smaller, whatever fails, and nothing  *)
(* that other tasks and requests do makes it any larger: no save is tried  *)
(* again, no failed fetch is repeated, and channels that others add are    *)
(* not visited once the list is made.                                      *)
TasksShorten ==
  [][\A t \in Tasks :
       /\ Left(t)' <= IF Idle(t) THEN 2 * Cardinality(Channels) + 2 ELSE Left(t)
       /\ Step(t) => Left(t)' < Left(t)]_vars

(* Every background task comes to its end, whatever it meets: the tasks     *)
(* never wait for one another.                                             *)
TasksFinish == \A t \in Tasks : ~Idle(t) ~> Idle(t)
================================================================================
