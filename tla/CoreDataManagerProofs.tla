------------------------- MODULE CoreDataManagerProofs -------------------------
(***************************************************************************)
(* Proofs about CoreDataManager, for any sets of channels, values,         *)
(* messages and tasks.                                                     *)
(***************************************************************************)
EXTENDS CoreDataManager, FiniteSetTheorems, WellFoundedInduction, TLAPS

USE NoneAssumption

-----------------------------------------------------------------------------
(* Type correctness.                                                        *)

LEMMA NewTypes == NoTask \in Task /\ NewContext \in Context /\ NoSnapshot \in Snapshots
BY DEF NoTask, Task, NewContext, Context, NoSnapshot, Snapshots

LEMMA InitType == Init => TypeOK
BY NewTypes DEF Init, TypeOK

(* A task that is no longer clean is otherwise the same.                    *)
LEMMA UncleanTask ==
  ASSUME NEW x \in Task
  PROVE  LET y == Unclean(x)
         IN  /\ y \in Task
             /\ y.kind = x.kind /\ y.pc = x.pc /\ y.snap = x.snap
             /\ y.channel = x.channel /\ y.batch = x.batch /\ y.todo = x.todo
             /\ y.clean = FALSE
<1> DEFINE y == [x EXCEPT !.clean = FALSE, !.before = NoSnapshot]
<1>1. y \in Task
  BY NewTypes, Zenon DEF Task
<1>2. /\ y.kind = x.kind /\ y.pc = x.pc /\ y.snap = x.snap
      /\ y.channel = x.channel /\ y.batch = x.batch /\ y.todo = x.todo
      /\ y.clean = FALSE
  BY SMT DEF Task
<1>3. QED
  BY <1>1, <1>2 DEF Unclean

(* What a request does to a task it does not start.                         *)
LEMMA DisturbedTask ==
  ASSUME TypeOK, NEW t \in Tasks
  PROVE  LET y == Unclean(task[t])
         IN  /\ y.kind = task[t].kind /\ y.pc = task[t].pc /\ y.snap = task[t].snap
             /\ y.channel = task[t].channel /\ y.batch = task[t].batch
             /\ y.todo = task[t].todo /\ ~y.clean
<1>1. task[t] \in Task
  BY DEF TypeOK
<1>2. QED
  BY <1>1, UncleanTask

LEMMA DisturbedType == TypeOK => Disturbed \in [Tasks -> Task]
BY UncleanTask DEF TypeOK, Disturbed

LEMMA UpdateChannelsType ==
  ASSUME TypeOK, NEW snap \in Snapshots, UpdateChannels(snap)
  PROVE  TypeOK'
<1>1. Disturbed \in [Tasks -> Task]
  BY DisturbedType
<1>2. PICK u \in Tasks, d \in Tasks :
        task' = [Disturbed EXCEPT
          ![u] = [NoTask EXCEPT !.kind = "upsert", !.pc = "next", !.snap = snap,
                                !.todo = {c \in Channels : snap[c] # None},
                                !.clean = Quiet, !.before = Before],
          ![d] = [NoTask EXCEPT !.kind = "delete", !.snap = snap,
                                !.clean = Quiet, !.before = Before]]
  BY DEF UpdateChannels
<1>3. Quiet \in BOOLEAN /\ Before \in Snapshots
  BY NewTypes DEF Quiet, Before, TypeOK
<1>4. /\ [NoTask EXCEPT !.kind = "upsert", !.pc = "next", !.snap = snap,
                        !.todo = {c \in Channels : snap[c] # None},
                        !.clean = Quiet, !.before = Before] \in Task
      /\ [NoTask EXCEPT !.kind = "delete", !.snap = snap,
                        !.clean = Quiet, !.before = Before] \in Task
  BY <1>3, NewTypes DEF NoTask, Task
<1>5. task' \in [Tasks -> Task]
  BY <1>1, <1>2, <1>4
<1>6. QED
  BY <1>5 DEF UpdateChannels, TypeOK

LEMMA UpdateMessagesType ==
  ASSUME TypeOK, NEW c \in Channels \cup {None}, NEW batch \in SUBSET Messages,
         UpdateMessages(c, batch)
  PROVE  TypeOK'
<1>1. Disturbed \in [Tasks -> Task]
  BY DisturbedType
<1>2. PICK t \in Tasks :
        task' = [Disturbed EXCEPT
          ![t] = [NoTask EXCEPT !.kind = "messages", !.channel = c,
                                !.batch = batch, !.clean = Quiet]]
  BY DEF UpdateMessages
<1>3. Quiet \in BOOLEAN
  BY DEF Quiet
<1>4. [NoTask EXCEPT !.kind = "messages", !.channel = c,
                     !.batch = batch, !.clean = Quiet] \in Task
  BY <1>3, NewTypes DEF NoTask, Task
<1>5. task' \in [Tasks -> Task]
  BY <1>1, <1>2, <1>4
<1>6. QED
  BY <1>5 DEF UpdateMessages, TypeOK

LEMMA EndWithType ==
  ASSUME TypeOK, NEW cause \in {"killed"} \cup Fatal, EndWith(cause)
  PROVE  TypeOK'
BY NewTypes DEF EndWith, TypeOK

LEMMA AdvanceType ==
  ASSUME TypeOK, NEW t \in Tasks, NEW pc \in {"fetch", "list", "next", "save"},
         NEW todo \in SUBSET Channels, Advance(t, pc, todo)
  PROVE  task' \in [Tasks -> Task]
<1>1. task[t] \in Task
  BY DEF TypeOK
<1>2. [task[t] EXCEPT !.pc = pc, !.todo = todo] \in Task
  BY <1>1 DEF Task
<1>3. QED
  BY <1>2 DEF Advance, TypeOK

(* Reading a row keeps the record of what was read well typed.              *)
LEMMA ReadType ==
  ASSUME TypeOK, NEW t \in Tasks, NEW c \in Channels
  PROVE  Read(t, c) \in [Channels -> {"unread", "current", "changed", "gone"}]
BY DEF Read, TypeOK, Context

LEMMA ContextType ==
  ASSUME TypeOK, NEW t \in Tasks, NEW x \in Context,
         context' = [context EXCEPT ![t] = x]
  PROVE  context' \in [Tasks -> Context]
BY DEF TypeOK

LEMMA UpsertChannelType ==
  ASSUME TypeOK, NEW t \in Tasks, NEW c \in Channels, UpsertChannel(t, c)
  PROVE  TypeOK'
<1> DEFINE x == context[t]
<1>1. task[t].todo \in SUBSET Channels /\ x \in Context
  BY DEF TypeOK, Task
<1>2. task' \in [Tasks -> Task]
  BY <1>1, AdvanceType DEF UpsertChannel
<1>3. [x EXCEPT !.ins = x.ins \cup {c}] \in Context
  BY <1>1 DEF Context
<1>4. [x EXCEPT !.upd = x.upd \cup {c}, !.row = Read(t, c)] \in Context
  BY <1>1, ReadType DEF Context
<1>5. context' \in [Tasks -> Context]
  <2>1. CASE dbChannels[c] = None
    BY <1>3, <2>1, ContextType DEF UpsertChannel
  <2>2. CASE dbChannels[c] # None
    <3>1. context' = [context EXCEPT ![t] =
            [x EXCEPT !.upd = x.upd \cup {c}, !.row = Read(t, c)]]
      BY <2>2 DEF UpsertChannel
    <3>2. QED
      BY <1>4, <3>1, ContextType
  <2>3. QED
    BY <2>1, <2>2
<1>6. QED
  BY <1>2, <1>5 DEF UpsertChannel, TypeOK

LEMMA FetchAllType ==
  ASSUME TypeOK, NEW t \in Tasks, FetchAll(t)
  PROVE  TypeOK'
<1> DEFINE x == context[t]
<1>1. Rows \in SUBSET Channels /\ x \in Context
  BY DEF TypeOK, Rows
<1>2. task' \in [Tasks -> Task]
  BY <1>1, AdvanceType DEF FetchAll
<1>3. [x EXCEPT !.row = [c \in Channels |->
                           IF c \in Rows THEN "current" ELSE "unread"]] \in Context
  BY <1>1 DEF Context
<1>4. context' \in [Tasks -> Context]
  BY <1>3, ContextType DEF FetchAll
<1>5. QED
  BY <1>2, <1>4 DEF FetchAll, TypeOK

LEMMA VisitChannelType ==
  ASSUME TypeOK, NEW t \in Tasks, NEW c \in Channels, VisitChannel(t, c)
  PROVE  TypeOK'
<1> DEFINE x   == context[t]
           del == x.del \cup (IF task[t].snap[c] = None THEN {c} ELSE {})
           row == IF x.row[c] = "changed" THEN Read(t, c) ELSE x.row
<1>1. task[t].todo \in SUBSET Channels /\ x \in Context
  BY DEF TypeOK, Task
<1>2. task' \in [Tasks -> Task]
  BY <1>1, AdvanceType DEF VisitChannel
<1>3. /\ del \in SUBSET Channels
      /\ row \in [Channels -> {"unread", "current", "changed", "gone"}]
  BY <1>1, ReadType DEF Context
<1>4. [x EXCEPT !.del = del, !.row = row] \in Context
  <2> HIDE DEF x, del, row
  <2> QED BY <1>1, <1>3 DEF Context
<1>5. context' \in [Tasks -> Context]
  <2>1. context' = [context EXCEPT ![t] = [x EXCEPT !.del = del, !.row = row]]
    BY DEF VisitChannel
  <2>2. QED
    BY <1>4, <2>1, ContextType
<1>6. QED
  BY <1>2, <1>5 DEF VisitChannel, TypeOK

LEMMA FetchChannelType ==
  ASSUME TypeOK, NEW t \in Tasks, FetchChannel(t)
  PROVE  TypeOK'
<1> DEFINE x == context[t]
           c == task[t].channel
<1>1. x \in Context /\ c \in Channels
  BY DEF FetchChannel, Rows, TypeOK
<1>2. task' \in [Tasks -> Task]
  BY AdvanceType DEF FetchChannel
<1>3. [x EXCEPT !.row = Read(t, c)] \in Context
  <2> HIDE DEF x, c
  <2> QED BY <1>1, ReadType DEF Context
<1>4. context' \in [Tasks -> Context]
  <2>1. context' = [context EXCEPT ![t] = [x EXCEPT !.row = Read(t, c)]]
    BY DEF FetchChannel
  <2>2. QED
    BY <1>3, <2>1, ContextType
<1>5. QED
  BY <1>2, <1>4 DEF FetchChannel, TypeOK

LEMMA AddMessagesType ==
  ASSUME TypeOK, NEW t \in Tasks, AddMessages(t)
  PROVE  TypeOK'
<1> DEFINE x   == context[t]
           new == NewMessages(Listed(t), task[t].batch)
<1>1. x \in Context /\ new \in SUBSET Messages
  BY DEF NewMessages, TypeOK, Task
<1>2. task' \in [Tasks -> Task]
  BY AdvanceType DEF AddMessages
<1>3. [x EXCEPT !.add = new] \in Context
  <2> HIDE DEF x, new
  <2> QED BY <1>1 DEF Context
<1>4. context' \in [Tasks -> Context]
  <2>1. context' = [context EXCEPT ![t] = [x EXCEPT !.add = new]]
    BY DEF AddMessages
  <2>2. QED
    BY <1>3, <2>1, ContextType
<1>5. QED
  BY <1>2, <1>4 DEF AddMessages, TypeOK

LEMMA SaveSucceedsType ==
  ASSUME TypeOK, PendingByKind, PendingFromArguments, NEW t \in Tasks, SaveSucceeds(t)
  PROVE  TypeOK'
<1>1. dbChannels' \in Snapshots
  <2>1. /\ task[t].snap \in Snapshots /\ dbChannels \in Snapshots
        /\ \A c \in Channels : c \in Written(t) => task[t].snap[c] # None
    BY DEF TypeOK, Task, PendingByKind, PendingFromArguments, Written
  <2>2. \A c \in Channels : c \in Written(t) =>
          /\ task[t].snap[c] \in Values \cup {None}
          /\ WithDate[task[t].snap[c]] \in Values
    BY <2>1, DatesAssumption DEF Snapshots
  <2>3. QED
    BY <2>1, <2>2 DEF SaveSucceeds, Snapshots, Written
<1>2. dbMessages' \in [Channels -> [Messages -> Nat]]
  BY DEF SaveSucceeds, TypeOK
<1>3. task[t].todo \in SUBSET Channels
  BY DEF TypeOK, Task
<1>4. task' \in [Tasks -> Task]
  BY <1>3, AdvanceType DEF SaveSucceeds
<1>5. \A u \in Tasks : context'[u] \in Context
  <2> SUFFICES ASSUME NEW u \in Tasks PROVE context'[u] \in Context
    OBVIOUS
  <2>1. context[u] \in Context
    BY DEF TypeOK
  <2>2. CASE u = t
    <3>1. [c \in Channels |-> IF c \in Written(t) \cup Grown(t) \cup context[t].del
                              THEN "unread" ELSE context[t].row[c]]
            \in [Channels -> {"unread", "current", "changed", "gone"}]
      BY <2>1, <2>2 DEF Context
    <3>2. QED
      BY <2>2, <3>1, NewTypes DEF SaveSucceeds, Context
  <2>3. CASE u # t
    <3>1. [c \in Channels |-> Overtaken(t, c, context[u].row[c])]
            \in [Channels -> {"unread", "current", "changed", "gone"}]
      BY <2>1 DEF Overtaken, Context
    <3>2. QED
      BY <2>1, <2>3, <3>1 DEF SaveSucceeds, Context
  <2>4. QED
    BY <2>2, <2>3
<1>6. context' \in [Tasks -> Context]
  BY <1>5 DEF SaveSucceeds
<1>7. QED
  BY <1>1, <1>2, <1>4, <1>6 DEF SaveSucceeds, TypeOK

LEMMA SaveFailsType ==
  ASSUME TypeOK, NEW t \in Tasks, SaveFails(t)
  PROVE  TypeOK'
<1> DEFINE k == IF MustSave(t) THEN Disturbed ELSE task
<1>1. k \in [Tasks -> Task]
  BY DisturbedType DEF TypeOK
<1>2. task' = [k EXCEPT ![t] = [k[t] EXCEPT !.pc = "next"]]
  BY DEF SaveFails
<1> HIDE DEF k
<1>3. [k[t] EXCEPT !.pc = "next"] \in Task
  BY <1>1, Zenon DEF Task
<1>4. task' \in [Tasks -> Task]
  BY <1>1, <1>2, <1>3
<1>5. QED
  BY <1>4 DEF SaveFails, TypeOK

(* What a save that fails does to the tasks.                                *)
LEMMA SaveFailsEffect ==
  ASSUME TypeOK, NEW t \in Tasks, SaveFails(t), NEW u \in Tasks
  PROVE  /\ task'[u].kind = task[u].kind /\ task'[u].snap = task[u].snap
         /\ task'[u].channel = task[u].channel /\ task'[u].batch = task[u].batch
         /\ task'[u].todo = task[u].todo
         /\ task'[u].pc = IF u = t THEN "next" ELSE task[u].pc
         /\ task'[u].clean <=> task[u].clean /\ ~MustSave(t)
         /\ ~MustSave(t) => task'[u].before = task[u].before
<1> DEFINE k == IF MustSave(t) THEN Disturbed ELSE task
<1>1. /\ k \in [Tasks -> Task]
      /\ k[u].kind = task[u].kind /\ k[u].pc = task[u].pc /\ k[u].snap = task[u].snap
      /\ k[u].channel = task[u].channel /\ k[u].batch = task[u].batch
      /\ k[u].todo = task[u].todo /\ (k[u].clean <=> task[u].clean /\ ~MustSave(t))
      /\ ~MustSave(t) => k[u].before = task[u].before
  <2>1. CASE MustSave(t)
    <3>1. k = Disturbed /\ k[u] = Unclean(task[u])
      BY <2>1 DEF Disturbed
    <3>2. QED
      BY <2>1, <3>1, DisturbedType, DisturbedTask
  <2>2. CASE ~MustSave(t)
    <3>1. k = task
      BY <2>2
    <3>2. QED
      BY <2>2, <3>1 DEF TypeOK
  <2>3. QED
    BY <2>1, <2>2
<1>2. task' = [k EXCEPT ![t] = [k[t] EXCEPT !.pc = "next"]]
  BY DEF SaveFails
<1> HIDE DEF k
<1>3. k[u] \in Task
  BY <1>1
<1>4. task'[u] = IF u = t THEN [k[u] EXCEPT !.pc = "next"] ELSE k[u]
  BY <1>1, <1>2
<1>5. QED
  BY <1>1, <1>3, <1>4 DEF Task

LEMMA FetchFailsType ==
  ASSUME TypeOK, NEW t \in Tasks, FetchFails(t)
  PROVE  TypeOK'
<1> DEFINE x    == Disturbed[t]
           todo == {c \in task[t].todo : \E d \in task[t].todo : d < c}
<1>1. Disturbed \in [Tasks -> Task]
  BY DisturbedType
<1>2. x \in Task /\ todo \in SUBSET Channels
  BY <1>1 DEF Task, TypeOK
<1>3. [x EXCEPT !.pc = "next", !.todo = todo] \in Task
  <2> HIDE DEF x, todo
  <2> QED BY <1>2 DEF Task
<1>4. task' \in [Tasks -> Task]
  BY <1>1, <1>3 DEF FetchFails
<1>5. QED
  BY <1>4 DEF FetchFails, TypeOK

LEMMA FinishType ==
  ASSUME TypeOK, NEW t \in Tasks, Finish(t)
  PROVE  TypeOK'
BY NewTypes DEF Finish, TypeOK

LEMMA NextType ==
  ASSUME TypeOK, PendingByKind, PendingFromArguments, [Next]_vars
  PROVE  TypeOK'
<1>1. CASE Request
  BY <1>1, UpdateChannelsType, UpdateMessagesType DEF Request
<1>2. CASE Kill
  BY <1>2, EndWithType DEF Kill
<1>3. CASE Launch
  BY <1>3 DEF Launch, TypeOK
<1>4. ASSUME NEW t \in Tasks, Step(t) PROVE TypeOK'
  <2>1. CASE \E c \in Channels : UpsertChannel(t, c)
    BY <2>1, UpsertChannelType
  <2>2. CASE \E c \in Channels : VisitChannel(t, c)
    BY <2>2, VisitChannelType
  <2>3. CASE \E c \in Channels : VisitDeletedChannel(t, c)
    BY <2>3, EndWithType DEF VisitDeletedChannel, Fatal
  <2>4. CASE FetchAll(t)
    BY <2>4, FetchAllType
  <2>5. CASE FetchChannel(t)
    BY <2>5, FetchChannelType
  <2>6. CASE AddMessages(t)
    BY <2>6, AddMessagesType
  <2>7. CASE AddToMissingChannel(t)
    BY <2>7, EndWithType DEF AddToMissingChannel, Fatal
  <2>8. CASE AddUndatedMessage(t) \/ AddToDeletedChannel(t)
    BY <2>8, EndWithType DEF AddUndatedMessage, AddToDeletedChannel, Fatal
  <2>9. CASE SaveSucceeds(t)
    BY <2>9, SaveSucceedsType
  <2>10. CASE SaveFails(t)
    BY <2>10, SaveFailsType
  <2>11. CASE FetchFails(t)
    BY <2>11, FetchFailsType
  <2>12. CASE Finish(t)
    BY <2>12, FinishType
  <2>13. QED
    BY <1>4, <2>1, <2>2, <2>3, <2>4, <2>5, <2>6, <2>7, <2>8, <2>9, <2>10, <2>11, <2>12
       DEF Step, Work
<1>5. CASE UNCHANGED vars
  BY <1>5 DEF vars, TypeOK
<1>6. QED
  BY <1>1, <1>2, <1>3, <1>4, <1>5 DEF Next

-----------------------------------------------------------------------------
(* The inductive invariant.                                                 *)

LEMMA InitInv == Init => IInv
<1> SUFFICES ASSUME Init PROVE IInv
  OBVIOUS
<1>1. TypeOK
  BY InitType
<1>2. \A c \in Channels : Stored(c) = {}
  BY DEF Init, Stored
<1>3. QED
  BY <1>1, <1>2 DEF Init, IInv, PendingByKind, NothingAddedYet, PendingFromArguments, HeldRowsExist,
     PendingMessagesNewer, NoDuplicateMessages, NoOrphanMessages, NoTask, NewContext, Written

(* What a step does not store, it does not change.                          *)
LEMMA SameDatabase ==
  ASSUME IInv, UNCHANGED <<dbChannels, dbMessages>>
  PROVE  /\ Rows' = Rows
         /\ \A c \in Channels : Stored(c)' = Stored(c)
         /\ NoDuplicateMessages' /\ NoOrphanMessages'
BY DEF IInv, Rows, Stored, NoDuplicateMessages, NoOrphanMessages

(* A context without pending changes satisfies its part of the invariant.   *)
LEMMA EndWithInv ==
  ASSUME IInv, NEW cause \in {"killed"} \cup Fatal, EndWith(cause)
  PROVE  IInv'
<1>1. TypeOK'
  BY EndWithType DEF IInv
<1>2. UNCHANGED <<dbChannels, dbMessages>>
  BY DEF EndWith
<1>3. QED
  BY <1>1, <1>2, SameDatabase DEF EndWith, IInv, PendingByKind, NothingAddedYet, PendingFromArguments,
     HeldRowsExist, PendingMessagesNewer, NoTask, NewContext, Written

LEMMA RequestInv ==
  ASSUME IInv, Request
  PROVE  IInv'
<1>1. TypeOK'
  BY UpdateChannelsType, UpdateMessagesType DEF Request, IInv
<1>2. UNCHANGED <<dbChannels, dbMessages, context>>
  BY DEF Request, UpdateChannels, UpdateMessages
<1> DEFINE KeptOrNew(t) ==
             \/ /\ task'[t].kind = task[t].kind /\ task'[t].snap = task[t].snap
                /\ task'[t].todo = task[t].todo /\ task'[t].channel = task[t].channel
                /\ task'[t].pc = task[t].pc
             \/ /\ task[t].kind = "none"
                /\ \A c \in task'[t].todo : task'[t].snap[c] # None
                /\ task'[t].kind = "messages" => task'[t].channel \in Channels
<1>3. \A t \in Tasks : KeptOrNew(t)
  <2>1. ASSUME NEW snap \in Snapshots, UpdateChannels(snap) PROVE <1>3
    <3> DEFINE newU == [NoTask EXCEPT !.kind = "upsert", !.pc = "next", !.snap = snap,
                                      !.todo = {c \in Channels : snap[c] # None},
                                      !.clean = Quiet, !.before = Before]
               newD == [NoTask EXCEPT !.kind = "delete", !.snap = snap,
                                      !.clean = Quiet, !.before = Before]
    <3>1. PICK u \in Tasks, d \in Tasks :
            /\ u # d /\ task[u].kind = "none" /\ task[d].kind = "none"
            /\ task' = [Disturbed EXCEPT ![u] = newU, ![d] = newD]
      BY <2>1 DEF UpdateChannels, Idle
    <3>2. /\ \A c \in newU.todo : newU.snap[c] # None
          /\ newD.todo = {}
          /\ newU.kind # "messages" /\ newD.kind # "messages"
      BY DEF NoTask
    <3> HIDE DEF newU, newD
    <3>3. /\ task'[u] = newU /\ task'[d] = newD
          /\ \A t \in Tasks \ {u, d} : task'[t] = Unclean(task[t])
      BY <3>1 DEF Disturbed
    <3>4. \A t \in Tasks : task[t] \in Task
      BY DEF IInv, TypeOK
    <3>5. ASSUME NEW t \in Tasks \ {u, d}
          PROVE  /\ task'[t].kind = task[t].kind /\ task'[t].snap = task[t].snap
                 /\ task'[t].todo = task[t].todo /\ task'[t].channel = task[t].channel
                 /\ task'[t].pc = task[t].pc
      BY <3>3, <3>4, UncleanTask
    <3>6. /\ \A c \in task'[u].todo : task'[u].snap[c] # None
          /\ \A c \in task'[d].todo : task'[d].snap[c] # None
          /\ task'[u].kind # "messages" /\ task'[d].kind # "messages"
      BY <3>2, <3>3
    <3> SUFFICES ASSUME NEW t \in Tasks
                 PROVE  KeptOrNew(t)
      OBVIOUS
    <3>7. CASE t \in {u, d}
      BY <3>1, <3>6, <3>7
    <3>8. CASE t \in Tasks \ {u, d}
      BY <3>5, <3>8
    <3>9. QED
      BY <3>7, <3>8
  <2>2. ASSUME NEW c \in Channels, NEW batch \in SUBSET Messages, UpdateMessages(c, batch)
        PROVE  <1>3
    <3> DEFINE new == [NoTask EXCEPT !.kind = "messages", !.channel = c,
                                     !.batch = batch, !.clean = Quiet]
    <3>1. PICK u \in Tasks : /\ task[u].kind = "none"
                            /\ task' = [Disturbed EXCEPT ![u] = new]
      BY <2>2 DEF UpdateMessages, Idle
    <3>2. new.todo = {} /\ new.channel \in Channels
      BY DEF NoTask
    <3> HIDE DEF new
    <3>3. \A t \in Tasks : task'[t] = IF t = u THEN new ELSE Unclean(task[t])
      BY <3>1 DEF Disturbed
    <3>4. QED
      BY <3>1, <3>2, <3>3, DisturbedTask DEF IInv
  <2>3. QED
    BY <2>1, <2>2 DEF Request
<1>4. \A t \in Tasks : task[t].kind = "none" =>
        /\ context[t].ins = {} /\ context[t].upd = {}
        /\ context[t].del = {} /\ context[t].add = {}
  BY DEF IInv, PendingByKind
<1>5. PendingByKind'
  BY <1>2, <1>3, <1>4 DEF IInv, PendingByKind
<1>6. PendingFromArguments'
  BY <1>2, <1>3, <1>4 DEF IInv, PendingFromArguments, Written
<1>7. HeldRowsExist'
  BY <1>2, SameDatabase DEF IInv, HeldRowsExist
<1>8. PendingMessagesNewer'
  BY <1>2, <1>3, <1>4, SameDatabase DEF IInv, PendingMessagesNewer
<1>9. NothingAddedYet'
  BY <1>2, <1>3, <1>4 DEF IInv, NothingAddedYet
<1>10. QED
  BY <1>1, <1>2, <1>5, <1>6, <1>7, <1>8, <1>9, SameDatabase DEF IInv

(* The steps of a task that read: the database stays, and so do the other   *)
(* tasks.                                                                   *)
LEMMA OthersInv ==
  ASSUME IInv, NEW t \in Tasks, UNCHANGED <<dbChannels, dbMessages>>, TypeOK',
         \A u \in Tasks \ {t} : context'[u] = context[u] /\ task'[u] = task[u],
         task'[t].kind = task[t].kind, task'[t].channel = task[t].channel,
         task'[t].snap = task[t].snap,
         task[t].kind # "upsert" => context'[t].ins = {} /\ context'[t].upd = {},
         task[t].kind # "delete" => context'[t].del = {},
         task[t].kind # "messages" => context'[t].add = {},
         task'[t].pc \in {"fetch", "list"} => context'[t].add = {},
         task[t].kind = "upsert" =>
           \A c \in task'[t].todo \cup context'[t].ins \cup context'[t].upd :
             task[t].snap[c] # None,
         \A c \in Channels :
           context'[t].row[c] \in {"current", "changed"} => c \in Rows,
         \A c \in Channels : task[t].channel = c /\ context'[t].row[c] = "current" =>
           \A m \in context'[t].add : \A n \in Stored(c) : Created[m] > Created[n]
  PROVE  IInv'
<1>1. PendingByKind'
  BY DEF IInv, PendingByKind
<1>2. PendingFromArguments'
  BY DEF IInv, PendingFromArguments, Written
<1>3. HeldRowsExist'
  BY SameDatabase DEF IInv, HeldRowsExist
<1>4. PendingMessagesNewer'
  BY SameDatabase DEF IInv, PendingMessagesNewer
<1>5. NothingAddedYet'
  BY DEF IInv, NothingAddedYet
<1>6. QED
  BY <1>1, <1>2, <1>3, <1>4, <1>5, SameDatabase DEF IInv

LEMMA AdvanceEffect ==
  ASSUME TypeOK, NEW t \in Tasks, NEW pc, NEW todo, Advance(t, pc, todo)
  PROVE  /\ \A u \in Tasks \ {t} : task'[u] = task[u]
         /\ task'[t].kind = task[t].kind /\ task'[t].channel = task[t].channel
         /\ task'[t].snap = task[t].snap /\ task'[t].todo = todo /\ task'[t].pc = pc
         /\ task'[t].batch = task[t].batch /\ task'[t].clean = task[t].clean
         /\ task'[t].before = task[t].before
<1>1. task[t] \in Task
  BY DEF TypeOK
<1>2. task'[t] = [task[t] EXCEPT !.pc = pc, !.todo = todo]
  BY DEF Advance, TypeOK
<1>3. QED
  BY <1>1, <1>2 DEF Advance, TypeOK, Task

LEMMA ReadEffect ==
  ASSUME TypeOK, NEW t \in Tasks, NEW c \in Channels
  PROVE  \A d \in Channels : Read(t, c)[d] = IF d = c THEN "current" ELSE context[t].row[d]
BY DEF Read, TypeOK, Context

LEMMA ContextEffect ==
  ASSUME TypeOK, NEW t \in Tasks, NEW x, context' = [context EXCEPT ![t] = x]
  PROVE  context'[t] = x /\ \A u \in Tasks \ {t} : context'[u] = context[u]
BY DEF TypeOK

LEMMA UpsertChannelInv ==
  ASSUME IInv, NEW t \in Tasks, NEW c \in Channels, UpsertChannel(t, c)
  PROVE  IInv'
<1> DEFINE x == context[t]
           y == [x EXCEPT !.ins = x.ins \cup {c}]
           z == [x EXCEPT !.upd = x.upd \cup {c}, !.row = Read(t, c)]
<1>1. TypeOK /\ TypeOK' /\ x \in Context
  BY UpsertChannelType DEF IInv, TypeOK
<1>2. /\ task[t].kind = "upsert" /\ c \in task[t].todo
      /\ Advance(t, "save", task[t].todo \ {c})
      /\ UNCHANGED <<dbChannels, dbMessages>>
      /\ context' = [context EXCEPT ![t] = IF dbChannels[c] = None THEN y ELSE z]
  BY DEF UpsertChannel, Running
<1>3. /\ context'[t] = IF dbChannels[c] = None THEN y ELSE z
      /\ \A u \in Tasks \ {t} : context'[u] = context[u]
  BY <1>1, <1>2, ContextEffect
<1>4. /\ y.ins = x.ins \cup {c} /\ y.upd = x.upd /\ y.del = x.del
      /\ y.add = x.add /\ y.row = x.row
      /\ z.ins = x.ins /\ z.upd = x.upd \cup {c} /\ z.del = x.del
      /\ z.add = x.add /\ z.row = Read(t, c)
  BY <1>1 DEF Context
<1>5. /\ x.del = {} /\ x.add = {}
      /\ \A d \in task[t].todo \cup x.ins \cup x.upd : task[t].snap[d] # None
      /\ \A d \in Channels : x.row[d] \in {"current", "changed"} => d \in Rows
  BY <1>2 DEF IInv, PendingByKind, PendingFromArguments, HeldRowsExist, Written
<1>6. \A d \in Channels : context'[t].row[d] \in {"current", "changed"} => d \in Rows
  BY <1>1, <1>3, <1>4, <1>5, ReadEffect DEF Rows
<1> HIDE DEF x, y, z
<1>7. QED
  BY <1>1, <1>2, <1>3, <1>4, <1>5, <1>6, AdvanceEffect, OthersInv

LEMMA FetchAllInv ==
  ASSUME IInv, NEW t \in Tasks, FetchAll(t)
  PROVE  IInv'
<1> DEFINE x == context[t]
           row == [c \in Channels |-> IF c \in Rows THEN "current" ELSE "unread"]
           y == [x EXCEPT !.row = row]
<1>1. TypeOK /\ TypeOK' /\ x \in Context
  BY FetchAllType DEF IInv, TypeOK
<1>2. /\ task[t].kind = "delete"
      /\ Advance(t, "next", Rows)
      /\ UNCHANGED <<dbChannels, dbMessages>>
      /\ context' = [context EXCEPT ![t] = y]
  BY DEF FetchAll, Running
<1>3. context'[t] = y /\ \A u \in Tasks \ {t} : context'[u] = context[u]
  BY <1>1, <1>2, ContextEffect
<1>4. /\ y.ins = x.ins /\ y.upd = x.upd /\ y.del = x.del /\ y.add = x.add
      /\ y.row = row
  BY <1>1 DEF Context
<1>5. x.ins = {} /\ x.upd = {} /\ x.add = {}
  BY <1>2 DEF IInv, PendingByKind
<1>6. \A c \in Channels : row[c] \in {"current", "changed"} => c \in Rows
  OBVIOUS
<1> HIDE DEF x, row, y
<1>7. QED
  BY <1>1, <1>2, <1>3, <1>4, <1>5, <1>6, AdvanceEffect, OthersInv

LEMMA VisitChannelInv ==
  ASSUME IInv, NEW t \in Tasks, NEW c \in Channels, VisitChannel(t, c)
  PROVE  IInv'
<1> DEFINE x   == context[t]
           del == x.del \cup (IF task[t].snap[c] = None THEN {c} ELSE {})
           row == IF x.row[c] = "changed" THEN Read(t, c) ELSE x.row
           y   == [x EXCEPT !.del = del, !.row = row]
<1>1. TypeOK /\ TypeOK' /\ x \in Context
  BY VisitChannelType DEF IInv, TypeOK
<1>2. /\ task[t].kind = "delete"
      /\ \E pc : Advance(t, pc, task[t].todo \ {c})
      /\ UNCHANGED <<dbChannels, dbMessages>>
      /\ context' = [context EXCEPT ![t] = y]
  BY DEF VisitChannel, Running
<1>3. context'[t] = y /\ \A u \in Tasks \ {t} : context'[u] = context[u]
  <2> HIDE DEF y
  <2> QED BY <1>1, <1>2, ContextEffect
<1>4. /\ y.ins = x.ins /\ y.upd = x.upd /\ y.del = del /\ y.add = x.add
      /\ y.row = row
  BY <1>1 DEF Context
<1>5. x.ins = {} /\ x.upd = {} /\ x.add = {}
  BY <1>2 DEF IInv, PendingByKind
<1>6. \A d \in Channels : row[d] \in {"current", "changed"} => d \in Rows
  BY <1>1, ReadEffect DEF IInv, HeldRowsExist, Context
<1> HIDE DEF x, del, row, y
<1>7. QED
  BY <1>1, <1>2, <1>3, <1>4, <1>5, <1>6, AdvanceEffect, OthersInv

LEMMA FetchChannelInv ==
  ASSUME IInv, NEW t \in Tasks, FetchChannel(t)
  PROVE  IInv'
<1> DEFINE x == context[t]
           c == task[t].channel
           y == [x EXCEPT !.row = Read(t, c)]
<1>1. TypeOK /\ TypeOK' /\ x \in Context
  BY FetchChannelType DEF IInv, TypeOK
<1>2. /\ task[t].kind = "messages" /\ task[t].pc = "fetch" /\ c \in Rows /\ c \in Channels
      /\ Advance(t, "list", {})
      /\ UNCHANGED <<dbChannels, dbMessages>>
      /\ context' = [context EXCEPT ![t] = y]
  BY DEF FetchChannel, Running, Rows
<1>3. context'[t] = y /\ \A u \in Tasks \ {t} : context'[u] = context[u]
  BY <1>1, <1>2, ContextEffect
<1>4. /\ y.ins = x.ins /\ y.upd = x.upd /\ y.del = x.del /\ y.add = x.add
      /\ y.row = Read(t, c)
  BY <1>1 DEF Context
<1>5. x.ins = {} /\ x.upd = {} /\ x.del = {} /\ x.add = {}
  BY <1>2 DEF IInv, PendingByKind, NothingAddedYet
<1>6. \A d \in Channels : Read(t, c)[d] \in {"current", "changed"} => d \in Rows
  BY <1>1, <1>2, ReadEffect DEF IInv, HeldRowsExist
<1> HIDE DEF x, c, y
<1>7. QED
  BY <1>1, <1>2, <1>3, <1>4, <1>5, <1>6, AdvanceEffect, OthersInv

(* The messages found to be new are so as long as the row stays current.    *)
LEMMA AddMessagesInv ==
  ASSUME IInv, NEW t \in Tasks, AddMessages(t)
  PROVE  IInv'
<1> DEFINE x   == context[t]
           c   == task[t].channel
           new == NewMessages(Listed(t), task[t].batch)
           y   == [x EXCEPT !.add = new]
<1>1. TypeOK /\ TypeOK' /\ x \in Context
  BY AddMessagesType DEF IInv, TypeOK
<1>2. /\ task[t].kind = "messages"
      /\ Advance(t, "save", {})
      /\ UNCHANGED <<dbChannels, dbMessages>>
      /\ context' = [context EXCEPT ![t] = y]
  BY DEF AddMessages, Running
<1>3. context'[t] = y /\ \A u \in Tasks \ {t} : context'[u] = context[u]
  BY <1>1, <1>2, ContextEffect
<1>4. /\ y.ins = x.ins /\ y.upd = x.upd /\ y.del = x.del /\ y.add = new
      /\ y.row = x.row
  BY <1>1 DEF Context
<1>5. x.ins = {} /\ x.upd = {} /\ x.del = {}
  BY <1>2 DEF IInv, PendingByKind
<1>6. \A d \in Channels : x.row[d] \in {"current", "changed"} => d \in Rows
  BY DEF IInv, HeldRowsExist
<1>7. x.row[c] = "current" => \A m \in new : \A n \in Stored(c) : Created[m] > Created[n]
  BY DEF NewMessages, Listed
<1> HIDE DEF x, c, new, y
<1>8. \A d \in Channels : task[t].channel = d => d = c
  BY DEF c
<1>9. QED
  BY <1>1, <1>2, <1>3, <1>4, <1>5, <1>6, <1>7, <1>8, AdvanceEffect, OthersInv DEF c

(* The steps that change no context.                                        *)
LEMMA SameContextsInv ==
  ASSUME IInv, TypeOK', UNCHANGED <<dbChannels, dbMessages, context>>,
         \A t \in Tasks : /\ task'[t].kind = task[t].kind
                          /\ task'[t].snap = task[t].snap
                          /\ task'[t].channel = task[t].channel
                          /\ task'[t].todo \subseteq task[t].todo
                          /\ task'[t].pc \in {task[t].pc, "next"}
  PROVE  IInv'
<1>1. PendingByKind'
  BY DEF IInv, PendingByKind
<1>2. PendingFromArguments'
  BY DEF IInv, PendingFromArguments, Written
<1>3. HeldRowsExist'
  BY SameDatabase DEF IInv, HeldRowsExist
<1>4. PendingMessagesNewer'
  BY SameDatabase DEF IInv, PendingMessagesNewer
<1>5. NothingAddedYet'
  BY DEF IInv, NothingAddedYet
<1>6. QED
  BY <1>1, <1>2, <1>3, <1>4, <1>5, SameDatabase DEF IInv

LEMMA SaveFailsInv ==
  ASSUME IInv, NEW t \in Tasks, SaveFails(t)
  PROVE  IInv'
<1>1. TypeOK'
  BY SaveFailsType DEF IInv
<1>2. ASSUME NEW u \in Tasks
      PROVE  /\ task'[u].kind = task[u].kind /\ task'[u].snap = task[u].snap
             /\ task'[u].channel = task[u].channel /\ task'[u].todo \subseteq task[u].todo
             /\ task'[u].pc \in {task[u].pc, "next"}
  BY SaveFailsEffect DEF IInv
<1>3. QED
  BY <1>1, <1>2, SameContextsInv DEF SaveFails

LEMMA FetchFailsInv ==
  ASSUME IInv, NEW t \in Tasks, FetchFails(t)
  PROVE  IInv'
<1> DEFINE todo == {c \in task[t].todo : \E d \in task[t].todo : d < c}
<1>1. TypeOK /\ TypeOK'
  BY FetchFailsType DEF IInv
<1>2. ASSUME NEW u \in Tasks
      PROVE  /\ task'[u].kind = task[u].kind /\ task'[u].snap = task[u].snap
             /\ task'[u].channel = task[u].channel /\ task'[u].todo \subseteq task[u].todo
             /\ task'[u].pc \in {task[u].pc, "next"}
  <2>1. task[u] \in Task /\ todo \subseteq task[t].todo
    BY <1>1 DEF TypeOK
  <2>2. task' = [Disturbed EXCEPT ![t] =
                   [Disturbed[t] EXCEPT !.pc = "next", !.todo = todo]]
    BY DEF FetchFails
  <2>3. task'[u] = IF u = t
                   THEN [Unclean(task[u]) EXCEPT !.pc = "next", !.todo = todo]
                   ELSE Unclean(task[u])
    <3> HIDE DEF todo
    <3> QED BY <2>2 DEF Disturbed
  <2>4. Unclean(task[u]) \in Task
    BY <2>1, UncleanTask
  <2>5. QED
    <3> HIDE DEF todo
    <3> QED BY <1>1, <2>1, <2>3, <2>4, DisturbedTask DEF Task
<1>3. QED
  BY <1>1, <1>2, SameContextsInv DEF FetchFails

LEMMA FinishInv ==
  ASSUME IInv, NEW t \in Tasks, Finish(t)
  PROVE  IInv'
<1>1. TypeOK /\ TypeOK'
  BY FinishType DEF IInv
<1>2. UNCHANGED <<dbChannels, dbMessages>>
  BY DEF Finish
<1>3. /\ task'[t] = NoTask /\ context'[t] = NewContext
      /\ \A u \in Tasks \ {t} : task'[u] = task[u] /\ context'[u] = context[u]
  BY <1>1 DEF Finish, TypeOK
<1>4. /\ NewContext.ins = {} /\ NewContext.upd = {} /\ NewContext.del = {}
      /\ NewContext.add = {} /\ NoTask.kind = "none"
      /\ \A c \in Channels : NewContext.row[c] = "unread"
  BY DEF NewContext, NoTask
<1>5. PendingByKind'
  BY <1>3, <1>4 DEF IInv, PendingByKind
<1>6. PendingFromArguments'
  BY <1>3, <1>4 DEF IInv, PendingFromArguments, Written
<1>7. HeldRowsExist'
  BY <1>2, <1>3, <1>4, SameDatabase DEF IInv, HeldRowsExist
<1>8. PendingMessagesNewer'
  BY <1>2, <1>3, <1>4, SameDatabase DEF IInv, PendingMessagesNewer
<1>9. NothingAddedYet'
  BY <1>3, <1>4 DEF IInv, NothingAddedYet
<1>10. QED
  BY <1>1, <1>2, <1>5, <1>6, <1>7, <1>8, <1>9, SameDatabase DEF IInv

-----------------------------------------------------------------------------
(* The save.                                                                *)

(* What a save that succeeds does to the rows, in terms of what was pending *)
(* in its context.                                                          *)
LEMMA SaveEffect ==
  ASSUME IInv, NEW t \in Tasks, SaveSucceeds(t)
  PROVE  /\ Rows' = (Rows \cup Written(t)) \ Deleted(t)
         /\ \A c \in Channels :
              Stored(c)' = IF c \in Deleted(t) THEN {}
                           ELSE IF c \in Grown(t) THEN Stored(c) \cup context[t].add
                           ELSE Stored(c)
         /\ Grown(t) \subseteq Rows
         /\ Written(t) \subseteq Channels /\ context[t].add \subseteq Messages
<1>1. TypeOK /\ context[t] \in Context /\ task[t] \in Task
  BY DEF IInv, TypeOK
<1>2. Written(t) \subseteq Channels /\ context[t].add \subseteq Messages
  BY <1>1 DEF Written, Context
<1>3. \A c \in Written(t) : task[t].snap[c] # None
  BY DEF IInv, PendingByKind, PendingFromArguments, Written
<1>4. Rows' = (Rows \cup Written(t)) \ Deleted(t)
  <2>1. \A c \in Written(t) : task[t].snap[c] # None /\ WithDate[task[t].snap[c]] # None
    BY <1>1, <1>2, <1>3, DatesAssumption DEF Task, Snapshots
  <2>2. \A c \in Channels : dbChannels'[c] # None <=>
          c \notin Deleted(t) /\ (c \in Written(t) \/ dbChannels[c] # None)
    BY <2>1 DEF SaveSucceeds, Written
  <2>3. QED
    BY <1>2, <2>2 DEF Rows
<1>5. Grown(t) \subseteq Rows
  BY DEF Grown, SaveSucceeds, MaySave, Unconflicted, IInv, PendingByKind, PendingFromArguments,
     HeldRowsExist
<1>6. ASSUME NEW c \in Channels
      PROVE  Stored(c)' = IF c \in Deleted(t) THEN {}
                          ELSE IF c \in Grown(t) THEN Stored(c) \cup context[t].add
                          ELSE Stored(c)
  <2>1. \A m \in Messages : dbMessages[c][m] \in Nat
    BY <1>1 DEF TypeOK
  <2>2. \A m \in Messages : dbMessages'[c][m] =
          CASE c \in Deleted(t) -> 0
            [] c \in Grown(t) \ Deleted(t) /\ m \in context[t].add -> dbMessages[c][m] + 1
            [] OTHER -> dbMessages[c][m]
    BY DEF SaveSucceeds
  <2>3. CASE c \in Deleted(t)
    BY <2>2, <2>3 DEF Stored
  <2>4. CASE c \in Grown(t) \ Deleted(t)
    BY <1>2, <2>1, <2>2, <2>4 DEF Stored
  <2>5. CASE c \notin Grown(t) \cup Deleted(t)
    BY <2>2, <2>5 DEF Stored
  <2>6. QED
    BY <2>3, <2>4, <2>5
<1>7. QED
  BY <1>2, <1>4, <1>5, <1>6

(* What it does to the contexts.                                            *)
LEMMA SaveContexts ==
  ASSUME IInv, NEW t \in Tasks, SaveSucceeds(t)
  PROVE  /\ context'[t].ins = {} /\ context'[t].upd = {}
         /\ context'[t].del = {} /\ context'[t].add = {}
         /\ \A c \in Channels : context'[t].row[c] # "unread" =>
              /\ c \notin Written(t) \cup Grown(t) \cup context[t].del
              /\ context'[t].row[c] = context[t].row[c]
         /\ \A u \in Tasks \ {t} :
              /\ context'[u].ins = context[u].ins /\ context'[u].upd = context[u].upd
              /\ context'[u].del = context[u].del /\ context'[u].add = context[u].add
              /\ \A c \in Channels :
                   context'[u].row[c] = Overtaken(t, c, context[u].row[c])
<1>1. \A u \in Tasks : context[u] \in Context
  BY DEF IInv, TypeOK
<1>2. context'[t] = [NewContext EXCEPT !.row = [c \in Channels |->
                IF c \in Written(t) \cup Grown(t) \cup context[t].del
                THEN "unread" ELSE context[t].row[c]]]
  BY DEF SaveSucceeds
<1>3. ASSUME NEW u \in Tasks \ {t}
      PROVE  context'[u] = [context[u] EXCEPT !.row = [c \in Channels |->
                Overtaken(t, c, context[u].row[c])]]
  BY DEF SaveSucceeds
<1>4. /\ context'[t].ins = {} /\ context'[t].upd = {}
      /\ context'[t].del = {} /\ context'[t].add = {}
      /\ context'[t].row = [c \in Channels |->
                IF c \in Written(t) \cup Grown(t) \cup context[t].del
                THEN "unread" ELSE context[t].row[c]]
  BY <1>2 DEF NewContext
<1>5. ASSUME NEW u \in Tasks \ {t}
      PROVE  /\ context'[u].ins = context[u].ins /\ context'[u].upd = context[u].upd
             /\ context'[u].del = context[u].del /\ context'[u].add = context[u].add
             /\ context'[u].row = [c \in Channels |-> Overtaken(t, c, context[u].row[c])]
  BY <1>1, <1>3 DEF Context
<1>6. \A c \in Channels : context'[t].row[c] # "unread" =>
        /\ c \notin Written(t) \cup Grown(t) \cup context[t].del
        /\ context'[t].row[c] = context[t].row[c]
  BY <1>4
<1>7. ASSUME NEW u \in Tasks \ {t}, NEW c \in Channels
      PROVE  context'[u].row[c] = Overtaken(t, c, context[u].row[c])
  BY <1>5
<1>8. QED
  BY <1>4, <1>5, <1>6, <1>7

LEMMA SaveNoDuplicates ==
  ASSUME IInv, NEW t \in Tasks, SaveSucceeds(t)
  PROVE  NoDuplicateMessages'
<1> DEFINE add == context[t].add
<1>1. UniqueCreated(t) /\ TypeOK /\ NoDuplicateMessages
  BY DEF SaveSucceeds, MaySave, IInv
<1>2. \A c \in Channels : Stored(c)' \subseteq Messages
  BY DEF Stored
<1>3. Grown(t) \subseteq {task[t].channel} /\ Grown(t) \subseteq Channels
  BY SaveEffect DEF Grown, Rows
<1>4. \A c \in Channels : \A m \in Stored(c)' :
        \/ m \in Stored(c)
        \/ c \in Grown(t) /\ m \in add
  BY SaveEffect
<1>5. \A c \in Channels : \A m \in add : m \notin Stored(c)
  BY <1>1 DEF UniqueCreated
<1>6. ASSUME NEW c \in Channels, NEW m \in Stored(c)' PROVE dbMessages'[c][m] = 1
  <2>1. c \notin Deleted(t) /\ m \in Messages
    BY SaveEffect, <1>2
  <2>2. dbMessages[c][m] \in Nat
    BY <1>1, <2>1 DEF TypeOK
  <2>3. dbMessages'[c][m] = IF c \in Grown(t) /\ m \in add
                            THEN dbMessages[c][m] + 1 ELSE dbMessages[c][m]
    BY <2>1 DEF SaveSucceeds
  <2>4. CASE m \in Stored(c)
    BY <1>1, <1>5, <2>3, <2>4 DEF NoDuplicateMessages
  <2>5. CASE m \notin Stored(c)
    <3>1. dbMessages[c][m] = 0
      BY <2>1, <2>2, <2>5 DEF Stored
    <3>2. QED
      BY <1>4, <2>3, <2>5, <3>1
  <2>6. QED
    BY <2>4, <2>5
<1>7. ASSUME NEW c \in Channels, NEW d \in Channels,
             NEW m \in Stored(c)', NEW n \in Stored(d)', Created[m] = Created[n]
      PROVE  c = d /\ m = n
  <2>1. CASE m \in Stored(c) /\ n \in Stored(d)
    BY <1>1, <1>7, <2>1 DEF NoDuplicateMessages
  <2>2. CASE m \in Stored(c) /\ n \in add
    BY <1>1, <1>7, <2>2 DEF UniqueCreated
  <2>3. CASE m \in add /\ n \in Stored(d)
    BY <1>1, <1>7, <2>3 DEF UniqueCreated
  <2>4. CASE c \in Grown(t) /\ d \in Grown(t) /\ m \in add /\ n \in add
    BY <1>1, <1>3, <1>7, <2>4 DEF UniqueCreated
  <2>5. QED
    BY <1>4, <2>1, <2>2, <2>3, <2>4
<1>8. QED
  BY <1>6, <1>7 DEF NoDuplicateMessages

LEMMA SaveSucceedsInv ==
  ASSUME IInv, NEW t \in Tasks, SaveSucceeds(t)
  PROVE  IInv'
<1>1. TypeOK /\ TypeOK'
  BY SaveSucceedsType DEF IInv
<1>2. \A u \in Tasks : /\ task'[u].kind = task[u].kind /\ task'[u].snap = task[u].snap
                       /\ task'[u].channel = task[u].channel /\ task'[u].todo = task[u].todo
                       /\ u # t => task'[u].pc = task[u].pc
  BY <1>1, AdvanceEffect DEF SaveSucceeds
<1>3. PendingByKind'
  BY <1>2, SaveContexts DEF IInv, PendingByKind
<1>4. PendingFromArguments'
  BY <1>2, SaveContexts DEF IInv, PendingFromArguments, Written
<1>5. Deleted(t) \subseteq context[t].del
  BY DEF Deleted
<1>6. HeldRowsExist'
  <2> SUFFICES ASSUME NEW u \in Tasks, NEW c \in Channels,
                      context'[u].row[c] \in {"current", "changed"}
               PROVE  c \in Rows'
    BY DEF HeldRowsExist
  <2>1. c \in Rows /\ c \notin Deleted(t)
    <3>1. CASE u = t
      BY <1>5, <3>1, SaveContexts DEF IInv, HeldRowsExist
    <3>2. CASE u # t
      BY <3>2, SaveContexts DEF Overtaken, IInv, HeldRowsExist
    <3>3. QED
      BY <3>1, <3>2
  <2>2. QED
    BY <2>1, SaveEffect
<1>7. PendingMessagesNewer'
  <2> SUFFICES ASSUME NEW u \in Tasks, NEW c \in Channels, task[u].channel = c,
                      context'[u].row[c] = "current"
               PROVE  \A m \in context'[u].add : \A n \in Stored(c)' :
                        Created[m] > Created[n]
    BY <1>2 DEF PendingMessagesNewer
  <2>1. CASE u = t
    BY <2>1, SaveContexts
  <2>2. CASE u # t
    <3>1. context[u].row[c] = "current" /\ c \notin Deleted(t) /\ c \notin Grown(t)
      BY <2>2, SaveContexts DEF Overtaken
    <3>2. Stored(c)' = Stored(c) /\ context'[u].add = context[u].add
      BY <2>2, <3>1, SaveContexts, SaveEffect
    <3>3. QED
      BY <3>1, <3>2 DEF IInv, PendingMessagesNewer
  <2>3. QED
    BY <2>1, <2>2
<1>8. NoOrphanMessages'
  BY SaveEffect DEF IInv, NoOrphanMessages
<1>9. NothingAddedYet'
  BY <1>2, SaveContexts DEF IInv, NothingAddedYet
<1>10. QED
  BY <1>1, <1>3, <1>4, <1>6, <1>7, <1>8, <1>9, SaveNoDuplicates DEF IInv

LEMMA NextInv == IInv /\ [Next]_vars => IInv'
<1> SUFFICES ASSUME IInv, [Next]_vars PROVE IInv'
  OBVIOUS
<1>1. CASE Request
  BY <1>1, RequestInv
<1>2. CASE Kill
  BY <1>2, EndWithInv DEF Kill
<1>3. CASE Launch \/ UNCHANGED vars
  <2>1. TypeOK'
    BY NextType DEF IInv
  <2>2. QED
    BY <1>3, <2>1, SameContextsInv DEF Launch, vars
<1>4. ASSUME NEW t \in Tasks, Step(t) PROVE IInv'
  <2>1. CASE \E c \in Channels : UpsertChannel(t, c)
    BY <2>1, UpsertChannelInv
  <2>2. CASE \E c \in Channels : VisitChannel(t, c)
    BY <2>2, VisitChannelInv
  <2>3. CASE \E c \in Channels : VisitDeletedChannel(t, c)
    BY <2>3, EndWithInv DEF VisitDeletedChannel, Fatal
  <2>4. CASE FetchAll(t)
    BY <2>4, FetchAllInv
  <2>5. CASE FetchChannel(t)
    BY <2>5, FetchChannelInv
  <2>6. CASE AddMessages(t)
    BY <2>6, AddMessagesInv
  <2>7. CASE AddToMissingChannel(t)
    BY <2>7, EndWithInv DEF AddToMissingChannel, Fatal
  <2>8. CASE AddUndatedMessage(t) \/ AddToDeletedChannel(t)
    BY <2>8, EndWithInv DEF AddUndatedMessage, AddToDeletedChannel, Fatal
  <2>9. CASE SaveSucceeds(t)
    BY <2>9, SaveSucceedsInv
  <2>10. CASE SaveFails(t)
    BY <2>10, SaveFailsInv
  <2>11. CASE FetchFails(t)
    BY <2>11, FetchFailsInv
  <2>12. CASE Finish(t)
    BY <2>12, FinishInv
  <2>13. QED
    BY <1>4, <2>1, <2>2, <2>3, <2>4, <2>5, <2>6, <2>7, <2>8, <2>9, <2>10, <2>11, <2>12
       DEF Step, Work
<1>5. QED
  BY <1>1, <1>2, <1>3, <1>4 DEF Next

THEOREM Invariant == Spec => []IInv
BY InitInv, NextInv, PTL DEF Spec

(* Every variable keeps its type.                                           *)
THEOREM TypeCorrect == Spec => []TypeOK
<1>1. IInv => TypeOK
  BY DEF IInv
<1>2. QED
  BY <1>1, Invariant, PTL

(* No two message rows carry the same stamp, however tasks overlap.         *)
THEOREM NoDuplicates == Spec => []NoDuplicateMessages
<1>1. IInv => NoDuplicateMessages
  BY DEF IInv
<1>2. QED
  BY <1>1, Invariant, PTL

(* No message row outlives its channel's row.                               *)
THEOREM NoOrphans == Spec => []NoOrphanMessages
<1>1. IInv => NoOrphanMessages
  BY DEF IInv
<1>2. QED
  BY <1>1, Invariant, PTL

(* A step that does not save leaves the database alone.                     *)
LEMMA OnlySavesStore ==
  ASSUME [Next]_vars
  PROVE  \/ UNCHANGED <<dbChannels, dbMessages>>
         \/ \E t \in Tasks : SaveSucceeds(t)
<1>1. CASE Request \/ Kill \/ Launch \/ UNCHANGED vars
  BY <1>1 DEF Request, UpdateChannels, UpdateMessages, Kill, Launch, EndWith, vars
<1>2. ASSUME NEW t \in Tasks, Work(t) PROVE UNCHANGED <<dbChannels, dbMessages>>
  BY <1>2 DEF Work, UpsertChannel, VisitChannel, VisitDeletedChannel, FetchAll, FetchChannel, AddMessages,
     AddToMissingChannel, AddToDeletedChannel, AddUndatedMessage, SaveFails, FetchFails, Finish,
     EndWith
<1>3. QED
  BY <1>1, <1>2 DEF Next, Step

(* Messages are added only at the new end of their channel.                 *)
LEMMA AddedAreNewer ==
  ASSUME IInv, [Next]_vars, NEW c \in Channels, NEW m \in Messages,
         dbMessages'[c][m] > dbMessages[c][m]
  PROVE  \A n \in Stored(c) : Created[m] > Created[n]
<1>1. dbMessages[c][m] \in Nat
  BY DEF IInv, TypeOK
<1>2. dbMessages'[c][m] # dbMessages[c][m]
  BY <1>1
<1>3. PICK t \in Tasks : SaveSucceeds(t)
  BY <1>2, OnlySavesStore
<1>4. c \in Grown(t) /\ m \in context[t].add
  BY <1>1, <1>3 DEF SaveSucceeds
<1>5. task[t].channel = c /\ context[t].row[c] = "current"
  BY <1>3, <1>4 DEF Grown, SaveSucceeds, MaySave, Unconflicted
<1>6. QED
  BY <1>4, <1>5 DEF IInv, PendingMessagesNewer

THEOREM MessagesAddedInOrder == Spec => OnlyNewerMessagesAdded
<1>1. IInv /\ [Next]_vars =>
        [\A c \in Channels, m \in Messages :
           dbMessages'[c][m] > dbMessages[c][m] =>
             \A n \in Stored(c) : Created[m] > Created[n]]_vars
  BY AddedAreNewer
<1>2. QED
  BY <1>1, Invariant, PTL DEF Spec, OnlyNewerMessagesAdded

-----------------------------------------------------------------------------
(* CoreDataManager implements ChatReplica.                                  *)

LEMMA InitImplements == Init => Replica!Init
<1> SUFFICES ASSUME Init PROVE Replica!Init
  OBVIOUS
<1>1. \A c \in Channels : Stored(c) = {}
  BY DEF Init, Stored
<1>2. QED
  BY <1>1 DEF Init, NoSnapshot, Replica!Init

LEMMA SaveImplements ==
  ASSUME IInv, NEW t \in Tasks, SaveSucceeds(t)
  PROVE  Replica!Next
<1> DEFINE add == context[t].add
<1>1. /\ TypeOK /\ context[t] \in Context /\ task[t] \in Task
      /\ dbChannels \in [Channels -> Values \cup {None}]
      /\ task[t].snap \in [Channels -> Values \cup {None}]
  BY DEF IInv, TypeOK, Snapshots, Task
<1>2. /\ Complete(t) /\ UniqueCreated(t) /\ Unconflicted(t)
  BY DEF SaveSucceeds, MaySave
<1>3. /\ DOMAIN dbChannels' = Channels
      /\ \A c \in Channels :
           dbChannels'[c] = CASE c \in Deleted(t) -> None
                              [] c \in context[t].ins \ Deleted(t) -> WithDate[task[t].snap[c]]
                              [] c \in context[t].upd \ (context[t].ins \cup Deleted(t)) ->
                                   task[t].snap[c]
                              [] OTHER -> dbChannels[c]
      /\ dbChannels' = [c \in Channels |-> dbChannels'[c]]
  BY DEF SaveSucceeds
<1>4. CASE task[t].kind = "upsert"
  <2>1. context[t].del = {} /\ add = {}
    BY <1>4 DEF IInv, PendingByKind
  <2>2. Deleted(t) = {} /\ Grown(t) = {}
    BY <2>1 DEF Deleted, Grown
  <2>3. \A c \in Written(t) : task[t].snap[c] \in Values \ {Unnamed}
    BY <1>1, <1>2, <1>4, SaveEffect DEF Complete, Written, IInv, PendingFromArguments
  <2>4. \A c \in Written(t) : WithDate[task[t].snap[c]] \in Values \ {Unnamed}
    BY <2>3, DatesAssumption
  <2>5. \A c \in Channels : IF c \in Written(t)
                            THEN dbChannels'[c] \in Values \ {Unnamed}
                            ELSE dbChannels'[c] = dbChannels[c]
    BY <1>3, <2>2, <2>3, <2>4 DEF Written
  <2>6. [c \in Channels |-> Stored(c)'] = [c \in Channels |-> Stored(c)]
    BY <2>2, SaveEffect
  <2>7. dbChannels' \in [Channels -> Values \cup {None}]
    BY <1>1, <1>3, <2>5
  <2>8. Replica!Store(Written(t))
    BY <2>5, <2>6, <2>7 DEF Replica!Store
  <2>9. QED
    BY <2>8, SaveEffect DEF Replica!Next
<1>5. CASE task[t].kind # "upsert" /\ add = {}
  <2>1. Written(t) = {}
    BY <1>5 DEF IInv, PendingByKind, Written
  <2>2. Grown(t) = {} /\ Deleted(t) \subseteq Channels
    BY <1>1, <1>5 DEF Grown, Deleted, Context
  <2>3. dbChannels' = [c \in Channels |-> IF c \in Deleted(t) THEN None ELSE dbChannels[c]]
    BY <1>3, <2>1 DEF Written
  <2>4. [c \in Channels |-> Stored(c)'] =
          [c \in Channels |-> IF c \in Deleted(t) THEN {} ELSE Stored(c)]
    BY <2>2, SaveEffect
  <2>5. Replica!Remove(Deleted(t))
    BY <2>3, <2>4 DEF Replica!Remove
  <2>6. QED
    BY <2>2, <2>5 DEF Replica!Next
<1>6. CASE task[t].kind # "upsert" /\ add # {}
  <2> DEFINE c == task[t].channel
  <2>1. task[t].kind = "messages"
    BY <1>6 DEF IInv, PendingByKind
  <2>2. Written(t) = {} /\ Deleted(t) = {} /\ Grown(t) = {c}
    BY <1>6, <2>1 DEF IInv, PendingByKind, Written, Deleted, Grown
  <2>3. c \in Channels /\ c \in Rows /\ context[t].row[c] = "current"
    BY <1>2, <1>6, <2>2, SaveEffect DEF Unconflicted, Rows
  <2>4. dbChannels' = dbChannels
    BY <1>1, <1>3, <2>2 DEF Written
  <2>5. \A m \in add : \A n \in Stored(c) : Created[m] > Created[n]
    BY <2>3 DEF IInv, PendingMessagesNewer
  <2>6. /\ \A m, n \in add : Created[m] = Created[n] => m = n
        /\ \A d \in Channels : \A m \in add, n \in Stored(d) : Created[m] # Created[n]
    BY <1>2 DEF UniqueCreated
  <2>7. [d \in Channels |-> Stored(d)'] =
          [[d \in Channels |-> Stored(d)] EXCEPT ![c] = Stored(c) \cup add]
    BY <2>2, <2>3, SaveEffect
  <2>8. Replica!Extend(c, add)
    <3>1. \A d \in Channels : Replica!Stamps(add) \cap Replica!Stamps(Stored(d)) = {}
      BY <2>6 DEF Replica!Stamps
    <3> HIDE DEF c, add
    <3>2. QED
      BY <2>3, <2>4, <2>5, <2>6, <2>7, <3>1 DEF Replica!Extend, Rows
  <2>9. QED
    BY <2>3, <2>8, SaveEffect DEF Replica!Next
<1>7. QED
  BY <1>4, <1>5, <1>6

LEMMA StepImplements == IInv /\ [Next]_vars => [Replica!Next]_(Replica!replica)
<1> SUFFICES ASSUME IInv, [Next]_vars PROVE [Replica!Next]_(Replica!replica)
  OBVIOUS
<1>1. CASE UNCHANGED <<dbChannels, dbMessages>>
  BY <1>1 DEF Replica!replica, Stored
<1>2. CASE \E t \in Tasks : SaveSucceeds(t)
  BY <1>2, SaveImplements
<1>3. QED
  BY <1>1, <1>2, OnlySavesStore

(* The database implements ChatReplica, whatever requests overlap.          *)
THEOREM Implements == Spec => ImplementsReplica
BY InitImplements, StepImplements, Invariant, PTL DEF Spec, ImplementsReplica, Replica!Spec

-----------------------------------------------------------------------------
(* Requests that meet no other: AloneInv is inductive beside IInv.  A step  *)
(* of one task keeps what AloneInv says of the other task of its request,   *)
(* because an upsert writes only channels of the snapshot, and a delete     *)
(* removes only rows that are not in it.                                    *)

LEMMA InitAlone == Init => AloneInv
BY DEF Init, AloneInv, IdleAtRest, Idle, CleanInv, CleanAlone, CleanUpserts, CleanDeletes,
   CleanProgress, CleanMessages, NoTask

(* Nothing is claimed of tasks that are not clean.                          *)

LEMMA NoneCleanAlone ==
  ASSUME \A t \in Tasks : ~task'[t].clean
  PROVE  CleanInv'
BY DEF CleanInv, CleanAlone, CleanUpserts, CleanDeletes, CleanProgress, CleanMessages

(* When a task at work is not clean, none is.                               *)
LEMMA NoneClean ==
  ASSUME CleanInv, NEW t \in Tasks, ~Idle(t), ~task[t].clean
  PROVE  \A u \in Tasks : ~task[u].clean
BY DEF CleanInv, CleanAlone, SameRequest

(* What a task is doing is still the same.                                  *)
SameTask(u) ==
  /\ task'[u].kind = task[u].kind /\ task'[u].pc = task[u].pc
  /\ task'[u].snap = task[u].snap /\ task'[u].channel = task[u].channel
  /\ task'[u].batch = task[u].batch /\ task'[u].todo = task[u].todo
  /\ task'[u].clean = task[u].clean /\ task'[u].before = task[u].before

(* A step of one task that changes nothing in the database: what there is   *)
(* to show of it.                                                           *)
PartKept(t) ==
  /\ task[t].kind = "upsert" =>
       /\ UpsertAlone(t)'
       /\ task[t].todo \cup Written(t) \subseteq task'[t].todo \cup Written(t)'
  /\ task[t].kind = "delete" =>
       /\ task'[t].pc \in {"fetch", "next", "save"}
       /\ task'[t].pc = "fetch" => task'[t].todo = {}
       /\ task'[t].pc # "save" => context'[t].del = {}
       /\ \A c \in context'[t].del : task[t].snap[c] = None /\ c \notin task'[t].todo
       /\ \A c \in task'[t].todo : context'[t].row[c] \in {"current", "changed"}
       /\ \A c \in task'[t].todo \cup context'[t].del :
            task[t].snap[c] = None => context'[t].row[c] = "current"
       /\ \A c \in Rows :
            task[t].snap[c] = None /\ (task[t].pc = "fetch" \/ c \in task[t].todo \cup context[t].del) =>
              task'[t].pc = "fetch" \/ c \in task'[t].todo \cup context'[t].del
  /\ task[t].kind = "messages" =>
       LET c == task[t].channel
       IN  /\ task'[t].pc \in {"list", "save"} => context'[t].row[c] = "current"
           /\ task'[t].pc = "save" =>
                context'[t].add = NewMessages(Stored(c), task[t].batch)

LEMMA SameStored ==
  ASSUME UNCHANGED <<dbChannels, dbMessages>>
  PROVE  Rows' = Rows /\ \A c : Stored(c)' = Stored(c)
BY DEF Rows, Stored

LEMMA PartKeepsAlone ==
  ASSUME IInv, CleanInv, NEW t \in Tasks, ~Idle(t), UNCHANGED <<dbChannels, dbMessages>>,
         \A u \in Tasks \ {t} : SameTask(u) /\ context'[u] = context[u],
         task'[t].kind = task[t].kind, task'[t].snap = task[t].snap,
         task'[t].channel = task[t].channel, task'[t].batch = task[t].batch,
         task'[t].clean = task[t].clean, task'[t].before = task[t].before,
         task[t].clean => PartKept(t)
  PROVE  CleanInv'
<1>1. CASE ~task[t].clean
  BY <1>1, NoneClean, NoneCleanAlone DEF SameTask
<1>2. CASE task[t].clean
  <2>1. PartKept(t) /\ Rows' = Rows /\ \A c \in Channels : Stored(c)' = Stored(c)
    BY <1>2, SameStored
  <2>2. \A u \in Tasks : /\ task'[u].kind = task[u].kind /\ task'[u].snap = task[u].snap
                         /\ task'[u].clean = task[u].clean /\ task'[u].before = task[u].before
                         /\ task'[u].channel = task[u].channel /\ task'[u].batch = task[u].batch
                         /\ Outcome(task'[u]) = Outcome(task[u])
    BY DEF SameTask, Outcome
  <2>3. CleanAlone'
    BY <2>2 DEF CleanInv, CleanAlone, SameRequest, Idle
  <2>4. CleanUpserts'
    <3> SUFFICES ASSUME NEW u \in Tasks, task[u].clean, task[u].kind = "upsert"
                 PROVE  UpsertAlone(u)'
      BY <2>2 DEF CleanUpserts
    <3>1. CASE u = t
      BY <2>1, <3>1 DEF PartKept
    <3>2. CASE u # t
      <4>1. UpsertAlone(u)
        BY DEF CleanInv, CleanUpserts
      <4>2. Written(u)' = Written(u)
        BY <3>2 DEF Written
      <4>3. QED
        BY <2>1, <3>2, <4>1, <4>2 DEF UpsertAlone, SameTask, Refused
    <3>3. QED
      BY <3>1, <3>2
  <2>5. CleanDeletes'
    BY <2>1, <2>2 DEF CleanInv, CleanDeletes, PartKept, SameTask
  <2>6. \A c \in Channels : ToUpsert(c) => ToUpsert(c)'
    BY <2>1, <2>2 DEF PartKept, SameTask, ToUpsert, Written
  <2>7. ASSUME NEW c \in Rows, task[t].snap[c] = None, ToDelete(c)
        PROVE  ToDelete(c)'
    BY <2>1, <2>2, <2>7 DEF PartKept, SameTask, ToDelete
  <2>8. \A u \in Tasks : task[u].clean => task[u].snap = task[t].snap
    BY <1>2 DEF CleanInv, CleanAlone, SameRequest, Idle
  <2>9. CleanProgress'
    BY <2>1, <2>2, <2>6, <2>7, <2>8 DEF CleanInv, CleanProgress
  <2>10. CleanMessages'
    <3> SUFFICES ASSUME NEW u \in Tasks, task'[u].clean, task'[u].kind = "messages",
                        NEW c, c = task'[u].channel
                 PROVE  /\ task'[u].pc \in {"list", "save"} => context'[u].row[c] = "current"
                        /\ task'[u].pc = "save" =>
                             context'[u].add = NewMessages(Stored(c)', task'[u].batch)
      BY DEF CleanMessages, NewMessages
    <3>1. Stored(c)' = Stored(c) /\ c = task[u].channel
      BY <2>2, SameStored
    <3>2. CASE u = t
      BY <2>1, <2>2, <3>1, <3>2 DEF PartKept
    <3>3. CASE u # t
      BY <2>2, <3>1, <3>3 DEF CleanInv, CleanMessages, SameTask
    <3>4. QED
      BY <3>2, <3>3
  <2>11. QED
    BY <2>3, <2>4, <2>5, <2>9, <2>10 DEF CleanInv
<1>3. QED
  BY <1>1, <1>2

LEMMA UpsertChannelAlone ==
  ASSUME IInv, CleanInv, NEW t \in Tasks, NEW c \in Channels, UpsertChannel(t, c)
  PROVE  CleanInv'
<1> DEFINE x == context[t]
           y == [x EXCEPT !.ins = x.ins \cup {c}]
           z == [x EXCEPT !.upd = x.upd \cup {c}, !.row = Read(t, c)]
<1>1. TypeOK /\ x \in Context
  BY DEF IInv, TypeOK
<1>2. /\ task[t].kind = "upsert" /\ task[t].pc = "next" /\ c \in task[t].todo
      /\ Advance(t, "save", task[t].todo \ {c})
      /\ UNCHANGED <<dbChannels, dbMessages>>
      /\ context' = [context EXCEPT ![t] = IF dbChannels[c] = None THEN y ELSE z]
  BY DEF UpsertChannel, Running
<1>3. /\ context'[t] = IF dbChannels[c] = None THEN y ELSE z
      /\ \A u \in Tasks \ {t} : context'[u] = context[u]
  <2> DEFINE v == IF dbChannels[c] = None THEN y ELSE z
  <2>1. context' = [context EXCEPT ![t] = v]
    BY <1>2
  <2> HIDE DEF v
  <2>2. context'[t] = v /\ \A u \in Tasks \ {t} : context'[u] = context[u]
    BY <1>1, <2>1, ContextEffect
  <2>3. QED
    BY <2>2 DEF v
<1>4. /\ y.ins = x.ins \cup {c} /\ y.upd = x.upd /\ y.row = x.row
      /\ z.ins = x.ins /\ z.upd = x.upd \cup {c} /\ z.row = Read(t, c)
  BY <1>1 DEF Context
<1>5. Written(t)' = Written(t) \cup {c}
  BY <1>3, <1>4 DEF Written, x
<1> HIDE DEF x, y, z
<1>6. task[t].clean => PartKept(t)
  <2> SUFFICES ASSUME task[t].clean
               PROVE  /\ UpsertAlone(t)'
                      /\ task[t].todo \cup Written(t) \subseteq task'[t].todo \cup Written(t)'
    BY <1>2 DEF PartKept
  <2>1. UpsertAlone(t)
    BY <1>2 DEF CleanInv, CleanUpserts
  <2>2. /\ task'[t].pc = "save" /\ task'[t].todo = task[t].todo \ {c}
        /\ task'[t].snap = task[t].snap /\ task'[t].before = task[t].before
        /\ dbChannels' = dbChannels /\ Rows' = Rows
    BY <1>1, <1>2, AdvanceEffect, SameStored
  <2>3. task[t].todo \cup Written(t) \subseteq task'[t].todo \cup Written(t)'
    BY <1>5, <2>2
  <2>4. /\ context'[t].ins \cap Rows = {}
        /\ \A d \in context'[t].upd : context'[t].row[d] = "current"
    <3>1. /\ x.ins \cap Rows = {} /\ x.upd \subseteq Channels
          /\ \A d \in x.upd : x.row[d] = "current"
      BY <1>1, <2>1 DEF UpsertAlone, Context, x
    <3>2. QED
      BY <1>1, <1>3, <1>4, <3>1, ReadEffect DEF Rows, x
  <2>5. \A w \in Written(t)' : \A d \in task'[t].todo : w < d
    <3>1. \A d \in task[t].todo : c <= d /\ d \in Nat /\ c \in Nat
      BY <1>1, ChannelsAssumption DEF UpsertChannel, TypeOK, Task
    <3>2. \A d \in task'[t].todo : c < d
      BY <2>2, <3>1
    <3>3. \A w \in Written(t) : \A d \in task'[t].todo : w < d
      BY <2>1, <2>2 DEF UpsertAlone
    <3>4. QED
      BY <1>5, <3>2, <3>3
  <2>6. \A w \in Written(t)' : \/ Refused(task[t].snap, w)
                               \/ Written(t)' = {w}
    <3>1. \A w \in Written(t) : Refused(task[t].snap, w)
      BY <1>2, <2>1 DEF UpsertAlone
    <3>2. Written(t) # {} => Refused(task[t].snap, c)
      <4> SUFFICES ASSUME NEW w \in Written(t) PROVE Refused(task[t].snap, c)
        OBVIOUS
      <4>1. w < c /\ w \in Nat /\ c \in Nat
        BY <1>1, <1>2, <2>1, ChannelsAssumption DEF UpsertAlone, Written, Context, x
      <4>2. PICK d \in Channels : d <= w /\ task[t].snap[d] = Unnamed
        BY <3>1 DEF Refused
      <4>3. d <= c
        BY <4>1, <4>2, ChannelsAssumption
      <4>4. QED
        BY <4>2, <4>3 DEF Refused
    <3>3. QED
      BY <1>5, <3>1, <3>2
  <2>7. \A d \in Channels : task[t].snap[d] = Unnamed => d \in task'[t].todo \cup Written(t)'
    BY <2>1, <2>3 DEF UpsertAlone
  <2>8. \A d \in task'[t].todo \cup Written(t)' : dbChannels[d] = task[t].before[d]
    BY <1>2, <1>5, <2>1, <2>2 DEF UpsertAlone
  <2>9. UpsertAlone(t)'
    BY <2>2, <2>4, <2>5, <2>6, <2>7, <2>8 DEF UpsertAlone, Refused
  <2>10. QED
    BY <2>3, <2>9
<1>7. QED
  BY <1>1, <1>2, <1>3, <1>6, AdvanceEffect, PartKeepsAlone DEF SameTask, Idle

LEMMA FetchAllAlone ==
  ASSUME IInv, CleanInv, NEW t \in Tasks, FetchAll(t)
  PROVE  CleanInv'
<1> DEFINE x == context[t]
           row == [c \in Channels |-> IF c \in Rows THEN "current" ELSE "unread"]
           y == [x EXCEPT !.row = row]
<1>1. TypeOK /\ x \in Context /\ Rows \subseteq Channels
  BY DEF IInv, TypeOK, Rows
<1>2. /\ task[t].kind = "delete" /\ task[t].pc = "fetch"
      /\ Advance(t, "next", Rows)
      /\ UNCHANGED <<dbChannels, dbMessages>>
      /\ context' = [context EXCEPT ![t] = y]
  BY DEF FetchAll, Running
<1>3. context'[t] = y /\ \A u \in Tasks \ {t} : context'[u] = context[u]
  BY <1>1, <1>2, ContextEffect
<1>4. y.del = x.del /\ y.row = row
  BY <1>1 DEF Context
<1>5. task[t].clean => x.del = {}
  BY <1>2 DEF CleanInv, CleanDeletes
<1>6. \A c \in Rows : row[c] = "current"
  BY <1>1
<1> HIDE DEF x, row, y
<1>7. task[t].clean => PartKept(t)
  BY <1>1, <1>2, <1>3, <1>4, <1>5, <1>6, AdvanceEffect DEF PartKept
<1>8. QED
  BY <1>1, <1>2, <1>3, <1>7, AdvanceEffect, PartKeepsAlone DEF SameTask, Idle

LEMMA VisitChannelAlone ==
  ASSUME IInv, CleanInv, NEW t \in Tasks, NEW c \in Channels, VisitChannel(t, c)
  PROVE  CleanInv'
<1> DEFINE x   == context[t]
           gone == task[t].snap[c] = None
           del == x.del \cup (IF gone THEN {c} ELSE {})
           row == IF x.row[c] = "changed" THEN Read(t, c) ELSE x.row
           y   == [x EXCEPT !.del = del, !.row = row]
<1>1. TypeOK /\ x \in Context /\ task[t].todo \subseteq Channels /\ x.del \subseteq Channels
  BY DEF IInv, TypeOK, Task, Context
<1>2. /\ task[t].kind = "delete" /\ task[t].pc = "next" /\ c \in task[t].todo
      /\ Advance(t, IF gone THEN "save" ELSE "next", task[t].todo \ {c})
      /\ UNCHANGED <<dbChannels, dbMessages>>
      /\ context' = [context EXCEPT ![t] = y]
  BY DEF VisitChannel, Running
<1>3. context'[t] = y /\ \A u \in Tasks \ {t} : context'[u] = context[u]
  <2> HIDE DEF y
  <2> QED BY <1>1, <1>2, ContextEffect
<1>4. y.del = del /\ y.row = row
  BY <1>1 DEF Context
<1>5. task[t].clean => /\ x.del = {}
                       /\ \A d \in task[t].todo : x.row[d] \in {"current", "changed"}
                       /\ \A d \in task[t].todo : task[t].snap[d] = None => x.row[d] = "current"
  BY <1>2 DEF CleanInv, CleanDeletes
<1>6. \A d \in Channels : x.row[d] = "current" => row[d] = "current"
  BY <1>1, ReadEffect
<1>7. \A d \in Channels : x.row[d] \in {"current", "changed"} => row[d] \in {"current", "changed"}
  BY <1>1, ReadEffect
<1>8. task[t].clean => del = IF gone THEN {c} ELSE {}
  BY <1>5
<1> HIDE DEF x, del, row, y
<1>9. task[t].clean => PartKept(t)
  BY <1>1, <1>2, <1>3, <1>4, <1>5, <1>6, <1>7, <1>8, AdvanceEffect DEF PartKept, x
<1> HIDE DEF gone
<1>10. QED
  BY <1>1, <1>2, <1>3, <1>9, AdvanceEffect, PartKeepsAlone DEF SameTask, Idle

LEMMA FetchChannelAlone ==
  ASSUME IInv, CleanInv, NEW t \in Tasks, FetchChannel(t)
  PROVE  CleanInv'
<1> DEFINE x == context[t]
           c == task[t].channel
           y == [x EXCEPT !.row = Read(t, c)]
<1>1. TypeOK /\ x \in Context
  BY DEF IInv, TypeOK
<1>2. /\ task[t].kind = "messages" /\ c \in Channels
      /\ Advance(t, "list", {})
      /\ UNCHANGED <<dbChannels, dbMessages>>
      /\ context' = [context EXCEPT ![t] = y]
  BY DEF FetchChannel, Running, Rows
<1>3. context'[t] = y /\ \A u \in Tasks \ {t} : context'[u] = context[u]
  BY <1>1, <1>2, ContextEffect
<1>4. y.row[c] = "current"
  BY <1>1, <1>2, ReadEffect DEF Context
<1> HIDE DEF x, y
<1>5. PartKept(t)
  BY <1>1, <1>2, <1>3, <1>4, AdvanceEffect DEF PartKept
<1> HIDE DEF c
<1>6. QED
  BY <1>1, <1>2, <1>3, <1>5, AdvanceEffect, PartKeepsAlone DEF SameTask, Idle

LEMMA AddMessagesAlone ==
  ASSUME IInv, CleanInv, NEW t \in Tasks, AddMessages(t)
  PROVE  CleanInv'
<1> DEFINE x   == context[t]
           c   == task[t].channel
           new == NewMessages(Listed(t), task[t].batch)
           y   == [x EXCEPT !.add = new]
<1>1. TypeOK /\ x \in Context
  BY DEF IInv, TypeOK
<1>2. /\ task[t].kind = "messages" /\ task[t].pc = "list"
      /\ Advance(t, "save", {})
      /\ UNCHANGED <<dbChannels, dbMessages>>
      /\ context' = [context EXCEPT ![t] = y]
  BY DEF AddMessages, Running
<1>3. context'[t] = y /\ \A u \in Tasks \ {t} : context'[u] = context[u]
  BY <1>1, <1>2, ContextEffect
<1>4. y.add = new /\ y.row = x.row
  BY <1>1 DEF Context
<1>5. task[t].clean => x.row[c] = "current" /\ Listed(t) = Stored(c)
  BY <1>2 DEF CleanInv, CleanMessages, Listed
<1> HIDE DEF x, y
<1>6. task[t].clean => PartKept(t)
  BY <1>1, <1>2, <1>3, <1>4, <1>5, AdvanceEffect DEF PartKept
<1> HIDE DEF c, new
<1>7. QED
  BY <1>1, <1>2, <1>3, <1>6, AdvanceEffect, PartKeepsAlone DEF SameTask, Idle

(* The save of an upsert task that meets no other request is refused for a  *)
(* missing name only, and that of a delete task never.                     *)
LEMMA UpsertIsSaved ==
  ASSUME IInv, CleanInv, NEW t \in Tasks, task[t].clean, task[t].kind = "upsert",
         \A c \in Written(t) : task[t].snap[c] # Unnamed
  PROVE  MustSave(t)
<1>1. context[t].del = {} /\ context[t].add = {}
  BY DEF IInv, PendingByKind
<1>2. /\ context[t].ins \cap Rows = {}
      /\ \A c \in context[t].upd : context[t].row[c] = "current"
  BY DEF CleanInv, CleanUpserts, UpsertAlone
<1>3. QED
  BY <1>1, <1>2 DEF MustSave, MaySave, Complete, UniqueIdentifiers, UniqueCreated,
     Unconflicted, Deletable, Written

(* What it has pending then is the document it has just visited.            *)
LEMMA OnePending ==
  ASSUME IInv, CleanInv, NEW t \in Tasks, task[t].clean, task[t].kind = "upsert",
         \A c \in Written(t) : task[t].snap[c] # Unnamed,
         NEW c \in Written(t)
  PROVE  Written(t) = {c} /\ ~Refused(task[t].snap, c)
<1>1. UpsertAlone(t)
  BY DEF CleanInv, CleanUpserts
<1>2. c \in Channels
  BY DEF IInv, TypeOK, Context, Written
<1>3. ~Refused(task[t].snap, c)
  <2> SUFFICES ASSUME NEW d \in Channels, d <= c, task[t].snap[d] = Unnamed
               PROVE  FALSE
    BY DEF Refused
  <2>1. d \in task[t].todo
    BY <1>1 DEF UpsertAlone
  <2>2. c < d
    BY <1>1, <2>1 DEF UpsertAlone
  <2>3. QED
    BY <1>2, <2>2, ChannelsAssumption
<1>4. QED
  BY <1>1, <1>3 DEF UpsertAlone

LEMMA DeleteIsSaved ==
  ASSUME IInv, CleanInv, NEW t \in Tasks, task[t].clean, task[t].kind = "delete"
  PROVE  MustSave(t)
<1>1. context[t].ins = {} /\ context[t].upd = {} /\ context[t].add = {}
  BY DEF IInv, PendingByKind
<1>2. \A c \in context[t].del : context[t].row[c] = "current"
  BY DEF CleanInv, CleanDeletes
<1>3. QED
  BY <1>1, <1>2 DEF MustSave, MaySave, Complete, UniqueIdentifiers, UniqueCreated,
     Unconflicted, Deletable

(* That of a message task is not refused when what it adds is well formed.  *)
LEMMA MessagesAreSaved ==
  ASSUME IInv, CleanInv, NEW t \in Tasks, task[t].clean, task[t].kind = "messages",
         task[t].pc = "save", WellFormed(task[t].channel, context[t].add)
  PROVE  MustSave(t)
<1> DEFINE c == task[t].channel
           add == context[t].add
<1>1. context[t].ins = {} /\ context[t].upd = {} /\ context[t].del = {}
  BY DEF IInv, PendingByKind
<1>2. context[t].row[c] = "current" /\ add = NewMessages(Stored(c), task[t].batch)
  BY DEF CleanInv, CleanMessages
<1>3. c \in Channels /\ task[t].batch \subseteq Messages /\ Stored(c) \subseteq Messages
  BY DEF IInv, PendingFromArguments, TypeOK, Task, Stored
<1>4. add \subseteq task[t].batch /\ \A m \in add : \A n \in Stored(c) : Created[m] > Created[n]
  BY <1>2 DEF NewMessages
<1>5. \A m \in Messages : Created[m] \in Nat
  BY CreatedAssumption
<1>6. UniqueCreated(t)
  <2> SUFFICES ASSUME NEW m \in add
               PROVE  /\ \A n \in add : Created[m] = Created[n] => m = n
                      /\ \A d \in Channels : \A n \in Stored(d) : Created[m] # Created[n]
    BY DEF UniqueCreated
  <2>1. \A n \in Stored(c) : Created[m] # Created[n]
    BY <1>3, <1>4, <1>5
  <2>2. QED
    BY <1>3, <1>4, <2>1 DEF WellFormed
<1>7. Complete(t)
  BY <1>1, <1>4 DEF Complete, WellFormed
<1>8. QED
  BY <1>1, <1>2, <1>6, <1>7 DEF MustSave, MaySave, UniqueIdentifiers, Unconflicted, Deletable

LEMMA SaveFailsAlone ==
  ASSUME IInv, IdleAtRest, CleanInv, NEW t \in Tasks, SaveFails(t)
  PROVE  CleanInv'
<1>1. /\ \A u \in Tasks : task[u] \in Task
      /\ TypeOK'
  BY SaveFailsType DEF IInv, TypeOK
<1>2. ASSUME NEW u \in Tasks
      PROVE  /\ task'[u].kind = task[u].kind /\ task'[u].snap = task[u].snap
             /\ task'[u].channel = task[u].channel /\ task'[u].batch = task[u].batch
             /\ task'[u].todo = task[u].todo
             /\ task'[u].pc = IF u = t THEN "next" ELSE task[u].pc
             /\ task'[u].clean <=> task[u].clean /\ ~MustSave(t)
             /\ ~MustSave(t) => task'[u].before = task[u].before
  BY SaveFailsEffect DEF IInv
<1>3. UNCHANGED <<dbChannels, dbMessages, context>> /\ task[t].pc = "save"
  BY DEF SaveFails
<1>4. CASE MustSave(t) \/ ~task[t].clean
  <2>1. \A u \in Tasks : ~task'[u].clean
    <3>1. CASE MustSave(t)
      BY <1>2, <3>1
    <3>2. CASE ~task[t].clean
      BY <1>2, <1>3, <3>2, NoneClean DEF IdleAtRest
    <3>3. QED
      BY <1>4, <3>1, <3>2
  <2>2. QED
    BY <2>1, NoneCleanAlone
<1>5. CASE ~MustSave(t) /\ task[t].clean
  <2>1. ~Idle(t)
    BY <1>5 DEF CleanInv, CleanAlone
  <2>2. \A u \in Tasks : task[u].clean \in BOOLEAN /\ task'[u].clean \in BOOLEAN
    BY <1>1 DEF Task, TypeOK
  <2>3. task[t].kind # "delete"
    BY <1>5, DeleteIsSaved
  <2>4. PartKept(t)
    <3>1. ASSUME task[t].kind = "upsert"
          PROVE  /\ UpsertAlone(t)'
                 /\ task[t].todo \cup Written(t) \subseteq task'[t].todo \cup Written(t)'
      <4>1. UpsertAlone(t) /\ Written(t)' = Written(t) /\ Rows' = Rows
        BY <1>3, <1>5, <3>1, SameStored DEF CleanInv, CleanUpserts, Written
      <4>2. PICK c \in Written(t) : task[t].snap[c] = Unnamed
        BY <1>5, <3>1, UpsertIsSaved
      <4>3. \A w \in Written(t) : w \in Channels /\ w <= w
        BY ChannelsAssumption DEF IInv, TypeOK, Context, Written
      <4>4. \A w \in Written(t) : Refused(task[t].snap, w)
        BY <4>1, <4>2, <4>3 DEF UpsertAlone, Refused
      <4>5. QED
        BY <1>2, <1>3, <1>5, <4>1, <4>4 DEF UpsertAlone, Refused
    <3>2. QED
      BY <1>2, <1>3, <2>3, <3>1 DEF PartKept
  <2>5. \A u \in Tasks : task'[u].clean = task[u].clean
    BY <1>2, <1>5, <2>2
  <2>6. \A u \in Tasks \ {t} : SameTask(u) /\ context'[u] = context[u]
    BY <1>2, <1>3, <1>5, <2>5 DEF SameTask
  <2>7. QED
    BY <1>2, <1>3, <1>5, <2>1, <2>4, <2>5, <2>6, PartKeepsAlone
<1>6. QED
  BY <1>4, <1>5

LEMMA FetchFailsAlone ==
  ASSUME IInv, CleanInv, NEW t \in Tasks, FetchFails(t)
  PROVE  CleanInv'
<1> DEFINE todo == {c \in task[t].todo : \E d \in task[t].todo : d < c}
           x    == Disturbed[t]
<1>1. Disturbed \in [Tasks -> Task]
  BY DisturbedType DEF IInv
<1>2. task' = [Disturbed EXCEPT ![t] = [x EXCEPT !.pc = "next", !.todo = todo]]
  BY DEF FetchFails
<1>3. \A u \in Tasks : ~Disturbed[u].clean
  BY DisturbedTask DEF Disturbed, IInv
<1> HIDE DEF todo
<1>4. [x EXCEPT !.pc = "next", !.todo = todo].clean = x.clean
  BY <1>1 DEF Task
<1> HIDE DEF x
<1>5. \A u \in Tasks : ~task'[u].clean
  BY <1>1, <1>2, <1>3, <1>4 DEF x
<1>6. QED
  BY <1>5, NoneCleanAlone

LEMMA EndWithAlone ==
  ASSUME NEW cause, EndWith(cause)
  PROVE  CleanInv'
BY NoneCleanAlone DEF EndWith, NoTask

LEMMA FinishAlone ==
  ASSUME IInv, CleanInv, NEW t \in Tasks, Finish(t)
  PROVE  CleanInv'
<1>1. /\ UNCHANGED <<dbChannels, dbMessages>> /\ ~Idle(t)
      /\ task[t].pc = "next" /\ task[t].todo = {}
      /\ task'[t] = NoTask
      /\ \A u \in Tasks \ {t} : task'[u] = task[u] /\ context'[u] = context[u]
  BY DEF Finish, IInv, TypeOK
<1>2. NoTask.kind = "none" /\ ~NoTask.clean
  BY DEF NoTask
<1>3. CASE ~task[t].clean
  BY <1>1, <1>2, <1>3, NoneClean, NoneCleanAlone
<1>4. CASE task[t].clean
  <2>1. Rows' = Rows /\ \A c \in Channels : Stored(c)' = Stored(c)
    BY <1>1, SameStored
  <2>2. CleanAlone'
    BY <1>1, <1>2 DEF CleanInv, CleanAlone, SameRequest, Idle
  <2>3. CleanUpserts' /\ CleanDeletes'
    BY <1>1, <1>2, <2>1 DEF CleanInv, CleanUpserts, CleanDeletes, UpsertAlone, Refused, Written
  <2>4. ASSUME NEW u \in Tasks, task'[u].clean
        PROVE  /\ u # t /\ task[u].clean /\ task[u].snap = task[t].snap
               /\ task'[u] = task[u]
    BY <1>1, <1>2, <1>4, <2>4 DEF CleanInv, CleanAlone, SameRequest, Idle
  <2>5. \A c \in Channels : ToDelete(c) => ToDelete(c)'
    <3>1. task[t].kind = "delete" => context[t].del = {}
      BY <1>1, <1>4 DEF CleanInv, CleanDeletes
    <3>2. QED
      BY <1>1, <3>1 DEF ToDelete
  <2>6. \A c \in Channels : ~Refused(task[t].snap, c) /\ ToUpsert(c) => ToUpsert(c)'
    <3>1. task[t].kind = "upsert" => \A c \in Written(t) : Refused(task[t].snap, c)
      BY <1>1, <1>4 DEF CleanInv, CleanUpserts, UpsertAlone
    <3>2. QED
      BY <1>1, <3>1 DEF ToUpsert, Written
  <2>7. CleanProgress'
    <3> SUFFICES ASSUME NEW u \in Tasks, NEW c \in Channels,
                        task'[u].clean, task'[u].kind \in {"upsert", "delete"}
                 PROVE  IF task[t].snap[c] = None
                        THEN c \in Rows => ToDelete(c)'
                        ELSE \/ dbChannels[c] = Outcome(task[u])[c]
                             \/ dbChannels[c] = task[u].before[c] /\ ToUpsert(c)'
      BY <1>1, <2>1, <2>4 DEF CleanProgress, Outcome
    <3>1. task[u].clean /\ task[u].kind \in {"upsert", "delete"} /\ task[u].snap = task[t].snap
      BY <2>4
    <3>2. CASE task[t].snap[c] = None
      BY <2>5, <3>1, <3>2 DEF CleanInv, CleanProgress
    <3>3. CASE task[t].snap[c] # None
      <4>1. \/ dbChannels[c] = Outcome(task[u])[c]
            \/ dbChannels[c] = task[u].before[c] /\ ToUpsert(c)
        BY <3>1, <3>3 DEF CleanInv, CleanProgress
      <4>2. Refused(task[t].snap, c) => Outcome(task[u])[c] = task[u].before[c]
        BY <3>1, <3>3 DEF Outcome
      <4>3. QED
        BY <2>6, <3>3, <4>1, <4>2
    <3>4. QED
      BY <3>2, <3>3
  <2>8. CleanMessages'
    <3>1. \A u \in Tasks : task'[u].clean => task'[u].kind # "messages"
      BY <1>4, <2>4 DEF CleanInv, CleanAlone, SameRequest, Idle
    <3>2. QED
      BY <3>1 DEF CleanMessages
  <2>9. QED
    BY <2>2, <2>3, <2>7, <2>8 DEF CleanInv
<1>5. QED
  BY <1>3, <1>4

(* The save of one task of a snapshot takes nothing from the other's work.  *)
LEMMA SaveSucceedsAlone ==
  ASSUME IInv, IdleAtRest, CleanInv, NEW t \in Tasks, SaveSucceeds(t)
  PROVE  CleanInv'
<1>1. TypeOK
  BY DEF IInv
<1>2. /\ task[t].pc = "save" /\ \A u \in Tasks \ {t} : task'[u] = task[u]
      /\ task'[t].kind = task[t].kind /\ task'[t].snap = task[t].snap
      /\ task'[t].todo = task[t].todo /\ task'[t].pc = "next"
      /\ task'[t].clean = task[t].clean /\ task'[t].before = task[t].before
  BY <1>1, AdvanceEffect DEF SaveSucceeds
<1>3. /\ ~Idle(t)
      /\ context'[t].ins = {} /\ context'[t].upd = {} /\ context'[t].del = {}
  BY <1>2, SaveContexts DEF IdleAtRest
<1>4. CASE ~task[t].clean
  BY <1>2, <1>3, <1>4, NoneClean, NoneCleanAlone
<1>5. \A c \in Channels :
        dbChannels'[c] = CASE c \in Deleted(t) -> None
                           [] c \in context[t].ins \ Deleted(t) -> WithDate[task[t].snap[c]]
                           [] c \in context[t].upd \ (context[t].ins \cup Deleted(t)) ->
                                task[t].snap[c]
                           [] OTHER -> dbChannels[c]
  BY DEF SaveSucceeds
<1>6. ASSUME task[t].clean, NEW u \in Tasks \ {t}, ~Idle(u)
      PROVE  SameRequest(t, u)
  BY <1>6 DEF CleanInv, CleanAlone
<1>7. CleanAlone'
  BY <1>2 DEF CleanInv, CleanAlone, SameRequest, Idle
<1>8. /\ Deleted(t) \subseteq context[t].del /\ context[t].del \subseteq Channels
      /\ Written(t) \subseteq Channels
      /\ \A u \in Tasks : task[u].todo \subseteq Channels
                        /\ context[u].upd \subseteq Channels /\ context[u].del \subseteq Channels
  BY <1>1 DEF Deleted, TypeOK, Context, Written, Task
<1>9. CASE task[t].clean /\ task[t].kind = "upsert"
  <2>1. /\ context[t].del = {} /\ Deleted(t) = {} /\ Grown(t) = {}
        /\ \A c \in Written(t) : task[t].snap[c] # None
    BY <1>8, <1>9 DEF IInv, PendingByKind, PendingFromArguments, Deleted, Grown
  <2>2. ASSUME NEW u \in Tasks \ {t}, ~Idle(u)
        PROVE  task[u].kind = "delete" /\ task[u].snap = task[t].snap /\ task[u].clean
    BY <1>6, <1>9, <2>2 DEF SameRequest
  <2>3. UpsertAlone(t) /\ \A c \in Written(t) : task[t].snap[c] # Unnamed
    BY <1>9 DEF CleanInv, CleanUpserts, SaveSucceeds, MaySave, Complete, Written
  <2>4. \A c \in Channels : dbChannels'[c] = IF c \in Written(t) THEN Outcome(task[t])[c]
                                                                ELSE dbChannels[c]
    <3> SUFFICES ASSUME NEW c \in Written(t), c \in Channels
                 PROVE  dbChannels'[c] = Outcome(task[t])[c]
      BY <1>5, <2>1 DEF Written
    <3>1. ~Refused(task[t].snap, c) /\ dbChannels[c] = task[t].before[c]
      BY <1>9, <2>3, OnePending DEF UpsertAlone
    <3>2. CASE c \in context[t].ins
      BY <1>5, <2>1, <2>3, <3>1, <3>2 DEF Outcome, UpsertAlone, Rows
    <3>3. CASE c \notin context[t].ins
      <4>1. c \in context[t].upd /\ c \in Rows
        BY <2>3, <3>3 DEF Written, UpsertAlone, IInv, HeldRowsExist
      <4>2. QED
        BY <1>5, <2>1, <3>1, <3>3, <4>1 DEF Outcome, Rows
    <3>4. QED
      BY <3>2, <3>3
  <2>5. CleanUpserts'
    <3>1. \A u \in Tasks \ {t} : task[u].kind # "upsert"
      BY <2>2 DEF Idle
    <3>2. Written(t)' = {}
      BY <1>3 DEF Written
    <3>3. \A c \in Channels : task[t].snap[c] = Unnamed => c \in task[t].todo
      BY <2>3 DEF UpsertAlone
    <3>4. \A c \in task[t].todo : dbChannels'[c] = task[t].before[c]
      <4> SUFFICES ASSUME NEW c \in task[t].todo PROVE dbChannels'[c] = task[t].before[c]
        OBVIOUS
      <4>1. c \in Channels /\ dbChannels[c] = task[t].before[c]
        BY <1>8, <2>3 DEF UpsertAlone
      <4>2. c \notin Written(t)
        BY <2>3, <4>1, ChannelsAssumption DEF UpsertAlone
      <4>3. QED
        BY <2>4, <4>1, <4>2
    <3>5. UpsertAlone(t)'
      BY <1>2, <1>3, <3>2, <3>3, <3>4 DEF UpsertAlone
    <3>6. QED
      BY <1>2, <3>1, <3>5 DEF CleanUpserts
  <2>6. CleanDeletes'
    <3> SUFFICES ASSUME NEW u \in Tasks, task'[u].clean, task'[u].kind = "delete"
                 PROVE  /\ task[u].clean /\ task[u].kind = "delete" /\ task'[u] = task[u]
                        /\ context'[u].del = context[u].del
                        /\ \A c \in task[u].todo \cup context[u].del :
                             /\ context[u].row[c] \in {"current", "changed"} =>
                                  context'[u].row[c] \in {"current", "changed"}
                             /\ context[u].row[c] = "current" /\ task[u].snap[c] = None =>
                                  context'[u].row[c] = "current"
      BY DEF CleanInv, CleanDeletes
    <3>1. u # t
      BY <1>2, <1>9
    <3>2. task[u].kind = "delete" /\ task[u].clean /\ task[u].snap = task[t].snap
      BY <1>2, <2>2, <3>1 DEF Idle
    <3>3. \A c \in Channels : context'[u].row[c] = Overtaken(t, c, context[u].row[c])
      BY <3>1, SaveContexts
    <3>4. context'[u].del = context[u].del
      BY <3>1, SaveContexts
    <3>5. QED
      BY <1>2, <1>8, <2>1, <3>1, <3>2, <3>3, <3>4 DEF Overtaken
  <2>7. CleanProgress'
    <3> SUFFICES ASSUME NEW x \in Tasks, NEW c \in Channels, task'[x].clean
                 PROVE  IF task[t].snap[c] = None
                        THEN c \in Rows' => ToDelete(c)'
                        ELSE \/ dbChannels'[c] = Outcome(task[t])[c]
                             \/ dbChannels'[c] = task[t].before[c] /\ ToUpsert(c)'
      <4>1. ASSUME NEW y \in Tasks, task'[y].clean
            PROVE  /\ task'[y].snap = task[t].snap /\ task'[y].before = task[t].before
                   /\ Outcome(task'[y]) = Outcome(task[t])
        <5>1. y = t \/ (y # t /\ ~Idle(y))
          BY <1>2, <4>1 DEF CleanInv, CleanAlone
        <5>2. y # t /\ ~Idle(y) => SameRequest(t, y)
          BY <1>6, <1>9
        <5>3. task'[y].snap = task[t].snap /\ task'[y].before = task[t].before
          BY <1>2, <5>1, <5>2 DEF SameRequest
        <5>4. QED
          BY <5>3 DEF Outcome
      <4>2. QED
        BY <4>1 DEF CleanProgress
    <3>1. CASE task[t].snap[c] = None
      <4>1. c \in Rows' => c \in Rows
        BY <2>1, <3>1, SaveEffect
      <4>2. c \in Rows => ToDelete(c)
        BY <1>9, <3>1 DEF CleanInv, CleanProgress
      <4>3. ToDelete(c) => ToDelete(c)'
        BY <1>2, <1>9, SaveContexts DEF ToDelete
      <4>4. QED
        BY <3>1, <4>1, <4>2, <4>3
    <3>2. CASE task[t].snap[c] # None /\ c \in Written(t)
      BY <2>4, <3>2
    <3>3. CASE task[t].snap[c] # None /\ c \notin Written(t)
      <4>1. dbChannels'[c] = dbChannels[c]
        BY <2>4, <3>3
      <4>2. \/ dbChannels[c] = Outcome(task[t])[c]
            \/ dbChannels[c] = task[t].before[c] /\ ToUpsert(c)
        BY <1>9, <3>3 DEF CleanInv, CleanProgress
      <4>3. ToUpsert(c) => c \in task[t].todo
        BY <2>2, <3>3 DEF ToUpsert, Idle
      <4>4. c \in task[t].todo => ToUpsert(c)'
        BY <1>2, <1>9 DEF ToUpsert
      <4>5. QED
        BY <3>3, <4>1, <4>2, <4>3, <4>4
    <3>4. QED
      BY <3>1, <3>2, <3>3
  <2>8. CleanMessages'
    BY <1>2, <1>9, <2>2 DEF CleanMessages, Idle
  <2>9. QED
    BY <1>7, <2>5, <2>6, <2>7, <2>8 DEF CleanInv
<1>10. CASE task[t].clean /\ task[t].kind = "delete"
  <2>1. Written(t) = {} /\ Grown(t) = {}
    BY <1>10 DEF IInv, PendingByKind, Written, Grown
  <2>2. /\ Deleted(t) = context[t].del
        /\ \A c \in Deleted(t) : task[t].snap[c] = None /\ c \notin task[t].todo
    BY <1>8, <1>10 DEF CleanInv, CleanDeletes, Deleted
  <2>3. ASSUME NEW u \in Tasks \ {t}, ~Idle(u)
        PROVE  task[u].kind = "upsert" /\ task[u].snap = task[t].snap /\ task[u].clean
    BY <1>6, <1>10, <2>3 DEF SameRequest
  <2>4. CleanUpserts'
    <3> SUFFICES ASSUME NEW u \in Tasks, task'[u].clean, task'[u].kind = "upsert"
                 PROVE  /\ task[u].clean /\ task[u].kind = "upsert" /\ task'[u] = task[u]
                        /\ context'[u].ins = context[u].ins /\ context'[u].upd = context[u].upd
                        /\ Rows' \subseteq Rows
                        /\ \A c \in context[u].upd : context[u].row[c] = "current" =>
                             context'[u].row[c] = "current"
                        /\ \A c \in task[u].todo \cup Written(u) : dbChannels'[c] = dbChannels[c]
      <4>1. ASSUME NEW u \in Tasks, task'[u].clean, task'[u].kind = "upsert"
            PROVE  UpsertAlone(u)'
        <5>1. UpsertAlone(u) /\ Written(u)' = Written(u)
          BY <4>1 DEF CleanInv, CleanUpserts, Written
        <5>2. QED
          BY <4>1, <5>1 DEF UpsertAlone, Refused
      <4>2. QED
        BY <4>1 DEF CleanUpserts
    <3>1. u # t
      BY <1>2, <1>10
    <3>2. task[u].kind = "upsert" /\ task[u].clean /\ task[u].snap = task[t].snap
      BY <1>2, <2>3, <3>1 DEF Idle
    <3>3. \A c \in Channels : context'[u].row[c] = Overtaken(t, c, context[u].row[c])
      BY <3>1, SaveContexts
    <3>4. context'[u].ins = context[u].ins /\ context'[u].upd = context[u].upd
      BY <3>1, SaveContexts
    <3>5. \A c \in task[u].todo \cup Written(u) : c \in Channels /\ task[t].snap[c] # None
      BY <1>1, <3>2 DEF IInv, PendingFromArguments, Written, TypeOK, Task, Context
    <3>6. Rows' \subseteq Rows
      BY <2>1, SaveEffect
    <3>7. \A c \in context[u].upd : context[u].row[c] = "current" =>
            context'[u].row[c] = "current"
      BY <2>1, <2>2, <3>3, <3>5 DEF Overtaken, Written
    <3>8. \A c \in task[u].todo \cup Written(u) : dbChannels'[c] = dbChannels[c]
      BY <1>5, <2>1, <2>2, <3>5 DEF Written
    <3>9. QED
      BY <1>2, <3>1, <3>2, <3>4, <3>6, <3>7, <3>8
  <2>5. CleanDeletes'
    <3> SUFFICES ASSUME NEW u \in Tasks, task'[u].clean, task'[u].kind = "delete"
                 PROVE  /\ u = t
                        /\ \A c \in task[t].todo : context'[t].row[c] = context[t].row[c]
      BY <1>2, <1>3, <1>10 DEF CleanInv, CleanDeletes
    <3>1. u = t
      BY <1>2, <2>3 DEF Idle
    <3>2. context'[t] = [NewContext EXCEPT !.row = [c \in Channels |->
                IF c \in Written(t) \cup Grown(t) \cup context[t].del
                THEN "unread" ELSE context[t].row[c]]]
      BY DEF SaveSucceeds
    <3>3. context'[t].row = [c \in Channels |->
                IF c \in Written(t) \cup Grown(t) \cup context[t].del
                THEN "unread" ELSE context[t].row[c]]
      BY <3>2 DEF NewContext
    <3>4. QED
      BY <1>8, <2>1, <2>2, <3>1, <3>3
  <2>6. CleanProgress'
    <3> SUFFICES ASSUME NEW x \in Tasks, NEW c \in Channels, task'[x].clean
                 PROVE  IF task[t].snap[c] = None
                        THEN c \in Rows' => ToDelete(c)'
                        ELSE \/ dbChannels'[c] = Outcome(task[t])[c]
                             \/ dbChannels'[c] = task[t].before[c] /\ ToUpsert(c)'
      <4>1. ASSUME NEW y \in Tasks, task'[y].clean
            PROVE  /\ task'[y].snap = task[t].snap /\ task'[y].before = task[t].before
                   /\ Outcome(task'[y]) = Outcome(task[t])
        <5>1. y = t \/ (y # t /\ ~Idle(y))
          BY <1>2, <4>1 DEF CleanInv, CleanAlone
        <5>2. y # t /\ ~Idle(y) => SameRequest(t, y)
          BY <1>6, <1>10
        <5>3. task'[y].snap = task[t].snap /\ task'[y].before = task[t].before
          BY <1>2, <5>1, <5>2 DEF SameRequest
        <5>4. QED
          BY <5>3 DEF Outcome
      <4>2. QED
        BY <4>1 DEF CleanProgress
    <3>1. CASE task[t].snap[c] = None
      <4> SUFFICES ASSUME c \in Rows' PROVE ToDelete(c)'
        BY <3>1
      <4>1. c \in Rows /\ c \notin Deleted(t)
        BY <2>1, SaveEffect
      <4>2. ToDelete(c)
        BY <1>10, <3>1, <4>1 DEF CleanInv, CleanProgress
      <4>3. c \in task[t].todo
        BY <1>2, <2>2, <2>3, <4>1, <4>2 DEF ToDelete, Idle
      <4>4. QED
        BY <1>2, <1>10, <4>3 DEF ToDelete
    <3>2. CASE task[t].snap[c] # None
      <4>1. dbChannels'[c] = dbChannels[c]
        BY <1>5, <2>1, <2>2, <3>2 DEF Written
      <4>2. \/ dbChannels[c] = Outcome(task[t])[c]
            \/ dbChannels[c] = task[t].before[c] /\ ToUpsert(c)
        BY <1>10, <3>2 DEF CleanInv, CleanProgress
      <4>3. ToUpsert(c) => ToUpsert(c)'
        BY <1>2, <1>10, SaveContexts DEF ToUpsert, Written
      <4>4. QED
        BY <3>2, <4>1, <4>2, <4>3
    <3>3. QED
      BY <3>1, <3>2
  <2>7. CleanMessages'
    BY <1>2, <1>10, <2>3 DEF CleanMessages, Idle
  <2>8. QED
    BY <1>7, <2>4, <2>5, <2>6, <2>7 DEF CleanInv
<1>11. CASE task[t].clean /\ task[t].kind \notin {"upsert", "delete"}
  <2>1. \A u \in Tasks \ {t} : Idle(u)
    BY <1>6, <1>11 DEF SameRequest
  <2>2. \A u \in Tasks : task'[u].clean => u = t
    BY <1>2, <2>1 DEF CleanInv, CleanAlone, Idle
  <2>3. CleanUpserts' /\ CleanDeletes' /\ CleanProgress' /\ CleanMessages'
    BY <1>2, <1>11, <2>2 DEF CleanUpserts, CleanDeletes, CleanProgress, CleanMessages
  <2>4. QED
    BY <1>7, <2>3 DEF CleanInv
<1>12. QED
  BY <1>4, <1>9, <1>10, <1>11

-----------------------------------------------------------------------------
(* A new request: it is clean if every task was idle.                       *)

LEMMA UpdateChannelsAlone ==
  ASSUME IInv, CleanInv, NEW snap \in Snapshots, UpdateChannels(snap)
  PROVE  CleanInv'
<1> DEFINE newU == [NoTask EXCEPT !.kind = "upsert", !.pc = "next", !.snap = snap,
                                  !.todo = {c \in Channels : snap[c] # None},
                                  !.clean = Quiet, !.before = Before]
           newD == [NoTask EXCEPT !.kind = "delete", !.snap = snap,
                                  !.clean = Quiet, !.before = Before]
<1>1. PICK u \in Tasks, d \in Tasks :
        /\ u # d /\ Idle(u) /\ Idle(d)
        /\ task' = [Disturbed EXCEPT ![u] = newU, ![d] = newD]
  BY DEF UpdateChannels
<1>2. /\ newU.kind = "upsert" /\ newU.pc = "next" /\ newU.snap = snap
      /\ newU.todo = {c \in Channels : snap[c] # None} /\ newU.clean = Quiet
      /\ newD.kind = "delete" /\ newD.pc = "fetch" /\ newD.snap = snap
      /\ newD.todo = {} /\ newD.clean = Quiet
      /\ newU.before = Before /\ newD.before = Before
  BY DEF NoTask
<1>3. UNCHANGED <<dbChannels, dbMessages, context>>
  BY DEF UpdateChannels
<1> HIDE DEF newU, newD
<1>4. /\ task'[u] = newU /\ task'[d] = newD
      /\ \A t \in Tasks \ {u, d} : task'[t] = Unclean(task[t])
  BY <1>1 DEF Disturbed
<1>5. \A t \in Tasks \ {u, d} : task'[t].kind = task[t].kind /\ ~task'[t].clean
  BY <1>4, DisturbedTask DEF IInv
<1>6. CASE ~Quiet
  BY <1>2, <1>4, <1>5, <1>6, NoneCleanAlone
<1>7. CASE Quiet
  <2>1. \A t \in Tasks \ {u, d} : Idle(t)'
    BY <1>5, <1>7 DEF Quiet, Idle
  <2>2. \A t \in Tasks : /\ context[t].ins = {} /\ context[t].upd = {} /\ context[t].del = {}
    BY <1>7 DEF Quiet, Idle, IInv, PendingByKind
  <2>3. Rows' = Rows
    BY <1>3, SameStored
  <2>4. CleanAlone'
    <3>1. ~Idle(u)' /\ ~Idle(d)'
      BY <1>2, <1>4 DEF Idle
    <3>2. SameRequest(u, d)' /\ SameRequest(d, u)'
      BY <1>2, <1>4, <1>7 DEF SameRequest
    <3>3. \A t \in Tasks : task'[t].clean => t = u \/ t = d
      BY <1>5
    <3>4. QED
      BY <1>1, <2>1, <3>1, <3>2, <3>3 DEF CleanAlone
  <2>5. CleanUpserts' /\ CleanDeletes'
    <3>1. Written(u)' = {} /\ newU.before = dbChannels
      BY <1>2, <1>3, <1>7, <2>2 DEF Written, Before
    <3>2. UpsertAlone(u)'
      BY <1>2, <1>3, <1>4, <2>2, <3>1, UnnamedAssumption DEF UpsertAlone
    <3>3. \A t \in Tasks : task'[t].clean /\ task'[t].kind = "upsert" => t = u
      BY <1>2, <1>4, <1>5
    <3>4. CleanUpserts'
      BY <3>2, <3>3 DEF CleanUpserts
    <3>5. CleanDeletes'
      BY <1>2, <1>3, <1>4, <1>5, <2>2 DEF CleanDeletes
    <3>6. QED
      BY <3>4, <3>5
  <2>6. CleanProgress'
    <3>1. \A c \in Channels : ToDelete(c)'
      BY <1>2, <1>4 DEF ToDelete
    <3>2. \A c \in Channels : snap[c] # None => ToUpsert(c)'
      BY <1>2, <1>4 DEF ToUpsert
    <3>3. dbChannels' = dbChannels /\ newU.before = dbChannels /\ newD.before = dbChannels
      BY <1>2, <1>3, <1>7 DEF Before
    <3>4. QED
      BY <1>2, <1>4, <1>5, <3>1, <3>2, <3>3 DEF CleanProgress
  <2>7. CleanMessages'
    BY <1>2, <1>4, <1>5 DEF CleanMessages
  <2>8. QED
    BY <2>4, <2>5, <2>6, <2>7 DEF CleanInv
<1>8. QED
  BY <1>6, <1>7

LEMMA UpdateMessagesAlone ==
  ASSUME IInv, CleanInv, NEW channel \in Channels, NEW batch \in SUBSET Messages,
         UpdateMessages(channel, batch)
  PROVE  CleanInv'
<1> DEFINE new == [NoTask EXCEPT !.kind = "messages", !.channel = channel,
                                 !.batch = batch, !.clean = Quiet]
<1>1. PICK t \in Tasks : Idle(t) /\ task' = [Disturbed EXCEPT ![t] = new]
  BY DEF UpdateMessages
<1>2. new.kind = "messages" /\ new.pc = "fetch" /\ new.clean = Quiet
  BY DEF NoTask
<1> HIDE DEF new
<1>3. /\ task'[t] = new
      /\ \A u \in Tasks \ {t} : task'[u] = Unclean(task[u])
  BY <1>1 DEF Disturbed
<1>4. \A u \in Tasks \ {t} : task'[u].kind = task[u].kind /\ ~task'[u].clean
  BY <1>3, DisturbedTask DEF IInv
<1>5. CASE ~Quiet
  BY <1>2, <1>3, <1>4, <1>5, NoneCleanAlone
<1>6. CASE Quiet
  <2>1. \A u \in Tasks \ {t} : Idle(u)'
    BY <1>4, <1>6 DEF Quiet, Idle
  <2>2. QED
    BY <1>2, <1>3, <1>4, <2>1 DEF CleanInv, CleanAlone, CleanUpserts, CleanDeletes, CleanProgress,
       CleanMessages, Idle
<1>7. QED
  BY <1>5, <1>6

(* What a fetch that fails leaves of the tasks.                             *)
LEMMA FetchFailsEffect ==
  ASSUME TypeOK, NEW t \in Tasks, FetchFails(t), NEW u \in Tasks
  PROVE  /\ task'[u].kind = task[u].kind
         /\ u # t => task'[u].pc = task[u].pc
<1> DEFINE todo == {c \in task[t].todo : \E d \in task[t].todo : d < c}
<1>1. task' = [Disturbed EXCEPT ![t] = [Disturbed[t] EXCEPT !.pc = "next", !.todo = todo]]
  BY DEF FetchFails
<1> HIDE DEF todo
<1>2. task[u] \in Task /\ Disturbed \in [Tasks -> Task]
  BY DisturbedType DEF TypeOK
<1>3. Disturbed[u].kind = task[u].kind /\ Disturbed[u].pc = task[u].pc
  BY DisturbedTask DEF Disturbed
<1>4. task'[u] = IF u = t THEN [Disturbed[u] EXCEPT !.pc = "next", !.todo = todo]
                 ELSE Disturbed[u]
  BY <1>1, <1>2
<1>5. QED
  BY <1>2, <1>3, <1>4 DEF Task

(* A task that is at rest has not begun anything.                           *)
LEMMA RestKept == ASSUME TypeOK, IdleAtRest, [Next]_vars PROVE IdleAtRest'
<1>1. \A u \in Tasks : task[u] \in Task
  BY DEF TypeOK
<1>2. NoTask.pc = "fetch" /\ NoTask.kind = "none"
  BY DEF NoTask
<1>3. CASE Launch \/ UNCHANGED vars
  BY <1>3 DEF Launch, vars, IdleAtRest, Idle
<1>4. ASSUME NEW cause, EndWith(cause) PROVE IdleAtRest'
  BY <1>2, <1>4 DEF EndWith, IdleAtRest
<1>5. ASSUME NEW snap \in Snapshots, UpdateChannels(snap) PROVE IdleAtRest'
  <2> DEFINE newU == [NoTask EXCEPT !.kind = "upsert", !.pc = "next", !.snap = snap,
                                    !.todo = {c \in Channels : snap[c] # None},
                                    !.clean = Quiet, !.before = Before]
             newD == [NoTask EXCEPT !.kind = "delete", !.snap = snap,
                                    !.clean = Quiet, !.before = Before]
  <2>1. PICK u \in Tasks, d \in Tasks : task' = [Disturbed EXCEPT ![u] = newU, ![d] = newD]
    BY <1>5 DEF UpdateChannels
  <2>2. newU.kind = "upsert" /\ newD.kind = "delete"
    BY DEF NoTask
  <2> HIDE DEF newU, newD
  <2>3. \A t \in Tasks : \/ task'[t] \in {newU, newD}
                         \/ task'[t] = Unclean(task[t])
    BY <2>1 DEF Disturbed
  <2>4. ASSUME NEW t \in Tasks, task'[t].kind = "none" PROVE task'[t].pc = "fetch"
    <3>1. task'[t] = Unclean(task[t])
      BY <2>2, <2>3, <2>4
    <3>2. task'[t].kind = task[t].kind /\ task'[t].pc = task[t].pc
      BY <3>1, DisturbedTask
    <3>3. QED
      BY <2>4, <3>2 DEF IdleAtRest, Idle
  <2>5. QED
    BY <2>4 DEF IdleAtRest, Idle
<1>6. ASSUME NEW c \in Channels, NEW batch \in SUBSET Messages, UpdateMessages(c, batch)
      PROVE  IdleAtRest'
  <2> DEFINE new == [NoTask EXCEPT !.kind = "messages", !.channel = c,
                                   !.batch = batch, !.clean = Quiet]
  <2>1. PICK t \in Tasks : task' = [Disturbed EXCEPT ![t] = new]
    BY <1>6 DEF UpdateMessages
  <2>2. new.kind = "messages"
    BY DEF NoTask
  <2> HIDE DEF new
  <2>3. \A u \in Tasks : task'[u] = new \/ task'[u] = Unclean(task[u])
    BY <2>1 DEF Disturbed
  <2>4. ASSUME NEW u \in Tasks, task'[u].kind = "none" PROVE task'[u].pc = "fetch"
    <3>1. task'[u] = Unclean(task[u])
      BY <2>2, <2>3, <2>4
    <3>2. task'[u].kind = task[u].kind /\ task'[u].pc = task[u].pc
      BY <3>1, DisturbedTask
    <3>3. QED
      BY <2>4, <3>2 DEF IdleAtRest, Idle
  <2>5. QED
    BY <2>4 DEF IdleAtRest, Idle
<1>7. ASSUME NEW t \in Tasks, Step(t) PROVE IdleAtRest'
  <2>1. ASSUME NEW pc, NEW todo, Advance(t, pc, todo), ~Idle(t) PROVE IdleAtRest'
    BY <1>1, <2>1, AdvanceEffect DEF TypeOK, IdleAtRest, Idle
  <2>2. CASE \E c \in Channels : UpsertChannel(t, c) \/ VisitChannel(t, c)
    BY <2>1, <2>2 DEF UpsertChannel, VisitChannel, Running, Idle
  <2>3. CASE FetchAll(t) \/ FetchChannel(t) \/ AddMessages(t)
    BY <2>1, <2>3 DEF FetchAll, FetchChannel, AddMessages, Running, Idle
  <2>4. CASE SaveSucceeds(t)
    BY <2>1, <2>4 DEF SaveSucceeds, IdleAtRest
  <2>5. CASE SaveFails(t)
    <3>1. ~Idle(t)
      BY <2>5 DEF SaveFails, IdleAtRest
    <3>2. QED
      BY <2>5, <3>1, SaveFailsEffect DEF IdleAtRest, Idle
  <2>6. CASE FetchFails(t)
    <3>1. ~Idle(t)
      BY <2>6 DEF FetchFails, Running, Idle
    <3>2. QED
      BY <2>6, <3>1, FetchFailsEffect DEF IdleAtRest, Idle
  <2>7. CASE Finish(t)
    BY <1>2, <2>7 DEF Finish, TypeOK, IdleAtRest, Idle
  <2>8. CASE (\E c \in Channels : VisitDeletedChannel(t, c)) \/ AddToMissingChannel(t)
              \/ AddToDeletedChannel(t) \/ AddUndatedMessage(t)
    BY <1>4, <2>8 DEF VisitDeletedChannel, AddToMissingChannel, AddToDeletedChannel,
       AddUndatedMessage
  <2>9. QED
    BY <1>7, <2>2, <2>3, <2>4, <2>5, <2>6, <2>7, <2>8 DEF Step, Work
<1>8. QED
  BY <1>3, <1>4, <1>5, <1>6, <1>7 DEF Next, Request, Kill

LEMMA NextAlone == IInv /\ AloneInv /\ [Next]_vars => AloneInv'
<1> SUFFICES ASSUME IInv, IdleAtRest, CleanInv, [Next]_vars PROVE AloneInv'
  BY DEF AloneInv
<1>1. IdleAtRest'
  BY RestKept DEF IInv
<1>2. CASE Request
  BY <1>1, <1>2, UpdateChannelsAlone, UpdateMessagesAlone DEF Request, AloneInv
<1>3. CASE Kill
  BY <1>1, <1>3, EndWithAlone DEF Kill, AloneInv
<1>4. CASE Launch \/ UNCHANGED vars
  <2>1. UNCHANGED <<dbChannels, dbMessages, task, context>>
    BY <1>4 DEF Launch, vars
  <2>2. CleanInv'
    BY <2>1, SameStored DEF CleanInv, CleanAlone, CleanUpserts, CleanDeletes, CleanProgress,
       CleanMessages, UpsertAlone, Refused, Outcome, SameRequest, Idle, ToUpsert, ToDelete, Written
  <2>3. QED
    BY <1>1, <2>2 DEF AloneInv
<1>5. ASSUME NEW t \in Tasks, Step(t) PROVE CleanInv'
  <2>1. CASE \E c \in Channels : UpsertChannel(t, c)
    BY <2>1, UpsertChannelAlone
  <2>2. CASE \E c \in Channels : VisitChannel(t, c)
    BY <2>2, VisitChannelAlone
  <2>3. CASE (\E c \in Channels : VisitDeletedChannel(t, c)) \/ AddToMissingChannel(t)
              \/ AddToDeletedChannel(t) \/ AddUndatedMessage(t)
    BY <2>3, EndWithAlone DEF VisitDeletedChannel, AddToMissingChannel, AddToDeletedChannel,
       AddUndatedMessage
  <2>4. CASE FetchAll(t)
    BY <2>4, FetchAllAlone
  <2>5. CASE FetchChannel(t)
    BY <2>5, FetchChannelAlone
  <2>6. CASE AddMessages(t)
    BY <2>6, AddMessagesAlone
  <2>7. CASE SaveSucceeds(t)
    BY <2>7, SaveSucceedsAlone
  <2>8. CASE SaveFails(t)
    BY <2>8, SaveFailsAlone
  <2>9. CASE FetchFails(t)
    BY <2>9, FetchFailsAlone
  <2>10. CASE Finish(t)
    BY <2>10, FinishAlone
  <2>11. QED
    BY <1>5, <2>1, <2>2, <2>3, <2>4, <2>5, <2>6, <2>7, <2>8, <2>9, <2>10 DEF Step, Work
<1>6. QED
  BY <1>1, <1>2, <1>3, <1>4, <1>5 DEF Next, AloneInv

(* A request that meets no other goes the way AloneInv says: its tasks are  *)
(* the only ones, what they have pending the store accepts, and what its    *)
(* snapshot wants is stored or one of them has it still to do.             *)
THEOREM AloneInvariant == Spec => []AloneInv
BY InitAlone, NextAlone, Invariant, PTL DEF Spec

(* Both invariants hold of any requests, whether they meet others or not.   *)
THEOREM TasksInvariant == Spec => []TasksInv
BY Invariant, AloneInvariant, PTL DEF TasksInv

(* A task comes to its end by returning, unless the process ends.           *)
LEMMA EndIsFinish ==
  ASSUME TypeOK, [Next]_vars, NEW t \in Tasks, ~Idle(t), Idle(t)', app' = "running"
  PROVE  Finish(t)
<1>1. \A u \in Tasks : task[u] \in Task
  BY DEF TypeOK
<1>2. ~(Launch \/ UNCHANGED vars)
  BY DEF Launch, vars, Idle
<1>3. \A cause : EndWith(cause) => cause = "running"
  BY DEF EndWith
<1>4. ASSUME Disturbed[t].kind = task[t].kind PROVE ~Request
  <2>1. ASSUME NEW snap \in Snapshots PROVE ~UpdateChannels(snap)
    BY <1>4 DEF UpdateChannels, Idle, Disturbed
  <2>2. ASSUME NEW c \in Channels, NEW batch \in SUBSET Messages PROVE ~UpdateMessages(c, batch)
    BY <1>4 DEF UpdateMessages, Idle, Disturbed
  <2>3. QED
    BY <2>1, <2>2 DEF Request
<1>5. Disturbed[t].kind = task[t].kind
  BY DisturbedTask DEF Disturbed
<1>6. ASSUME NEW u \in Tasks, Step(u) PROVE Finish(t)
  <2>1. ASSUME NEW pc, NEW todo PROVE ~Advance(u, pc, todo)
    BY <2>1, AdvanceEffect DEF Idle
  <2>2. ~\E c \in Channels : UpsertChannel(u, c) \/ VisitChannel(u, c)
    BY <2>1 DEF UpsertChannel, VisitChannel
  <2>3. ~(FetchAll(u) \/ FetchChannel(u) \/ AddMessages(u) \/ SaveSucceeds(u))
    BY <2>1 DEF FetchAll, FetchChannel, AddMessages, SaveSucceeds
  <2>4. ~SaveFails(u)
    BY SaveFailsEffect DEF Idle
  <2>5. ~FetchFails(u)
    BY FetchFailsEffect DEF Idle
  <2>6. ~((\E c \in Channels : VisitDeletedChannel(u, c)) \/ AddToMissingChannel(u)
          \/ AddToDeletedChannel(u) \/ AddUndatedMessage(u))
    BY <1>3 DEF VisitDeletedChannel, AddToMissingChannel, AddToDeletedChannel, AddUndatedMessage
  <2>7. Finish(u)
    BY <1>6, <2>2, <2>3, <2>4, <2>5, <2>6 DEF Step, Work
  <2>8. u = t
    BY <2>7 DEF Finish, TypeOK, Idle
  <2>9. QED
    BY <2>7, <2>8
<1>7. QED
  BY <1>2, <1>3, <1>4, <1>5, <1>6 DEF Next, Kill

(* The last task of a request has nothing to do any more, and no other      *)
(* task has.                                                                *)
LEMMA EndsConverged ==
  ASSUME IInv, AloneInv, [Next]_vars, NEW t \in Tasks,
         task[t].kind \in {"upsert", "delete"}, task[t].clean, Quiet', app' = "running"
  PROVE  dbChannels' = Outcome(task[t])
<1>1. TypeOK /\ CleanInv /\ ~Idle(t)
  BY DEF IInv, AloneInv, Idle
<1>2. Finish(t)
  BY <1>1, EndIsFinish DEF Quiet
<1>3. \A u \in Tasks \ {t} : task[u].kind = "none"
  BY <1>1, <1>2 DEF Finish, TypeOK, Quiet, Idle
<1>4. /\ dbChannels' = dbChannels
      /\ task[t].todo = {} /\ task[t].pc = "next"
  BY <1>2 DEF Finish
<1>5. ASSUME NEW c \in Channels, ToUpsert(c) PROVE Refused(task[t].snap, c)
  <2>1. task[t].kind = "upsert" /\ c \in Written(t)
    BY <1>3, <1>4, <1>5 DEF ToUpsert
  <2>2. UpsertAlone(t)
    BY <1>1, <2>1 DEF CleanInv, CleanUpserts
  <2>3. QED
    BY <1>4, <2>1, <2>2 DEF UpsertAlone
<1>6. \A c \in Channels : ~ToDelete(c)
  BY <1>1, <1>3, <1>4 DEF ToDelete, CleanInv, CleanDeletes
<1>7. ASSUME NEW c \in Channels PROVE dbChannels[c] = Outcome(task[t])[c]
  <2>1. CASE task[t].snap[c] = None
    <3>1. c \notin Rows
      BY <1>1, <1>6, <2>1 DEF CleanInv, CleanProgress
    <3>2. QED
      BY <2>1, <3>1 DEF Rows, Outcome
  <2>2. CASE task[t].snap[c] # None
    <3>1. \/ dbChannels[c] = Outcome(task[t])[c]
          \/ dbChannels[c] = task[t].before[c] /\ ToUpsert(c)
      BY <1>1, <2>2 DEF CleanInv, CleanProgress
    <3>2. ToUpsert(c) => Outcome(task[t])[c] = task[t].before[c]
      BY <1>5, <2>2 DEF Outcome
    <3>3. QED
      BY <3>1, <3>2
  <2>3. QED
    BY <2>1, <2>2
<1>8. /\ dbChannels = [c \in Channels |-> dbChannels[c]]
      /\ Outcome(task[t]) = [c \in Channels |-> Outcome(task[t])[c]]
  BY <1>1 DEF TypeOK, Snapshots, Outcome
<1>9. QED
  BY <1>4, <1>7, <1>8

(* The two tasks of a request that meets no other and no I/O error leave    *)
(* one outcome, whatever the order of their steps: the rows of its          *)
(* snapshot, but from its first document without a name on what there was. *)
THEOREM RequestConverges == Spec => ConvergesAlone
<1>1. IInv /\ AloneInv /\ [Next]_vars =>
        [\A t \in Tasks :
           (/\ task[t].kind \in {"upsert", "delete"} /\ task[t].clean
            /\ Quiet' /\ app' = "running")
             => dbChannels' = Outcome(task[t])]_vars
  BY EndsConverged
<1>2. QED
  BY <1>1, Invariant, AloneInvariant, PTL DEF Spec, ConvergesAlone

(* A save comes to its end by storing what is pending, or by failing.       *)
LEMMA SaveEnds ==
  ASSUME TypeOK, [Next]_vars, NEW t \in Tasks, ~Idle(t),
         task[t].pc = "save", task'[t].pc = "next"
  PROVE  SaveSucceeds(t) \/ SaveFails(t)
<1>1. \A u \in Tasks : task[u] \in Task
  BY DEF TypeOK
<1>2. ~(Launch \/ UNCHANGED vars)
  BY DEF Launch, vars
<1>3. \A cause : ~EndWith(cause)
  BY DEF EndWith, NoTask
<1>4. Disturbed[t].pc = "save"
  BY DisturbedTask DEF Disturbed
<1>5. ~Request
  <2>1. ASSUME NEW snap \in Snapshots PROVE ~UpdateChannels(snap)
    BY <1>4 DEF UpdateChannels, Disturbed
  <2>2. ASSUME NEW c \in Channels, NEW batch \in SUBSET Messages PROVE ~UpdateMessages(c, batch)
    BY <1>4 DEF UpdateMessages, Disturbed
  <2>3. QED
    BY <2>1, <2>2 DEF Request
<1>6. ASSUME NEW u \in Tasks, Step(u) PROVE SaveSucceeds(t) \/ SaveFails(t)
  <2>1. ASSUME NEW pc, NEW todo, Advance(u, pc, todo) PROVE u = t
    BY <2>1, AdvanceEffect
  <2>2. ~\E c \in Channels : UpsertChannel(u, c) \/ VisitChannel(u, c)
    BY <2>1 DEF UpsertChannel, VisitChannel, Running
  <2>3. ~(FetchAll(u) \/ FetchChannel(u) \/ AddMessages(u))
    BY <2>1 DEF FetchAll, FetchChannel, AddMessages, Running
  <2>4. SaveSucceeds(u) => u = t
    BY <2>1 DEF SaveSucceeds
  <2>5. SaveFails(u) => u = t
    BY SaveFailsEffect
  <2>6. ~FetchFails(u)
    BY FetchFailsEffect DEF FetchFails, Running
  <2>7. ~Finish(u)
    BY DEF Finish, NoTask, TypeOK
  <2>8. ~((\E c \in Channels : VisitDeletedChannel(u, c)) \/ AddToMissingChannel(u)
          \/ AddToDeletedChannel(u) \/ AddUndatedMessage(u))
    BY <1>3 DEF VisitDeletedChannel, AddToMissingChannel, AddToDeletedChannel, AddUndatedMessage
  <2>9. QED
    BY <1>6, <2>2, <2>3, <2>4, <2>5, <2>6, <2>7, <2>8 DEF Step, Work
<1>7. QED
  BY <1>2, <1>3, <1>5, <1>6 DEF Next, Kill

(* What a message task that was alone has pending is stored, or nothing is. *)
LEMMA BatchStored ==
  ASSUME IInv, AloneInv, [Next]_vars, NEW t \in Tasks, Running(t, "messages", "save"),
         task'[t].pc = "next", task'[t].clean, NEW d \in Channels
  PROVE  LET c   == task[t].channel
             new == {m \in task[t].batch : \A n \in Stored(c) : Created[m] > Created[n]}
         IN  Stored(d)' = Stored(d) \cup (IF d = c /\ WellFormed(c, new) THEN new ELSE {})
<1> DEFINE c   == task[t].channel
           add == context[t].add
<1>1. /\ TypeOK /\ CleanInv /\ c \in Channels
      /\ task[t].kind = "messages" /\ task[t].pc = "save"
  BY DEF IInv, AloneInv, Running, PendingFromArguments
<1>2. SaveSucceeds(t) \/ SaveFails(t)
  BY <1>1, SaveEnds DEF Idle
<1>3. /\ task[t].clean
      /\ SaveFails(t) => ~MustSave(t)
  BY <1>1, <1>2, AdvanceEffect, SaveFailsEffect DEF SaveSucceeds
<1>4. add = {m \in task[t].batch : \A n \in Stored(c) : Created[m] > Created[n]}
  BY <1>1, <1>3 DEF CleanInv, CleanMessages, NewMessages
<1>5. Stored(d)' = Stored(d) \cup (IF d = c /\ WellFormed(c, add) THEN add ELSE {})
  <2>1. CASE SaveFails(t)
    <3>1. Stored(d)' = Stored(d)
      BY <2>1, SameStored DEF SaveFails
    <3>2. ~WellFormed(c, add)
      BY <1>1, <1>3, <2>1, MessagesAreSaved
    <3>3. QED
      BY <3>1, <3>2
  <2>2. CASE SaveSucceeds(t)
    <3>1. Complete(t) /\ UniqueCreated(t)
      BY <2>2 DEF SaveSucceeds, MaySave
    <3>2. WellFormed(c, add)
      <4> SUFFICES ASSUME NEW m \in add
                   PROVE  /\ Created[m] # NoDate
                          /\ \A n \in add : Created[n] = Created[m] => n = m
                          /\ \A e \in Channels \ {c} : \A n \in Stored(e) :
                               Created[n] # Created[m]
        BY DEF WellFormed
      <4>1. /\ Created[m] # NoDate
            /\ \A n \in add : Created[m] = Created[n] => m = n
            /\ \A e \in Channels : \A n \in Stored(e) : Created[m] # Created[n]
        BY <3>1 DEF Complete, UniqueCreated
      <4>2. QED
        BY <4>1
    <3>3. Deleted(t) = {} /\ Grown(t) = IF add = {} THEN {} ELSE {c}
      BY <1>1 DEF IInv, PendingByKind, Deleted, Grown
    <3>4. Stored(d)' = IF d \in Grown(t) THEN Stored(d) \cup add ELSE Stored(d)
      BY <2>2, <3>3, SaveEffect
    <3>5. QED
      BY <3>2, <3>3, <3>4
  <2>3. QED
    BY <1>2, <2>1, <2>2
<1>6. QED
  BY <1>4, <1>5

(* A message task that met no other request and no I/O error stores all of  *)
(* its batch that is new to its channel, or, for one document that breaks a *)
(* constraint, none of it.                                                  *)
THEOREM BatchIsComplete == Spec => MessagesCompleteAlone
<1>1. IInv /\ AloneInv /\ [Next]_vars =>
        [\A t \in Tasks :
           LET c   == task[t].channel
               new == {m \in task[t].batch : \A n \in Stored(c) : Created[m] > Created[n]}
           IN  Running(t, "messages", "save") /\ task'[t].pc = "next" /\ task'[t].clean
                 => \A d \in Channels :
                      Stored(d)' = Stored(d) \cup (IF d = c /\ WellFormed(c, new)
                                                  THEN new ELSE {})]_vars
  BY BatchStored
<1>2. QED
  BY <1>1, Invariant, AloneInvariant, PTL DEF Spec, MessagesCompleteAlone

(* The rows a delete task that is alone has listed are there when it comes  *)
(* to read their identifiers.                                              *)
LEMMA IdentifierLost ==
  ASSUME IInv, AloneInv, [Next]_vars, app = "running",
         app' = "Wrong fetching database. Channel does not have identifier"
  PROVE  \E t \in Tasks : task[t].kind = "delete" /\ ~task[t].clean
<1>1. ~(Launch \/ Kill \/ Request \/ UNCHANGED vars)
  BY DEF Launch, Kill, EndWith, Request, UpdateChannels, UpdateMessages, vars
<1>2. PICK t \in Tasks : Step(t)
  BY <1>1 DEF Next
<1>3. PICK c \in Channels : VisitDeletedChannel(t, c)
  BY <1>2 DEF Step, Work, UpsertChannel, VisitChannel, FetchAll, FetchChannel, AddMessages,
     AddToMissingChannel, AddToDeletedChannel, AddUndatedMessage, SaveSucceeds, SaveFails,
     FetchFails, Finish, EndWith
<1>4. /\ task[t].kind = "delete"
      /\ c \in task[t].todo /\ context[t].row[c] = "gone"
  BY <1>3 DEF VisitDeletedChannel, Running
<1>5. ~task[t].clean
  BY <1>4 DEF AloneInv, CleanInv, CleanDeletes
<1>6. QED
  BY <1>4, <1>5

(* The assertion on the identifier of a listed row fails only when requests *)
(* overlap.                                                                 *)
THEOREM IdentifiersSafeAlone == Spec => IdentifiersLostByOverlapOnly
<1>1. IInv /\ AloneInv /\ [Next]_vars =>
        [app = "running" /\ app' = "Wrong fetching database. Channel does not have identifier" =>
           \E t \in Tasks : task[t].kind = "delete" /\ ~task[t].clean]_vars
  BY IdentifierLost
<1>2. QED
  BY <1>1, Invariant, AloneInvariant, PTL DEF Spec, IdentifiersLostByOverlapOnly
-----------------------------------------------------------------------------
(* The end of the tasks: what is left of one is a number that its steps     *)
(* make smaller.                                                            *)

LEMMA LeastNumber ==
  ASSUME NEW S \in SUBSET Nat, S # {}
  PROVE  \E m \in S : \A n \in S : ~(n < m)
<1> DEFINE R == {p \in Nat \X Nat : p[1] < p[2]}
<1>1. IsWellFoundedOn(R, Nat)
  BY NatLessThanWellFounded DEF OpToRel
<1> HIDE DEF R
<1>2. PICK m \in S : \A n \in S : <<n, m>> \notin R
  BY <1>1, WFMin
<1>3. QED
  BY <1>2 DEF R

LEMMA ChannelsCounted ==
  ASSUME NEW S \in SUBSET Channels
  PROVE  /\ Cardinality(S) \in Nat /\ Cardinality(Channels) \in Nat
         /\ Cardinality(S) <= Cardinality(Channels)
         /\ \A T \in SUBSET S : T # S => Cardinality(T) < Cardinality(S)
         /\ \A c \in S : Cardinality(S \ {c}) < Cardinality(S)
<1>1. IsFiniteSet(S) /\ Cardinality(S) \in Nat /\ Cardinality(Channels) \in Nat
      /\ Cardinality(S) <= Cardinality(Channels)
  BY ChannelsAssumption, FS_Subset, FS_CardinalityType
<1>2. ASSUME NEW T \in SUBSET S, T # S
      PROVE  Cardinality(T) < Cardinality(S)
  <2>1. IsFiniteSet(T) /\ Cardinality(T) <= Cardinality(S) /\ Cardinality(S) # Cardinality(T)
    BY <1>1, <1>2, FS_Subset
  <2>2. Cardinality(T) \in Nat
    BY <2>1, FS_CardinalityType
  <2>3. QED
    BY <1>1, <2>1, <2>2
<1>3. ASSUME NEW c \in S PROVE Cardinality(S \ {c}) < Cardinality(S)
  BY <1>2
<1>4. QED
  BY <1>1, <1>2, <1>3

(* Left, of the record of a task.                                           *)
Ahead(x) ==
  LET phase == [ fetch |-> 2 * Cardinality(Channels) + 2, list |-> 3, save |-> 2, next |-> 1 ]
  IN  IF x.kind = "none" THEN 0 ELSE 2 * Cardinality(x.todo) + phase[x.pc]

LEMMA LeftIsAhead ==
  ASSUME NEW t
  PROVE  Left(t) = Ahead(task[t]) /\ Left(t)' = Ahead(task'[t])
BY DEF Left, Ahead, Idle

LEMMA AheadValue ==
  ASSUME NEW x, x.kind # "none"
  PROVE  /\ x.pc = "fetch" => Ahead(x) = 2 * Cardinality(x.todo) + (2 * Cardinality(Channels) + 2)
         /\ x.pc = "list" => Ahead(x) = 2 * Cardinality(x.todo) + 3
         /\ x.pc = "save" => Ahead(x) = 2 * Cardinality(x.todo) + 2
         /\ x.pc = "next" => Ahead(x) = 2 * Cardinality(x.todo) + 1
BY DEF Ahead

LEMMA AheadType ==
  ASSUME NEW x \in Task
  PROVE  /\ Ahead(x) \in Nat
         /\ x.kind = "none" => Ahead(x) = 0
         /\ x.kind # "none" => Ahead(x) > 0
<1>1. CASE x.kind = "none"
  BY <1>1 DEF Ahead
<1>2. CASE x.kind # "none"
  <2>1. Cardinality(x.todo) \in Nat /\ Cardinality(Channels) \in Nat
    BY ChannelsCounted DEF Task
  <2>2. x.pc \in {"fetch", "list", "save", "next"}
    BY DEF Task
  <2>3. QED
    BY <1>2, <2>1, <2>2, AheadValue
<1>3. QED
  BY <1>1, <1>2

LEMMA AheadSame ==
  ASSUME NEW x, NEW y, y.kind = x.kind, y.todo = x.todo, y.pc = x.pc
  PROVE  Ahead(y) = Ahead(x)
BY DEF Ahead

(* A step that leads a task on shortens it, by the channel it was for or by *)
(* the phase.                                                               *)
LEMMA AdvanceShortens ==
  ASSUME TypeOK, NEW t \in Tasks, ~Idle(t),
         NEW pc \in {"list", "next", "save"}, NEW todo \in SUBSET Channels,
         Advance(t, pc, todo),
         \/ task[t].pc = "fetch" /\ pc = "next"
         \/ task[t].pc = "fetch" /\ pc = "list" /\ todo = {} /\ Channels # {}
         \/ task[t].pc = "list" /\ pc = "save" /\ todo = {}
         \/ /\ task[t].pc = "next" /\ pc \in {"next", "save"}
            /\ \E c \in task[t].todo : todo = task[t].todo \ {c}
         \/ task[t].pc = "save" /\ pc = "next" /\ todo = task[t].todo
  PROVE  Left(t)' < Left(t)
<1> DEFINE x == task[t]
           y == task'[t]
<1>1. x \in Task /\ x.kind # "none"
  BY DEF TypeOK, Idle
<1>2. y.kind = x.kind /\ y.pc = pc /\ y.todo = todo
  BY AdvanceEffect
<1>3. x.todo \in SUBSET Channels
  BY <1>1 DEF Task
<1>4. Left(t) = Ahead(x) /\ Left(t)' = Ahead(y)
  BY LeftIsAhead
<1> DEFINE n == Cardinality(x.todo)
           m == Cardinality(todo)
           all == Cardinality(Channels)
<1> HIDE DEF x, y
<1>5. n \in Nat /\ m \in Nat /\ all \in Nat /\ m <= all
  BY <1>3, ChannelsCounted
<1>6. /\ x.pc = "fetch" => Ahead(x) = 2 * n + (2 * all + 2)
      /\ x.pc = "list" => Ahead(x) = 2 * n + 3
      /\ x.pc = "save" => Ahead(x) = 2 * n + 2
      /\ x.pc = "next" => Ahead(x) = 2 * n + 1
      /\ pc = "list" => Ahead(y) = 2 * m + 3
      /\ pc = "save" => Ahead(y) = 2 * m + 2
      /\ pc = "next" => Ahead(y) = 2 * m + 1
  BY <1>1, <1>2, AheadValue
<1>7. CASE x.pc = "fetch" /\ pc = "next"
  <2> HIDE DEF n, m, all
  <2> QED
    BY <1>4, <1>5, <1>6, <1>7
<1>8. CASE x.pc = "fetch" /\ pc = "list" /\ todo = {} /\ Channels # {}
  <2>1. m = 0 /\ all # 0
    BY <1>8, ChannelsAssumption, FS_EmptySet
  <2> HIDE DEF n, m, all
  <2>2. QED
    BY <1>4, <1>5, <1>6, <1>8, <2>1
<1>9. CASE x.pc = "list" /\ pc = "save" /\ todo = {}
  <2>1. m = 0
    BY <1>9, FS_EmptySet
  <2> HIDE DEF n, m, all
  <2>2. QED
    BY <1>4, <1>5, <1>6, <1>9, <2>1
<1>10. ASSUME NEW c \in x.todo, x.pc = "next", pc \in {"next", "save"}, todo = x.todo \ {c}
       PROVE  Left(t)' < Left(t)
  <2>1. m < n
    BY <1>3, <1>10, ChannelsCounted
  <2> HIDE DEF n, m, all
  <2>2. QED
    BY <1>4, <1>5, <1>6, <1>10, <2>1
<1>11. CASE x.pc = "save" /\ pc = "next" /\ todo = x.todo
  <2>1. m = n
    BY <1>11
  <2> HIDE DEF n, m, all
  <2>2. QED
    BY <1>4, <1>5, <1>6, <1>11, <2>1
<1>12. QED
  BY <1>7, <1>8, <1>9, <1>10, <1>11 DEF x

LEMMA EndLeavesNothing ==
  ASSUME TypeOK, NEW cause, EndWith(cause), NEW u \in Tasks
  PROVE  Left(u)' = 0
<1>1. task'[u] = NoTask
  BY DEF EndWith
<1>2. QED
  BY <1>1, LeftIsAhead DEF Ahead, NoTask

LEMMA SomethingLeft ==
  ASSUME TypeOK, NEW t \in Tasks
  PROVE  /\ Left(t) \in Nat
         /\ IF Idle(t) THEN Left(t) = 0 ELSE Left(t) > 0
<1>1. task[t] \in Task
  BY DEF TypeOK
<1>2. QED
  BY <1>1, LeftIsAhead, AheadType DEF Idle

(* A failed fetch drops the first channel that is left.                     *)
LEMMA FetchFailsShortens ==
  ASSUME TypeOK, NEW t \in Tasks, FetchFails(t)
  PROVE  Left(t)' < Left(t)
<1> DEFINE x == task[t]
           y == task'[t]
           n == Cardinality(x.todo)
           m == Cardinality(y.todo)
           all == Cardinality(Channels)
<1>1. x \in Task /\ x.todo \in SUBSET Channels
  BY DEF TypeOK, Task
<1>2. /\ x.kind # "none"
      /\ x.pc = "fetch" \/ (x.pc = "next" /\ x.todo # {})
  BY DEF FetchFails, Idle, Running
<1>3. y = [Disturbed[t] EXCEPT !.pc = "next",
                               !.todo = {c \in x.todo : \E d \in x.todo : d < c}]
  <2>1. task' = [Disturbed EXCEPT ![t] = [Disturbed[t] EXCEPT !.pc = "next",
                               !.todo = {c \in x.todo : \E d \in x.todo : d < c}]]
    BY DEF FetchFails
  <2>2. QED
    BY <2>1 DEF Disturbed
<1>4. Disturbed[t] \in Task /\ Disturbed[t].kind = x.kind
  BY <1>1, UncleanTask DEF Disturbed
<1>5. /\ y.kind = x.kind /\ y.pc = "next"
      /\ y.todo = {c \in x.todo : \E d \in x.todo : d < c}
  BY <1>3, <1>4 DEF Task
<1>6. Left(t) = Ahead(x) /\ Left(t)' = Ahead(y)
  BY LeftIsAhead
<1> HIDE DEF x, y
<1>7. n \in Nat /\ m \in Nat /\ all \in Nat /\ m <= n /\ m <= all
  <2>1. y.todo \in SUBSET x.todo
    BY <1>5
  <2>2. m <= n
    BY <1>1, <2>1, ChannelsCounted
  <2>3. QED
    BY <1>1, <2>1, <2>2, ChannelsCounted
<1>8. /\ x.pc = "fetch" => Ahead(x) = 2 * n + (2 * all + 2)
      /\ x.pc = "next" => Ahead(x) = 2 * n + 1
      /\ Ahead(y) = 2 * m + 1
  BY <1>2, <1>5, AheadValue
<1>9. x.todo # {} => m < n
  <2> SUFFICES ASSUME x.todo # {} PROVE m < n
    OBVIOUS
  <2>1. PICK c \in x.todo : \A d \in x.todo : ~(d < c)
    BY <1>1, ChannelsAssumption, LeastNumber
  <2>2. y.todo \in SUBSET x.todo /\ y.todo # x.todo
    BY <1>5, <2>1
  <2>3. QED
    BY <1>1, <2>2, ChannelsCounted
<1>10. QED
  <2> HIDE DEF n, m, all
  <2> QED
    BY <1>2, <1>6, <1>7, <1>8, <1>9

LEMMA SaveFailsShortens ==
  ASSUME TypeOK, NEW t \in Tasks, ~Idle(t), SaveFails(t)
  PROVE  Left(t)' < Left(t)
<1> DEFINE x == task[t]
           y == task'[t]
           n == Cardinality(x.todo)
<1>1. x.kind # "none" /\ x.pc = "save"
  BY DEF Idle, SaveFails
<1>2. x.todo \in SUBSET Channels
  BY DEF TypeOK, Task
<1>3. y.kind = x.kind /\ y.pc = "next" /\ y.todo = x.todo
  BY SaveFailsEffect
<1>4. Left(t) = Ahead(x) /\ Left(t)' = Ahead(y)
  BY LeftIsAhead
<1> HIDE DEF x, y
<1>5. n \in Nat /\ Ahead(x) = 2 * n + 2 /\ Ahead(y) = 2 * n + 1
  BY <1>1, <1>2, <1>3, AheadValue, ChannelsCounted
<1>6. QED
  <2> HIDE DEF n
  <2> QED
    BY <1>4, <1>5

LEMMA StepShortens ==
  ASSUME TypeOK, IdleAtRest, NEW t \in Tasks, Step(t)
  PROVE  Left(t)' < Left(t)
<1>1. ~Idle(t)
  BY DEF Step, Work, UpsertChannel, VisitChannel, VisitDeletedChannel, FetchAll, FetchChannel,
         AddMessages, AddToMissingChannel, AddToDeletedChannel, AddUndatedMessage, SaveFails,
         FetchFails, Finish, SaveSucceeds, Running, Idle, IdleAtRest
<1>2. task[t].todo \in SUBSET Channels
  BY DEF TypeOK, Task
<1>3. ASSUME NEW c \in Channels, UpsertChannel(t, c) PROVE Left(t)' < Left(t)
  <2>1. /\ task[t].pc = "next" /\ c \in task[t].todo
        /\ Advance(t, "save", task[t].todo \ {c})
    BY <1>3 DEF UpsertChannel, Running
  <2>2. QED
    BY <1>1, <1>2, <2>1, AdvanceShortens
<1>4. ASSUME NEW c \in Channels, VisitChannel(t, c) PROVE Left(t)' < Left(t)
  <2>1. task[t].pc = "next" /\ c \in task[t].todo
    BY <1>4 DEF VisitChannel, Running
  <2>2. PICK pc \in {"next", "save"} : Advance(t, pc, task[t].todo \ {c})
    BY <1>4 DEF VisitChannel
  <2>3. QED
    BY <1>1, <1>2, <2>1, <2>2, AdvanceShortens
<1>5. CASE FetchAll(t)
  <2>1. task[t].pc = "fetch" /\ Advance(t, "next", Rows) /\ Rows \in SUBSET Channels
    BY <1>5 DEF FetchAll, Running, Rows
  <2>2. QED
    BY <1>1, <2>1, AdvanceShortens
<1>6. CASE FetchChannel(t)
  <2>1. task[t].pc = "fetch" /\ Advance(t, "list", {}) /\ Channels # {}
    BY <1>6 DEF FetchChannel, Running, Rows
  <2>2. QED
    BY <1>1, <2>1, AdvanceShortens
<1>7. CASE AddMessages(t)
  <2>1. task[t].pc = "list" /\ Advance(t, "save", {})
    BY <1>7 DEF AddMessages, Running
  <2>2. QED
    BY <1>1, <2>1, AdvanceShortens
<1>8. CASE SaveSucceeds(t)
  <2>1. task[t].pc = "save" /\ Advance(t, "next", task[t].todo)
    BY <1>8 DEF SaveSucceeds
  <2>2. QED
    BY <1>1, <1>2, <2>1, AdvanceShortens
<1>9. ASSUME NEW cause, EndWith(cause) PROVE Left(t)' < Left(t)
  <2>1. Left(t)' = 0
    BY <1>9, EndLeavesNothing
  <2>2. QED
    BY <1>1, <2>1, SomethingLeft
<1>10. CASE Finish(t)
  <2>1. task'[t] = NoTask
    BY <1>10 DEF Finish, TypeOK
  <2>2. Left(t)' = 0
    BY <2>1, LeftIsAhead DEF Ahead, NoTask
  <2>3. QED
    BY <1>1, <2>2, SomethingLeft
<1>11. CASE \/ \E c \in Channels : VisitDeletedChannel(t, c)
            \/ AddToMissingChannel(t)
            \/ AddToDeletedChannel(t)
            \/ AddUndatedMessage(t)
  BY <1>9, <1>11 DEF VisitDeletedChannel, AddToMissingChannel, AddToDeletedChannel,
     AddUndatedMessage
<1>12. CASE FetchFails(t) \/ SaveFails(t)
  BY <1>1, <1>12, FetchFailsShortens, SaveFailsShortens
<1>13. QED
  BY <1>3, <1>4, <1>5, <1>6, <1>7, <1>8, <1>10, <1>11, <1>12 DEF Step, Work

(* A step of one task, whatever it saves, leaves to every other what that   *)
(* has left, or the process ends.                                           *)
LEMMA StepSparesOthers ==
  ASSUME TypeOK, NEW t \in Tasks, Step(t), NEW u \in Tasks \ {t}
  PROVE  Left(u)' <= Left(u)
<1>1. ASSUME Ahead(task'[u]) = Ahead(task[u]) PROVE Left(u)' <= Left(u)
  BY <1>1, LeftIsAhead, SomethingLeft
<1>2. ASSUME task'[u] = task[u] PROVE Left(u)' <= Left(u)
  BY <1>1, <1>2
<1>3. ASSUME NEW pc, NEW todo, Advance(t, pc, todo) PROVE Left(u)' <= Left(u)
  BY <1>2, <1>3, AdvanceEffect
<1>4. CASE \/ \E c \in Channels : UpsertChannel(t, c) \/ VisitChannel(t, c)
           \/ FetchAll(t) \/ FetchChannel(t) \/ AddMessages(t) \/ SaveSucceeds(t)
  BY <1>3, <1>4 DEF UpsertChannel, VisitChannel, FetchAll, FetchChannel, AddMessages, SaveSucceeds
<1>5. ASSUME NEW cause, EndWith(cause) PROVE Left(u)' <= Left(u)
  BY <1>5, EndLeavesNothing, SomethingLeft
<1>6. CASE \/ \E c \in Channels : VisitDeletedChannel(t, c)
           \/ AddToMissingChannel(t) \/ AddToDeletedChannel(t) \/ AddUndatedMessage(t)
  BY <1>5, <1>6 DEF VisitDeletedChannel, AddToMissingChannel, AddToDeletedChannel,
     AddUndatedMessage
<1>7. CASE SaveFails(t)
  <2>1. task'[u].kind = task[u].kind /\ task'[u].pc = task[u].pc /\ task'[u].todo = task[u].todo
    BY <1>7, SaveFailsEffect
  <2>2. QED
    BY <1>1, <2>1, AheadSame
<1>8. CASE FetchFails(t)
  <2>1. task'[u] = Unclean(task[u])
    BY <1>8 DEF FetchFails, Disturbed
  <2>2. task'[u].kind = task[u].kind /\ task'[u].pc = task[u].pc /\ task'[u].todo = task[u].todo
    BY <2>1, DisturbedTask
  <2>3. QED
    BY <1>1, <2>2, AheadSame
<1>9. CASE Finish(t)
  BY <1>2, <1>9 DEF Finish, TypeOK
<1>10. QED
  BY <1>4, <1>6, <1>7, <1>8, <1>9 DEF Step, Work

(* A request leaves to the tasks there are what they have left, and starts  *)
(* tasks of a bounded length.                                               *)
LEMMA RequestStartsBounded ==
  ASSUME TypeOK, Request, NEW t \in Tasks
  PROVE  Left(t)' <= IF Idle(t) THEN 2 * Cardinality(Channels) + 2 ELSE Left(t)
<1> DEFINE all == Cardinality(Channels)
<1>1. all \in Nat /\ Left(t) \in Nat
  BY ChannelsCounted, SomethingLeft
<1>2. ASSUME task'[t] = Unclean(task[t])
      PROVE  Left(t)' <= IF Idle(t) THEN 2 * all + 2 ELSE Left(t)
  <2>1. task'[t].kind = task[t].kind /\ task'[t].pc = task[t].pc /\ task'[t].todo = task[t].todo
    BY <1>2, DisturbedTask
  <2>2. Left(t)' = Left(t)
    BY <2>1, AheadSame, LeftIsAhead
  <2>3. QED
    <3> HIDE DEF all
    <3> QED
      BY <1>1, <2>2, SomethingLeft
<1>3. ASSUME NEW x, task'[t] = x, x.kind # "none", Idle(t),
             \/ x.pc = "fetch" /\ x.todo = {}
             \/ x.pc = "next" /\ x.todo \in SUBSET Channels
      PROVE  Left(t)' <= IF Idle(t) THEN 2 * all + 2 ELSE Left(t)
  <2> DEFINE n == Cardinality(x.todo)
  <2>1. Left(t)' = Ahead(x)
    BY <1>3, LeftIsAhead
  <2>2. CASE x.pc = "fetch" /\ x.todo = {}
    <3>1. n = 0 /\ Ahead(x) = 2 * n + (2 * all + 2)
      BY <1>3, <2>2, AheadValue, FS_EmptySet
    <3> HIDE DEF n, all
    <3>2. QED
      BY <1>1, <1>3, <2>1, <3>1
  <2>3. CASE x.pc = "next" /\ x.todo \in SUBSET Channels
    <3>1. n \in Nat /\ n <= all /\ Ahead(x) = 2 * n + 1
      BY <1>3, <2>3, AheadValue, ChannelsCounted
    <3> HIDE DEF n, all
    <3>2. QED
      BY <1>1, <1>3, <2>1, <3>1
  <2>4. QED
    BY <1>3, <2>2, <2>3
<1>4. ASSUME NEW snap \in Snapshots, UpdateChannels(snap)
      PROVE  Left(t)' <= IF Idle(t) THEN 2 * all + 2 ELSE Left(t)
  <2> DEFINE newU == [NoTask EXCEPT !.kind = "upsert", !.pc = "next", !.snap = snap,
                                    !.todo = {c \in Channels : snap[c] # None},
                                    !.clean = Quiet, !.before = Before]
             newD == [NoTask EXCEPT !.kind = "delete", !.snap = snap,
                                    !.clean = Quiet, !.before = Before]
  <2>1. PICK u \in Tasks, d \in Tasks :
          /\ u # d /\ Idle(u) /\ Idle(d)
          /\ task' = [Disturbed EXCEPT ![u] = newU, ![d] = newD]
    BY <1>4 DEF UpdateChannels
  <2>2. /\ newU.kind = "upsert" /\ newU.pc = "next" /\ newU.todo \in SUBSET Channels
        /\ newD.kind = "delete" /\ newD.pc = "fetch" /\ newD.todo = {}
    BY DEF NoTask
  <2> HIDE DEF newU, newD, all
  <2>3. CASE t = u
    <3>1. task'[t] = newU
      BY <2>1, <2>3 DEF Disturbed
    <3>2. QED
      BY <1>3, <2>1, <2>2, <2>3, <3>1
  <2>4. CASE t = d
    <3>1. task'[t] = newD
      BY <2>1, <2>4 DEF Disturbed
    <3>2. QED
      BY <1>3, <2>1, <2>2, <2>4, <3>1
  <2>5. CASE t \notin {u, d}
    BY <1>2, <2>1, <2>5 DEF Disturbed
  <2>6. QED
    BY <2>3, <2>4, <2>5
<1>5. ASSUME NEW c \in Channels, NEW batch \in SUBSET Messages, UpdateMessages(c, batch)
      PROVE  Left(t)' <= IF Idle(t) THEN 2 * all + 2 ELSE Left(t)
  <2> DEFINE new == [NoTask EXCEPT !.kind = "messages", !.channel = c,
                                   !.batch = batch, !.clean = Quiet]
  <2>1. PICK u \in Tasks : Idle(u) /\ task' = [Disturbed EXCEPT ![u] = new]
    BY <1>5 DEF UpdateMessages
  <2>2. new.kind = "messages" /\ new.pc = "fetch" /\ new.todo = {}
    BY DEF NoTask
  <2> HIDE DEF new, all
  <2>3. CASE t = u
    <3>1. task'[t] = new
      BY <2>1, <2>3 DEF Disturbed
    <3>2. QED
      BY <1>3, <2>1, <2>2, <2>3, <3>1
  <2>4. CASE t # u
    BY <1>2, <2>1, <2>4 DEF Disturbed
  <2>5. QED
    BY <2>3, <2>4
<1>6. QED
  BY <1>4, <1>5 DEF Request

(* A task has boundedly many steps before it, each of its steps brings it   *)
(* nearer to its end, whatever fails, and nothing others do, however their *)
(* requests overlap, gives it more to do.  Under the fairness of the queues *)
(* this is why every task of CoreDataManager finishes.                      *)
THEOREM TasksNeverGrow == Spec => TasksShorten
<1> DEFINE Shorten == \A t \in Tasks :
             /\ Left(t)' <= IF Idle(t) THEN 2 * Cardinality(Channels) + 2 ELSE Left(t)
             /\ Step(t) => Left(t)' < Left(t)
<1>1. ASSUME IInv, TypeOK, IdleAtRest, Next, NEW t \in Tasks
      PROVE  /\ Left(t)' <= IF Idle(t) THEN 2 * Cardinality(Channels) + 2 ELSE Left(t)
             /\ Step(t) => Left(t)' < Left(t)
  <2> DEFINE all == Cardinality(Channels)
             limit == IF Idle(t) THEN 2 * all + 2 ELSE Left(t)
  <2>1. /\ Left(t) \in Nat /\ all \in Nat
        /\ Idle(t) => Left(t) = 0
    BY <1>1, ChannelsCounted, SomethingLeft
  <2>2. Left(t) <= limit /\ 0 <= limit /\ limit \in Nat
    <3> HIDE DEF all
    <3> QED
      BY <2>1
  <2>3. Step(t) => Left(t)' < Left(t)
    BY <1>1, StepShortens
  <2>4. ASSUME Left(t)' <= Left(t), Left(t)' \in Int PROVE Left(t)' <= limit
    <3> HIDE DEF limit
    <3> QED
      BY <2>1, <2>2, <2>4
  <2>5. Left(t)' \in Int
    <3>1. TypeOK'
      BY <1>1, NextType DEF vars, IInv
    <3>2. Ahead(task'[t]) \in Nat
      BY <3>1, AheadType DEF TypeOK
    <3>3. QED
      BY <3>2, LeftIsAhead
  <2>6. Left(t)' <= limit
    <3>1. CASE Request
      BY <1>1, <3>1, RequestStartsBounded
    <3>2. CASE Kill
      <4>1. Left(t)' = 0
        BY <1>1, <3>2, EndLeavesNothing DEF Kill
      <4>2. QED
        <5> HIDE DEF limit
        <5> QED
          BY <2>2, <4>1
    <3>3. CASE Launch
      <4>1. Left(t)' = Left(t)
        BY <3>3, LeftIsAhead DEF Launch
      <4>2. QED
        <5> HIDE DEF limit
        <5> QED
          BY <2>2, <4>1
    <3>4. ASSUME NEW u \in Tasks, Step(u) PROVE Left(t)' <= limit
      <4>1. CASE u = t
        BY <2>1, <2>3, <2>4, <2>5, <3>4, <4>1
      <4>2. CASE u # t
        BY <1>1, <2>4, <2>5, <3>4, <4>2, StepSparesOthers
      <4>3. QED
        BY <4>1, <4>2
    <3>5. QED
      BY <1>1, <3>1, <3>2, <3>3, <3>4 DEF Next
  <2>7. QED
    BY <2>3, <2>6
<1>2. IInv /\ IdleAtRest /\ [Next]_vars => [Shorten]_vars
  BY <1>1 DEF IInv
<1>3. QED
  BY <1>2, Invariant, AloneInvariant, PTL DEF Spec, TasksShorten, AloneInv
=============================================================================
