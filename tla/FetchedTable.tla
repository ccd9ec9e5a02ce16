------------------------------ MODULE FetchedTable -----------------------------
(***************************************************************************)
(* What a chat screen shows: the table of the channels list or of a        *)
(* conversation, over the rows its NSFetchedResultsController has fetched. *)
(* The background tasks that save run updateData on their own queues: a    *)
(* fetch there, then a reload on the main queue.  In between, and while    *)
(* the table lays out its rows, the table and the fetched rows differ.     *)
(* ChatSession has what leads to a save and the screens that come and go;  *)
(* here the screen stays databaseUpdater.                                  *)
(*                                                                         *)
(* Core Data and UIKit are not under src/.  What is used of them: the view *)
(* context is not merged with saves of others, so that nothing but a fetch *)
(* changes the fetched rows; a fetch is atomic; a table asks for its count *)
(* when it is reloaded and for each cell when its row comes on screen;     *)
(* object(at:) past the end raises NSRangeException; and the attributes of *)
(* a fetched row that a save has removed are nil unless they were read     *)
(* into memory before, so that reading them may find either.               *)
(***************************************************************************)
EXTENDS Naturals, Sequences

CONSTANTS Ids,         \* rows: channels, or messages
          MaxRows,     \* rows the database holds at most (bound)
          MaxReloads,  \* no save while so many reloads are due (bound)
          Tasks,       \* background tasks whose save calls updateData
          Blank        \* a cell that was not configured

ASSUME BoundsAssumption == MaxRows \in Nat /\ MaxReloads \in Nat
ASSUME BlankAssumption == Blank \notin Ids

VARIABLES
  table,     \* whose table: "list" or "conversation"
  database,  \* the rows a fetch would return, in the order of its sort descriptor
  fetched,   \* fetchedObjects of the controller
  update,    \* updateData of each task: "idle", "fetch" or "reload" is next
  reloads,   \* blocks with view.reload() in the main queue
  count,     \* the number of rows the table was given
  cells,     \* for each row on screen, what its cell shows
  asking,    \* the row whose index path is valid and whose cell is configured next: {} or {row}
  chosen,    \* the channel of the last tap or swipe, "none" if it opened none
  app,       \* "running", or the exception or fatalError that ended it
  removed,   \* not in the code: a save has removed rows ...
  failed     \* ... the last fetch met an I/O error

vars == <<table, database, fetched, update, reloads, count, cells, asking, chosen, app, removed, failed>>

Orders == {s \in UNION {[1 .. n -> Ids] : n \in 0 .. MaxRows} :
             \A i, j \in DOMAIN s : s[i] = s[j] => i = j}
RowNumbers == 0 .. MaxRows - 1

Endings == {"NSRangeException", "invalid data from database", "Wrong DBMessage",
            "Channel don't have identifier"}

TypeOK ==
  /\ table \in {"list", "conversation"}
  /\ {database, fetched} \subseteq Orders
  /\ update \in [Tasks -> {"idle", "fetch", "reload"}]
  /\ reloads \in Nat
  /\ count \in 0 .. MaxRows
  /\ cells \in [RowNumbers -> Ids \cup {Blank, "off"}]
  /\ asking \subseteq RowNumbers
  /\ chosen \in Ids \cup {"none"}
  /\ app \in Endings \cup {"running"}
  /\ {removed, failed} \subseteq BOOLEAN

NoCells == [i \in RowNumbers |-> "off"]

(* The data source fetches when it is made.                                 *)
Init == /\ table \in {"list", "conversation"}
        /\ database \in Orders /\ fetched = database
        /\ update = [t \in Tasks |-> "idle"]
        /\ reloads = 0
        /\ count = Len(database) /\ cells = NoCells
        /\ asking = {} /\ chosen = "none"
        /\ app = "running"
        /\ removed = FALSE /\ failed = FALSE

Elements(s) == {s[i] : i \in DOMAIN s}

(***************************************************************************)
(* A save.  Channels come and go and change places; messages are added at  *)
(* the new end, which is the first row, and are removed with their channel.*)
(* What is stored again after it was removed is another row.               *)
(***************************************************************************)
Saved(t, rows) ==
  /\ app = "running" /\ update[t] = "idle" /\ reloads < MaxReloads
  /\ Elements(rows) \cap Elements(fetched) \subseteq Elements(database)
  /\ table = "conversation" => \/ \E new \in Orders : rows = new \o database
                               \/ rows = <<>>
  /\ database' = rows
  /\ removed' = (removed \/ ~(Elements(database) \subseteq Elements(rows)))
  /\ update' = [update EXCEPT ![t] = "fetch"]
  /\ UNCHANGED <<table, fetched, reloads, count, cells, asking, chosen, app, failed>>

(***************************************************************************)
(* updateData.                                                             *)
(***************************************************************************)
(* Mutants: a task leaves the fetch to another that is on its way; a reload *)
(* is dispatched only if the number of rows has changed.                   *)
performFetching_LeftToOther(t) ==
  /\ app = "running" /\ update[t] = "fetch"
  /\ IF \E u \in Tasks : update[u] = "reload"
     THEN UNCHANGED <<fetched, failed>>
     ELSE fetched' = database /\ failed' = FALSE
  /\ update' = [update EXCEPT ![t] = "reload"]
  /\ UNCHANGED <<table, database, reloads, count, cells, asking, chosen, app, removed>>

DispatchReload_OnNewCount(t) ==
  /\ app = "running" /\ update[t] = "reload"
  /\ update' = [update EXCEPT ![t] = "idle"]
  /\ reloads' = IF count = Len(fetched) THEN reloads ELSE reloads + 1
  /\ UNCHANGED <<table, database, fetched, count, cells, asking, chosen, app, removed, failed>>

(* The fetch may meet an I/O error, which is printed.                       *)
performFetching(t) ==
  /\ app = "running" /\ update[t] = "fetch"
  /\ \/ fetched' = database /\ failed' = FALSE
     \/ UNCHANGED fetched /\ failed' = TRUE
  /\ update' = [update EXCEPT ![t] = "reload"]
  /\ UNCHANGED <<table, database, reloads, count, cells, asking, chosen, app, removed>>

DispatchReload(t) ==
  /\ app = "running" /\ update[t] = "reload"
  /\ update' = [update EXCEPT ![t] = "idle"]
  /\ reloads' = reloads + 1
  /\ UNCHANGED <<table, database, fetched, count, cells, asking, chosen, app, removed, failed>>

(***************************************************************************)
(* The main queue.  `asking` is a row in the middle of cellForRowAt: until  *)
(* it is through, nothing else happens here.                               *)
(***************************************************************************)
Main == app = "running" /\ asking = {}

(* Mutants: rows are laid out anew only if their number has changed; the    *)
(* count has one row too many.                                             *)
reload_OnNewCount ==
  /\ Main /\ reloads > 0
  /\ reloads' = reloads - 1
  /\ count' = Len(fetched)
  /\ cells' = IF count = Len(fetched) THEN cells ELSE NoCells
  /\ UNCHANGED <<table, database, fetched, update, asking, chosen, app, removed, failed>>

numberOfRows_OneTooMany == IF Len(fetched) < MaxRows THEN Len(fetched) + 1 ELSE MaxRows

numberOfRows == Len(fetched)

reload ==
  /\ Main /\ reloads > 0
  /\ reloads' = reloads - 1
  /\ count' = numberOfRows
  /\ cells' = NoCells
  /\ UNCHANGED <<table, database, fetched, update, asking, chosen, app, removed, failed>>

ValidIndexPath(i) == i < Len(fetched)

(* The app ends over row i: there is none, or a nil attribute is wrong.     *)
EndsAt(i, wrong) ==
  \/ ~ValidIndexPath(i) /\ app' = "NSRangeException"
  \/ ValidIndexPath(i) /\ fetched[i + 1] \notin Elements(database) /\ app' = wrong

Show(i, wrong) ==
  \/ ValidIndexPath(i) /\ cells' = [cells EXCEPT ![i] = fetched[i + 1]] /\ UNCHANGED app
  \/ EndsAt(i, wrong) /\ UNCHANGED cells

ComesOnScreen(i) == Main /\ i < count /\ cells[i] = "off"

(* The conversation takes the object at once.                               *)
ShowMessage(i) ==
  /\ table = "conversation" /\ ComesOnScreen(i)
  /\ Show(i, "Wrong DBMessage")
  /\ UNCHANGED <<table, database, fetched, update, reloads, count, asking, chosen, removed, failed>>

(* The list validates the index path first, and leaves a cell blank ...     *)
validateIndexPath(i) ==
  /\ table = "list" /\ ComesOnScreen(i)
  /\ IF ValidIndexPath(i)
     THEN asking' = {i} /\ UNCHANGED cells
     ELSE cells' = [cells EXCEPT ![i] = Blank] /\ UNCHANGED asking
  /\ UNCHANGED <<table, database, fetched, update, reloads, count, chosen, app, removed, failed>>

(* ... and takes the object then, while a task may fetch.                   *)
ShowChannel ==
  /\ app = "running"
  /\ \E i \in asking : Show(i, "invalid data from database")
  /\ asking' = {}
  /\ UNCHANGED <<table, database, fetched, update, reloads, count, chosen, removed, failed>>

GoesOffScreen(i) ==
  /\ Main /\ cells[i] # "off"
  /\ cells' = [cells EXCEPT ![i] = "off"]
  /\ UNCHANGED <<table, database, fetched, update, reloads, count, asking, chosen, app, removed, failed>>

(* A channel is opened by the index path of its cell.  Nothing opens while  *)
(* the channel's identifier, or that of the user, is nil.                  *)
didTapAt(i) ==
  /\ table = "list" /\ Main /\ cells[i] # "off"
  /\ IF ValidIndexPath(i)
     THEN chosen' \in {fetched[i + 1], "none"} /\ UNCHANGED app
     ELSE app' = "NSRangeException" /\ UNCHANGED chosen
  /\ UNCHANGED <<table, database, fetched, update, reloads, count, cells, asking, removed, failed>>

(* It is deleted likewise: tableView(_:commit:forRowAt:).                   *)
commitDelete(i) ==
  /\ table = "list" /\ Main /\ cells[i] # "off"
  /\ \/ ValidIndexPath(i) /\ chosen' = fetched[i + 1] /\ UNCHANGED app
     \/ EndsAt(i, "Channel don't have identifier") /\ UNCHANGED chosen
  /\ UNCHANGED <<table, database, fetched, update, reloads, count, cells, asking, removed, failed>>

TaskStep(t) == performFetching(t) \/ DispatchReload(t)

Scrolling == \E i \in RowNumbers : \/ ShowMessage(i)
                                   \/ validateIndexPath(i)
                                   \/ GoesOffScreen(i)

Next == \/ \E t \in Tasks : \/ \E rows \in Orders : Saved(t, rows)
                            \/ TaskStep(t)
        \/ reload
        \/ ShowChannel
        \/ Scrolling
        \/ \E i \in RowNumbers : didTapAt(i) \/ commitDelete(i)

Spec == Init /\ [][Next]_vars

(* The queues of the tasks are served, cellForRowAt returns, and a block of *)
(* the main queue has its turn however often the table is scrolled.        *)
FairSpec == /\ Spec
            /\ \A t \in Tasks : WF_vars(TaskStep(t))
            /\ WF_vars(ShowChannel) /\ SF_vars(reload)

(***************************************************************************)
(* Properties.                                                             *)
(***************************************************************************)
(* Neither table asks for a row past the end of what is fetched, or finds   *)
(* one without attributes, as long as saves only add rows and change their *)
(* places, although every count and index path is of an older fetch.       *)
RowsOutlastTheirCount == app # "running" => removed

(* A fetch the table has not been told of.                                  *)
ReloadDue == reloads > 0 \/ \E t \in Tasks : update[t] = "reload"

CellsShowFetched ==
  /\ count = Len(fetched)
  /\ \A i \in RowNumbers : cells[i] # "off" => i < Len(fetched) /\ cells[i] = fetched[i + 1]

(* A tap or a swipe takes another channel than its cell shows, or finds no  *)
(* row, only between a fetch and the reload that follows: that a save has  *)
(* moved or removed the row is not enough.  At any other time it means the *)
(* channel shown; if that is gone from the database by now, a tap opens it *)
(* or nothing, and a swipe deletes it or ends the app.                     *)
MeansItsCell(i) == chosen' = cells[i] /\ app' = app

FindsItGone(i) == cells[i] \notin Elements(database) /\ app' = "Channel don't have identifier"

ChoicesMeanTheirCell ==
  [][\A i \in RowNumbers :
       /\ didTapAt(i) => \/ MeansItsCell(i) \/ ReloadDue
                         \/ chosen' = "none" /\ app' = app
       /\ commitDelete(i) => MeansItsCell(i) \/ ReloadDue \/ FindsItGone(i)]_vars

(* When all updates are through, the table shows what the database holds:   *)
(* of updates that overlap, the last one to fetch is not the first to have *)
(* saved.                                                                  *)
Quiet == reloads = 0 /\ \A t \in Tasks : update[t] = "idle"

QuietShowsDatabase ==
  app = "running" /\ Quiet /\ ~failed => fetched = database /\ CellsShowFetched

(* Once no save changes the database any more, the table comes to show it,  *)
(* unless a fetch failed or a row was gone.                                *)
CatchesUp ==
  <>[][UNCHANGED database]_vars =>
    <>[](app = "running" /\ ~failed => fetched = database /\ CellsShowFetched)

(***************************************************************************)
(* The inductive invariant behind them.                                    *)
(***************************************************************************)
RowsCounted == \A i \in RowNumbers : cells[i] # "off" \/ i \in asking => i < count

FetchedUnlessDue == fetched = database \/ failed \/ \E t \in Tasks : update[t] = "fetch"

CountOutlivedBy ==
  ~removed => count <= Len(fetched) /\ Elements(fetched) \subseteq Elements(database)

IInv == /\ TypeOK
        /\ RowsCounted
        /\ FetchedUnlessDue
        /\ CountOutlivedBy
        /\ ~ReloadDue => CellsShowFetched
        /\ RowsOutlastTheirCount
================================================================================
