--------------------------- MODULE FetchedTableProofs --------------------------
(***************************************************************************)
(* Proofs about FetchedTable, for any identifiers, any number of rows, of  *)
(* reloads that are due and of tasks.                                      *)
(***************************************************************************)
EXTENDS FetchedTable, FiniteSetTheorems, TLAPS

-----------------------------------------------------------------------------
(* Sequences of rows.                                                       *)

LEMMA OrderType ==
  ASSUME NEW s \in Orders
  PROVE  /\ \E n \in 0 .. MaxRows : s \in [1 .. n -> Ids]
         /\ Len(s) \in 0 .. MaxRows /\ DOMAIN s = 1 .. Len(s)
         /\ \A i \in DOMAIN s : s[i] \in Ids
         /\ \A i, j \in DOMAIN s : s[i] = s[j] => i = j
<1>1. PICK n \in 0 .. MaxRows : s \in [1 .. n -> Ids]
  BY DEF Orders
<1>2. s \in Seq(Ids) /\ Len(s) = n
  BY <1>1, BoundsAssumption
<1>3. \A i, j \in DOMAIN s : s[i] = s[j] => i = j
  BY DEF Orders
<1>4. QED
  BY <1>1, <1>2, <1>3

(* As many rows as the order has places.                                    *)
LEMMA OrderSize ==
  ASSUME NEW s \in Orders
  PROVE  IsFiniteSet(Elements(s)) /\ Cardinality(Elements(s)) = Len(s)
<1>1. Len(s) \in Nat /\ DOMAIN s = 1 .. Len(s)
  BY OrderType, BoundsAssumption
<1>2. s \in Bijection(1 .. Len(s), Elements(s))
  <2>1. s \in [1 .. Len(s) -> Elements(s)]
    BY <1>1, OrderType DEF Elements
  <2>2. \A i, j \in 1 .. Len(s) : s[i] = s[j] => i = j
    BY <1>1, OrderType
  <2>3. \A e \in Elements(s) : \E i \in 1 .. Len(s) : s[i] = e
    BY <1>1 DEF Elements
  <2>4. QED
    BY <2>1, <2>2, <2>3 DEF Bijection, Injection, Surjection, IsInjective
<1>3. IsFiniteSet(1 .. Len(s)) /\ Cardinality(1 .. Len(s)) = Len(s)
  <2>1. 1 \in Int /\ Len(s) \in Int
    BY <1>1
  <2>2. /\ IsFiniteSet(1 .. Len(s))
        /\ Cardinality(1 .. Len(s)) = IF 1 > Len(s) THEN 0 ELSE Len(s) - 1 + 1
    BY <2>1, FS_Interval
  <2>3. QED
    BY <1>1, <2>2
<1>4. ExistsBijection(1 .. Len(s), Elements(s))
  BY <1>2 DEF ExistsBijection
<1>5. QED
  BY <1>3, <1>4, FS_Bijection

(* Where no row is removed there are not fewer.                             *)
LEMMA NotFewer ==
  ASSUME NEW old \in Orders, NEW new \in Orders, Elements(old) \subseteq Elements(new)
  PROVE  Len(old) <= Len(new)
BY OrderSize, FS_Subset

LEMMA SizesType ==
  ASSUME TypeOK
  PROVE  /\ database \in Orders /\ fetched \in Orders
         /\ Len(database) \in 0 .. MaxRows /\ Len(fetched) \in 0 .. MaxRows
         /\ \A i \in RowNumbers : i < Len(fetched) => fetched[i + 1] \in Ids
<1>1. database \in Orders /\ fetched \in Orders
  BY DEF TypeOK
<1>2. /\ Len(database) \in 0 .. MaxRows /\ Len(fetched) \in 0 .. MaxRows
      /\ DOMAIN fetched = 1 .. Len(fetched) /\ \A i \in DOMAIN fetched : fetched[i] \in Ids
  BY <1>1, OrderType
<1>3. \A i \in RowNumbers : i < Len(fetched) => i + 1 \in 1 .. Len(fetched)
  BY <1>2, BoundsAssumption DEF RowNumbers
<1>4. QED
  BY <1>1, <1>2, <1>3

LEMMA NoCellsType == /\ NoCells \in [RowNumbers -> Ids \cup {Blank, "off"}]
                     /\ \A i \in RowNumbers : NoCells[i] = "off"
BY DEF NoCells

-----------------------------------------------------------------------------
(* The invariant.                                                           *)

ShownUnlessDue == ~ReloadDue => CellsShowFetched

LEMMA IInvParts ==
  IInv <=> /\ TypeOK /\ RowsCounted /\ FetchedUnlessDue /\ CountOutlivedBy
           /\ ShownUnlessDue /\ RowsOutlastTheirCount
BY DEF IInv, ShownUnlessDue

LEMMA InitInv == Init => IInv
<1> SUFFICES ASSUME Init
             PROVE  IInv
  OBVIOUS
<1>1. database \in Orders /\ Len(database) \in 0 .. MaxRows
  BY OrderType DEF Init
<1>2. TypeOK
  <2>1. update \in [Tasks -> {"idle", "fetch", "reload"}] /\ {removed, failed} \subseteq BOOLEAN
    BY DEF Init
  <2>2. QED
    BY <1>1, <2>1, NoCellsType DEF Init, TypeOK
<1>3. RowsCounted
  BY NoCellsType DEF Init, RowsCounted
<1>4. FetchedUnlessDue /\ RowsOutlastTheirCount
  BY DEF Init, FetchedUnlessDue, RowsOutlastTheirCount
<1>5. CountOutlivedBy
  BY <1>1, BoundsAssumption DEF Init, CountOutlivedBy
<1>6. ShownUnlessDue
  BY NoCellsType DEF Init, ShownUnlessDue, CellsShowFetched
<1>7. QED
  BY <1>2, <1>3, <1>4, <1>5, <1>6, IInvParts

-----------------------------------------------------------------------------
(* The steps of the tasks.                                                  *)

LEMMA SavedInv ==
  ASSUME IInv, NEW t \in Tasks, NEW rows \in Orders, Saved(t, rows)
  PROVE  IInv'
<1>1. TypeOK /\ RowsCounted /\ CountOutlivedBy /\ ShownUnlessDue /\ RowsOutlastTheirCount
  BY IInvParts
<1>2. /\ app = "running" /\ update[t] = "idle" /\ database' = rows
      /\ removed' = (removed \/ ~(Elements(database) \subseteq Elements(rows)))
      /\ update' = [update EXCEPT ![t] = "fetch"]
      /\ UNCHANGED <<table, fetched, reloads, count, cells, asking, chosen, app, failed>>
  BY DEF Saved
<1>3. /\ update' \in [Tasks -> {"idle", "fetch", "reload"}] /\ update'[t] = "fetch"
      /\ \A u \in Tasks \ {t} : update'[u] = update[u]
  BY <1>1, <1>2 DEF TypeOK
<1>4. TypeOK'
  <2>1. removed' \in BOOLEAN
    BY <1>2
  <2>2. QED
    BY <1>1, <1>2, <1>3, <2>1 DEF TypeOK
<1>5. RowsCounted' /\ RowsOutlastTheirCount'
  BY <1>1, <1>2 DEF RowsCounted, RowsOutlastTheirCount
<1>6. FetchedUnlessDue'
  BY <1>3 DEF FetchedUnlessDue
<1>7. CountOutlivedBy'
  BY <1>1, <1>2 DEF CountOutlivedBy
<1>8. ShownUnlessDue'
  BY <1>1, <1>2, <1>3 DEF ShownUnlessDue, ReloadDue, CellsShowFetched
<1>9. QED
  BY <1>4, <1>5, <1>6, <1>7, <1>8 DEF IInv, ShownUnlessDue

LEMMA performFetchingInv ==
  ASSUME IInv, NEW t \in Tasks, performFetching(t)
  PROVE  IInv'
<1>1. TypeOK /\ RowsCounted /\ FetchedUnlessDue /\ CountOutlivedBy /\ RowsOutlastTheirCount
  BY IInvParts
<1>2. /\ app = "running" /\ update[t] = "fetch"
      /\ update' = [update EXCEPT ![t] = "reload"]
      /\ UNCHANGED <<table, database, reloads, count, cells, asking, chosen, app, removed>>
      /\ \/ fetched' = database /\ failed' = FALSE
         \/ fetched' = fetched /\ failed' = TRUE
  BY DEF performFetching
<1>3. update' \in [Tasks -> {"idle", "fetch", "reload"}] /\ update'[t] = "reload"
  BY <1>1, <1>2 DEF TypeOK
<1>4. TypeOK'
  <2>1. fetched' \in Orders
    BY <1>1, <1>2, SizesType
  <2>2. failed' \in BOOLEAN
    BY <1>2
  <2>3. QED
    BY <1>1, <1>2, <1>3, <2>1, <2>2 DEF TypeOK
<1>5. RowsCounted' /\ RowsOutlastTheirCount'
  BY <1>1, <1>2 DEF RowsCounted, RowsOutlastTheirCount
<1>6. FetchedUnlessDue'
  BY <1>2 DEF FetchedUnlessDue
<1>7. CountOutlivedBy'
  <2>1. ASSUME Elements(fetched) \subseteq Elements(database)
        PROVE  Len(fetched) <= Len(database)
    BY <1>1, <2>1, SizesType, NotFewer
  <2>2. Len(database) \in Nat /\ Len(fetched) \in Nat /\ count \in Nat
    BY <1>1, SizesType, BoundsAssumption DEF TypeOK
  <2>3. QED
    BY <1>1, <1>2, <2>1, <2>2 DEF CountOutlivedBy
<1>8. ShownUnlessDue'
  BY <1>3 DEF ShownUnlessDue, ReloadDue
<1>9. QED
  BY <1>4, <1>5, <1>6, <1>7, <1>8 DEF IInv, ShownUnlessDue

LEMMA DispatchReloadInv ==
  ASSUME IInv, NEW t \in Tasks, DispatchReload(t)
  PROVE  IInv'
<1>1. TypeOK /\ RowsCounted /\ FetchedUnlessDue /\ CountOutlivedBy /\ RowsOutlastTheirCount
  BY IInvParts
<1>2. /\ update[t] = "reload" /\ update' = [update EXCEPT ![t] = "idle"]
      /\ reloads' = reloads + 1
      /\ UNCHANGED <<table, database, fetched, count, cells, asking, chosen, app, removed, failed>>
  BY DEF DispatchReload
<1>3. /\ update' \in [Tasks -> {"idle", "fetch", "reload"}]
      /\ \A u \in Tasks : update[u] = "fetch" => update'[u] = "fetch"
  BY <1>1, <1>2 DEF TypeOK
<1>4. reloads' \in Nat /\ reloads' > 0
  BY <1>1, <1>2 DEF TypeOK
<1>5. TypeOK'
  BY <1>1, <1>2, <1>3, <1>4 DEF TypeOK
<1>6. RowsCounted' /\ RowsOutlastTheirCount' /\ CountOutlivedBy'
  BY <1>1, <1>2 DEF RowsCounted, RowsOutlastTheirCount, CountOutlivedBy
<1>7. FetchedUnlessDue'
  BY <1>1, <1>2, <1>3 DEF FetchedUnlessDue
<1>8. ShownUnlessDue'
  BY <1>4 DEF ShownUnlessDue, ReloadDue
<1>9. QED
  BY <1>5, <1>6, <1>7, <1>8 DEF IInv, ShownUnlessDue

-----------------------------------------------------------------------------
(* The steps of the main queue.                                             *)

LEMMA reloadInv ==
  ASSUME IInv, reload
  PROVE  IInv'
<1>1. TypeOK /\ CountOutlivedBy /\ FetchedUnlessDue /\ RowsOutlastTheirCount
  BY IInvParts
<1>2. /\ asking = {} /\ reloads > 0 /\ reloads' = reloads - 1
      /\ count' = Len(fetched) /\ cells' = NoCells
      /\ UNCHANGED <<table, database, fetched, update, asking, chosen, app, removed, failed>>
  BY DEF reload, Main, numberOfRows
<1>3. Len(fetched) \in 0 .. MaxRows /\ Len(fetched) \in Nat
  BY <1>1, SizesType, BoundsAssumption
<1>4. TypeOK'
  <2>1. reloads' \in Nat
    BY <1>1, <1>2 DEF TypeOK
  <2>2. QED
    BY <1>1, <1>2, <1>3, <2>1, NoCellsType DEF TypeOK
<1>5. RowsCounted'
  BY <1>2, NoCellsType DEF RowsCounted
<1>6. FetchedUnlessDue' /\ RowsOutlastTheirCount'
  BY <1>1, <1>2 DEF FetchedUnlessDue, RowsOutlastTheirCount
<1>7. CountOutlivedBy'
  BY <1>1, <1>2, <1>3 DEF CountOutlivedBy
<1>8. ShownUnlessDue'
  BY <1>2, NoCellsType DEF ShownUnlessDue, CellsShowFetched
<1>9. QED
  BY <1>4, <1>5, <1>6, <1>7, <1>8 DEF IInv, ShownUnlessDue

(* A cell on screen changes, and nothing else does but the row that is      *)
(* asked for: what is left to show.                                        *)
LEMMA CellChangeInv ==
  ASSUME IInv, NEW i \in RowNumbers, i < count,
         NEW shown \in Ids \cup {Blank, "off"},
         cells' = [cells EXCEPT ![i] = shown],
         asking' \subseteq RowNumbers, asking' \subseteq asking,
         ReloadDue \/ shown = "off" \/ (i < Len(fetched) /\ shown = fetched[i + 1]),
         UNCHANGED <<table, database, fetched, update, reloads, count, chosen, app, removed, failed>>
  PROVE  IInv'
<1>1. /\ TypeOK /\ RowsCounted /\ FetchedUnlessDue /\ CountOutlivedBy
      /\ ShownUnlessDue /\ RowsOutlastTheirCount
  BY IInvParts
<1>2. /\ cells' \in [RowNumbers -> Ids \cup {Blank, "off"}]
      /\ cells'[i] = shown /\ \A j \in RowNumbers \ {i} : cells'[j] = cells[j]
  BY <1>1 DEF TypeOK
<1>3. TypeOK'
  BY <1>1, <1>2 DEF TypeOK
<1>4. RowsCounted'
  BY <1>1, <1>2 DEF RowsCounted
<1>5. FetchedUnlessDue' /\ CountOutlivedBy' /\ RowsOutlastTheirCount'
  BY <1>1 DEF FetchedUnlessDue, CountOutlivedBy, RowsOutlastTheirCount
<1>6. ShownUnlessDue'
  <2> SUFFICES ASSUME ~ReloadDue
               PROVE  CellsShowFetched'
    BY DEF ShownUnlessDue, ReloadDue
  <2>1. CellsShowFetched
    BY <1>1 DEF ShownUnlessDue
  <2>2. ASSUME NEW j \in RowNumbers, cells'[j] # "off"
        PROVE  j < Len(fetched) /\ cells'[j] = fetched[j + 1]
    <3>1. CASE j = i
      BY <1>2, <2>2, <3>1
    <3>2. CASE j # i
      BY <1>2, <2>1, <2>2, <3>2 DEF CellsShowFetched
    <3>3. QED
      BY <3>1, <3>2
  <2>3. QED
    BY <2>1, <2>2 DEF CellsShowFetched
<1>7. QED
  BY <1>3, <1>4, <1>5, <1>6 DEF IInv, ShownUnlessDue

(* Where no save has removed rows, the app does not end over a row.         *)
LEMMA EndsAfterRemoval ==
  ASSUME IInv, NEW i \in RowNumbers, i < count, NEW wrong, EndsAt(i, wrong)
  PROVE  removed
<1> SUFFICES ASSUME ~removed
             PROVE  FALSE
  OBVIOUS
<1>1. TypeOK /\ count <= Len(fetched) /\ Elements(fetched) \subseteq Elements(database)
  BY IInvParts DEF CountOutlivedBy
<1>2. count \in Nat /\ Len(fetched) \in Nat /\ i \in Nat
  BY <1>1, SizesType, BoundsAssumption DEF TypeOK, RowNumbers
<1>3. ValidIndexPath(i)
  BY <1>1, <1>2 DEF ValidIndexPath
<1>4. i + 1 \in DOMAIN fetched
  BY <1>1, <1>2, <1>3, SizesType, OrderType DEF ValidIndexPath
<1>5. fetched[i + 1] \in Elements(database)
  BY <1>1, <1>4 DEF Elements
<1>6. QED
  BY <1>3, <1>5 DEF EndsAt

(* The app ends: the cells are as they were.                                *)
LEMMA EndInv ==
  ASSUME IInv, NEW i \in RowNumbers, i < count,
         NEW wrong \in Endings,
         EndsAt(i, wrong), asking' \subseteq asking,
         UNCHANGED <<table, database, fetched, update, reloads, count, cells, chosen, removed, failed>>
  PROVE  IInv'
<1>1. /\ TypeOK /\ RowsCounted /\ FetchedUnlessDue /\ CountOutlivedBy /\ ShownUnlessDue
  BY IInvParts
<1>2. TypeOK'
  <2>1. app' \in Endings
    BY DEF EndsAt, Endings
  <2>2. QED
    BY <1>1, <2>1 DEF TypeOK
<1>3. RowsCounted' /\ FetchedUnlessDue' /\ CountOutlivedBy'
  BY <1>1 DEF RowsCounted, FetchedUnlessDue, CountOutlivedBy
<1>4. ShownUnlessDue'
  BY <1>1 DEF ShownUnlessDue, ReloadDue, CellsShowFetched
<1>5. RowsOutlastTheirCount'
  BY EndsAfterRemoval DEF RowsOutlastTheirCount
<1>6. QED
  BY <1>2, <1>3, <1>4, <1>5 DEF IInv, ShownUnlessDue

LEMMA ShowInv ==
  ASSUME IInv, NEW i \in RowNumbers, i < count,
         NEW wrong \in Endings,
         Show(i, wrong), asking' \subseteq asking,
         UNCHANGED <<table, database, fetched, update, reloads, count, chosen, removed, failed>>
  PROVE  IInv'
<1>1. TypeOK
  BY IInvParts
<1>2. CASE ValidIndexPath(i) /\ cells' = [cells EXCEPT ![i] = fetched[i + 1]] /\ UNCHANGED app
  <2>1. fetched[i + 1] \in Ids /\ i < Len(fetched)
    BY <1>1, <1>2, SizesType DEF ValidIndexPath
  <2>2. asking' \subseteq RowNumbers
    BY <1>1 DEF TypeOK
  <2>3. QED
    BY <1>2, <2>1, <2>2, CellChangeInv
<1>3. CASE EndsAt(i, wrong) /\ UNCHANGED cells
  BY <1>3, EndInv
<1>4. QED
  BY <1>2, <1>3 DEF Show

LEMMA ShowMessageInv ==
  ASSUME IInv, NEW i \in RowNumbers, ShowMessage(i)
  PROVE  IInv'
<1>1. /\ i < count /\ Show(i, "Wrong DBMessage") /\ asking' = asking
      /\ UNCHANGED <<table, database, fetched, update, reloads, count, chosen, removed, failed>>
  BY DEF ShowMessage, ComesOnScreen
<1>2. QED
  BY <1>1, ShowInv DEF Endings

LEMMA validateIndexPathInv ==
  ASSUME IInv, NEW i \in RowNumbers, validateIndexPath(i)
  PROVE  IInv'
<1>1. /\ TypeOK /\ RowsCounted /\ FetchedUnlessDue /\ CountOutlivedBy
      /\ ShownUnlessDue /\ RowsOutlastTheirCount
  BY IInvParts
<1>2. /\ i < count /\ asking = {}
      /\ UNCHANGED <<table, database, fetched, update, reloads, count, chosen, app, removed, failed>>
  BY DEF validateIndexPath, ComesOnScreen, Main
<1>3. CASE ValidIndexPath(i)
  <2>1. asking' = {i} /\ UNCHANGED cells
    BY <1>3 DEF validateIndexPath
  <2>2. TypeOK'
    BY <1>1, <1>2, <2>1 DEF TypeOK
  <2>3. RowsCounted'
    BY <1>1, <1>2, <2>1 DEF RowsCounted
  <2>4. FetchedUnlessDue' /\ CountOutlivedBy' /\ RowsOutlastTheirCount'
    BY <1>1, <1>2 DEF FetchedUnlessDue, CountOutlivedBy, RowsOutlastTheirCount
  <2>5. ShownUnlessDue'
    BY <1>1, <1>2, <2>1 DEF ShownUnlessDue, ReloadDue, CellsShowFetched
  <2>6. QED
    BY <2>2, <2>3, <2>4, <2>5 DEF IInv, ShownUnlessDue
<1>4. CASE ~ValidIndexPath(i)
  <2>1. cells' = [cells EXCEPT ![i] = Blank] /\ UNCHANGED asking
    BY <1>4 DEF validateIndexPath
  <2>2. ReloadDue
    BY <1>1, <1>2, <1>4 DEF ShownUnlessDue, CellsShowFetched, ValidIndexPath
  <2>3. asking' \subseteq RowNumbers /\ asking' \subseteq asking
    BY <1>1, <2>1 DEF TypeOK
  <2>4. Blank \in Ids \cup {Blank, "off"}
    OBVIOUS
  <2>5. QED
    BY <1>2, <2>1, <2>2, <2>3, <2>4, CellChangeInv
<1>5. QED
  BY <1>3, <1>4

LEMMA ShowChannelInv ==
  ASSUME IInv, ShowChannel
  PROVE  IInv'
<1>1. TypeOK /\ RowsCounted
  BY IInvParts
<1>2. PICK i \in asking : Show(i, "invalid data from database")
  BY DEF ShowChannel
<1>3. i \in RowNumbers /\ i < count
  BY <1>1 DEF TypeOK, RowsCounted
<1>4. /\ asking' \subseteq asking
      /\ UNCHANGED <<table, database, fetched, update, reloads, count, chosen, removed, failed>>
  BY DEF ShowChannel
<1>5. QED
  BY <1>2, <1>3, <1>4, ShowInv DEF Endings

LEMMA GoesOffScreenInv ==
  ASSUME IInv, NEW i \in RowNumbers, GoesOffScreen(i)
  PROVE  IInv'
<1>1. TypeOK /\ RowsCounted
  BY IInvParts
<1>2. /\ cells[i] # "off" /\ cells' = [cells EXCEPT ![i] = "off"] /\ asking' = asking
      /\ UNCHANGED <<table, database, fetched, update, reloads, count, chosen, app, removed, failed>>
  BY DEF GoesOffScreen
<1>3. i < count /\ asking' \subseteq RowNumbers
  BY <1>1, <1>2 DEF TypeOK, RowsCounted
<1>4. QED
  BY <1>2, <1>3, CellChangeInv

(* A tap or a swipe that does not end the app.                              *)
LEMMA ChosenInv ==
  ASSUME IInv, chosen' \in Ids \cup {"none"},
         UNCHANGED <<table, database, fetched, update, reloads, count, cells, asking, app, removed, failed>>
  PROVE  IInv'
<1>1. /\ TypeOK /\ RowsCounted /\ FetchedUnlessDue /\ CountOutlivedBy
      /\ ShownUnlessDue /\ RowsOutlastTheirCount
  BY IInvParts
<1>2. TypeOK'
  BY <1>1 DEF TypeOK
<1>3. RowsCounted' /\ FetchedUnlessDue' /\ CountOutlivedBy' /\ RowsOutlastTheirCount'
  BY <1>1 DEF RowsCounted, FetchedUnlessDue, CountOutlivedBy, RowsOutlastTheirCount
<1>4. ShownUnlessDue'
  BY <1>1 DEF ShownUnlessDue, ReloadDue, CellsShowFetched
<1>5. QED
  BY <1>2, <1>3, <1>4 DEF IInv, ShownUnlessDue

LEMMA didTapAtInv ==
  ASSUME IInv, NEW i \in RowNumbers, didTapAt(i)
  PROVE  IInv'
<1>1. TypeOK /\ RowsCounted
  BY IInvParts
<1>2. /\ i < count
      /\ UNCHANGED <<table, database, fetched, update, reloads, count, cells, asking, removed, failed>>
  BY <1>1 DEF didTapAt, RowsCounted
<1>3. CASE ValidIndexPath(i)
  <2>1. chosen' \in {fetched[i + 1], "none"} /\ UNCHANGED app
    BY <1>3 DEF didTapAt
  <2>2. chosen' \in Ids \cup {"none"}
    BY <1>1, <1>3, <2>1, SizesType DEF ValidIndexPath
  <2>3. QED
    BY <1>2, <2>1, <2>2, ChosenInv
<1>4. CASE ~ValidIndexPath(i)
  <2>1. app' = "NSRangeException" /\ UNCHANGED chosen
    BY <1>4 DEF didTapAt
  <2>2. EndsAt(i, "Wrong DBMessage")
    BY <1>4, <2>1 DEF EndsAt
  <2>3. QED
    BY <1>2, <2>1, <2>2, EndInv DEF Endings
<1>5. QED
  BY <1>3, <1>4

LEMMA commitDeleteInv ==
  ASSUME IInv, NEW i \in RowNumbers, commitDelete(i)
  PROVE  IInv'
<1>1. TypeOK /\ RowsCounted
  BY IInvParts
<1>2. /\ i < count
      /\ UNCHANGED <<table, database, fetched, update, reloads, count, cells, asking, removed, failed>>
  BY <1>1 DEF commitDelete, RowsCounted
<1>3. CASE ValidIndexPath(i) /\ chosen' = fetched[i + 1] /\ UNCHANGED app
  <2>1. chosen' \in Ids
    BY <1>1, <1>3, SizesType DEF ValidIndexPath
  <2>2. QED
    BY <1>2, <1>3, <2>1, ChosenInv
<1>4. CASE EndsAt(i, "Channel don't have identifier") /\ UNCHANGED chosen
  BY <1>2, <1>4, EndInv DEF Endings
<1>5. QED
  BY <1>3, <1>4 DEF commitDelete

LEMMA UnchangedInv ==
  ASSUME IInv, UNCHANGED vars
  PROVE  IInv'
BY DEF vars, IInv, TypeOK, RowsCounted, FetchedUnlessDue, CountOutlivedBy,
       ReloadDue, CellsShowFetched, RowsOutlastTheirCount

LEMMA NextInv ==
  ASSUME IInv, [Next]_vars
  PROVE  IInv'
<1>1. ASSUME NEW t \in Tasks, NEW rows \in Orders, Saved(t, rows)
      PROVE  IInv'
  BY <1>1, SavedInv
<1>2. ASSUME NEW t \in Tasks, TaskStep(t)
      PROVE  IInv'
  BY <1>2, performFetchingInv, DispatchReloadInv DEF TaskStep
<1>3. CASE reload
  BY <1>3, reloadInv
<1>4. CASE ShowChannel
  BY <1>4, ShowChannelInv
<1>5. CASE Scrolling
  BY <1>5, ShowMessageInv, validateIndexPathInv, GoesOffScreenInv DEF Scrolling
<1>6. ASSUME NEW i \in RowNumbers, didTapAt(i) \/ commitDelete(i)
      PROVE  IInv'
  BY <1>6, didTapAtInv, commitDeleteInv
<1>7. CASE UNCHANGED vars
  BY <1>7, UnchangedInv
<1>8. QED
  BY <1>1, <1>2, <1>3, <1>4, <1>5, <1>6, <1>7 DEF Next

-----------------------------------------------------------------------------
(* The results.                                                             *)

(* A row whose index path the table holds is never asked for past its       *)
(* count; what is fetched is what the database holds or a fetch is due; and *)
(* what is on screen is what is fetched or a reload is due.                *)
THEOREM FetchedTableInvariant == Spec => []IInv
<1>1. Init => IInv
  BY InitInv
<1>2. IInv /\ [Next]_vars => IInv'
  BY NextInv
<1>3. QED
  BY <1>1, <1>2, PTL DEF Spec

(* No NSRangeException and no fatalError from cellForRowAt, didTapAt or     *)
(* commit as long as no save has removed rows, however the fetches of the  *)
(* tasks fall between the count, the index paths and the objects taken.    *)
THEOREM CountsOutlasted == Spec => []RowsOutlastTheirCount
<1>1. IInv => RowsOutlastTheirCount
  BY IInvParts
<1>2. QED
  BY <1>1, FetchedTableInvariant, PTL

(* After overlapping updates have all run, the table is that of the database*)
(* although each fetches and dispatches its reload on its own queue.       *)
THEOREM QuietTableShowsDatabase == Spec => []QuietShowsDatabase
<1>1. IInv => QuietShowsDatabase
  <2> SUFFICES ASSUME IInv, Quiet, ~failed
               PROVE  fetched = database /\ CellsShowFetched
    BY DEF QuietShowsDatabase
  <2>1. TypeOK /\ FetchedUnlessDue /\ ShownUnlessDue
    BY IInvParts
  <2>2. reloads = 0 /\ \A t \in Tasks : update[t] = "idle"
    BY DEF Quiet
  <2>3. fetched = database
    BY <2>1, <2>2 DEF FetchedUnlessDue
  <2>4. ~ReloadDue
    BY <2>2 DEF ReloadDue
  <2>5. QED
    BY <2>1, <2>3, <2>4 DEF ShownUnlessDue
<1>2. QED
  BY <1>1, FetchedTableInvariant, PTL

(* A tap or a swipe means the channel that its cell shows, whatever saves   *)
(* have moved or removed it, unless a fetch has come between and its       *)
(* reload has not.                                                         *)
THEOREM ChosenIsShown == Spec => ChoicesMeanTheirCell
<1>1. ASSUME IInv, ~ReloadDue, NEW i \in RowNumbers, cells[i] # "off"
      PROVE  ValidIndexPath(i) /\ cells[i] = fetched[i + 1]
  BY <1>1, IInvParts DEF ShownUnlessDue, CellsShowFetched, ValidIndexPath
<1>2. ASSUME IInv, NEW i \in RowNumbers, didTapAt(i), ~ReloadDue
      PROVE  MeansItsCell(i) \/ (chosen' = "none" /\ app' = app)
  BY <1>1, <1>2 DEF didTapAt, MeansItsCell
<1>3. ASSUME IInv, NEW i \in RowNumbers, commitDelete(i), ~ReloadDue
      PROVE  MeansItsCell(i) \/ FindsItGone(i)
  BY <1>1, <1>3 DEF commitDelete, EndsAt, MeansItsCell, FindsItGone
<1>4. IInv /\ [Next]_vars =>
        [\A i \in RowNumbers :
           /\ didTapAt(i) => \/ MeansItsCell(i) \/ ReloadDue
                             \/ chosen' = "none" /\ app' = app
           /\ commitDelete(i) => MeansItsCell(i) \/ ReloadDue \/ FindsItGone(i)]_vars
  BY <1>2, <1>3
<1>5. QED
  BY <1>4, FetchedTableInvariant, PTL DEF Spec, ChoicesMeanTheirCell
================================================================================
