----------------------------- MODULE PicturesProofs ----------------------------
(***************************************************************************)
(* Proofs about Pictures, for any pictures, categories and lists, and any  *)
(* number of cells and of requests under way.                              *)
(***************************************************************************)
EXTENDS Pictures, TLAPS

-----------------------------------------------------------------------------
(* Types.                                                                   *)

LEMMA RowsType == Rows \subseteq Nat /\ 0 \in Rows
<1>1. \A k \in Categories : Len(Hits[k]) \in Nat
  BY HitsAssumption
<1>2. QED
  BY <1>1, HitsAssumption DEF Rows

LEMMA RowOfList ==
  ASSUME NEW k \in Categories, NEW i \in Nat, i < Len(Hits[k])
  PROVE  i \in Rows /\ Hits[k][i + 1] \in Images /\ At(Hits[k][i + 1], i, k)
<1>1. Hits[k] \in Seq(Images)
  BY HitsAssumption
<1>2. i \in 0 .. Len(Hits[k]) /\ i + 1 \in 1 .. Len(Hits[k])
  BY <1>1
<1>3. QED
  BY <1>1, <1>2 DEF Rows, At

LEMMA NoRequestType == NoRequest \in Request
BY RowsType DEF NoRequest, Request

LEMMA NewCellType == NewCell \in Cell
BY RowsType DEF NewCell, Cell

(* A row that is visible is one of a list that was fetched.                 *)
LEMMA PictureAt ==
  ASSUME TypeOK, PicturesFetched, NEW i \in Rows, i < Len(pictures)
  PROVE  pictures[i + 1] \in Images /\ \E k \in fetched : At(pictures[i + 1], i, k)
<1>1. i \in Nat
  BY RowsType
<1>2. pictures # <<>>
  BY <1>1
<1>3. PICK k \in fetched : pictures = Hits[k]
  BY <1>2 DEF PicturesFetched
<1>4. k \in Categories
  BY <1>3 DEF TypeOK
<1>5. QED
  BY <1>1, <1>3, <1>4, RowOfList

-----------------------------------------------------------------------------
(* A request that starts: the request that takes it was free.               *)

NewRequest(w, u, c, i, stage) ==
  [for |-> w, url |-> u, cell |-> c, row |-> i, stage |-> stage]

LEMMA SendStarts ==
  ASSUME TypeOK, NEW w, NEW u, NEW c, NEW i, Send(w, u, c, i)
  PROVE  \E r \in Requests, stage \in {"network", Arrival(w)} :
           /\ Free(r)
           /\ request' = [request EXCEPT ![r] = NewRequest(w, u, c, i, stage)]
           /\ main' = IF stage = "main" THEN Append(main, r) ELSE main
<1> DEFINE stage == IF cached[u] = "good" THEN Arrival(w) ELSE "network"
<1>1. FreeRequest \in Requests /\ Free(FreeRequest)
  BY DEF Send, FreeRequest
<1>2. stage \in {"network", Arrival(w)}
  OBVIOUS
<1>3. QED
  BY <1>1, <1>2 DEF Send, NewRequest

(* The blocks of the main queue, when a request that is not there joins it  *)
(* at its end, with all others as they were.                               *)
LEMMA BlockAppended ==
  ASSUME TypeOK, BlocksOfRequests, NEW r \in Requests, NEW new \in Request,
         new.for # "nothing", request[r].stage # "main" \/ Free(r),
         request' = [request EXCEPT ![r] = new],
         main' = IF new.stage = "main" THEN Append(main, r) ELSE main
  PROVE  BlocksOfRequests' /\ main' \in Seq(Requests)
<1>1. main \in Seq(Requests) /\ request \in [Requests -> Request]
  BY DEF TypeOK
<1>2. \A i \in DOMAIN main : main[i] \in Requests /\ main[i] # r
  BY <1>1 DEF BlocksOfRequests
<1>3. \A i \in DOMAIN main : request'[main[i]] = request[main[i]]
  BY <1>1, <1>2
<1>4. CASE new.stage = "main"
  <2>1. main' = Append(main, r)
    BY <1>4
  <2>2. /\ DOMAIN main' = 1 .. Len(main) + 1 /\ DOMAIN main = 1 .. Len(main)
        /\ \A i \in DOMAIN main : main'[i] = main[i]
        /\ main'[Len(main) + 1] = r
    BY <1>1, <2>1
  <2>3. request'[r] = new
    BY <1>1
  <2>4. QED
    BY <1>1, <1>2, <1>3, <1>4, <2>1, <2>2, <2>3 DEF BlocksOfRequests, Free
<1>5. CASE new.stage # "main"
  BY <1>1, <1>2, <1>3, <1>5 DEF BlocksOfRequests, Free
<1>6. QED
  BY <1>4, <1>5

-----------------------------------------------------------------------------
(* Initial states.                                                          *)

LEMMA InitInv == Init => IInv
<1> SUFFICES ASSUME Init
             PROVE  IInv
  OBVIOUS
<1>1. TypeOK
  <2>1. cells \in [Cells -> Cell] /\ request \in [Requests -> Request]
    BY NoRequestType, NewCellType DEF Init
  <2>2. cached \in [URLs -> {"none", "good", "bad"}]
    BY DEF Init
  <2>3. {open, hidden} \subseteq BOOLEAN
    BY DEF Init
  <2>4. /\ pictures \in Seq(Images) /\ main \in Seq(Requests) /\ fetched \subseteq Categories
        /\ loads \in [wanted : Categories, course : {"alone", "overlapped", "failed"}]
    BY HitsAssumption DEF Init
  <2>5. QED
    BY <2>1, <2>2, <2>3, <2>4 DEF TypeOK
<1>2. RequestsMatchScreen
  BY DEF Init, RequestsMatchScreen, Free, NoRequest
<1>3. PicturesFetched /\ BlocksOfRequests /\ LoadedAlone
  BY DEF Init, PicturesFetched, BlocksOfRequests, LoadedAlone
<1>4. OneListAlone
  BY DEF Init, OneListAlone, NoRequest
<1>5. RowsExist /\ ImagesAtTheirRow
  BY DEF Init, RowsExist, ImagesAtTheirRow, NewCell
<1>6. QED
  BY <1>1, <1>2, <1>3, <1>4, <1>5 DEF IInv

-----------------------------------------------------------------------------
(* Requests that start.                                                     *)

(* A request for a list, when it is the only one or others are noted.       *)
LEMMA FetchingInv ==
  ASSUME IInv, NEW k \in Categories, fetchingData(k), open',
         UNCHANGED <<pictures, cells, cached, fetched>>
  PROVE  IInv'
<1>1. TypeOK /\ RequestsMatchScreen /\ OneListAlone /\ BlocksOfRequests
  BY DEF IInv
<1>2. Wanting(k) \in [wanted : Categories, course : {"alone", "overlapped", "failed"}]
  BY DEF Wanting
<1>3. CASE cached[k] = "bad"
  <2>1. loads' = Failed(Wanting(k)) /\ UNCHANGED <<request, main>> /\ hidden' = TRUE
    BY <1>3 DEF fetchingData
  <2>2. /\ loads' \in [wanted : Categories, course : {"alone", "overlapped", "failed"}]
        /\ loads'.course = "failed"
    BY <1>2, <2>1 DEF Failed
  <2>3. TypeOK'
    BY <1>1, <2>1, <2>2 DEF TypeOK
  <2>4. RequestsMatchScreen' /\ BlocksOfRequests'
    BY <1>1, <2>1 DEF RequestsMatchScreen, BlocksOfRequests, Free
  <2>5. OneListAlone' /\ LoadedAlone'
    BY <2>2 DEF OneListAlone, LoadedAlone
  <2>6. PicturesFetched' /\ RowsExist' /\ ImagesAtTheirRow'
    BY DEF IInv, PicturesFetched, RowsExist, ImagesAtTheirRow
  <2>7. QED
    BY <2>3, <2>4, <2>5, <2>6 DEF IInv
<1>4. CASE cached[k] # "bad"
  <2>1. loads' = Wanting(k) /\ Send("list", k, Nil, 0) /\ hidden' = TRUE
    BY <1>4 DEF fetchingData
  <2>2. PICK r \in Requests, stage \in {"network", "delayed"} :
          /\ Free(r)
          /\ request' = [request EXCEPT ![r] = NewRequest("list", k, Nil, 0, stage)]
          /\ main' = IF stage = "main" THEN Append(main, r) ELSE main
    BY <1>1, <2>1, SendStarts DEF Arrival
  <2> DEFINE new == NewRequest("list", k, Nil, 0, stage)
  <2>3. new \in Request /\ new.for = "list" /\ new.url = k /\ new.stage = stage
    BY RowsType DEF NewRequest, Request, URLs
  <2>4. request \in [Requests -> Request] /\ request' \in [Requests -> Request]
    BY <1>1, <2>2, <2>3 DEF TypeOK
  <2>5. \A q \in Requests : request'[q] = IF q = r THEN new ELSE request[q]
    BY <2>2, <2>4
  <2> HIDE DEF new
  <2>6. BlocksOfRequests' /\ main' \in Seq(Requests)
    BY <1>1, <2>2, <2>3, BlockAppended DEF new
  <2>7. TypeOK'
    BY <1>1, <1>2, <2>1, <2>4, <2>6 DEF TypeOK
  <2>8. RequestsMatchScreen'
    BY <1>1, <2>2, <2>3, <2>5 DEF RequestsMatchScreen, Free, URLs
  <2>9. OneListAlone'
    <3> SUFFICES ASSUME loads'.course = "alone"
                 PROVE  /\ ~ListUnderWay
                        /\ loads'.wanted = k
      BY <2>3, <2>5 DEF OneListAlone, ListUnderWay
    <3>1. QED
      BY <2>1 DEF Wanting
  <2>10. LoadedAlone'
    BY <2>3, <2>5 DEF LoadedAlone, ListUnderWay
  <2>11. PicturesFetched' /\ RowsExist' /\ ImagesAtTheirRow'
    BY DEF IInv, PicturesFetched, RowsExist, ImagesAtTheirRow
  <2>12. QED
    BY <2>6, <2>7, <2>8, <2>9, <2>10, <2>11 DEF IInv
<1>5. QED
  BY <1>3, <1>4

LEMMA viewDidLoadInv == IInv /\ viewDidLoad => IInv'
BY HitsAssumption, FetchingInv DEF viewDidLoad

LEMMA didTapInv ==
  ASSUME IInv, NEW k \in Categories, didTap(k)
  PROVE  IInv'
BY FetchingInv DEF didTap

(* A row comes on screen.                                                   *)
LEMMA cellForItemAtInv ==
  ASSUME IInv, NEW c \in Cells, NEW i \in Rows, cellForItemAt(c, i)
  PROVE  IInv'
<1>1. TypeOK /\ PicturesFetched /\ RequestsMatchScreen /\ OneListAlone /\ BlocksOfRequests
  BY DEF IInv
<1> DEFINE u == pictures[i + 1]
<1>2. u \in Images /\ \E k \in fetched : At(u, i, k)
  BY <1>1, PictureAt DEF cellForItemAt
<1>3. Send("cell", u, c, i)
  BY DEF cellForItemAt
<1> HIDE DEF u
<1>4. PICK r \in Requests, stage \in {"network", "main"} :
        /\ Free(r)
        /\ request' = [request EXCEPT ![r] = NewRequest("cell", u, c, i, stage)]
        /\ main' = IF stage = "main" THEN Append(main, r) ELSE main
  BY <1>1, <1>3, SendStarts DEF Arrival
<1> DEFINE new == NewRequest("cell", u, c, i, stage)
<1>5. /\ new \in Request /\ new.for = "cell" /\ new.url = u /\ new.stage = stage
      /\ new.cell = c /\ new.row = i
  BY <1>2 DEF NewRequest, Request, URLs
<1>6. request \in [Requests -> Request] /\ request' \in [Requests -> Request]
  BY <1>1, <1>4, <1>5 DEF TypeOK
<1>7. \A q \in Requests : request'[q] = IF q = r THEN new ELSE request[q]
  BY <1>4, <1>6
<1> HIDE DEF new
<1>8. BlocksOfRequests' /\ main' \in Seq(Requests)
  BY <1>1, <1>4, <1>5, BlockAppended DEF new
<1> DEFINE cell == [visible |-> TRUE, tag |-> i, image |-> Nil, failed |-> FALSE]
<1>9. cells' = [cells EXCEPT ![c] = cell] /\ cell \in Cell
  BY DEF cellForItemAt, Cell
<1>10. \A d \in Cells : cells'[d] = IF d = c THEN cell ELSE cells[d]
  BY <1>1, <1>9 DEF TypeOK
<1>11. TypeOK'
  BY <1>1, <1>6, <1>8, <1>9 DEF TypeOK, cellForItemAt
<1>12. RequestsMatchScreen'
  BY <1>1, <1>2, <1>5, <1>7 DEF RequestsMatchScreen, Free, URLs, cellForItemAt
<1>13. OneListAlone'
  BY <1>1, <1>5, <1>7 DEF OneListAlone, cellForItemAt
<1>14. LoadedAlone'
  <2>1. ListUnderWay' <=> ListUnderWay
    BY <1>4, <1>5, <1>7 DEF ListUnderWay, Free
  <2>2. QED
    BY <2>1 DEF IInv, LoadedAlone, cellForItemAt
<1>15. PicturesFetched'
  BY <1>1 DEF PicturesFetched, cellForItemAt
<1>16. RowsExist' /\ ImagesAtTheirRow'
  BY <1>10 DEF IInv, RowsExist, ImagesAtTheirRow, cellForItemAt
<1>17. QED
  BY <1>8, <1>11, <1>12, <1>13, <1>14, <1>15, <1>16 DEF IInv

-----------------------------------------------------------------------------
(* Steps of requests that are under way.                                    *)

LEMMA AnswerArrivesInv ==
  ASSUME IInv, NEW r \in Requests, AnswerArrives(r)
  PROVE  IInv'
<1>1. TypeOK /\ RequestsMatchScreen /\ OneListAlone /\ BlocksOfRequests
  BY DEF IInv
<1> DEFINE w == request[r].for
           new == IF w = "nobody" THEN NoRequest ELSE [request[r] EXCEPT !.stage = Arrival(w)]
<1>2. /\ ~Free(r) /\ request[r].stage = "network"
      /\ request' = [request EXCEPT ![r] = new]
      /\ UNCHANGED <<open, pictures, hidden, cells, fetched, loads>>
      /\ main' = IF w = "cell" THEN Append(main, r) ELSE main
      /\ cached' = [cached EXCEPT ![request[r].url] = "good"]
  BY <1>1 DEF AnswerArrives, OnNetwork, Done, TypeOK
<1>3. request[r] \in Request /\ w \in {"list", "cell", "nobody"}
  BY <1>1, <1>2 DEF TypeOK, Request, Free
<1>4. /\ new \in Request
      /\ w = "nobody" => new = NoRequest
      /\ w # "nobody" => /\ new.for = w /\ new.url = request[r].url /\ new.stage = Arrival(w)
                         /\ new.cell = request[r].cell /\ new.row = request[r].row
  BY <1>3, NoRequestType DEF Request, Arrival
<1> HIDE DEF new
<1>5. request \in [Requests -> Request] /\ request' \in [Requests -> Request]
  BY <1>1, <1>2, <1>4 DEF TypeOK
<1>6. \A q \in Requests : request'[q] = IF q = r THEN new ELSE request[q]
  BY <1>2, <1>5
<1>7. BlocksOfRequests' /\ main' \in Seq(Requests)
  <2>1. CASE w = "nobody"
    <3>1. \A i \in DOMAIN main : main[i] \in Requests /\ main[i] # r
      BY <1>1, <1>2 DEF BlocksOfRequests, TypeOK
    <3>2. main' = main
      BY <1>2, <2>1
    <3>3. QED
      BY <1>1, <1>6, <3>1, <3>2 DEF BlocksOfRequests, Free, TypeOK
  <2>2. CASE w # "nobody"
    <3>1. new.for # "nothing" /\ main' = IF new.stage = "main" THEN Append(main, r) ELSE main
      BY <1>2, <1>3, <1>4, <2>2 DEF Arrival
    <3>2. QED
      BY <1>1, <1>2, <1>4, <3>1, BlockAppended
  <2>3. QED
    BY <2>1, <2>2
<1>8. TypeOK'
  BY <1>1, <1>2, <1>5, <1>7 DEF TypeOK
<1>9. RequestsMatchScreen'
  BY <1>1, <1>2, <1>3, <1>4, <1>6 DEF RequestsMatchScreen, Free, NoRequest, Arrival, At
<1>10. OneListAlone'
  BY <1>1, <1>2, <1>4, <1>6 DEF OneListAlone, NoRequest
<1>11. LoadedAlone'
  <2>1. ListUnderWay => ListUnderWay'
    BY <1>4, <1>6 DEF ListUnderWay
  <2>2. QED
    BY <1>2, <2>1 DEF IInv, LoadedAlone
<1>12. PicturesFetched' /\ RowsExist' /\ ImagesAtTheirRow'
  BY <1>2 DEF IInv, PicturesFetched, RowsExist, ImagesAtTheirRow
<1>13. QED
  BY <1>7, <1>8, <1>9, <1>10, <1>11, <1>12 DEF IInv

(* A request that ends, and is not of a block of the main queue.            *)
LEMMA DoneKeeps ==
  ASSUME IInv, NEW r \in Requests, request[r].stage # "main", request' = Done(r)
  PROVE  /\ request' \in [Requests -> Request]
         /\ \A q \in Requests : request'[q] = IF q = r THEN NoRequest ELSE request[q]
         /\ UNCHANGED main => BlocksOfRequests'
<1>1. request \in [Requests -> Request] /\ main \in Seq(Requests) /\ BlocksOfRequests
  BY DEF IInv, TypeOK
<1>2. /\ request' \in [Requests -> Request]
      /\ \A q \in Requests : request'[q] = IF q = r THEN NoRequest ELSE request[q]
  BY <1>1, NoRequestType DEF Done
<1>3. \A i \in DOMAIN main : main[i] \in Requests /\ main[i] # r
  BY <1>1 DEF BlocksOfRequests
<1>4. QED
  BY <1>1, <1>2, <1>3 DEF BlocksOfRequests, Free

LEMMA RequestFailsInv ==
  ASSUME IInv, NEW r \in Requests, RequestFails(r)
  PROVE  IInv'
<1>1. TypeOK /\ RequestsMatchScreen /\ OneListAlone /\ BlocksOfRequests
  BY DEF IInv
<1> DEFINE w == request[r].for
           c == request[r].cell
<1>2. /\ ~Free(r) /\ request[r].stage = "network"
      /\ request' = Done(r)
      /\ UNCHANGED <<open, pictures, hidden, main, fetched>>
      /\ loads' = IF w = "list" THEN Failed(loads) ELSE loads
  BY DEF RequestFails, OnNetwork
<1>3. /\ request' \in [Requests -> Request] /\ BlocksOfRequests'
      /\ \A q \in Requests : request'[q] = IF q = r THEN NoRequest ELSE request[q]
  BY <1>2, DoneKeeps
<1>4. cached' \in [URLs -> {"none", "good", "bad"}]
  BY <1>1 DEF RequestFails, TypeOK
<1>5. /\ loads' \in [wanted : Categories, course : {"alone", "overlapped", "failed"}]
      /\ loads'.course = "alone" => w # "list" /\ loads' = loads
  BY <1>1, <1>2 DEF TypeOK, Failed
<1>6. /\ cells' \in [Cells -> Cell]
      /\ \A d \in Cells : /\ cells'[d].visible = cells[d].visible
                          /\ cells'[d].tag = cells[d].tag /\ cells'[d].image = cells[d].image
  <2>1. cells \in [Cells -> Cell] /\ (w = "cell" => c \in Cells)
    BY <1>1 DEF TypeOK, RequestsMatchScreen
  <2>2. \/ cells' = cells
        \/ c \in Cells /\ cells' = [cells EXCEPT ![c] = [cells[c] EXCEPT !.failed = TRUE]]
    BY <2>1 DEF RequestFails
  <2>3. CASE cells' = cells
    BY <2>1, <2>3
  <2>4. CASE c \in Cells /\ cells' = [cells EXCEPT ![c] = [cells[c] EXCEPT !.failed = TRUE]]
    <3> DEFINE new == [cells[c] EXCEPT !.failed = TRUE]
    <3>1. /\ new \in Cell /\ new.visible = cells[c].visible
          /\ new.tag = cells[c].tag /\ new.image = cells[c].image
      <4>1. cells[c] \in Cell
        BY <2>1, <2>4
      <4>2. QED
        BY <4>1 DEF Cell
    <3> HIDE DEF new
    <3>2. cells' = [cells EXCEPT ![c] = new]
      BY <2>4 DEF new
    <3>3. QED
      BY <2>1, <3>1, <3>2
  <2>5. QED
    BY <2>2, <2>3, <2>4
<1>7. TypeOK'
  BY <1>1, <1>2, <1>3, <1>4, <1>5, <1>6 DEF TypeOK
<1>8. RequestsMatchScreen'
  BY <1>1, <1>2, <1>3 DEF RequestsMatchScreen, Free, NoRequest, At
<1>9. OneListAlone'
  BY <1>1, <1>2, <1>3, <1>5 DEF OneListAlone, NoRequest
<1>10. LoadedAlone'
  <2>1. w # "list" => (ListUnderWay <=> ListUnderWay')
    BY <1>3 DEF ListUnderWay, NoRequest
  <2>2. QED
    BY <1>2, <1>5, <2>1 DEF IInv, LoadedAlone
<1>11. PicturesFetched' /\ RowsExist' /\ ImagesAtTheirRow'
  BY <1>2, <1>6 DEF IInv, PicturesFetched, RowsExist, ImagesAtTheirRow, At
<1>12. QED
  BY <1>3, <1>7, <1>8, <1>9, <1>10, <1>11 DEF IInv

LEMMA ListArrivesInv ==
  ASSUME IInv, NEW r \in Requests, ListArrives(r)
  PROVE  IInv'
<1>1. TypeOK /\ RequestsMatchScreen /\ OneListAlone /\ BlocksOfRequests
  BY DEF IInv
<1>2. /\ request[r].stage = "delayed" /\ request' = Done(r)
      /\ UNCHANGED <<open, cached, main, loads>>
  BY DEF ListArrives
<1>3. /\ request' \in [Requests -> Request] /\ BlocksOfRequests'
      /\ \A q \in Requests : request'[q] = IF q = r THEN NoRequest ELSE request[q]
  BY <1>2, DoneKeeps
<1>4. request[r].for \in {"list", "nobody"}
  BY <1>1, <1>2 DEF RequestsMatchScreen
<1>5. OneListAlone'
  BY <1>1, <1>2, <1>3 DEF OneListAlone, NoRequest
<1>6. CASE request[r].for = "nobody"
  <2>1. UNCHANGED <<pictures, hidden, fetched, cells>>
    BY <1>6 DEF ListArrives
  <2>2. TypeOK'
    BY <1>1, <1>2, <1>3, <2>1 DEF TypeOK
  <2>3. RequestsMatchScreen'
    BY <1>1, <1>2, <1>3, <2>1 DEF RequestsMatchScreen, Free, NoRequest, At
  <2>4. ListUnderWay <=> ListUnderWay'
    BY <1>3, <1>6 DEF ListUnderWay, NoRequest
  <2>5. LoadedAlone' /\ PicturesFetched' /\ RowsExist' /\ ImagesAtTheirRow'
    BY <1>2, <2>1, <2>4 DEF IInv, LoadedAlone, PicturesFetched, RowsExist, ImagesAtTheirRow
  <2>6. QED
    BY <1>3, <1>5, <2>2, <2>3, <2>5 DEF IInv
<1>7. CASE request[r].for = "list"
  <2> DEFINE k == request[r].url
  <2>1. k \in Categories
    BY <1>1, <1>7 DEF RequestsMatchScreen
  <2>2. /\ pictures' = Hits[k] /\ fetched' = fetched \cup {k} /\ hidden' = FALSE
        /\ cells' = [c \in Cells |-> [cells[c] EXCEPT !.visible = FALSE]]
    BY <1>7 DEF ListArrives
  <2> HIDE DEF k
  <2>3. /\ cells' \in [Cells -> Cell]
        /\ \A c \in Cells : /\ ~cells'[c].visible
                            /\ cells'[c].tag = cells[c].tag /\ cells'[c].image = cells[c].image
    <3> DEFINE new(c) == [cells[c] EXCEPT !.visible = FALSE]
    <3>1. \A c \in Cells : /\ new(c) \in Cell /\ ~new(c).visible
                           /\ new(c).tag = cells[c].tag /\ new(c).image = cells[c].image
      <4> SUFFICES ASSUME NEW c \in Cells
                   PROVE  /\ new(c) \in Cell /\ ~new(c).visible
                          /\ new(c).tag = cells[c].tag /\ new(c).image = cells[c].image
        OBVIOUS
      <4>1. cells[c] \in Cell
        BY <1>1 DEF TypeOK
      <4>2. QED
        BY <4>1 DEF Cell
    <3>2. cells' = [c \in Cells |-> new(c)]
      BY <2>2
    <3> HIDE DEF new
    <3>3. QED
      BY <3>1, <3>2
  <2>4. TypeOK'
    BY <1>1, <1>2, <1>3, <2>1, <2>2, <2>3, HitsAssumption DEF TypeOK
  <2>5. RequestsMatchScreen'
    BY <1>1, <1>2, <1>3, <2>2 DEF RequestsMatchScreen, Free, NoRequest
  <2>6. PicturesFetched'
    BY <2>2 DEF PicturesFetched
  <2>7. RowsExist' /\ ImagesAtTheirRow'
    BY <2>2, <2>3 DEF IInv, RowsExist, ImagesAtTheirRow
  <2>8. LoadedAlone'
    BY <1>1, <1>2, <1>7, <2>2 DEF OneListAlone, LoadedAlone, k
  <2>9. QED
    BY <1>3, <1>5, <2>4, <2>5, <2>6, <2>7, <2>8 DEF IInv
<1>8. QED
  BY <1>4, <1>6, <1>7

(* The block at the head of the main queue, whose request ends with it.     *)
LEMMA RunBlockInv ==
  ASSUME IInv, RunBlock
  PROVE  IInv'
<1>1. TypeOK /\ RequestsMatchScreen /\ OneListAlone /\ BlocksOfRequests
  BY DEF IInv
<1> DEFINE r == Head(main)
<1>2. /\ main # <<>> /\ main' = Tail(main) /\ request' = Done(r) /\ imageLoaded(r)
      /\ UNCHANGED <<open, pictures, hidden, cached, fetched, loads>>
  BY DEF RunBlock
<1>3. /\ main \in Seq(Requests) /\ main' \in Seq(Requests)
      /\ r = main[1] /\ r \in Requests
      /\ DOMAIN main = 1 .. Len(main) /\ 1 \in DOMAIN main
      /\ DOMAIN main' = 1 .. Len(main) - 1
      /\ \A i \in DOMAIN main' : i + 1 \in DOMAIN main /\ main'[i] = main[i + 1]
  BY <1>1, <1>2 DEF TypeOK
<1>4. request[r].for \in {"cell", "nobody"} /\ request[r].stage = "main"
  BY <1>1, <1>3 DEF BlocksOfRequests, RequestsMatchScreen
<1> HIDE DEF r
<1>5. /\ request' \in [Requests -> Request]
      /\ \A q \in Requests : request'[q] = IF q = r THEN NoRequest ELSE request[q]
  BY <1>1, <1>2, NoRequestType DEF Done, TypeOK
<1>6. BlocksOfRequests'
  <2>1. \A i \in DOMAIN main' : main'[i] \in Requests /\ main'[i] # r
    BY <1>1, <1>3 DEF BlocksOfRequests
  <2>2. \A i \in DOMAIN main' : request'[main'[i]] = request[main[i + 1]]
    BY <1>3, <1>5, <2>1
  <2>3. \A i \in DOMAIN main' : request'[main'[i]].for # "nothing" /\ request'[main'[i]].stage = "main"
    BY <1>1, <1>3, <2>2 DEF BlocksOfRequests, Free
  <2>4. \A i, j \in DOMAIN main' : main'[i] = main'[j] => i = j
    <3> SUFFICES ASSUME NEW i \in DOMAIN main', NEW j \in DOMAIN main', main'[i] = main'[j]
                 PROVE  i = j
      OBVIOUS
    <3>1. i \in Nat /\ j \in Nat /\ main[i + 1] = main[j + 1]
      BY <1>3
    <3>2. i + 1 = j + 1
      BY <1>1, <1>3, <3>1 DEF BlocksOfRequests
    <3>3. QED
      BY <3>1, <3>2
  <2>5. QED
    BY <2>3, <2>4 DEF BlocksOfRequests, Free
<1>7. /\ cells' \in [Cells -> Cell]
      /\ \A d \in Cells : /\ cells'[d].visible = cells[d].visible
                          /\ cells'[d].tag = cells[d].tag
                          /\ \/ cells'[d].image \in {cells[d].image, Nil}
                             \/ \E k \in fetched : At(cells'[d].image, cells[d].tag, k)
  <2>1. cells \in [Cells -> Cell]
    BY <1>1 DEF TypeOK
  <2>2. CASE cells' = cells
    BY <2>1, <2>2
  <2>3. ASSUME request[r].for = "cell", cells[request[r].cell].tag = request[r].row,
               NEW new \in {Filled(cells[request[r].cell], request[r].url),
                            NotAnImage(cells[request[r].cell])},
               cells' = [cells EXCEPT ![request[r].cell] = new]
        PROVE  /\ cells' \in [Cells -> Cell]
               /\ \A d \in Cells : /\ cells'[d].visible = cells[d].visible
                                   /\ cells'[d].tag = cells[d].tag
                                   /\ \/ cells'[d].image \in {cells[d].image, Nil}
                                      \/ \E k \in fetched : At(cells'[d].image, cells[d].tag, k)
    <3> DEFINE c == request[r].cell
    <3>1. c \in Cells /\ request[r].url \in Images /\ cells[c] \in Cell
      BY <1>1, <1>3, <2>1, <2>3 DEF RequestsMatchScreen
    <3>2. /\ new \in Cell /\ new.visible = cells[c].visible /\ new.tag = cells[c].tag
          /\ new.image \in {request[r].url, Nil}
      BY <2>3, <3>1 DEF Cell, Filled, NotAnImage
    <3>3. \E k \in fetched : At(request[r].url, cells[c].tag, k)
      BY <1>1, <1>3, <2>3 DEF RequestsMatchScreen
    <3>4. QED
      BY <2>1, <2>3, <3>1, <3>2, <3>3
  <2>4. QED
    BY <1>2, <2>2, <2>3 DEF imageLoaded
<1>8. TypeOK'
  BY <1>1, <1>2, <1>3, <1>5, <1>7 DEF TypeOK
<1>9. RequestsMatchScreen'
  BY <1>1, <1>2, <1>5 DEF RequestsMatchScreen, Free, NoRequest, At
<1>10. OneListAlone'
  BY <1>1, <1>2, <1>5 DEF OneListAlone, NoRequest
<1>11. LoadedAlone'
  <2>1. ListUnderWay => ListUnderWay'
    BY <1>4, <1>5 DEF ListUnderWay
  <2>2. QED
    BY <1>2, <2>1 DEF IInv, LoadedAlone
<1>12. PicturesFetched' /\ RowsExist' /\ ImagesAtTheirRow'
  BY <1>2, <1>7 DEF IInv, PicturesFetched, RowsExist, ImagesAtTheirRow, At
<1>13. QED
  BY <1>6, <1>8, <1>9, <1>10, <1>11, <1>12 DEF IInv

-----------------------------------------------------------------------------
(* The screen.                                                              *)

LEMMA EndDisplayingInv ==
  ASSUME IInv, NEW c \in Cells, EndDisplaying(c)
  PROVE  IInv'
<1>1. TypeOK
  BY DEF IInv
<1> DEFINE new == [cells[c] EXCEPT !.visible = FALSE]
<1>2. /\ new \in Cell /\ ~new.visible /\ new.tag = cells[c].tag /\ new.image = cells[c].image
  <2>1. cells[c] \in Cell
    BY <1>1 DEF TypeOK
  <2>2. QED
    BY <2>1 DEF Cell
<1>3. /\ cells' = [cells EXCEPT ![c] = new]
      /\ UNCHANGED <<open, pictures, hidden, cached, request, main, fetched, loads>>
  BY DEF EndDisplaying
<1> HIDE DEF new
<1>4. \A d \in Cells : cells'[d] = IF d = c THEN new ELSE cells[d]
  BY <1>1, <1>3 DEF TypeOK
<1>5. TypeOK'
  BY <1>1, <1>2, <1>3 DEF TypeOK
<1>6. RowsExist' /\ ImagesAtTheirRow'
  BY <1>2, <1>3, <1>4 DEF IInv, RowsExist, ImagesAtTheirRow
<1>7. RequestsMatchScreen' /\ BlocksOfRequests'
  BY <1>3 DEF IInv, RequestsMatchScreen, BlocksOfRequests, Free, At
<1>8. OneListAlone' /\ LoadedAlone' /\ PicturesFetched'
  BY <1>3 DEF IInv, OneListAlone, LoadedAlone, ListUnderWay, PicturesFetched
<1>9. QED
  BY <1>5, <1>6, <1>7, <1>8 DEF IInv

LEMMA EvictInv ==
  ASSUME IInv, NEW u \in URLs, Evict(u)
  PROVE  IInv'
<1>1. UNCHANGED <<open, pictures, hidden, cells, request, main, fetched, loads>>
  BY DEF Evict
<1>2. TypeOK'
  BY <1>1 DEF IInv, Evict, TypeOK
<1>3. RequestsMatchScreen' /\ BlocksOfRequests'
  BY <1>1 DEF IInv, RequestsMatchScreen, BlocksOfRequests, Free, At
<1>4. OneListAlone' /\ LoadedAlone' /\ PicturesFetched' /\ RowsExist' /\ ImagesAtTheirRow'
  BY <1>1 DEF IInv, OneListAlone, LoadedAlone, ListUnderWay, PicturesFetched, RowsExist, ImagesAtTheirRow
<1>5. QED
  BY <1>2, <1>3, <1>4 DEF IInv

LEMMA ScreenEndsInv ==
  ASSUME IInv, ScreenEnds
  PROVE  IInv'
<1>1. TypeOK /\ RequestsMatchScreen /\ BlocksOfRequests
  BY DEF IInv
<1> DEFINE gone(r) == IF Free(r) THEN request[r]
                      ELSE [request[r] EXCEPT !.for = "nobody", !.cell = Nil, !.row = 0]
<1>2. \A r \in Requests : /\ gone(r) \in Request
                          /\ Free(r) => gone(r) = request[r]
                          /\ ~Free(r) => gone(r).for = "nobody"
                          /\ gone(r).stage = request[r].stage /\ gone(r).url = request[r].url
  <2> SUFFICES ASSUME NEW r \in Requests
               PROVE  /\ gone(r) \in Request
                      /\ Free(r) => gone(r) = request[r]
                      /\ ~Free(r) => gone(r).for = "nobody"
                      /\ gone(r).stage = request[r].stage /\ gone(r).url = request[r].url
    OBVIOUS
  <2>1. request[r] \in Request
    BY <1>1 DEF TypeOK
  <2>2. QED
    BY <2>1, RowsType DEF Request
<1>3. /\ request' = [r \in Requests |-> gone(r)]
      /\ open' = FALSE /\ pictures' = <<>> /\ hidden' = FALSE /\ fetched' = {}
      /\ cells' = [c \in Cells |-> NewCell]
      /\ loads' = [wanted |-> people, course |-> "alone"]
      /\ UNCHANGED <<cached, main>>
  BY DEF ScreenEnds
<1> HIDE DEF gone
<1>4. request' \in [Requests -> Request] /\ \A r \in Requests : request'[r] = gone(r)
  BY <1>2, <1>3
<1>5. \A r \in Requests : request'[r].for \in {"nothing", "nobody"}
  BY <1>2, <1>4 DEF Free
<1>6. TypeOK'
  <2>1. cells' \in [Cells -> Cell]
    BY <1>3, NewCellType
  <2>2. {open', hidden'} \subseteq BOOLEAN
    BY <1>3
  <2>3. /\ pictures' \in Seq(Images) /\ fetched' \subseteq Categories
        /\ loads' \in [wanted : Categories, course : {"alone", "overlapped", "failed"}]
    BY <1>3, HitsAssumption
  <2>4. QED
    BY <1>1, <1>3, <1>4, <2>1, <2>2, <2>3 DEF TypeOK
<1>7. RequestsMatchScreen'
  BY <1>1, <1>2, <1>4, <1>5 DEF RequestsMatchScreen, Free
<1>8. BlocksOfRequests'
  <2>1. \A i \in DOMAIN main : main[i] \in Requests
    BY <1>1 DEF TypeOK
  <2>2. QED
    BY <1>1, <1>2, <1>3, <1>4, <2>1 DEF BlocksOfRequests, Free
<1>9. OneListAlone'
  BY <1>5 DEF OneListAlone
<1>10. LoadedAlone' /\ PicturesFetched'
  BY <1>3 DEF LoadedAlone, PicturesFetched
<1>11. RowsExist' /\ ImagesAtTheirRow'
  BY <1>3 DEF RowsExist, ImagesAtTheirRow, NewCell
<1>12. QED
  BY <1>6, <1>7, <1>8, <1>9, <1>10, <1>11 DEF IInv

-----------------------------------------------------------------------------
(* All steps, and the theorems.                                             *)

LEMMA NextInv == IInv /\ [Next]_vars => IInv'
<1> SUFFICES ASSUME IInv, [Next]_vars
             PROVE  IInv'
  OBVIOUS
<1>1. CASE Taps
  BY <1>1, viewDidLoadInv, didTapInv, ScreenEndsInv DEF Taps, didTapAt, Dismiss
<1>2. CASE Layout
  BY <1>2, EndDisplayingInv, cellForItemAtInv DEF Layout
<1>3. CASE \E r \in Requests : Answer(r) \/ ListArrives(r)
  BY <1>3, AnswerArrivesInv, RequestFailsInv, ListArrivesInv DEF Answer
<1>4. CASE RunBlock
  BY <1>4, RunBlockInv
<1>5. CASE \E u \in URLs : Evict(u)
  BY <1>5, EvictInv
<1>6. CASE UNCHANGED vars
  <2>1. UNCHANGED <<open, pictures, hidden, cells, cached, request, main, fetched, loads>>
    BY <1>6 DEF vars
  <2>2. TypeOK' /\ RequestsMatchScreen' /\ BlocksOfRequests'
    BY <2>1 DEF IInv, TypeOK, RequestsMatchScreen, BlocksOfRequests, Free, At
  <2>3. OneListAlone' /\ LoadedAlone' /\ PicturesFetched' /\ RowsExist' /\ ImagesAtTheirRow'
    BY <2>1 DEF IInv, OneListAlone, LoadedAlone, ListUnderWay, PicturesFetched, RowsExist,
                ImagesAtTheirRow, At
  <2>4. QED
    BY <2>2, <2>3 DEF IInv
<1>7. QED
  BY <1>1, <1>2, <1>3, <1>4, <1>5, <1>6 DEF Next

(* What the screen and its requests know of one another: a request says     *)
(* what it is for, and each block of the main queue has its own request.   *)
THEOREM PicturesInvariant == Spec => []IInv
BY InitInv, NextInv, PTL DEF Spec

(* No cell shows the image of another row, for any reuse of cells and any   *)
(* order of the answers.                                                   *)
THEOREM ImagesStayAtTheirRow == Spec => []ImagesAtTheirRow
<1>1. IInv => ImagesAtTheirRow
  BY DEF IInv
<1>2. QED
  BY <1>1, PicturesInvariant, PTL

(* A category that was requested while no other was under way is the one    *)
(* that is shown, whatever requests of closed screens end in the meantime. *)
THEOREM LoadedAloneIsShown == Spec => []LoadedAlone
<1>1. IInv => LoadedAlone
  BY DEF IInv
<1>2. QED
  BY <1>1, PicturesInvariant, PTL
-----------------------------------------------------------------------------
(* Nobody waits in vain: for whoever waits the request, or its block, is    *)
(* still there after each step.                                            *)

LEMMA InitAwaits == Init => NobodyForgotten
BY DEF Init, NobodyForgotten, SpinnerAwaits, BlanksAwait, Blank, BlocksQueued, NewCell, NoRequest

(* A request is put on its way with the rest as they were.                  *)
LEMMA RequestAdded ==
  ASSUME TypeOK, BlocksQueued, NEW r \in Requests, NEW new \in Request, Free(r),
         request' = [request EXCEPT ![r] = new],
         main' = IF new.stage = "main" THEN Append(main, r) ELSE main
  PROVE  /\ BlocksQueued'
         /\ request'[r] = new
         /\ \A s \in Requests : ~Free(s) => request'[s] = request[s]
<1>1. main \in Seq(Requests) /\ request \in [Requests -> Request]
  BY DEF TypeOK
<1>2. \A s \in Requests : request'[s] = IF s = r THEN new ELSE request[s]
  BY <1>1
<1>3. \A s \in Requests : (\E i \in DOMAIN main : main[i] = s) => \E i \in DOMAIN main' : main'[i] = s
  <2>1. CASE new.stage = "main"
    <3>1. DOMAIN main \subseteq DOMAIN main' /\ \A i \in DOMAIN main : main'[i] = main[i]
      BY <1>1, <2>1
    <3>2. QED
      BY <3>1
  <2>2. CASE new.stage # "main"
    BY <2>2
  <2>3. QED
    BY <2>1, <2>2
<1>4. new.stage = "main" => \E i \in DOMAIN main' : main'[i] = r
  <2> SUFFICES ASSUME new.stage = "main"
               PROVE  \E i \in DOMAIN main' : main'[i] = r
    OBVIOUS
  <2>1. Len(main) + 1 \in DOMAIN main' /\ main'[Len(main) + 1] = r
    BY <1>1
  <2>2. QED
    BY <2>1
<1>5. BlocksQueued'
  BY <1>2, <1>3, <1>4 DEF BlocksQueued
<1>6. QED
  BY <1>2, <1>5 DEF Free

LEMMA FetchingAwaits ==
  ASSUME IInv, NobodyForgotten, NEW k \in Categories, fetchingData(k),
         UNCHANGED <<pictures, cells>>
  PROVE  NobodyForgotten'
<1>1. TypeOK /\ BlocksQueued /\ BlanksAwait
  BY DEF IInv, NobodyForgotten
<1>2. CASE cached[k] = "bad"
  <2>1. loads' = Failed(Wanting(k)) /\ UNCHANGED <<request, main>>
    BY <1>2 DEF fetchingData
  <2>2. loads'.course = "failed"
    BY <2>1 DEF Failed, Wanting
  <2>3. SpinnerAwaits'
    BY <2>2 DEF SpinnerAwaits
  <2>4. BlanksAwait' /\ BlocksQueued'
    BY <1>1, <2>1 DEF BlanksAwait, Blank, BlocksQueued
  <2>5. QED
    BY <2>3, <2>4 DEF NobodyForgotten
<1>3. CASE cached[k] # "bad"
  <2>1. Send("list", k, Nil, 0)
    BY <1>3 DEF fetchingData
  <2>2. PICK r \in Requests, stage \in {"network", "delayed"} :
          /\ Free(r)
          /\ request' = [request EXCEPT ![r] = NewRequest("list", k, Nil, 0, stage)]
          /\ main' = IF stage = "main" THEN Append(main, r) ELSE main
    BY <1>1, <2>1, SendStarts DEF Arrival
  <2> DEFINE new == NewRequest("list", k, Nil, 0, stage)
  <2>3. new \in Request /\ new.for = "list" /\ new.stage = stage
    BY RowsType DEF NewRequest, Request, URLs
  <2> HIDE DEF new
  <2>4. /\ BlocksQueued' /\ request'[r] = new
        /\ \A s \in Requests : ~Free(s) => request'[s] = request[s]
    BY <1>1, <2>2, <2>3, RequestAdded DEF new
  <2>5. SpinnerAwaits'
    BY <2>3, <2>4 DEF SpinnerAwaits, ListUnderWay
  <2>6. BlanksAwait'
    BY <1>1, <2>4 DEF BlanksAwait, Blank, Free
  <2>7. QED
    BY <2>4, <2>5, <2>6 DEF NobodyForgotten
<1>4. QED
  BY <1>2, <1>3

(* A row that comes on screen sends for its own picture.                    *)
LEMMA cellForItemAtAwaits ==
  ASSUME IInv, NobodyForgotten, NEW c \in Cells, NEW i \in Rows, cellForItemAt(c, i)
  PROVE  NobodyForgotten'
<1>1. TypeOK /\ PicturesFetched /\ BlocksQueued /\ BlanksAwait /\ SpinnerAwaits
  BY DEF IInv, NobodyForgotten
<1> DEFINE u == pictures[i + 1]
<1>2. u \in Images
  BY <1>1, PictureAt DEF cellForItemAt
<1>3. Send("cell", u, c, i) /\ UNCHANGED <<pictures, hidden, loads>>
  BY DEF cellForItemAt
<1>4. PICK r \in Requests, stage \in {"network", "main"} :
        /\ Free(r)
        /\ request' = [request EXCEPT ![r] = NewRequest("cell", u, c, i, stage)]
        /\ main' = IF stage = "main" THEN Append(main, r) ELSE main
  BY <1>1, <1>3, SendStarts DEF Arrival
<1> DEFINE new == NewRequest("cell", u, c, i, stage)
<1>5. /\ new \in Request /\ new.for = "cell" /\ new.url = u /\ new.stage = stage
      /\ new.cell = c /\ new.row = i
  BY <1>2 DEF NewRequest, Request, URLs
<1> HIDE DEF new
<1>6. /\ BlocksQueued' /\ request'[r] = new
      /\ \A s \in Requests : ~Free(s) => request'[s] = request[s]
  BY <1>1, <1>4, <1>5, RequestAdded DEF new
<1> DEFINE cell == [visible |-> TRUE, tag |-> i, image |-> Nil, failed |-> FALSE]
<1>7. \A d \in Cells : cells'[d] = IF d = c THEN cell ELSE cells[d]
  BY <1>1 DEF TypeOK, cellForItemAt
<1>8. BlanksAwait'
  <2> SUFFICES ASSUME NEW d \in Cells, Blank(d)'
               PROVE  \E s \in Requests :
                        /\ request'[s].for = "cell" /\ request'[s].cell = d
                        /\ request'[s].row = cells'[d].tag
                        /\ request'[s].url = pictures'[cells'[d].tag + 1]
    BY DEF BlanksAwait
  <2>1. CASE d = c
    BY <1>3, <1>5, <1>6, <1>7, <2>1
  <2>2. CASE d # c
    <3>1. cells'[d] = cells[d] /\ Blank(d)
      BY <1>7, <2>2 DEF Blank
    <3>2. QED
      BY <1>1, <1>3, <1>6, <3>1 DEF BlanksAwait, Free
  <2>3. QED
    BY <2>1, <2>2
<1>9. SpinnerAwaits'
  BY <1>1, <1>3, <1>6 DEF SpinnerAwaits, ListUnderWay, Free
<1>10. QED
  BY <1>6, <1>8, <1>9 DEF NobodyForgotten

(* An answer brings its request on its way, and an image into the queue.    *)
LEMMA AnswerArrivesAwaits ==
  ASSUME IInv, NobodyForgotten, NEW r \in Requests, AnswerArrives(r)
  PROVE  NobodyForgotten'
<1>1. TypeOK /\ BlocksQueued /\ BlanksAwait /\ SpinnerAwaits
  BY DEF IInv, NobodyForgotten
<1> DEFINE w == request[r].for
           new == IF w = "nobody" THEN NoRequest ELSE [request[r] EXCEPT !.stage = Arrival(w)]
<1>2. /\ ~Free(r) /\ request' = [request EXCEPT ![r] = new]
      /\ UNCHANGED <<pictures, hidden, cells, loads>>
      /\ main' = IF w = "cell" THEN Append(main, r) ELSE main
  BY <1>1 DEF AnswerArrives, OnNetwork, Done, TypeOK
<1>3. request[r] \in Request /\ w \in {"list", "cell", "nobody"}
  BY <1>1, <1>2 DEF TypeOK, Request, Free
<1>4. /\ w = "nobody" => new = NoRequest
      /\ w # "nobody" => /\ new.for = w /\ new.url = request[r].url /\ new.stage = Arrival(w)
                         /\ new.cell = request[r].cell /\ new.row = request[r].row
  BY <1>3 DEF Request
<1> HIDE DEF new
<1>5. \A q \in Requests : request'[q] = IF q = r THEN new ELSE request[q]
  BY <1>1, <1>2 DEF TypeOK
<1>6. BlocksQueued'
  <2> SUFFICES ASSUME NEW q \in Requests, request'[q].stage = "main"
               PROVE  \E i \in DOMAIN main' : main'[i] = q
    BY DEF BlocksQueued
  <2>1. main \in Seq(Requests)
    BY <1>1 DEF TypeOK
  <2>2. CASE q = r
    <3>1. main' = Append(main, r)
      BY <1>2, <1>3, <1>4, <1>5, <2>2 DEF Arrival, NoRequest
    <3>2. Len(main) + 1 \in DOMAIN main' /\ main'[Len(main) + 1] = q
      BY <2>1, <2>2, <3>1
    <3>3. QED
      BY <3>2
  <2>3. CASE q # r
    <3>1. PICK i \in DOMAIN main : main[i] = q
      BY <1>1, <1>5, <2>3 DEF BlocksQueued
    <3>2. i \in DOMAIN main' /\ main'[i] = q
      BY <1>2, <2>1, <3>1
    <3>3. QED
      BY <3>2
  <2>4. QED
    BY <2>2, <2>3
<1>7. SpinnerAwaits'
  BY <1>1, <1>2, <1>4, <1>5 DEF SpinnerAwaits, ListUnderWay
<1>8. BlanksAwait'
  BY <1>1, <1>2, <1>4, <1>5 DEF BlanksAwait, Blank
<1>9. QED
  BY <1>6, <1>7, <1>8 DEF NobodyForgotten

(* A request that fails is noted where somebody waits for it.               *)
LEMMA RequestFailsAwaits ==
  ASSUME IInv, NobodyForgotten, NEW r \in Requests, RequestFails(r)
  PROVE  NobodyForgotten'
<1>1. TypeOK /\ RequestsMatchScreen /\ BlocksQueued /\ BlanksAwait /\ SpinnerAwaits
  BY DEF IInv, NobodyForgotten
<1> DEFINE w == request[r].for
           c == request[r].cell
<1>2. /\ ~Free(r) /\ request[r].stage = "network" /\ request' = Done(r)
      /\ UNCHANGED <<pictures, hidden, main>>
      /\ loads' = IF w = "list" THEN Failed(loads) ELSE loads
  BY DEF RequestFails, OnNetwork
<1>3. \A q \in Requests : request'[q] = IF q = r THEN NoRequest ELSE request[q]
  BY <1>2, DoneKeeps
<1>4. BlocksQueued'
  BY <1>1, <1>2, <1>3 DEF BlocksQueued, NoRequest
<1>5. SpinnerAwaits'
  <2>1. w = "list" => loads'.course = "failed"
    BY <1>1, <1>2 DEF Failed, TypeOK
  <2>2. w # "list" => (ListUnderWay => ListUnderWay') /\ loads' = loads
    BY <1>2, <1>3 DEF ListUnderWay
  <2>3. QED
    BY <1>1, <1>2, <2>1, <2>2 DEF SpinnerAwaits
<1>6. \A d \in Cells : Blank(d)' => Blank(d) /\ cells'[d].tag = cells[d].tag
  <2>1. cells \in [Cells -> Cell] /\ (w = "cell" => c \in Cells)
    BY <1>1 DEF TypeOK, RequestsMatchScreen
  <2>2. \/ cells' = cells
        \/ c \in Cells /\ cells' = [cells EXCEPT ![c] = [cells[c] EXCEPT !.failed = TRUE]]
    BY <2>1 DEF RequestFails
  <2>3. CASE cells' = cells
    BY <2>3 DEF Blank
  <2>4. CASE c \in Cells /\ cells' = [cells EXCEPT ![c] = [cells[c] EXCEPT !.failed = TRUE]]
    <3> DEFINE new == [cells[c] EXCEPT !.failed = TRUE]
    <3>1. new.failed
      BY <2>1, <2>4 DEF Cell
    <3>2. \A d \in Cells : cells'[d] = IF d = c THEN new ELSE cells[d]
      BY <2>1, <2>4
    <3>3. QED
      BY <3>1, <3>2 DEF Blank
  <2>5. QED
    BY <2>2, <2>3, <2>4
<1>7. BlanksAwait'
  <2> SUFFICES ASSUME NEW d \in Cells, Blank(d)'
               PROVE  \E s \in Requests :
                        /\ request'[s].for = "cell" /\ request'[s].cell = d
                        /\ request'[s].row = cells'[d].tag
                        /\ request'[s].url = pictures'[cells'[d].tag + 1]
    BY DEF BlanksAwait
  <2>1. PICK s \in Requests : /\ request[s].for = "cell" /\ request[s].cell = d
                              /\ request[s].row = cells[d].tag
                              /\ request[s].url = pictures[cells[d].tag + 1]
    BY <1>1, <1>6 DEF BlanksAwait
  <2>2. CASE s = r
    <3>1. cells' = [cells EXCEPT ![d].failed = TRUE]
      BY <2>1, <2>2 DEF RequestFails
    <3>2. cells[d] \in Cell /\ cells \in [Cells -> Cell]
      BY <1>1 DEF TypeOK
    <3>3. cells'[d] = [cells[d] EXCEPT !.failed = TRUE]
      BY <3>1, <3>2
    <3>4. cells'[d].failed
      BY <3>2, <3>3 DEF Cell
    <3>5. QED
      BY <3>4 DEF Blank
  <2>3. CASE s # r
    BY <1>2, <1>3, <1>6, <2>1, <2>3
  <2>4. QED
    BY <2>2, <2>3
<1>8. QED
  BY <1>4, <1>5, <1>7 DEF NobodyForgotten

(* A list that comes stops the spinner and takes all rows off the screen.   *)
LEMMA ListArrivesAwaits ==
  ASSUME IInv, NobodyForgotten, NEW r \in Requests, ListArrives(r)
  PROVE  NobodyForgotten'
<1>1. TypeOK /\ RequestsMatchScreen /\ BlocksQueued /\ BlanksAwait /\ SpinnerAwaits
  BY DEF IInv, NobodyForgotten
<1>2. request[r].stage = "delayed" /\ request' = Done(r) /\ UNCHANGED <<main, loads>>
  BY DEF ListArrives
<1>3. \A q \in Requests : request'[q] = IF q = r THEN NoRequest ELSE request[q]
  BY <1>2, DoneKeeps
<1>4. request[r].for \in {"list", "nobody"}
  BY <1>1, <1>2 DEF RequestsMatchScreen
<1>5. BlocksQueued'
  BY <1>1, <1>2, <1>3 DEF BlocksQueued, NoRequest
<1>6. CASE request[r].for = "nobody"
  <2>1. UNCHANGED <<pictures, hidden, cells>>
    BY <1>6 DEF ListArrives
  <2>2. SpinnerAwaits'
    BY <1>1, <1>2, <1>3, <1>6, <2>1 DEF SpinnerAwaits, ListUnderWay
  <2>3. BlanksAwait'
    BY <1>1, <1>3, <1>6, <2>1 DEF BlanksAwait, Blank
  <2>4. QED
    BY <1>5, <2>2, <2>3 DEF NobodyForgotten
<1>7. CASE request[r].for = "list"
  <2>1. /\ hidden' = FALSE
        /\ cells' = [c \in Cells |-> [cells[c] EXCEPT !.visible = FALSE]]
    BY <1>7 DEF ListArrives
  <2>2. \A c \in Cells : ~cells'[c].visible
    <3> SUFFICES ASSUME NEW c \in Cells
                 PROVE  ~cells'[c].visible
      OBVIOUS
    <3>1. cells[c] \in Cell /\ cells'[c] = [cells[c] EXCEPT !.visible = FALSE]
      BY <1>1, <2>1 DEF TypeOK
    <3>2. QED
      BY <3>1 DEF Cell
  <2>3. QED
    BY <1>5, <2>1, <2>2 DEF NobodyForgotten, SpinnerAwaits, BlanksAwait, Blank
<1>8. QED
  BY <1>4, <1>6, <1>7

(* A block that runs shows its image, finds that it is none, or is of a row *)
(* its cell has left.                                                      *)
LEMMA RunBlockAwaits ==
  ASSUME IInv, NobodyForgotten, RunBlock
  PROVE  NobodyForgotten'
<1>1. /\ TypeOK /\ RequestsMatchScreen /\ BlocksOfRequests
      /\ BlocksQueued /\ BlanksAwait /\ SpinnerAwaits
  BY DEF IInv, NobodyForgotten
<1> DEFINE r == Head(main)
<1>2. /\ main # <<>> /\ main' = Tail(main) /\ request' = Done(r) /\ imageLoaded(r)
      /\ UNCHANGED <<pictures, hidden, loads>>
  BY DEF RunBlock
<1>3. /\ main \in Seq(Requests) /\ r = main[1] /\ r \in Requests
      /\ DOMAIN main = 1 .. Len(main) /\ 1 \in DOMAIN main
      /\ DOMAIN main' = 1 .. Len(main) - 1
      /\ \A i \in DOMAIN main' : main'[i] = main[i + 1]
  BY <1>1, <1>2 DEF TypeOK
<1>4. request[r].for \in {"cell", "nobody"}
  BY <1>1, <1>3 DEF BlocksOfRequests, RequestsMatchScreen
<1> HIDE DEF r
<1>5. \A q \in Requests : request'[q] = IF q = r THEN NoRequest ELSE request[q]
  BY <1>1, <1>2 DEF Done, TypeOK
<1>6. BlocksQueued'
  <2> SUFFICES ASSUME NEW q \in Requests, request'[q].stage = "main"
               PROVE  \E i \in DOMAIN main' : main'[i] = q
    BY DEF BlocksQueued
  <2>1. q # r /\ request[q].stage = "main"
    BY <1>5 DEF NoRequest
  <2>2. PICK i \in DOMAIN main : main[i] = q
    BY <1>1, <2>1 DEF BlocksQueued
  <2>3. i # 1
    BY <1>3, <2>1, <2>2
  <2>4. i - 1 \in DOMAIN main' /\ main'[i - 1] = q
    BY <1>3, <2>2, <2>3
  <2>5. QED
    BY <2>4
<1>7. SpinnerAwaits'
  BY <1>1, <1>2, <1>4, <1>5 DEF SpinnerAwaits, ListUnderWay
<1>8. BlanksAwait'
  <2> SUFFICES ASSUME NEW d \in Cells, Blank(d)'
               PROVE  \E s \in Requests :
                        /\ request'[s].for = "cell" /\ request'[s].cell = d
                        /\ request'[s].row = cells'[d].tag
                        /\ request'[s].url = pictures'[cells'[d].tag + 1]
    BY DEF BlanksAwait
  <2>1. cells \in [Cells -> Cell] /\ cells[d] \in Cell
    BY <1>1 DEF TypeOK
  <2>2. CASE cells' = cells
    <3>1. PICK s \in Requests : /\ request[s].for = "cell" /\ request[s].cell = d
                                /\ request[s].row = cells[d].tag
                                /\ request[s].url = pictures[cells[d].tag + 1]
      BY <1>1, <2>2 DEF BlanksAwait, Blank
    <3>2. s # r
      <4> SUFFICES ASSUME s = r
                   PROVE  FALSE
        OBVIOUS
      <4>1. request[r].url \in Images
        BY <1>1, <1>3, <3>1 DEF RequestsMatchScreen
      <4>2. cells'[d] \in {Filled(cells[d], request[r].url), NotAnImage(cells[d])}
        BY <1>2, <2>1, <3>1 DEF imageLoaded
      <4>3. CASE cells'[d] = Filled(cells[d], request[r].url)
        <5>1. cells'[d].image = request[r].url
          BY <2>1, <4>3 DEF Filled, Cell
        <5>2. QED
          BY <4>1, <5>1, URLsAssumption DEF Blank
      <4>4. CASE cells'[d] = NotAnImage(cells[d])
        <5>1. cells'[d].failed
          BY <2>1, <4>4, Zenon DEF NotAnImage, Cell
        <5>2. QED
          BY <5>1 DEF Blank
      <4>5. QED
        BY <4>2, <4>3, <4>4
    <3>3. QED
      BY <1>2, <1>5, <2>2, <3>1, <3>2
  <2>3. ASSUME request[r].for = "cell", cells[request[r].cell].tag = request[r].row,
               NEW new \in {Filled(cells[request[r].cell], request[r].url),
                            NotAnImage(cells[request[r].cell])},
               cells' = [cells EXCEPT ![request[r].cell] = new]
        PROVE  \E s \in Requests :
                 /\ request'[s].for = "cell" /\ request'[s].cell = d
                 /\ request'[s].row = cells'[d].tag
                 /\ request'[s].url = pictures'[cells'[d].tag + 1]
    <3> DEFINE c == request[r].cell
    <3>1. c \in Cells /\ request[r].url \in Images /\ cells[c] \in Cell
      BY <1>1, <1>3, <2>1, <2>3 DEF RequestsMatchScreen
    <3>2. new.image # Nil \/ new.failed
      BY <2>3, <3>1, URLsAssumption DEF Cell, Filled, NotAnImage
    <3>3. \A e \in Cells : cells'[e] = IF e = c THEN new ELSE cells[e]
      BY <2>1, <2>3
    <3>4. d # c
      BY <3>2, <3>3 DEF Blank
    <3>5. cells'[d] = cells[d] /\ Blank(d)
      BY <3>3, <3>4 DEF Blank
    <3>6. PICK s \in Requests : /\ request[s].for = "cell" /\ request[s].cell = d
                                /\ request[s].row = cells[d].tag
                                /\ request[s].url = pictures[cells[d].tag + 1]
      BY <1>1, <3>5 DEF BlanksAwait
    <3>7. s # r
      BY <3>4, <3>6
    <3>8. QED
      BY <1>2, <1>5, <3>5, <3>6, <3>7
  <2>4. QED
    BY <1>2, <2>2, <2>3 DEF imageLoaded
<1>9. QED
  BY <1>6, <1>7, <1>8 DEF NobodyForgotten

LEMMA EndDisplayingAwaits ==
  ASSUME IInv, NobodyForgotten, NEW c \in Cells, EndDisplaying(c)
  PROVE  NobodyForgotten'
<1>1. /\ cells' = [cells EXCEPT ![c].visible = FALSE]
      /\ UNCHANGED <<pictures, hidden, request, main, loads>>
  BY DEF EndDisplaying
<1>2. \A d \in Cells : Blank(d)' => Blank(d) /\ cells'[d].tag = cells[d].tag
  <2>1. cells \in [Cells -> Cell] /\ cells[c] \in Cell
    BY DEF IInv, TypeOK
  <2>2. cells'[c] = [cells[c] EXCEPT !.visible = FALSE]
    BY <1>1, <2>1
  <2>3. ~cells'[c].visible
    BY <2>1, <2>2 DEF Cell
  <2>4. \A d \in Cells : d # c => cells'[d] = cells[d]
    BY <1>1, <2>1
  <2>5. QED
    BY <2>3, <2>4 DEF Blank
<1>3. QED
  BY <1>1, <1>2 DEF NobodyForgotten, SpinnerAwaits, ListUnderWay, BlanksAwait, BlocksQueued

(* A new screen waits for nothing; blocks of the old one are still there.   *)
LEMMA ScreenEndsAwaits ==
  ASSUME IInv, NobodyForgotten, ScreenEnds
  PROVE  NobodyForgotten'
<1>1. \A r \in Requests : request'[r].stage = request[r].stage
  <2> SUFFICES ASSUME NEW r \in Requests
               PROVE  request'[r].stage = request[r].stage
    OBVIOUS
  <2>1. request[r] \in Request
    BY DEF IInv, TypeOK
  <2>2. QED
    BY <2>1 DEF ScreenEnds, Request
<1>2. BlocksQueued'
  BY <1>1 DEF NobodyForgotten, BlocksQueued, ScreenEnds
<1>3. SpinnerAwaits' /\ BlanksAwait'
  BY DEF ScreenEnds, SpinnerAwaits, BlanksAwait, Blank, NewCell
<1>4. QED
  BY <1>2, <1>3 DEF NobodyForgotten

LEMMA NextAwaits == IInv /\ NobodyForgotten /\ [Next]_vars => NobodyForgotten'
<1> SUFFICES ASSUME IInv, NobodyForgotten, [Next]_vars
             PROVE  NobodyForgotten'
  OBVIOUS
<1>1. CASE Taps
  BY <1>1, FetchingAwaits, ScreenEndsAwaits, HitsAssumption
  DEF Taps, viewDidLoad, didTap, didTapAt, Dismiss
<1>2. CASE Layout
  BY <1>2, EndDisplayingAwaits, cellForItemAtAwaits DEF Layout
<1>3. CASE \E r \in Requests : Answer(r) \/ ListArrives(r)
  BY <1>3, AnswerArrivesAwaits, RequestFailsAwaits, ListArrivesAwaits DEF Answer
<1>4. CASE RunBlock
  BY <1>4, RunBlockAwaits
<1>5. CASE (\E u \in URLs : Evict(u)) \/ UNCHANGED vars
  <2>1. UNCHANGED <<pictures, hidden, cells, request, main, loads>>
    BY <1>5 DEF Evict, vars
  <2>2. QED
    BY <2>1 DEF NobodyForgotten, SpinnerAwaits, ListUnderWay, BlanksAwait, Blank, BlocksQueued
<1>6. QED
  BY <1>1, <1>2, <1>3, <1>4, <1>5 DEF Next

(* The spinner runs for a list that is under way, and a blank cell waits    *)
(* for its own picture, whatever requests of rows and screens that are gone *)
(* end before: what liveness then needs is that requests end.               *)
THEOREM NobodyIsForgotten == Spec => []NobodyForgotten
<1>1. Init => IInv /\ NobodyForgotten
  BY InitInv, InitAwaits
<1>2. IInv /\ NobodyForgotten /\ [Next]_vars => (IInv /\ NobodyForgotten)'
  BY NextInv, NextAwaits
<1>3. QED
  BY <1>1, <1>2, PTL DEF Spec
================================================================================
