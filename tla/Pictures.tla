-------------------------------- MODULE Pictures -------------------------------
(***************************************************************************)
(* The pictures screen (PicturesPresenter, PicturesViewController and its  *)
(* cells) over RequestSender and its cache.  A category is the URL of its  *)
(* list.  Answers of the network come in any order on any thread; lists    *)
(* reach the screen by asyncAfter, which keeps no order, and images by     *)
(* main.async, which does.  Taps and blocks of the main queue run one at a *)
(* time, so each is one action.  The picture that is picked is loaded for  *)
(* the screen that asked for it: LocalProfile has that.                    *)
(*                                                                         *)
(* UIKit and URLSession are not under src/.  What is used of them: rows of *)
(* a collection are laid out with cells that are not on screen, reloadData *)
(* lays all rows out anew, a hidden collection is not tapped, and a data   *)
(* task always ends, with an answer or an error.                           *)
(***************************************************************************)
EXTENDS Naturals, Sequences

CONSTANTS Images,      \* previewURL of each picture
          Categories,  \* URLs of lists
          people,      \* the category a screen starts with
          Hits,        \* the list the server has for each category
          Cells,       \* cells the collection ever makes (bound)
          Requests,    \* requests under way at once (bound)
          Nil

ASSUME HitsAssumption == /\ people \in Categories
                         /\ Hits \in [Categories -> Seq(Images)]
ASSUME URLsAssumption == /\ Images \cap Categories = {}
                         /\ Nil \notin Images \cup Categories \cup Cells

VARIABLES
  open,      \* the screen is presented
  pictures,  \* PicturesPresenter.pictures
  hidden,    \* collectionView.isHidden: the spinner is running
  cells,     \* for each cell: is it on screen, its tag, the image it shows, did that fail to come
  cached,    \* URLCache: "none", a "good" answer, or a "bad" one that does not parse
  request,   \* requests under way: what for, the URL, and how far they are
  main,      \* DispatchQueue.main: requests whose image is to be shown, oldest first
  fetched,   \* not in the code: the categories this screen has shown ...
  loads      \* ... the last one it asked for, and whether such requests overlapped or failed

vars == <<open, pictures, hidden, cells, cached, request, main, fetched, loads>>

URLs == Images \cup Categories
Rows == UNION {0 .. Len(Hits[k]) : k \in Categories}

Request == [for   : {"nothing", "list", "cell", "nobody"},
            url   : URLs \cup {Nil},
            cell  : Cells \cup {Nil},
            row   : Rows,
            stage : {"network", "delayed", "main"}]
Cell    == [visible : BOOLEAN, tag : Rows, image : Images \cup {Nil}, failed : BOOLEAN]

NoRequest == [for |-> "nothing", url |-> Nil, cell |-> Nil, row |-> 0, stage |-> "network"]
NewCell   == [visible |-> FALSE, tag |-> 0, image |-> Nil, failed |-> FALSE]

TypeOK ==
  /\ {open, hidden} \subseteq BOOLEAN
  /\ pictures \in Seq(Images)
  /\ cells \in [Cells -> Cell]
  /\ cached \in [URLs -> {"none", "good", "bad"}]
  /\ request \in [Requests -> Request]
  /\ main \in Seq(Requests)
  /\ fetched \subseteq Categories
  /\ loads \in [wanted : Categories, course : {"alone", "overlapped", "failed"}]

Init == /\ open = FALSE /\ pictures = <<>> /\ hidden = FALSE
        /\ cells = [c \in Cells |-> NewCell]
        /\ cached = [u \in URLs |-> "none"]
        /\ request = [r \in Requests |-> NoRequest]
        /\ main = <<>>
        /\ fetched = {}
        /\ loads = [wanted |-> people, course |-> "alone"]

(***************************************************************************)
(* RequestSender.  An answer in the cache is used at once, which leaves    *)
(* the request where an answer of the network would have brought it: a     *)
(* list with asyncAfter, an image with the main queue.                     *)
(***************************************************************************)
Free(r) == request[r].for = "nothing"
FreeRequest == CHOOSE r \in Requests : Free(r)

Arrival(w) == IF w = "list" THEN "delayed" ELSE "main"

(* Mutant: an answer of the cache does not reach the completion.            *)
Send_SilentHit(w, u, c, i) ==
  /\ \E r \in Requests : Free(r)
  /\ request' = IF cached[u] = "good" THEN request
                ELSE [request EXCEPT ![FreeRequest] =
                        [for |-> w, url |-> u, cell |-> c, row |-> i, stage |-> "network"]]
  /\ UNCHANGED main

Send(w, u, c, i) ==
  LET stage == IF cached[u] = "good" THEN Arrival(w) ELSE "network"
  IN  /\ \E r \in Requests : Free(r)
      /\ request' = [request EXCEPT ![FreeRequest] =
                       [for |-> w, url |-> u, cell |-> c, row |-> i, stage |-> stage]]
      /\ main' = IF stage = "main" THEN Append(main, FreeRequest) ELSE main

Done(r) == [request EXCEPT ![r] = NoRequest]
OnNetwork(r) == ~Free(r) /\ request[r].stage = "network"

(* The answer is put into the cache and handed on.                          *)
AnswerArrives(r) ==
  LET w == request[r].for
  IN  /\ OnNetwork(r)
      /\ cached' = [cached EXCEPT ![request[r].url] = "good"]
      /\ request' = IF w = "nobody" THEN Done(r) ELSE [request EXCEPT ![r].stage = Arrival(w)]
      /\ main' = IF w = "cell" THEN Append(main, r) ELSE main
      /\ UNCHANGED <<open, pictures, hidden, cells, fetched, loads>>

Failed(n) == [n EXCEPT !.course = "failed"]

(* An error, of the network or of the parser, is printed: nothing on screen *)
(* says so.  An answer that does not parse was put into the cache before.   *)
RequestFails(r) ==
  LET w == request[r].for
      c == request[r].cell
  IN  /\ OnNetwork(r)
      /\ \/ UNCHANGED cached
         \/ /\ request[r].url \in Categories
            /\ cached' = [cached EXCEPT ![request[r].url] = "bad"]
      /\ request' = Done(r)
      /\ loads' = IF w = "list" THEN Failed(loads) ELSE loads
      /\ cells' = IF w = "cell" /\ cells[c].tag = request[r].row
                   THEN [cells EXCEPT ![c].failed = TRUE] ELSE cells
      /\ UNCHANGED <<open, pictures, hidden, main, fetched>>

Evict(u) == /\ cached[u] # "none"
            /\ cached' = [cached EXCEPT ![u] = "none"]
            /\ UNCHANGED <<open, pictures, hidden, cells, request, main, fetched, loads>>

(***************************************************************************)
(* Categories.                                                             *)
(***************************************************************************)
ListUnderWay == \E r \in Requests : request[r].for = "list"

(* The course of the requests starts anew when none is under way.           *)
Wanting(k) == [wanted |-> k,
               course |-> IF ~ListUnderWay THEN "alone"
                          ELSE IF loads.course = "failed" THEN "failed" ELSE "overlapped"]

(* Mutant: a list that was shown before is taken to be there.               *)
fetchingData_SeenBefore(k) ==
  /\ hidden' = TRUE
  /\ loads' = Wanting(k)
  /\ IF k \in fetched THEN UNCHANGED <<request, main>> ELSE Send("list", k, Nil, 0)

fetchingData(k) ==
  /\ hidden' = TRUE
  /\ IF cached[k] = "bad"
     THEN loads' = Failed(Wanting(k)) /\ UNCHANGED <<request, main>>
     ELSE loads' = Wanting(k) /\ Send("list", k, Nil, 0)

viewDidLoad == /\ ~open /\ open' = TRUE
               /\ fetchingData(people)
               /\ UNCHANGED <<pictures, cells, cached, fetched>>

didTap(k) == /\ open
             /\ fetchingData(k)
             /\ UNCHANGED <<open, pictures, cells, cached, fetched>>

(* Mutant: the new pictures are shown without reloadData.                   *)
ListArrives_NoReload(r) ==
  /\ request[r].stage = "delayed"
  /\ request' = Done(r)
  /\ IF request[r].for = "nobody" THEN UNCHANGED <<pictures, hidden, fetched>>
     ELSE /\ pictures' = Hits[request[r].url]
          /\ fetched' = fetched \cup {request[r].url}
          /\ hidden' = FALSE
  /\ UNCHANGED <<open, cells, cached, main, loads>>

(* reload() and stopSpinner() have all rows laid out anew.                  *)
ListArrives(r) ==
  /\ request[r].stage = "delayed"
  /\ request' = Done(r)
  /\ IF request[r].for = "nobody" THEN UNCHANGED <<pictures, hidden, fetched, cells>>
     ELSE /\ pictures' = Hits[request[r].url]
          /\ fetched' = fetched \cup {request[r].url}
          /\ cells' = [c \in Cells |-> [cells[c] EXCEPT !.visible = FALSE]]
          /\ hidden' = FALSE
  /\ UNCHANGED <<open, cached, main, loads>>

(***************************************************************************)
(* Rows and their cells.                                                   *)
(***************************************************************************)
(* Mutant: the tag of a cell that is used again is not set.                 *)
cellForItemAt_OldTag(c, i) ==
  /\ open /\ i < Len(pictures)
  /\ ~cells[c].visible
  /\ cells' = [cells EXCEPT ![c] = [@ EXCEPT !.visible = TRUE, !.image = Nil, !.failed = FALSE]]
  /\ Send("cell", pictures[i + 1], c, i)
  /\ UNCHANGED <<open, pictures, hidden, cached, fetched, loads>>

cellForItemAt(c, i) ==
  /\ open /\ i < Len(pictures)
  /\ ~cells[c].visible
  /\ \A d \in Cells : cells[d].visible => cells[d].tag # i
  /\ cells' = [cells EXCEPT ![c] = [visible |-> TRUE, tag |-> i, image |-> Nil, failed |-> FALSE]]
  /\ Send("cell", pictures[i + 1], c, i)
  /\ UNCHANGED <<open, pictures, hidden, cached, fetched, loads>>

(* The cell of a row that leaves the screen keeps its tag and its image     *)
(* until it is used again.                                                 *)
EndDisplaying(c) ==
  /\ cells[c].visible
  /\ cells' = [cells EXCEPT ![c].visible = FALSE]
  /\ UNCHANGED <<open, pictures, hidden, cached, request, main, fetched, loads>>

(* Mutant: an image is shown whatever row the cell has by then.             *)
imageLoaded_AnyRow(r) ==
  IF request[r].for = "cell"
  THEN cells' = [cells EXCEPT ![request[r].cell].image = request[r].url]
  ELSE UNCHANGED cells

(* Data that is no image leaves a cell without one.                         *)
Filled(cell, u)  == [cell EXCEPT !.image = u]
NotAnImage(cell) == [cell EXCEPT !.image = Nil, !.failed = TRUE]

imageLoaded(r) ==
  LET c == request[r].cell
  IN  IF request[r].for = "cell" /\ cells[c].tag = request[r].row
      THEN \E n \in {Filled(cells[c], request[r].url), NotAnImage(cells[c])} :
             cells' = [cells EXCEPT ![c] = n]
      ELSE UNCHANGED cells

RunBlock ==
  /\ main # <<>>
  /\ main' = Tail(main)
  /\ request' = Done(Head(main))
  /\ imageLoaded(Head(main))
  /\ UNCHANGED <<open, pictures, hidden, cached, fetched, loads>>

(***************************************************************************)
(* The end of the screen: a picture is picked, or it is swiped away.       *)
(* Requests go on, and their completions find nobody.                      *)
(***************************************************************************)
ScreenEnds == /\ open' = FALSE
              /\ pictures' = <<>> /\ hidden' = FALSE /\ fetched' = {}
              /\ cells' = [c \in Cells |-> NewCell]
              /\ loads' = [wanted |-> people, course |-> "alone"]
              /\ request' = [r \in Requests |->
                    IF Free(r) THEN request[r]
                    ELSE [request[r] EXCEPT !.for = "nobody", !.cell = Nil, !.row = 0]]
              /\ UNCHANGED <<cached, main>>

didTapAt(c) == open /\ ~hidden /\ cells[c].visible /\ ScreenEnds

Dismiss == open /\ ScreenEnds

Taps == \/ viewDidLoad
        \/ \E k \in Categories : didTap(k)
        \/ \E c \in Cells : didTapAt(c)
        \/ Dismiss

Layout == \E c \in Cells : \/ EndDisplaying(c)
                           \/ \E i \in Rows : cellForItemAt(c, i)

Answer(r) == AnswerArrives(r) \/ RequestFails(r)

Next == \/ Taps
        \/ Layout
        \/ \E r \in Requests : Answer(r) \/ ListArrives(r)
        \/ RunBlock
        \/ \E u \in URLs : Evict(u)

Spec == Init /\ [][Next]_vars

(* A data task ends, timers fire and the main queue runs.  What users do    *)
(* and what the collection lays out may stop.                              *)
FairSpec == /\ Spec
            /\ \A r \in Requests : WF_vars(Answer(r)) /\ WF_vars(ListArrives(r))
            /\ WF_vars(RunBlock)

(***************************************************************************)
(* Properties.                                                             *)
(***************************************************************************)
(* Rows on screen are rows of the pictures, although `pictures` is replaced *)
(* under them: a tap does not index past the end.                          *)
RowsExist == \A c \in Cells : cells[c].visible => cells[c].tag < Len(pictures)

(* Reused cells and late answers: the image of a cell is at the row of the  *)
(* cell in a list this screen has shown - and so in the list on screen as   *)
(* long as the user does not change the category.                          *)
At(u, i, k) == i < Len(Hits[k]) /\ Hits[k][i + 1] = u

ImagesAtTheirRow ==
  \A c \in Cells : cells[c].image # Nil => \E k \in fetched : At(cells[c].image, cells[c].tag, k)

(* A category that was asked for while no other was under way is the one on *)
(* screen once its request is over, unless it failed.                      *)
LoadedAlone ==
  open /\ ~ListUnderWay /\ loads.course = "alone" => ~hidden /\ pictures = Hits[loads.wanted]

(***************************************************************************)
(* The inductive invariant behind them.                                    *)
(***************************************************************************)
PicturesFetched == pictures = <<>> \/ \E k \in fetched : pictures = Hits[k]

(* What a request says is still true of the screen it is for.               *)
RequestsMatchScreen ==
  \A r \in Requests :
    /\ ~Free(r) => request[r].url \in URLs
    /\ request[r].for = "list" => request[r].url \in Categories
    /\ request[r].for = "cell" =>
         /\ request[r].cell \in Cells /\ request[r].url \in Images
         /\ \E k \in fetched : At(request[r].url, request[r].row, k)
    /\ request[r].stage = "delayed" => request[r].for \in {"list", "nobody"}
    /\ request[r].stage = "main" => request[r].for \in {"cell", "nobody"}
    /\ ~open => request[r].for \in {"nothing", "nobody"}

(* A block of the main queue is of a request that waits for it.             *)
BlocksOfRequests ==
  /\ \A i \in DOMAIN main : ~Free(main[i]) /\ request[main[i]].stage = "main"
  /\ \A i, j \in DOMAIN main : main[i] = main[j] => i = j

OneListAlone ==
  loads.course = "alone" =>
    /\ \A r, s \in Requests : request[r].for = "list" /\ request[s].for = "list" => r = s
    /\ \A r \in Requests : request[r].for = "list" => request[r].url = loads.wanted

IInv == /\ TypeOK
        /\ PicturesFetched
        /\ RequestsMatchScreen
        /\ BlocksOfRequests
        /\ OneListAlone
        /\ RowsExist
        /\ ImagesAtTheirRow
        /\ LoadedAlone

(* Nobody waits in vain.  Nothing on screen would say that an answer was    *)
(* lost, so none may be: the spinner runs only while a list is under way, a *)
(* blank cell on screen has its own picture on its way to the row it has    *)
(* now, and a request that waits for the main queue has a block there.      *)
(* Only a request that failed leaves somebody waiting.                      *)
SpinnerAwaits == hidden => ListUnderWay \/ loads.course = "failed"

Blank(c) == cells[c].visible /\ cells[c].image = Nil /\ ~cells[c].failed

BlanksAwait ==
  \A c \in Cells : Blank(c) =>
    \E r \in Requests : /\ request[r].for = "cell" /\ request[r].cell = c
                        /\ request[r].row = cells[c].tag
                        /\ request[r].url = pictures[cells[c].tag + 1]

BlocksQueued ==
  \A r \in Requests : request[r].stage = "main" => \E i \in DOMAIN main : main[i] = r

NobodyForgotten ==
  /\ SpinnerAwaits
  /\ BlanksAwait
  /\ BlocksQueued

(* The spinner does not run for ever, unless a request failed.              *)
SpinnerStops == hidden ~> (~hidden \/ loads.course = "failed")

(* A row that stays on screen comes to show an image, unless its request    *)
(* failed.                                                                 *)
CellsFill ==
  \A c \in Cells : cells[c].visible
                     ~> (~cells[c].visible \/ cells[c].image # Nil \/ cells[c].failed)
================================================================================
