------------------------------ MODULE PlistStorage ------------------------------
(***************************************************************************)
(* ServiceLayer/Storage/StorageService.swift and                           *)
(* CoreLayer/Plist/PlistManager.swift: a dictionary in Documents/Data.plist. *)
(* Every request runs on a global concurrent queue, without any lock; its  *)
(* results run on the main queue, one after the other, in the order in     *)
(* which they were sent there.                                             *)
(*                                                                         *)
(* A save handles its keys one by one: it reads the whole file, changes    *)
(* one key and writes the whole file back.  Data.write(to:) truncates the  *)
(* file and then fills it, so that whoever reads in between finds no       *)
(* property list, and a process that ends there leaves none.               *)
(***************************************************************************)
EXTENDS Integers, FiniteSets, Sequences

CONSTANTS Keys,     \* keys of the dictionary
          Data,     \* what is stored for a key
          Nil,      \* nothing stored
          Clients,  \* who makes requests
          Jobs,     \* how many requests can be in flight
          Backlog   \* clients make no request while more results than this wait

ASSUME NilAssumption == Nil \notin Data
ASSUME FiniteKeys == IsFiniteSet(Keys)

VARIABLES
  process,  \* "running" or "killed"
  file,     \* Documents/Data.plist
  job,      \* the closures on the global queue
  main      \* results sent to the main queue

storageVars == <<process, file, job, main>>

(***************************************************************************)
(* State.                                                                  *)
(***************************************************************************)
Dictionaries == [Keys -> Data \cup {Nil}]
Empty        == [k \in Keys |-> Nil]
DictKeys(d)  == {k \in Keys : d[k] # Nil}

(* Dictionary d with the pairs of e.                                        *)
Merged(d, e) == [k \in Keys |-> IF e[k] # Nil THEN e[k] ELSE d[k]]

Whole(d) == [state |-> "whole", dict |-> d]
Torn     == [state |-> "torn", dict |-> Empty]
Missing  == [state |-> "missing", dict |-> Empty]
Files    == {Whole(d) : d \in Dictionaries} \cup {Torn, Missing}

(* `keys` are those still to be saved, or the one to be loaded; `dict` is   *)
(* what is about to be written.  `mixed` tells whether a write overlapped  *)
(* another.  `clean` and `before` are not in the code: whether the save    *)
(* met no other save and no I/O error, and the dictionary it started from. *)
Job == [ op     : {"none", "save", "load", "loadValue"},
         client : Clients \cup {Nil},
         pairs  : Dictionaries,
         keys   : SUBSET Keys,
         pc     : {"read", "write", "writing"},
         dict   : Dictionaries,
         mixed  : BOOLEAN,
         clean  : BOOLEAN,
         before : Dictionaries ]

Result == [ op : {"save", "load", "loadValue"}, client : Clients,
            success : BOOLEAN, dict : Dictionaries ]

NoJob == [ op |-> "none", client |-> Nil, pairs |-> Empty, keys |-> {}, pc |-> "read",
           dict |-> Empty, mixed |-> FALSE, clean |-> FALSE, before |-> Empty ]

Free(j)   == job[j].op = "none"
Saving(j) == job[j].op = "save"
Quiescent == main = <<>> /\ \A j \in Jobs : Free(j)

StorageTypeOK == /\ process \in {"running", "killed"}
                 /\ file \in Files
                 /\ job \in [Jobs -> Job]
                 /\ main \in Seq(Result)

StorageInit == /\ process = "killed"
               /\ file = Missing
               /\ job = [j \in Jobs |-> NoJob]
               /\ main = <<>>

(***************************************************************************)
(* The requests.                                                           *)
(***************************************************************************)
SaveJob(client, pairs, clean) ==
  [NoJob EXCEPT !.op = "save", !.client = client, !.pairs = pairs,
                !.keys = DictKeys(pairs), !.clean = clean,
                !.before = IF clean THEN file.dict ELSE Empty]

Jostled == [j \in Jobs |-> IF Saving(j)
                           THEN [job[j] EXCEPT !.clean = FALSE, !.before = Empty]
                           ELSE job[j]]

Save(client, pairs) ==
  \E j \in Jobs :
    /\ Free(j)
    /\ job' = [Jostled EXCEPT ![j] =
          SaveJob(client, pairs, file.state = "whole" /\ \A i \in Jobs : ~Saving(i))]

LoadJob(client) == [NoJob EXCEPT !.op = "load", !.client = client, !.keys = Keys]

LoadValueJob(client, key) ==
  [NoJob EXCEPT !.op = "loadValue", !.client = client, !.keys = {key}]

Load(client)           == \E j \in Jobs : Free(j) /\ job' = [job EXCEPT ![j] = LoadJob(client)]
LoadValue(client, key) == \E j \in Jobs : Free(j) /\ job' = [job EXCEPT ![j] = LoadValueJob(client, key)]

(***************************************************************************)
(* Steps of a save.                                                        *)
(***************************************************************************)
Send(j, success, dict) ==
  main' = Append(main, [op |-> job[j].op, client |-> job[j].client,
                        success |-> success, dict |-> dict])

Moved(j, pc, keys, dict) ==
  [job[j] EXCEPT !.pc = pc, !.keys = keys, !.dict = dict]

(* Mutant: the dictionary that is written holds the pair alone.             *)
ReadForKey_PairOnly(j, k) ==
  /\ Saving(j) /\ job[j].pc = "read" /\ k \in job[j].keys
  /\ file.state = "whole"
  /\ job' = [job EXCEPT ![j] = Moved(j, "write", job[j].keys \ {k},
                                     [Empty EXCEPT ![k] = job[j].pairs[k]])]
  /\ UNCHANGED <<process, file, main>>

(* The read for the next key, and the change of the dictionary.             *)
ReadForKey(j, k) ==
  /\ Saving(j) /\ job[j].pc = "read" /\ k \in job[j].keys
  /\ file.state = "whole"
  /\ job' = [job EXCEPT ![j] = Moved(j, "write", job[j].keys \ {k},
                                     [file.dict EXCEPT ![k] = job[j].pairs[k]])]
  /\ UNCHANGED <<process, file, main>>

(* Mutant: the read is tried again.                                         *)
NoFileForKey_Again(j, k) ==
  /\ Saving(j) /\ job[j].pc = "read" /\ k \in job[j].keys
  /\ file.state # "whole"
  /\ job' = [job EXCEPT ![j] = Moved(j, "read", job[j].keys, Empty)]
  /\ Send(j, FALSE, Empty)
  /\ UNCHANGED <<process, file>>

(* No property list is read; a key is given up and the next one tried.      *)
NoFileForKey(j, k) ==
  /\ Saving(j) /\ job[j].pc = "read" /\ k \in job[j].keys
  /\ file.state # "whole"
  /\ job' = [job EXCEPT ![j] = Moved(j, "read", job[j].keys \ {k}, Empty)]
  /\ Send(j, FALSE, Empty)
  /\ UNCHANGED <<process, file>>

WriteBegins(j) ==
  LET mixed == {i \in Jobs : job[i].pc = "writing"}
  IN  /\ job[j].pc = "write"
      /\ file' = Torn
      /\ job' = [i \in Jobs |->
            CASE i = j      -> [job[j] EXCEPT !.pc = "writing", !.mixed = mixed # {}]
              [] i \in mixed -> [job[i] EXCEPT !.mixed = TRUE]
              [] OTHER      -> job[i]]
      /\ UNCHANGED <<process, main>>

(* Of writes that overlap, what the last one leaves may be a mixture.       *)
WriteEnds(j) ==
  /\ job[j].pc = "writing"
  /\ \/ file' = Whole(job[j].dict)
     \/ job[j].mixed /\ file' = Torn
  /\ job' = [job EXCEPT ![j] = [Moved(j, "read", job[j].keys, Empty) EXCEPT !.mixed = FALSE]]
  /\ UNCHANGED <<process, main>>

(* An I/O error in a read or a write of a save, which gives the key up.     *)
SaveMeetsError(j) ==
  /\ Saving(j)
  /\ \/ job[j].pc \in {"write", "writing"}
     \/ job[j].keys # {} /\ file.state = "whole"
  /\ \E keys \in SUBSET job[j].keys :
       /\ Cardinality(job[j].keys \ keys) = IF job[j].pc = "read" THEN 1 ELSE 0
       /\ job' = [job EXCEPT ![j] = [Moved(j, "read", keys, Empty) EXCEPT
                     !.mixed = FALSE, !.clean = FALSE, !.before = Empty]]
  /\ Send(j, FALSE, Empty)
  /\ UNCHANGED <<process, file>>

(* When all keys are done a save reports success, even after a failure.     *)
SaveDone(j) ==
  /\ Saving(j) /\ job[j].pc = "read" /\ job[j].keys = {}
  /\ Send(j, TRUE, Empty)
  /\ job' = [job EXCEPT ![j] = NoJob]
  /\ UNCHANGED <<process, file>>

(***************************************************************************)
(* A load is one read; a value that is not there is a failure.             *)
(***************************************************************************)
Loaded(keys) == [k \in Keys |-> IF k \in keys THEN file.dict[k] ELSE Nil]

Readable(j) == /\ file.state = "whole"
               /\ job[j].op = "loadValue" => Loaded(job[j].keys) # Empty

LoadSucceeds(j) ==
  /\ job[j].op \in {"load", "loadValue"}
  /\ Readable(j)
  /\ Send(j, TRUE, Loaded(job[j].keys))
  /\ job' = [job EXCEPT ![j] = NoJob]
  /\ UNCHANGED <<process, file>>

(* There is nothing to load, or the read meets an I/O error.                *)
LoadFails(j) ==
  /\ job[j].op \in {"load", "loadValue"}
  /\ Send(j, FALSE, Empty)
  /\ job' = [job EXCEPT ![j] = NoJob]
  /\ UNCHANGED <<process, file>>

(***************************************************************************)
(* The end of the process, and a new launch, which copies the empty        *)
(* template of the bundle if there is no file; the copy may fail.          *)
(***************************************************************************)
KillProcess == /\ process = "running"
               /\ process' = "killed"
               /\ job' = [j \in Jobs |-> NoJob]
               /\ main' = <<>>
               /\ UNCHANGED file

createFileLocallyIfNeeded == IF file.state = "missing"
                             THEN file' \in {Whole(Empty), Missing}
                             ELSE UNCHANGED file

StorageStep(j) == \/ \E k \in Keys : ReadForKey(j, k) \/ NoFileForKey(j, k)
                  \/ WriteBegins(j)
                  \/ WriteEnds(j)
                  \/ SaveMeetsError(j)
                  \/ SaveDone(j)
                  \/ LoadSucceeds(j)
                  \/ LoadFails(j)

StorageError(j) == SaveMeetsError(j) \/ (Readable(j) /\ LoadFails(j))

(***************************************************************************)
(* The storage by itself: anyone may request anything.                     *)
(***************************************************************************)
MayRequest == process = "running" /\ Len(main) <= Backlog

Requests == /\ MayRequest
            /\ \E c \in Clients : \/ \E pairs \in Dictionaries : Save(c, pairs)
                                  \/ Load(c)
                                  \/ \E k \in Keys : LoadValue(c, k)
            /\ UNCHANGED <<process, file, main>>

Handle == main # <<>> /\ main' = Tail(main) /\ UNCHANGED <<process, file, job>>

LaunchProcess == /\ process = "killed"
                 /\ process' = "running"
                 /\ createFileLocallyIfNeeded
                 /\ UNCHANGED <<job, main>>

StorageNext == \/ Requests
               \/ Handle
               \/ KillProcess
               \/ LaunchProcess
               \/ \E j \in Jobs : StorageStep(j)

StorageSpec == StorageInit /\ [][StorageNext]_storageVars

(***************************************************************************)
(* Properties.                                                             *)
(***************************************************************************)
(* What a save that met no other save and no I/O error has done so far.     *)
Without(d, keys) == [k \in Keys |-> IF k \in keys THEN Nil ELSE d[k]]

Done(j) == Without(job[j].pairs, job[j].keys)

CleanSaves ==
  \A j \in Jobs : Saving(j) /\ job[j].clean =>
    /\ \A i \in Jobs : Saving(i) => i = j
    /\ job[j].keys \subseteq DictKeys(job[j].pairs)
    /\ ~job[j].mixed
    /\ LET dict == Merged(job[j].before, Done(j))
       IN  IF job[j].pc = "read" THEN file = Whole(dict) ELSE job[j].dict = dict

JobShape ==
  \A j \in Jobs :
    /\ ~Free(j) => job[j].client \in Clients
    /\ ~Saving(j) => job[j].pc = "read" /\ ~job[j].clean

StorageInv == StorageTypeOK /\ JobShape /\ CleanSaves

(* A save that met no other save and no I/O error leaves what there was,    *)
(* with all of its pairs, whatever loads overlap it and although it writes *)
(* the file once for each key.                                             *)
SavedAlone ==
  \A j \in Jobs :
    Saving(j) /\ job[j].clean /\ job[j].pc = "read" /\ job[j].keys = {} =>
      file = Whole(Merged(job[j].before, job[j].pairs))

(* The steps a request has left at most: for each key of a save a read and  *)
(* the two steps of a write.                                               *)
JobLeft(j) ==
  LET phase == [read |-> 1, writing |-> 2, write |-> 3]
  IN  IF Free(j) THEN 0 ELSE 3 * Cardinality(job[j].keys) + phase[job[j].pc]

(* A request has a number of steps before it that depends on the keys       *)
(* alone, each of its steps makes it smaller, also one that meets an error  *)
(* or finds no file, and no request that overlaps it makes it any larger:  *)
(* there is no lock to wait for, and nothing is read or written again.     *)
JobsShorten ==
  [][\A j \in Jobs :
       /\ JobLeft(j)' <= IF Free(j) THEN 3 * Cardinality(Keys) + 1 ELSE JobLeft(j)
       /\ StorageStep(j) => JobLeft(j)' < JobLeft(j)]_storageVars
================================================================================
