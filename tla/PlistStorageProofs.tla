-------------------------- MODULE PlistStorageProofs ---------------------------
(***************************************************************************)
(* Proofs about PlistStorage, for any sets of keys, data, clients and jobs. *)
(***************************************************************************)
EXTENDS PlistStorage, FiniteSetTheorems, TLAPS

-----------------------------------------------------------------------------
(* What the operators return.                                               *)

LEMMA EmptyType == Empty \in Dictionaries
BY DEF Empty, Dictionaries

LEMMA NoJobType == NoJob \in Job
BY EmptyType DEF NoJob, Job

LEMMA FileType ==
  ASSUME NEW f \in Files
  PROVE  /\ f.dict \in Dictionaries
         /\ f.state = "whole" => f = Whole(f.dict)
BY EmptyType DEF Files, Whole, Torn, Missing

LEMMA WholeType ==
  ASSUME NEW d \in Dictionaries
  PROVE  Whole(d) \in Files /\ Whole(d).dict = d /\ Whole(d).state = "whole"
BY DEF Files, Whole

(* A save whose keys are all still to be done has done nothing.             *)
LEMMA NothingDone ==
  ASSUME NEW before \in Dictionaries, NEW pairs \in Dictionaries
  PROVE  Merged(before, Without(pairs, DictKeys(pairs))) = before
BY DEF Without, Merged, DictKeys, Dictionaries

LEMMA JostledType == StorageTypeOK => Jostled \in [Jobs -> Job]
<1>1. ASSUME NEW x \in Job PROVE [x EXCEPT !.clean = FALSE, !.before = Empty] \in Job
  BY EmptyType, Zenon DEF Job
<1>2. QED
  BY <1>1 DEF StorageTypeOK, Jostled

LEMMA MovedType ==
  ASSUME StorageTypeOK, NEW j \in Jobs, NEW pc \in {"read", "write", "writing"},
         NEW keys \in SUBSET Keys, NEW dict \in Dictionaries
  PROVE  Moved(j, pc, keys, dict) \in Job
BY DEF StorageTypeOK, Moved, Job

LEMMA SendType ==
  ASSUME StorageTypeOK, NEW j \in Jobs, NEW success \in BOOLEAN, NEW dict \in Dictionaries,
         job[j].op # "none", job[j].client \in Clients, Send(j, success, dict)
  PROVE  main' \in Seq(Result)
<1>1. job[j].op \in {"save", "load", "loadValue"}
  BY DEF StorageTypeOK, Job
<1>2. [op |-> job[j].op, client |-> job[j].client, success |-> success, dict |-> dict] \in Result
  BY <1>1 DEF Result
<1>3. QED
  BY <1>2 DEF StorageTypeOK, Send

(* All but the file and the results is kept while job j moves on and the    *)
(* others stay, which is what most steps of a save do.                     *)
LEMMA MoveShape ==
  ASSUME StorageInv, NEW j \in Jobs, Saving(j), NEW next \in Job,
         next.op = "save", next.client = job[j].client,
         job' = [job EXCEPT ![j] = next]
  PROVE  job' \in [Jobs -> Job] /\ JobShape'
BY DEF StorageInv, StorageTypeOK, JobShape, Saving, Free

-----------------------------------------------------------------------------
(* Requests.                                                                *)

LEMMA SaveInv ==
  ASSUME StorageInv, NEW c \in Clients, NEW pairs \in Dictionaries, Save(c, pairs),
         UNCHANGED <<process, file>>, main' \in Seq(Result)
  PROVE  StorageInv'
<1> DEFINE alone == file.state = "whole" /\ \A i \in Jobs : ~Saving(i)
           save == SaveJob(c, pairs, alone)
<1>1. PICK j \in Jobs : Free(j) /\ job' = [Jostled EXCEPT ![j] = save]
  BY DEF Save
<1>2. alone \in BOOLEAN /\ file.dict \in Dictionaries
  BY FileType DEF StorageInv, StorageTypeOK
<1>3. /\ save \in Job
      /\ save.op = "save" /\ save.client = c /\ save.pairs = pairs
      /\ save.keys = DictKeys(pairs) /\ save.pc = "read" /\ save.mixed = FALSE
      /\ save.clean = alone
      /\ alone => save.before = file.dict
  BY <1>2, EmptyType, NoJobType DEF SaveJob, NoJob, Job, DictKeys
<1> HIDE DEF save
<1>4. /\ job' \in [Jobs -> Job]
      /\ job'[j] = save
      /\ \A i \in Jobs \ {j} : job'[i] = Jostled[i]
  BY <1>1, <1>3, JostledType DEF StorageInv
<1>5. \A i \in Jobs \ {j} :
        /\ job'[i].op = job[i].op /\ job'[i].client = job[i].client /\ job'[i].pc = job[i].pc
        /\ job'[i].clean = FALSE
  <2> TAKE i \in Jobs \ {j}
  <2>1. job[i] \in Job
    BY DEF StorageInv, StorageTypeOK
  <2>2. CASE Saving(i)
    <3>1. job'[i] = [job[i] EXCEPT !.clean = FALSE, !.before = Empty]
      BY <1>4, <2>2 DEF Jostled
    <3>2. QED
      BY <2>1, <3>1 DEF Job
  <2>3. CASE ~Saving(i)
    <3>1. job'[i] = job[i]
      BY <1>4, <2>3 DEF Jostled
    <3>2. QED
      BY <2>1, <2>3, <3>1 DEF StorageInv, JobShape, Job
  <2>4. QED
    BY <2>2, <2>3
<1>6. StorageTypeOK'
  BY <1>4 DEF StorageInv, StorageTypeOK
<1>7. JobShape'
  BY <1>3, <1>4, <1>5 DEF StorageInv, JobShape, Saving, Free
<1>8. CleanSaves'
  <2> SUFFICES ASSUME alone
               PROVE  CleanSaves'
    BY <1>3, <1>4, <1>5 DEF CleanSaves, Saving
  <2>1. \A i \in Jobs : Saving(i)' => i = j
    BY <1>5 DEF Saving
  <2>2. Done(j)' = Without(pairs, DictKeys(pairs))
    BY <1>3, <1>4 DEF Done
  <2>3. Merged(save.before, Done(j)') = file.dict
    BY <1>2, <1>3, <2>2, NothingDone
  <2>4. file = Whole(file.dict)
    BY FileType DEF StorageInv, StorageTypeOK
  <2>5. QED
    BY <1>3, <1>4, <2>1, <2>3, <2>4 DEF CleanSaves
<1>9. QED
  BY <1>6, <1>7, <1>8 DEF StorageInv

(* A load is put where there was no job.                                    *)
LEMMA LoadJobInv ==
  ASSUME StorageInv, NEW c \in Clients, NEW j \in Jobs, NEW load \in Job,
         Free(j), job' = [job EXCEPT ![j] = load],
         load.op # "save", load.pc = "read", load.clean = FALSE, load.client = c,
         UNCHANGED <<process, file, main>>
  PROVE  StorageInv'
<1>1. job' \in [Jobs -> Job]
  BY DEF StorageInv, StorageTypeOK
<1>2. JobShape'
  BY DEF StorageInv, StorageTypeOK, JobShape, Saving, Free
<1>3. \A i \in Jobs : Saving(i)' => i # j /\ Saving(i) /\ job'[i] = job[i]
  BY DEF Saving, StorageInv, StorageTypeOK
<1>4. CleanSaves'
  BY <1>3 DEF StorageInv, CleanSaves, Done
<1>5. QED
  BY <1>1, <1>2, <1>4 DEF StorageInv, StorageTypeOK

LEMMA LoadInv ==
  ASSUME StorageInv, NEW c \in Clients, Load(c), UNCHANGED <<process, file, main>>
  PROVE  StorageInv'
<1>1. PICK j \in Jobs : Free(j) /\ job' = [job EXCEPT ![j] = LoadJob(c)]
  BY DEF Load
<1>2. /\ LoadJob(c) \in Job
      /\ LoadJob(c).op # "save" /\ LoadJob(c).pc = "read"
      /\ LoadJob(c).clean = FALSE /\ LoadJob(c).client = c
  BY NoJobType DEF LoadJob, NoJob, Job
<1>3. QED
  BY <1>1, <1>2, LoadJobInv

LEMMA LoadValueInv ==
  ASSUME StorageInv, NEW c \in Clients, NEW key \in Keys, LoadValue(c, key),
         UNCHANGED <<process, file, main>>
  PROVE  StorageInv'
<1>1. PICK j \in Jobs : Free(j) /\ job' = [job EXCEPT ![j] = LoadValueJob(c, key)]
  BY DEF LoadValue
<1>2. /\ LoadValueJob(c, key) \in Job
      /\ LoadValueJob(c, key).op # "save" /\ LoadValueJob(c, key).pc = "read"
      /\ LoadValueJob(c, key).clean = FALSE /\ LoadValueJob(c, key).client = c
  BY NoJobType DEF LoadValueJob, NoJob, Job
<1>3. QED
  BY <1>1, <1>2, LoadJobInv

-----------------------------------------------------------------------------
(* Steps of a save.                                                         *)

(* While job j saves, only j can be a clean save: of the others there is    *)
(* nothing to show.                                                        *)
LEMMA OnlyOneClean ==
  ASSUME StorageInv, NEW j \in Jobs, Saving(j), NEW next \in Job,
         next.op = "save", next.client = job[j].client,
         job' = [job EXCEPT ![j] = next],
         next.clean =>
           /\ job[j].clean
           /\ next.keys \subseteq DictKeys(next.pairs)
           /\ ~next.mixed
           /\ LET dict == Merged(next.before,
                                 Without(next.pairs, next.keys))
              IN  IF next.pc = "read" THEN file' = Whole(dict) ELSE next.dict = dict
  PROVE  CleanSaves'
<1>1. job' \in [Jobs -> Job] /\ job'[j] = next /\ \A i \in Jobs \ {j} : job'[i] = job[i]
  BY DEF StorageInv, StorageTypeOK
<1>2. \A i \in Jobs : Saving(i)' <=> Saving(i)
  BY <1>1 DEF Saving
<1>3. SUFFICES ASSUME NEW i \in Jobs, Saving(i)', job'[i].clean
               PROVE  /\ \A h \in Jobs : Saving(h)' => h = i
                      /\ job'[i].keys \subseteq DictKeys(job'[i].pairs)
                      /\ ~job'[i].mixed
                      /\ LET dict == Merged(job'[i].before, Done(i)')
                         IN  IF job'[i].pc = "read" THEN file' = Whole(dict)
                                                    ELSE job'[i].dict = dict
  BY DEF CleanSaves, DictKeys
<1>4. Saving(i) /\ job[i].clean
  BY <1>1, <1>2, <1>3
<1>5. i = j /\ \A h \in Jobs : Saving(h)' => h = i
  BY <1>2, <1>4 DEF StorageInv, CleanSaves
<1>6. Done(i)' = Without(next.pairs, next.keys)
  BY <1>1, <1>5 DEF Done
<1>7. QED
  BY <1>1, <1>3, <1>5, <1>6

LEMMA ReadForKeyInv ==
  ASSUME StorageInv, NEW j \in Jobs, NEW k \in Keys, ReadForKey(j, k)
  PROVE  StorageInv'
<1> DEFINE dict == [file.dict EXCEPT ![k] = job[j].pairs[k]]
           next == Moved(j, "write", job[j].keys \ {k}, dict)
<1>1. job[j] \in Job /\ file \in Files /\ Saving(j) /\ job[j].pc = "read" /\ k \in job[j].keys
  BY DEF ReadForKey, StorageInv, StorageTypeOK
<1>2. dict \in Dictionaries
  BY <1>1, FileType DEF Dictionaries, Job
<1>3. next \in Job
  BY <1>1, <1>2, MovedType DEF StorageInv, Job
<1>4. /\ next.op = "save" /\ next.client = job[j].client /\ next.pairs = job[j].pairs
      /\ next.keys = job[j].keys \ {k} /\ next.pc = "write" /\ next.dict = dict
      /\ next.mixed = job[j].mixed /\ next.clean = job[j].clean /\ next.before = job[j].before
  BY <1>1 DEF Moved, Saving, Job
<1> HIDE DEF next
<1>5. job' = [job EXCEPT ![j] = next] /\ UNCHANGED <<process, file, main>>
  BY DEF ReadForKey, next
<1>6. StorageTypeOK' /\ JobShape'
  BY <1>1, <1>3, <1>4, <1>5, MoveShape DEF StorageInv, StorageTypeOK
<1>7. ASSUME job[j].clean
      PROVE  /\ next.keys \subseteq DictKeys(next.pairs)
             /\ ~next.mixed
             /\ next.dict = Merged(next.before,
                       Without(next.pairs, next.keys))
  <2>1. /\ job[j].keys \subseteq DictKeys(job[j].pairs) /\ ~job[j].mixed
        /\ file = Whole(Merged(job[j].before, Done(j)))
    BY <1>1, <1>7 DEF StorageInv, CleanSaves
  <2>2. job[j].before \in Dictionaries /\ job[j].pairs \in Dictionaries
    BY <1>1 DEF Job
  <2>3. file.dict = Merged(job[j].before,
                       Without(job[j].pairs, job[j].keys))
    BY <2>1 DEF Whole, Done
  <2>4. dict = Merged(job[j].before,
                       Without(job[j].pairs, job[j].keys \ {k}))
    <3>1. job[j].keys \subseteq DictKeys(job[j].pairs) /\ k \in job[j].keys
      BY <1>1, <2>1
    <3>2. [Merged(job[j].before,
                  Without(job[j].pairs, job[j].keys))
             EXCEPT ![k] = job[j].pairs[k]]
           = Merged(job[j].before,
                    Without(job[j].pairs, job[j].keys \ {k}))
      BY <2>2, <3>1 DEF Without, Merged, DictKeys, Dictionaries
    <3>3. QED
      BY <2>3, <3>2
  <2>5. QED
    BY <1>4, <2>1, <2>4
<1>8. CleanSaves'
  BY <1>1, <1>3, <1>4, <1>5, <1>7, OnlyOneClean
<1>9. QED
  BY <1>6, <1>8 DEF StorageInv

LEMMA NoFileForKeyInv ==
  ASSUME StorageInv, NEW j \in Jobs, NEW k \in Keys, NoFileForKey(j, k)
  PROVE  StorageInv'
<1> DEFINE next == Moved(j, "read", job[j].keys \ {k}, Empty)
<1>1. job[j] \in Job /\ Saving(j) /\ job[j].pc = "read" /\ file.state # "whole"
  BY DEF NoFileForKey, StorageInv, StorageTypeOK
<1>2. next \in Job
  BY <1>1, EmptyType, MovedType DEF StorageInv, Job
<1>3. /\ next.op = "save" /\ next.client = job[j].client /\ next.clean = job[j].clean
  BY <1>1 DEF Moved, Saving, Job
<1> HIDE DEF next
<1>4. job' = [job EXCEPT ![j] = next] /\ Send(j, FALSE, Empty) /\ UNCHANGED <<process, file>>
  BY DEF NoFileForKey, next
<1>5. main' \in Seq(Result)
  BY <1>1, <1>4, EmptyType, SendType DEF StorageInv, JobShape, Saving, Free
<1>6. StorageTypeOK' /\ JobShape'
  BY <1>1, <1>2, <1>3, <1>4, <1>5, MoveShape DEF StorageInv, StorageTypeOK
<1>7. ~job[j].clean
  BY <1>1 DEF StorageInv, CleanSaves, Whole
<1>8. CleanSaves'
  BY <1>1, <1>2, <1>3, <1>4, <1>7, OnlyOneClean DEF Job
<1>9. QED
  BY <1>6, <1>8 DEF StorageInv

(* No two writes overlap while one of the saves is clean.                   *)
LEMMA WriteBeginsInv ==
  ASSUME StorageInv, NEW j \in Jobs, WriteBegins(j)
  PROVE  StorageInv'
<1> DEFINE mixed == {i \in Jobs : job[i].pc = "writing"}
<1>1. job[j].pc = "write" /\ file' = Torn /\ UNCHANGED <<process, main>>
  BY DEF WriteBegins
<1>2. job' = [i \in Jobs |->
            CASE i = j      -> [job[j] EXCEPT !.pc = "writing", !.mixed = mixed # {}]
              [] i \in mixed -> [job[i] EXCEPT !.mixed = TRUE]
              [] OTHER      -> job[i]]
  BY DEF WriteBegins
<1>3. Saving(j)
  BY <1>1 DEF StorageInv, JobShape
<1>4. \A i \in Jobs : /\ job'[i] \in Job
                      /\ job'[i].op = job[i].op /\ job'[i].client = job[i].client
                      /\ job'[i].keys = job[i].keys /\ job'[i].pairs = job[i].pairs
                      /\ job'[i].dict = job[i].dict /\ job'[i].before = job[i].before
                      /\ job'[i].clean = job[i].clean
                      /\ job'[i].pc = IF i = j THEN "writing" ELSE job[i].pc
  <2> TAKE i \in Jobs
  <2>1. job[i] \in Job /\ job[j] \in Job
    BY DEF StorageInv, StorageTypeOK
  <2>2. CASE i = j
    BY <1>2, <2>1, <2>2 DEF Job
  <2>3. CASE i # j /\ i \in mixed
    BY <1>2, <2>1, <2>3 DEF Job
  <2>4. CASE i # j /\ i \notin mixed
    BY <1>2, <2>1, <2>4
  <2>5. QED
    BY <2>2, <2>3, <2>4
<1>5. StorageTypeOK'
  <2>1. job' \in [Jobs -> Job]
    BY <1>2, <1>4
  <2>2. QED
    BY <1>1, <2>1 DEF StorageInv, StorageTypeOK, Files
<1>6. JobShape'
  BY <1>3, <1>4 DEF StorageInv, JobShape, Saving, Free
<1>7. CleanSaves'
  <2>1. SUFFICES ASSUME NEW i \in Jobs, Saving(i)', job'[i].clean
                 PROVE  /\ \A h \in Jobs : Saving(h)' => h = i
                        /\ job'[i].keys \subseteq DictKeys(job'[i].pairs)
                        /\ ~job'[i].mixed
                        /\ LET dict == Merged(job'[i].before, Done(i)')
                           IN  IF job'[i].pc = "read" THEN file' = Whole(dict)
                                                      ELSE job'[i].dict = dict
    BY DEF CleanSaves, DictKeys
  <2>2. /\ Saving(i) /\ job[i].clean
        /\ \A h \in Jobs : Saving(h) => h = i
    BY <1>4, <2>1 DEF Saving, StorageInv, CleanSaves
  <2>3. i = j /\ mixed = {}
    BY <1>1, <1>3, <2>2 DEF StorageInv, JobShape
  <2>4. ~job'[i].mixed
    BY <1>2, <2>3 DEF StorageInv, StorageTypeOK, Job
  <2>5. /\ job[j].keys \subseteq DictKeys(job[j].pairs)
        /\ job[j].dict = Merged(job[j].before, Done(j))
    BY <1>1, <2>2, <2>3 DEF StorageInv, CleanSaves
  <2>6. Done(j)' = Done(j)
    BY <1>4 DEF Done
  <2>7. QED
    BY <1>4, <2>2, <2>3, <2>4, <2>5, <2>6 DEF Saving
<1>8. QED
  BY <1>5, <1>6, <1>7 DEF StorageInv

LEMMA WriteEndsInv ==
  ASSUME StorageInv, NEW j \in Jobs, WriteEnds(j)
  PROVE  StorageInv'
<1> DEFINE next == [Moved(j, "read", job[j].keys, Empty) EXCEPT !.mixed = FALSE]
<1>1. job[j].pc = "writing" /\ Saving(j) /\ job[j] \in Job
  BY DEF WriteEnds, StorageInv, StorageTypeOK, JobShape
<1>2. Moved(j, "read", job[j].keys, Empty) \in Job
  BY <1>1, EmptyType, MovedType DEF StorageInv, Job
<1>3. /\ next \in Job
      /\ next.op = "save" /\ next.client = job[j].client /\ next.pairs = job[j].pairs
      /\ next.keys = job[j].keys /\ next.pc = "read" /\ next.mixed = FALSE
      /\ next.clean = job[j].clean /\ next.before = job[j].before
  BY <1>1, <1>2, EmptyType DEF Moved, Saving, Job
<1> HIDE DEF next
<1>4. /\ job' = [job EXCEPT ![j] = next] /\ UNCHANGED <<process, main>>
      /\ \/ file' = Whole(job[j].dict)
         \/ job[j].mixed /\ file' = Torn
  BY DEF WriteEnds, next
<1>5. file' \in Files
  BY <1>1, <1>4 DEF Job, Files
<1>6. StorageTypeOK' /\ JobShape'
  BY <1>1, <1>3, <1>4, <1>5, MoveShape DEF StorageInv, StorageTypeOK
<1>7. ASSUME job[j].clean
      PROVE  /\ next.keys \subseteq DictKeys(next.pairs)
             /\ file' = Whole(Merged(next.before, Without(next.pairs, next.keys)))
  <2>1. /\ job[j].keys \subseteq DictKeys(job[j].pairs) /\ ~job[j].mixed
        /\ job[j].dict = Merged(job[j].before, Done(j))
    BY <1>1, <1>7 DEF StorageInv, CleanSaves
  <2>2. QED
    BY <1>3, <1>4, <2>1 DEF Done
<1>8. CleanSaves'
  BY <1>1, <1>3, <1>4, <1>7, OnlyOneClean
<1>9. QED
  BY <1>6, <1>8 DEF StorageInv

LEMMA SaveMeetsErrorInv ==
  ASSUME StorageInv, NEW j \in Jobs, SaveMeetsError(j)
  PROVE  StorageInv'
<1>1. job[j] \in Job /\ Saving(j) /\ UNCHANGED <<process, file>> /\ Send(j, FALSE, Empty)
  BY DEF SaveMeetsError, StorageInv, StorageTypeOK
<1>2. PICK keys \in SUBSET job[j].keys :
        job' = [job EXCEPT ![j] = [Moved(j, "read", keys, Empty) EXCEPT
                     !.mixed = FALSE, !.clean = FALSE, !.before = Empty]]
  BY DEF SaveMeetsError
<1> DEFINE next == [Moved(j, "read", keys, Empty) EXCEPT
                     !.mixed = FALSE, !.clean = FALSE, !.before = Empty]
<1>3. Moved(j, "read", keys, Empty) \in Job
  BY <1>1, EmptyType, MovedType DEF StorageInv, Job
<1>4. /\ next \in Job
      /\ next.op = "save" /\ next.client = job[j].client /\ next.clean = FALSE
  BY <1>1, <1>3, EmptyType DEF Moved, Saving, Job
<1> HIDE DEF next
<1>5. job' = [job EXCEPT ![j] = next]
  BY <1>2 DEF next
<1>6. main' \in Seq(Result)
  BY <1>1, EmptyType, SendType DEF StorageInv, JobShape, Saving, Free
<1>7. StorageTypeOK' /\ JobShape'
  BY <1>1, <1>4, <1>5, <1>6, MoveShape DEF StorageInv, StorageTypeOK
<1>8. CleanSaves'
  BY <1>1, <1>4, <1>5, OnlyOneClean
<1>9. QED
  BY <1>7, <1>8 DEF StorageInv

(* A job that ends leaves the others as they are.                           *)
LEMMA EndInv ==
  ASSUME StorageInv, NEW j \in Jobs, ~Free(j), NEW success \in BOOLEAN,
         NEW dict \in Dictionaries, Send(j, success, dict),
         job' = [job EXCEPT ![j] = NoJob], UNCHANGED <<process, file>>
  PROVE  StorageInv'
<1>1. main' \in Seq(Result)
  BY SendType DEF StorageInv, JobShape, Free
<1>2. StorageTypeOK'
  BY <1>1, NoJobType DEF StorageInv, StorageTypeOK
<1>3. \A i \in Jobs : Saving(i)' => i # j /\ Saving(i) /\ job'[i] = job[i]
  BY DEF Saving, StorageInv, StorageTypeOK, NoJob
<1>4. JobShape'
  BY DEF StorageInv, StorageTypeOK, JobShape, Saving, Free, NoJob
<1>5. CleanSaves'
  BY <1>3 DEF StorageInv, CleanSaves, Done
<1>6. QED
  BY <1>2, <1>4, <1>5 DEF StorageInv

LEMMA StorageStepInv ==
  ASSUME StorageInv, NEW j \in Jobs, StorageStep(j)
  PROVE  StorageInv'
<1>1. CASE \E k \in Keys : ReadForKey(j, k) \/ NoFileForKey(j, k)
  BY <1>1, ReadForKeyInv, NoFileForKeyInv
<1>2. CASE WriteBegins(j)
  BY <1>2, WriteBeginsInv
<1>3. CASE WriteEnds(j)
  BY <1>3, WriteEndsInv
<1>4. CASE SaveMeetsError(j)
  BY <1>4, SaveMeetsErrorInv
<1>5. CASE SaveDone(j)
  BY <1>5, EmptyType, EndInv DEF SaveDone, Saving, Free
<1>6. CASE LoadSucceeds(j)
  <2>1. Loaded(job[j].keys) \in Dictionaries
    BY <1>6, FileType DEF Loaded, Dictionaries, StorageInv, StorageTypeOK
  <2>2. QED
    BY <1>6, <2>1, EndInv DEF LoadSucceeds, Free
<1>7. CASE LoadFails(j)
  BY <1>7, EmptyType, EndInv DEF LoadFails, Free
<1>8. QED
  BY <1>1, <1>2, <1>3, <1>4, <1>5, <1>6, <1>7 DEF StorageStep

-----------------------------------------------------------------------------
(* The process.                                                             *)

LEMMA NoJobsInv ==
  ASSUME NoJob \in Job, job' = [j \in Jobs |-> NoJob]
  PROVE  job' \in [Jobs -> Job] /\ JobShape' /\ CleanSaves'
BY DEF JobShape, CleanSaves, Saving, Free, NoJob

LEMMA KillProcessInv == ASSUME StorageInv, KillProcess PROVE StorageInv'
<1>1. main' \in Seq(Result)
  BY DEF KillProcess
<1>2. QED
  BY <1>1, NoJobType, NoJobsInv DEF StorageInv, StorageTypeOK, KillProcess

(* The file a launch may make is not one a clean save relies on: there is   *)
(* none without a file.                                                    *)
LEMMA LaunchProcessInv == ASSUME StorageInv, LaunchProcess PROVE StorageInv'
<1>1. UNCHANGED <<job, main>> /\ process' = "running"
      /\ (IF file.state = "missing" THEN file' \in {Whole(Empty), Missing} ELSE UNCHANGED file)
  BY DEF LaunchProcess, createFileLocallyIfNeeded
<1>2. StorageTypeOK'
  BY <1>1, EmptyType, WholeType DEF StorageInv, StorageTypeOK, Files
<1>3. JobShape'
  BY <1>1 DEF StorageInv, JobShape, Saving, Free
<1>4. \A d : file = Whole(d) => file' = file
  BY <1>1 DEF Whole
<1>5. CleanSaves'
  BY <1>1, <1>4 DEF StorageInv, CleanSaves, Saving, Done
<1>6. QED
  BY <1>2, <1>3, <1>5 DEF StorageInv

LEMMA HandleInv == ASSUME StorageInv, Handle PROVE StorageInv'
<1>1. main' \in Seq(Result)
  BY DEF Handle, StorageInv, StorageTypeOK
<1>2. StorageTypeOK' /\ JobShape' /\ CleanSaves'
  BY <1>1 DEF Handle, StorageInv, StorageTypeOK, JobShape, CleanSaves, Saving, Free, Done
<1>3. QED
  BY <1>2 DEF StorageInv

-----------------------------------------------------------------------------
(* The theorems.                                                            *)

LEMMA StorageInitInv == StorageInit => StorageInv
<1> SUFFICES ASSUME StorageInit
             PROVE  StorageInv
  OBVIOUS
<1>1. StorageTypeOK
  BY NoJobType DEF StorageInit, StorageTypeOK, Files
<1>2. JobShape /\ CleanSaves
  BY DEF StorageInit, JobShape, CleanSaves, Saving, Free, NoJob
<1>3. QED
  BY <1>1, <1>2 DEF StorageInv

LEMMA StorageNextInv == StorageInv /\ [StorageNext]_storageVars => StorageInv'
<1> SUFFICES ASSUME StorageInv, [StorageNext]_storageVars
             PROVE  StorageInv'
  OBVIOUS
<1>1. CASE Requests
  <2>1. PICK c \in Clients :
          \/ \E pairs \in Dictionaries : Save(c, pairs)
          \/ Load(c)
          \/ \E k \in Keys : LoadValue(c, k)
    BY <1>1 DEF Requests
  <2>2. UNCHANGED <<process, file, main>>
    BY <1>1 DEF Requests
  <2>3. CASE \E pairs \in Dictionaries : Save(c, pairs)
    BY <2>2, <2>3, SaveInv DEF StorageInv, StorageTypeOK
  <2>4. CASE Load(c)
    BY <2>2, <2>4, LoadInv
  <2>5. CASE \E k \in Keys : LoadValue(c, k)
    BY <2>2, <2>5, LoadValueInv
  <2>6. QED
    BY <2>1, <2>3, <2>4, <2>5
<1>2. CASE Handle
  BY <1>2, HandleInv
<1>3. CASE KillProcess
  BY <1>3, KillProcessInv
<1>4. CASE LaunchProcess
  BY <1>4, LaunchProcessInv
<1>5. CASE \E j \in Jobs : StorageStep(j)
  BY <1>5, StorageStepInv
<1>6. CASE UNCHANGED storageVars
  BY <1>6 DEF storageVars, StorageInv, StorageTypeOK, JobShape, CleanSaves, Saving, Free, Done
<1>7. QED
  BY <1>1, <1>2, <1>3, <1>4, <1>5, <1>6 DEF StorageNext

(* The inductive invariant of the storage: a clean save is the only save,   *)
(* no other write overlaps its own, and the file, or what it is about to   *)
(* write, is what it started from with the pairs done so far.              *)
THEOREM StorageInvariant == StorageSpec => []StorageInv
BY StorageInitInv, StorageNextInv, PTL DEF StorageSpec

LEMMA InvSavedAlone == StorageInv => SavedAlone
<1> SUFFICES ASSUME StorageInv, NEW j \in Jobs, Saving(j), job[j].clean, job[j].pc = "read",
                    job[j].keys = {}
             PROVE  file = Whole(Merged(job[j].before, job[j].pairs))
  BY DEF SavedAlone
<1>1. job[j].pairs \in Dictionaries
  BY DEF StorageInv, StorageTypeOK, Job
<1>2. Done(j) = job[j].pairs
  BY <1>1 DEF Done, Without, Dictionaries
<1>3. QED
  BY <1>2 DEF StorageInv, CleanSaves

(* A save that met no other save and no I/O error leaves all its pairs, and *)
(* everything else as it was: for any number of keys and overlapping loads. *)
THEOREM SavesAloneComplete == StorageSpec => []SavedAlone
BY StorageInvariant, InvSavedAlone, PTL

-----------------------------------------------------------------------------
(* The end of the requests: what is left of one is a number that its steps  *)
(* make smaller.                                                            *)

LEMMA KeysCounted ==
  ASSUME NEW S \in SUBSET Keys
  PROVE  /\ Cardinality(S) \in Nat /\ Cardinality(Keys) \in Nat
         /\ Cardinality(S) <= Cardinality(Keys)
         /\ \A T \in SUBSET S : /\ Cardinality(T) \in Nat
                               /\ T # S => Cardinality(T) < Cardinality(S)
<1>1. IsFiniteSet(S) /\ Cardinality(S) \in Nat /\ Cardinality(Keys) \in Nat
      /\ Cardinality(S) <= Cardinality(Keys)
  BY FiniteKeys, FS_Subset, FS_CardinalityType
<1>2. ASSUME NEW T \in SUBSET S
      PROVE  Cardinality(T) \in Nat /\ (T # S => Cardinality(T) < Cardinality(S))
  <2>1. IsFiniteSet(T) /\ Cardinality(T) <= Cardinality(S)
        /\ (Cardinality(S) = Cardinality(T) => S = T)
    BY <1>1, FS_Subset
  <2>2. Cardinality(T) \in Nat
    BY <2>1, FS_CardinalityType
  <2>3. QED
    BY <1>1, <2>1, <2>2
<1>3. QED
  BY <1>1, <1>2

(* JobLeft, of the record of a request.                                     *)
JobAhead(x) ==
  LET phase == [read |-> 1, writing |-> 2, write |-> 3]
  IN  IF x.op = "none" THEN 0 ELSE 3 * Cardinality(x.keys) + phase[x.pc]

LEMMA JobLeftIsAhead ==
  ASSUME NEW j
  PROVE  JobLeft(j) = JobAhead(job[j]) /\ JobLeft(j)' = JobAhead(job'[j])
BY DEF JobLeft, JobAhead, Free

LEMMA JobAheadValue ==
  ASSUME NEW x, x.op # "none"
  PROVE  /\ x.pc = "read" => JobAhead(x) = 3 * Cardinality(x.keys) + 1
         /\ x.pc = "writing" => JobAhead(x) = 3 * Cardinality(x.keys) + 2
         /\ x.pc = "write" => JobAhead(x) = 3 * Cardinality(x.keys) + 3
BY DEF JobAhead

LEMMA JobAheadType ==
  ASSUME NEW x \in Job
  PROVE  /\ JobAhead(x) \in Nat
         /\ IF x.op = "none" THEN JobAhead(x) = 0 ELSE JobAhead(x) > 0
<1>1. CASE x.op = "none"
  BY <1>1 DEF JobAhead
<1>2. CASE x.op # "none"
  <2>1. Cardinality(x.keys) \in Nat
    BY KeysCounted DEF Job
  <2>2. x.pc \in {"read", "writing", "write"}
    BY DEF Job
  <2>3. QED
    BY <1>2, <2>1, <2>2, JobAheadValue
<1>3. QED
  BY <1>1, <1>2

LEMMA JobLeftType ==
  ASSUME StorageTypeOK, NEW j \in Jobs
  PROVE  /\ JobLeft(j) \in Nat
         /\ IF Free(j) THEN JobLeft(j) = 0 ELSE JobLeft(j) > 0
<1>1. job[j] \in Job
  BY DEF StorageTypeOK
<1>2. QED
  BY <1>1, JobLeftIsAhead, JobAheadType DEF Free

LEMMA SameJobLeft ==
  ASSUME NEW j, job'[j].op = job[j].op, job'[j].keys = job[j].keys, job'[j].pc = job[j].pc
  PROVE  JobLeft(j)' = JobLeft(j)
BY JobLeftIsAhead DEF JobAhead

(* A key less, or a phase further.                                          *)
LEMMA MoveShortens ==
  ASSUME StorageTypeOK, NEW j \in Jobs, ~Free(j),
         job'[j].op # "none", job'[j].keys \in SUBSET job[j].keys,
         \/ /\ job[j].pc = "read" /\ job'[j].pc \in {"read", "write"}
            /\ job'[j].keys # job[j].keys
         \/ job[j].pc = "write" /\ job'[j].pc \in {"read", "writing"}
         \/ job[j].pc = "writing" /\ job'[j].pc = "read"
  PROVE  JobLeft(j)' < JobLeft(j)
<1> DEFINE x == job[j]
           y == job'[j]
           n == Cardinality(x.keys)
           m == Cardinality(y.keys)
<1>1. x.keys \in SUBSET Keys /\ x.op # "none"
  BY DEF StorageTypeOK, Job, Free
<1>2. JobLeft(j) = JobAhead(x) /\ JobLeft(j)' = JobAhead(y)
  BY JobLeftIsAhead
<1> HIDE DEF x, y
<1>3. n \in Nat /\ m \in Nat /\ m <= n /\ (y.keys # x.keys => m < n)
  <2>1. n \in Nat /\ m \in Nat /\ (y.keys # x.keys => m < n)
    BY <1>1, KeysCounted DEF x, y
  <2>2. y.keys = x.keys => m = n
    OBVIOUS
  <2>3. QED
    BY <2>1, <2>2
<1>4. /\ x.pc = "read" => JobAhead(x) = 3 * n + 1
      /\ x.pc = "writing" => JobAhead(x) = 3 * n + 2
      /\ x.pc = "write" => JobAhead(x) = 3 * n + 3
  BY <1>1, JobAheadValue
<1>5. /\ y.pc = "read" => JobAhead(y) = 3 * m + 1
      /\ y.pc = "writing" => JobAhead(y) = 3 * m + 2
      /\ y.pc = "write" => JobAhead(y) = 3 * m + 3
  BY JobAheadValue DEF y
<1>6. \/ x.pc = "read" /\ y.pc \in {"read", "write"} /\ y.keys # x.keys
      \/ x.pc = "write" /\ y.pc \in {"read", "writing"}
      \/ x.pc = "writing" /\ y.pc = "read"
  BY DEF x, y
<1>7. QED
  <2> HIDE DEF n, m
  <2> QED
    BY <1>2, <1>3, <1>4, <1>5, <1>6

LEMMA MovedFields ==
  ASSUME StorageTypeOK, NEW j \in Jobs, NEW pc, NEW keys, NEW dict
  PROVE  LET next == Moved(j, pc, keys, dict)
         IN  next.op = job[j].op /\ next.keys = keys /\ next.pc = pc
<1>1. job[j] \in Job
  BY DEF StorageTypeOK
<1>2. QED
  BY <1>1 DEF Moved, Job

(* A step of a save that goes on.                                           *)
LEMMA StepMoves ==
  ASSUME StorageInv, NEW j \in Jobs,
         \/ \E k \in Keys : ReadForKey(j, k) \/ NoFileForKey(j, k)
         \/ WriteBegins(j)
         \/ WriteEnds(j)
         \/ SaveMeetsError(j)
  PROVE  /\ ~Free(j)
         /\ job'[j].op = job[j].op /\ job'[j].keys \in SUBSET job[j].keys
         /\ \/ /\ job[j].pc = "read" /\ job'[j].pc \in {"read", "write"}
               /\ job'[j].keys # job[j].keys
            \/ job[j].pc = "write" /\ job'[j].pc \in {"read", "writing"}
            \/ job[j].pc = "writing" /\ job'[j].pc = "read"
         /\ \A i \in Jobs \ {j} : /\ job'[i].op = job[i].op /\ job'[i].keys = job[i].keys
                                 /\ job'[i].pc = job[i].pc
<1>1. StorageTypeOK /\ job \in [Jobs -> Job] /\ \A i \in Jobs : job[i] \in Job
  BY DEF StorageInv, StorageTypeOK
<1>2. Saving(j) => ~Free(j)
  BY DEF Saving, Free
<1>3. job[j].pc # "read" => Saving(j)
  BY DEF StorageInv, JobShape
<1>4. ASSUME NEW next, job' = [job EXCEPT ![j] = next]
      PROVE  job'[j] = next /\ \A i \in Jobs \ {j} : job'[i] = job[i]
  BY <1>1, <1>4
<1>5. ASSUME NEW k \in Keys, ReadForKey(j, k) \/ NoFileForKey(j, k)
      PROVE  /\ Saving(j) /\ job[j].pc = "read" /\ k \in job[j].keys
             /\ \E pc \in {"read", "write"} : \E dict :
                  job' = [job EXCEPT ![j] = Moved(j, pc, job[j].keys \ {k}, dict)]
  BY <1>5 DEF ReadForKey, NoFileForKey
<1>6. CASE \E k \in Keys : ReadForKey(j, k) \/ NoFileForKey(j, k)
  <2>1. PICK k \in Keys : ReadForKey(j, k) \/ NoFileForKey(j, k)
    BY <1>6
  <2>2. Saving(j) /\ job[j].pc = "read" /\ k \in job[j].keys
    BY <1>5, <2>1
  <2>3. PICK pc \in {"read", "write"} : \E dict :
          job' = [job EXCEPT ![j] = Moved(j, pc, job[j].keys \ {k}, dict)]
    BY <1>5, <2>1
  <2>4. PICK dict : job' = [job EXCEPT ![j] = Moved(j, pc, job[j].keys \ {k}, dict)]
    BY <2>3
  <2>5. /\ job'[j].op = job[j].op /\ job'[j].keys = job[j].keys \ {k} /\ job'[j].pc = pc
        /\ \A i \in Jobs \ {j} : job'[i] = job[i]
    BY <1>1, <1>4, <2>4, MovedFields
  <2>6. QED
    BY <1>2, <2>2, <2>5
<1>7. CASE WriteBegins(j)
  <2>1. job[j].pc = "write"
    BY <1>7 DEF WriteBegins
  <2>2. /\ job'[j].op = job[j].op /\ job'[j].keys = job[j].keys /\ job'[j].pc = "writing"
    BY <1>1, <1>7 DEF WriteBegins, Job
  <2>3. ASSUME NEW i \in Jobs \ {j}
        PROVE  /\ job'[i].op = job[i].op /\ job'[i].keys = job[i].keys
               /\ job'[i].pc = job[i].pc
    <3>1. job'[i] = job[i] \/ job'[i] = [job[i] EXCEPT !.mixed = TRUE]
      BY <1>7 DEF WriteBegins
    <3>2. QED
      BY <1>1, <3>1 DEF Job
  <2>4. QED
    BY <1>2, <1>3, <2>1, <2>2, <2>3
<1>8. CASE WriteEnds(j)
  <2> DEFINE next == [Moved(j, "read", job[j].keys, Empty) EXCEPT !.mixed = FALSE]
  <2>1. job[j].pc = "writing" /\ job' = [job EXCEPT ![j] = next]
    BY <1>8 DEF WriteEnds
  <2>2. next.op = job[j].op /\ next.keys = job[j].keys /\ next.pc = "read"
    BY <1>1 DEF Moved, Job
  <2> HIDE DEF next
  <2>3. job'[j] = next /\ \A i \in Jobs \ {j} : job'[i] = job[i]
    BY <1>4, <2>1
  <2>4. QED
    BY <1>2, <1>3, <2>1, <2>2, <2>3
<1>9. CASE SaveMeetsError(j)
  <2>1. PICK keys \in SUBSET job[j].keys :
          /\ Cardinality(job[j].keys \ keys) = IF job[j].pc = "read" THEN 1 ELSE 0
          /\ job' = [job EXCEPT ![j] = [Moved(j, "read", keys, Empty) EXCEPT
                     !.mixed = FALSE, !.clean = FALSE, !.before = Empty]]
    BY <1>9 DEF SaveMeetsError
  <2> DEFINE next == [Moved(j, "read", keys, Empty) EXCEPT
                     !.mixed = FALSE, !.clean = FALSE, !.before = Empty]
  <2>2. next.op = job[j].op /\ next.keys = keys /\ next.pc = "read"
    BY <1>1 DEF Moved, Job
  <2> HIDE DEF next
  <2>3. job'[j] = next /\ \A i \in Jobs \ {j} : job'[i] = job[i]
    BY <1>4, <2>1 DEF next
  <2>4. job[j].pc = "read" => keys # job[j].keys
    <3>1. keys = job[j].keys => Cardinality(job[j].keys \ keys) = 0
      BY FS_EmptySet
    <3>2. QED
      BY <2>1, <3>1
  <2>5. Saving(j) /\ job[j].pc \in {"read", "write", "writing"}
    BY <1>1, <1>9 DEF SaveMeetsError, Job
  <2>6. QED
    BY <1>2, <2>2, <2>3, <2>4, <2>5
<1>10. QED
  BY <1>6, <1>7, <1>8, <1>9

LEMMA StepShortens ==
  ASSUME StorageInv, NEW j \in Jobs, StorageStep(j)
  PROVE  /\ JobLeft(j)' < JobLeft(j)
         /\ \A i \in Jobs \ {j} : JobLeft(i)' = JobLeft(i)
<1>1. StorageTypeOK /\ job \in [Jobs -> Job]
  BY DEF StorageInv, StorageTypeOK
<1>2. CASE \/ \E k \in Keys : ReadForKey(j, k) \/ NoFileForKey(j, k)
           \/ WriteBegins(j)
           \/ WriteEnds(j)
           \/ SaveMeetsError(j)
  <2>1. /\ ~Free(j)
        /\ job'[j].op = job[j].op /\ job'[j].keys \in SUBSET job[j].keys
        /\ \/ /\ job[j].pc = "read" /\ job'[j].pc \in {"read", "write"}
              /\ job'[j].keys # job[j].keys
           \/ job[j].pc = "write" /\ job'[j].pc \in {"read", "writing"}
           \/ job[j].pc = "writing" /\ job'[j].pc = "read"
        /\ \A i \in Jobs \ {j} : /\ job'[i].op = job[i].op /\ job'[i].keys = job[i].keys
                                /\ job'[i].pc = job[i].pc
    BY <1>2, StepMoves
  <2>2. job'[j].op # "none"
    BY <2>1 DEF Free
  <2>3. JobLeft(j)' < JobLeft(j)
    BY <1>1, <2>1, <2>2, MoveShortens
  <2>4. QED
    BY <2>1, <2>3, SameJobLeft
<1>3. CASE SaveDone(j) \/ LoadSucceeds(j) \/ LoadFails(j)
  <2>1. ~Free(j) /\ job' = [job EXCEPT ![j] = NoJob]
    BY <1>3 DEF SaveDone, LoadSucceeds, LoadFails, Saving, Free
  <2>2. job'[j] = NoJob /\ \A i \in Jobs \ {j} : job'[i] = job[i]
    BY <1>1, <2>1
  <2>3. JobAhead(NoJob) = 0
    BY DEF JobAhead, NoJob
  <2>4. JobLeft(j) \in Nat /\ JobLeft(j) > 0
    BY <1>1, <2>1, JobLeftType
  <2>5. JobLeft(j)' = 0
    BY <2>2, <2>3, JobLeftIsAhead
  <2>6. JobLeft(j)' < JobLeft(j)
    BY <2>4, <2>5
  <2>7. QED
    BY <2>2, <2>6, SameJobLeft
<1>4. QED
  BY <1>2, <1>3 DEF StorageStep

(* What a request of a client may be.                                       *)
NewJob(x) == x.op # "none" /\ x.keys \in SUBSET Keys /\ x.pc = "read"

LEMMA NewJobAhead ==
  ASSUME NEW x, NewJob(x)
  PROVE  JobAhead(x) \in Nat /\ JobAhead(x) <= 3 * Cardinality(Keys) + 1
<1> DEFINE n == Cardinality(x.keys)
           m == Cardinality(Keys)
<1>1. n \in Nat /\ m \in Nat /\ n <= m
  BY KeysCounted DEF NewJob
<1>2. JobAhead(x) = 3 * n + 1
  BY JobAheadValue DEF NewJob
<1>3. JobAhead(x) \in Nat /\ JobAhead(x) <= 3 * m + 1
  <2> HIDE DEF n, m
  <2> QED
    BY <1>1, <1>2
<1>4. QED
  BY <1>3

LEMMA NewJobs ==
  ASSUME NEW c
  PROVE  /\ \A pairs \in Dictionaries, clean \in BOOLEAN : NewJob(SaveJob(c, pairs, clean))
         /\ NewJob(LoadJob(c))
         /\ \A k \in Keys : NewJob(LoadValueJob(c, k))
BY DEF NewJob, SaveJob, LoadJob, LoadValueJob, NoJob, DictKeys

(* A request takes a job that was free, and leaves what the others have     *)
(* left: that a save is disturbed makes it no longer.                      *)
Taken(j) == /\ Free(j) /\ NewJob(job'[j])
            /\ \A i \in Jobs \ {j} : /\ job'[i].op = job[i].op /\ job'[i].keys = job[i].keys
                                    /\ job'[i].pc = job[i].pc

LEMMA SaveTakes ==
  ASSUME StorageTypeOK, NEW c, NEW pairs \in Dictionaries, Save(c, pairs)
  PROVE  \E j \in Jobs : Taken(j)
<1> DEFINE clean == file.state = "whole" /\ \A i \in Jobs : ~Saving(i)
<1>1. PICK j \in Jobs :
        Free(j) /\ job' = [Jostled EXCEPT ![j] = SaveJob(c, pairs, clean)]
  BY DEF Save
<1>2. clean \in BOOLEAN
  OBVIOUS
<1> HIDE DEF clean
<1>3. job'[j] = SaveJob(c, pairs, clean)
  BY <1>1 DEF Jostled
<1>4. NewJob(job'[j])
  BY <1>2, <1>3, NewJobs
<1>5. ASSUME NEW i \in Jobs \ {j}
      PROVE  job'[i].op = job[i].op /\ job'[i].keys = job[i].keys /\ job'[i].pc = job[i].pc
  <2>1. job[i] \in Job
    BY DEF StorageTypeOK
  <2>2. job'[i] = job[i] \/ job'[i] = [job[i] EXCEPT !.clean = FALSE, !.before = Empty]
    BY <1>1 DEF Jostled
  <2>3. QED
    BY <2>1, <2>2 DEF Job
<1>6. QED
  BY <1>1, <1>4, <1>5 DEF Taken

LEMMA LoadTakes ==
  ASSUME StorageTypeOK, NEW c, Load(c) \/ \E k \in Keys : LoadValue(c, k)
  PROVE  \E j \in Jobs : Taken(j)
<1>1. PICK j \in Jobs : Free(j) /\ \E x : NewJob(x) /\ job' = [job EXCEPT ![j] = x]
  BY NewJobs DEF Load, LoadValue
<1>2. QED
  BY <1>1 DEF StorageTypeOK, Taken

(* However a job is taken, none has more before it than it may.             *)
NoneGrows == \A j \in Jobs :
               JobLeft(j)' <= IF Free(j) THEN 3 * Cardinality(Keys) + 1 ELSE JobLeft(j)

LEMMA TakenGrows ==
  ASSUME StorageTypeOK, NEW j \in Jobs, Taken(j)
  PROVE  NoneGrows
<1>1. JobLeft(j)' <= 3 * Cardinality(Keys) + 1
  BY NewJobAhead, JobLeftIsAhead DEF Taken
<1>2. ASSUME NEW i \in Jobs \ {j} PROVE JobLeft(i)' = JobLeft(i)
  BY SameJobLeft DEF Taken
<1>3. \A i \in Jobs : JobLeft(i)' = JobLeft(i) =>
        JobLeft(i)' <= IF Free(i) THEN 3 * Cardinality(Keys) + 1 ELSE JobLeft(i)
  BY JobLeftType, KeysCounted
<1>4. QED
  BY <1>1, <1>2, <1>3 DEF NoneGrows, Taken

LEMMA RestGrows ==
  ASSUME StorageTypeOK, \A j \in Jobs : JobLeft(j)' = JobLeft(j) \/ JobLeft(j)' = 0
  PROVE  NoneGrows
<1>1. ASSUME NEW j \in Jobs
      PROVE  JobLeft(j)' <= IF Free(j) THEN 3 * Cardinality(Keys) + 1 ELSE JobLeft(j)
  <2>1. JobLeft(j) \in Nat /\ (Free(j) => JobLeft(j) = 0) /\ Cardinality(Keys) \in Nat
    BY JobLeftType, KeysCounted
  <2>2. QED
    BY <2>1
<1>2. QED
  BY <1>1 DEF NoneGrows

LEMMA StepGrows ==
  ASSUME StorageInv, StorageTypeOK', NEW j \in Jobs, StorageStep(j)
  PROVE  NoneGrows
<1>1. JobLeft(j)' < JobLeft(j) /\ \A i \in Jobs \ {j} : JobLeft(i)' = JobLeft(i)
  BY StepShortens
<1>2. JobLeft(j) \in Nat /\ (Free(j) => JobLeft(j) = 0) /\ JobLeft(j)' \in Nat
  <2>1. job'[j] \in Job
    BY DEF StorageTypeOK
  <2>2. JobLeft(j)' \in Nat
    BY <2>1, JobLeftIsAhead, JobAheadType
  <2>3. QED
    BY <2>2, JobLeftType DEF StorageInv
<1>3. ASSUME NEW i \in Jobs \ {j}
      PROVE  JobLeft(i)' <= IF Free(i) THEN 3 * Cardinality(Keys) + 1 ELSE JobLeft(i)
  <2>1. JobLeft(i) \in Nat /\ (Free(i) => JobLeft(i) = 0) /\ Cardinality(Keys) \in Nat
    BY JobLeftType, KeysCounted DEF StorageInv
  <2>2. QED
    BY <1>1, <2>1
<1>4. JobLeft(j)' <= IF Free(j) THEN 3 * Cardinality(Keys) + 1 ELSE JobLeft(j)
  BY <1>1, <1>2
<1>5. QED
  BY <1>3, <1>4 DEF NoneGrows

LEMMA KilledJobs ==
  ASSUME KillProcess, NEW j \in Jobs
  PROVE  JobLeft(j)' = 0
<1>1. job'[j] = NoJob
  BY DEF KillProcess
<1>2. JobAhead(NoJob) = 0
  BY DEF JobAhead, NoJob
<1>3. QED
  BY <1>1, <1>2, JobLeftIsAhead

LEMMA NextGrows ==
  ASSUME StorageInv, StorageTypeOK', [StorageNext]_storageVars
  PROVE  NoneGrows
<1>1. StorageTypeOK
  BY DEF StorageInv
<1>2. CASE Requests
  BY <1>1, <1>2, SaveTakes, LoadTakes, TakenGrows DEF Requests
<1>3. CASE UNCHANGED job
  <2>1. ASSUME NEW j \in Jobs PROVE JobLeft(j)' = JobLeft(j)
    BY <1>3, SameJobLeft
  <2>2. QED
    BY <1>1, <2>1, RestGrows
<1>4. CASE KillProcess
  BY <1>1, <1>4, KilledJobs, RestGrows
<1>5. CASE \E j \in Jobs : StorageStep(j)
  BY <1>5, StepGrows
<1>6. QED
  BY <1>2, <1>3, <1>4, <1>5 DEF StorageNext, Handle, LaunchProcess, storageVars

(* No request gets more steps before it than its keys give it, and each of  *)
(* its steps, failed or not, leaves fewer: for any number of keys and of   *)
(* requests in flight.                                                     *)
THEOREM JobsNeverGrow == StorageSpec => JobsShorten
<1>1. ASSUME StorageInv, StorageInv', [StorageNext]_storageVars
      PROVE  \A j \in Jobs :
               /\ JobLeft(j)' <= IF Free(j) THEN 3 * Cardinality(Keys) + 1 ELSE JobLeft(j)
               /\ StorageStep(j) => JobLeft(j)' < JobLeft(j)
  <2>1. StorageTypeOK'
    BY <1>1 DEF StorageInv
  <2>2. NoneGrows
    BY <1>1, <2>1, NextGrows
  <2>3. \A j \in Jobs : StorageStep(j) => JobLeft(j)' < JobLeft(j)
    BY <1>1, StepShortens
  <2>4. QED
    BY <2>2, <2>3 DEF NoneGrows
<1>2. QED
  BY <1>1, StorageInvariant, PTL DEF StorageSpec, JobsShorten

=============================================================================
