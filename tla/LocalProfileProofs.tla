-------------------------- MODULE LocalProfileProofs ---------------------------
(***************************************************************************)
(* Proofs about LocalProfile, for any texts of a profile, any data and any  *)
(* number of requests in flight.                                           *)
(***************************************************************************)
EXTENDS LocalProfile, PlistStorageProofs

-----------------------------------------------------------------------------
(* The keys and the dictionaries of the clients.                            *)

LEMMA KeysOfClients ==
  /\ idKey \in Keys /\ themeKey \in Keys /\ imageKey \in Keys
  /\ textKeys \subseteq profileKeys /\ imageKey \in profileKeys
  /\ profileKeys \subseteq Keys /\ idKey \notin profileKeys /\ themeKey \notin profileKeys
BY KeysAssumption DEF profileKeys

LEMMA OnlyType ==
  ASSUME NEW k \in Keys, NEW v \in Data
  PROVE  /\ Only(k, v) \in Dictionaries
         /\ DictKeys(Only(k, v)) = {k}
         /\ Only(k, v)[k] = v
BY NilAssumption DEF Only, Empty, Dictionaries, DictKeys

LEMMA OnProfileKeysType ==
  ASSUME NEW d \in Dictionaries
  PROVE  OnProfileKeys(d) \in Dictionaries
BY DEF OnProfileKeys, Dictionaries

LEMMA MergedType ==
  ASSUME NEW d \in Dictionaries, NEW e \in Dictionaries
  PROVE  Merged(d, e) \in Dictionaries
BY DEF Merged, Dictionaries

LEMMA PutType ==
  ASSUME NEW d \in Dictionaries, NEW k \in Keys, NEW v \in Data \cup {Nil}
  PROVE  [d EXCEPT ![k] = v] \in Dictionaries
BY DEF Dictionaries

-----------------------------------------------------------------------------
(* Steps that only touch the profile screen.                                *)

Quiet == UNCHANGED <<storageVars, userId, theme, firstId>>

QuietStep == \/ didEditButtonTapped \/ tapOk \/ didProfileImageViewTapped \/ dismissPicker
             \/ didCancelButtonTapped
             \/ \E i \in DOMAIN values : updateScreen(i)
             \/ \E v \in Data : \/ \E k \in textKeys : textFieldDidEndEditing(k, v)
                                \/ imagePickerController(v, TRUE)
                                \/ imagePickerController(v, FALSE)
                                \/ didPickPicture(v)
                                \/ PictureLoaded(v, TRUE) \/ PictureLoaded(v, FALSE)
                                \/ PictureFails(v)

LEMMA QuietStepIsQuiet == QuietStep => Quiet
BY DEF QuietStep, Quiet, didEditButtonTapped, tapOk, didProfileImageViewTapped, dismissPicker,
       didCancelButtonTapped, updateScreen, textFieldDidEndEditing, imagePickerController,
       didPickPicture, PictureLoaded, PictureFails, OthersUnchanged, storageVars

LEMMA UpdateScreenType ==
  ASSUME ClientTypeOK, NEW i \in DOMAIN values, updateScreen(i)
  PROVE  ClientTypeOK'
<1>1. values \in Seq(Dictionaries)
  BY DEF ClientTypeOK
<1>2. values[i] \in Dictionaries
  BY <1>1
<1>3. values' \in Seq(Dictionaries)
  BY <1>1 DEF updateScreen
<1>4. DictKeys(updated) \subseteq Keys
  BY DEF DictKeys
<1>5. QED
  BY <1>2, <1>3, <1>4 DEF ClientTypeOK, updateScreen, OthersUnchanged, buttonVars

LEMMA TextType ==
  ASSUME ClientTypeOK, NEW k \in textKeys, NEW v \in Data, textFieldDidEndEditing(k, v)
  PROVE  ClientTypeOK'
<1>1. k \in Keys /\ k \in profileKeys
  BY KeysOfClients
<1>2. updated \in Dictionaries /\ shown \in Dictionaries /\ ended \in Dictionaries
  BY DEF ClientTypeOK
<1>3. /\ updated' \in Dictionaries /\ shown' \in Dictionaries /\ ended' \in Dictionaries
      /\ UNCHANGED <<stored, asked>>
  BY <1>1, <1>2, PutType DEF textFieldDidEndEditing
<1>4. \A h \in Keys \ profileKeys : updated'[h] = Nil
  BY <1>1, <1>2 DEF ClientTypeOK, textFieldDidEndEditing, Dictionaries
<1>5. canSave' \in BOOLEAN /\ cancelled' \subseteq Keys
  BY DEF ClientTypeOK, textFieldDidEndEditing
<1>6. UNCHANGED <<userId, firstId, theme, screen, mode, canCancel, values, picks, alert>>
  BY DEF textFieldDidEndEditing, OthersUnchanged, arrivalVars
<1>7. QED
  BY <1>3, <1>4, <1>5, <1>6 DEF ClientTypeOK

(* A picture is put into `updated`, on the screen, or both.                 *)
LEMMA PictureType ==
  ASSUME ClientTypeOK, NEW v \in Data,
         updated' \in {updated, [updated EXCEPT ![imageKey] = v]},
         addProfileImage(v) \/ UNCHANGED <<shown, buttonVars, cancelled>>,
         screen' \in {"list", "profile", "picker"}, picks' \subseteq picks,
         UNCHANGED <<userId, firstId, theme, stored, ended, asked, values, alert>>
  PROVE  ClientTypeOK'
<1>1. updated \in Dictionaries /\ shown \in Dictionaries
  BY DEF ClientTypeOK
<1>2. updated' \in Dictionaries
  BY <1>1, KeysOfClients, PutType
<1>3. shown' \in Dictionaries
  <2>1. [shown EXCEPT ![imageKey] = v] \in Dictionaries
    BY <1>1, KeysOfClients, PutType
  <2>2. shown' \in {shown, [shown EXCEPT ![imageKey] = v]}
    BY DEF addProfileImage
  <2>3. QED
    BY <1>1, <2>1, <2>2
<1>4. \A h \in Keys \ profileKeys : updated'[h] = Nil
  BY <1>1, KeysOfClients DEF ClientTypeOK, Dictionaries
<1>5. /\ mode' \in {"view", "image", "text"} /\ canSave' \in BOOLEAN /\ canCancel' \in BOOLEAN
      /\ cancelled' \subseteq Keys
  BY DEF ClientTypeOK, addProfileImage, buttonVars
<1>6. QED
  BY <1>2, <1>3, <1>4, <1>5 DEF ClientTypeOK

LEMMA QuietStepType == ASSUME ClientTypeOK, QuietStep PROVE ClientTypeOK'
<1>1. CASE didEditButtonTapped
  BY <1>1 DEF didEditButtonTapped, OthersUnchanged, fieldVars, arrivalVars, ClientTypeOK
<1>2. CASE tapOk
  BY <1>2 DEF tapOk, OthersUnchanged, fieldVars, arrivalVars, ClientTypeOK
<1>3. CASE didProfileImageViewTapped \/ dismissPicker
  BY <1>3 DEF didProfileImageViewTapped, dismissPicker, PickerEnds, OthersUnchanged, fieldVars,
              buttonVars, arrivalVars, ClientTypeOK
<1>4. CASE didCancelButtonTapped
  <2>1. values' = Append(values, stored)
    BY <1>4 DEF didCancelButtonTapped, getValues
  <2>2. values \in Seq(Dictionaries) /\ stored \in Dictionaries
    BY DEF ClientTypeOK
  <2>3. values' \in Seq(Dictionaries)
    BY <2>1, <2>2
  <2>4. QED
    BY <1>4, <2>3 DEF didCancelButtonTapped, OthersUnchanged, fieldVars, ClientTypeOK
<1>5. CASE \E i \in DOMAIN values : updateScreen(i)
  BY <1>5, UpdateScreenType
<1>6. ASSUME NEW v \in Data, NEW k \in textKeys, textFieldDidEndEditing(k, v)
      PROVE  ClientTypeOK'
  BY <1>6, TextType
<1>7. ASSUME NEW v \in Data, imagePickerController(v, TRUE) \/ imagePickerController(v, FALSE)
      PROVE  ClientTypeOK'
  BY <1>7, PictureType DEF imagePickerController, PickerEnds, OthersUnchanged, arrivalVars,
                           ClientTypeOK
<1>8. ASSUME NEW v \in Data, didPickPicture(v)
      PROVE  ClientTypeOK'
  BY <1>8 DEF didPickPicture, PickerEnds, OthersUnchanged, fieldVars, buttonVars, ClientTypeOK
<1>9. ASSUME NEW v \in Data, PictureLoaded(v, TRUE) \/ PictureLoaded(v, FALSE)
      PROVE  ClientTypeOK'
  BY <1>9, PictureType DEF PictureLoaded, updateProfileImage, OthersUnchanged, ClientTypeOK
<1>10. ASSUME NEW v \in Data, PictureFails(v)
      PROVE  ClientTypeOK'
  BY <1>10 DEF PictureFails, OthersUnchanged, fieldVars, buttonVars, ClientTypeOK
<1>11. QED
  BY <1>1, <1>2, <1>3, <1>4, <1>5, <1>6, <1>7, <1>8, <1>9, <1>10 DEF QuietStep

-----------------------------------------------------------------------------
(* The requests and the steps of the storage, for any client.               *)

LEMMA SaveOwns ==
  ASSUME StorageInv, OwnKeys, NEW c \in Clients, NEW pairs \in Dictionaries, Save(c, pairs),
         Owns(c, pairs)
  PROVE  OwnKeys'
<1> DEFINE save == SaveJob(c, pairs, file.state = "whole" /\ \A i \in Jobs : ~Saving(i))
<1>1. PICK j \in Jobs : Free(j) /\ job' = [Jostled EXCEPT ![j] = save]
  BY DEF Save
<1>2. save.op = "save" /\ save.client = c /\ save.pairs = pairs
  BY DEF SaveJob, NoJob
<1> HIDE DEF save
<1>3. job'[j] = save /\ \A i \in Jobs \ {j} : job'[i] = Jostled[i]
  BY <1>1, JostledType DEF StorageInv
<1>4. \A i \in Jobs \ {j} :
        job'[i].op = job[i].op /\ job'[i].client = job[i].client /\ job'[i].pairs = job[i].pairs
  <2> TAKE i \in Jobs \ {j}
  <2>1. job[i] \in Job
    BY DEF StorageInv, StorageTypeOK
  <2>2. job'[i] \in {job[i], [job[i] EXCEPT !.clean = FALSE, !.before = Empty]}
    BY <1>3 DEF Jostled
  <2>3. QED
    BY <2>1, <2>2 DEF Job
<1>5. QED
  BY <1>2, <1>3, <1>4 DEF OwnKeys, Saving, Owns

(* A job keeps its client and its pairs until it ends.                      *)
LEMMA StepShape ==
  ASSUME StorageInv, NEW j \in Jobs, StorageStep(j)
  PROVE  \A i \in Jobs : job'[i].op # "none" =>
           /\ job'[i].op = job[i].op /\ job'[i].client = job[i].client
           /\ job'[i].pairs = job[i].pairs
<1> SUFFICES ASSUME NEW i \in Jobs, job'[i].op # "none"
             PROVE  /\ job'[i].op = job[i].op /\ job'[i].client = job[i].client
                    /\ job'[i].pairs = job[i].pairs
  OBVIOUS
<1>1. job \in [Jobs -> Job] /\ job[i] \in Job /\ job[j] \in Job
  BY DEF StorageInv, StorageTypeOK
<1>2. CASE WriteBegins(j)
  BY <1>1, <1>2 DEF WriteBegins, Job
<1>3. CASE SaveDone(j) \/ LoadSucceeds(j) \/ LoadFails(j)
  <2>1. job' = [job EXCEPT ![j] = NoJob]
    BY <1>3 DEF SaveDone, LoadSucceeds, LoadFails
  <2>2. NoJob.op = "none"
    BY DEF NoJob
  <2>3. QED
    BY <1>1, <2>1, <2>2
<1>4. CASE \E k \in Keys : ReadForKey(j, k) \/ NoFileForKey(j, k)
  <2>1. \A pc, keys, dict : LET next == Moved(j, pc, keys, dict)
                            IN  /\ next.op = job[j].op /\ next.client = job[j].client
                                /\ next.pairs = job[j].pairs
    BY <1>1 DEF Moved, Job
  <2>2. PICK k \in Keys : ReadForKey(j, k) \/ NoFileForKey(j, k)
    BY <1>4
  <2>3. CASE ReadForKey(j, k)
    <3>1. job' = [job EXCEPT ![j] = Moved(j, "write", job[j].keys \ {k},
                                          [file.dict EXCEPT ![k] = job[j].pairs[k]])]
      BY <2>3 DEF ReadForKey
    <3>2. QED
      BY <1>1, <2>1, <3>1
  <2>4. CASE NoFileForKey(j, k)
    <3>1. job' = [job EXCEPT ![j] = Moved(j, "read", job[j].keys \ {k}, Empty)]
      BY <2>4 DEF NoFileForKey
    <3>2. QED
      BY <1>1, <2>1, <3>1
  <2>5. QED
    BY <2>2, <2>3, <2>4
<1>5. CASE WriteEnds(j)
  <2> DEFINE next == [Moved(j, "read", job[j].keys, Empty) EXCEPT !.mixed = FALSE]
  <2>1. next.op = job[j].op /\ next.client = job[j].client /\ next.pairs = job[j].pairs
    BY <1>1 DEF Moved, Job
  <2>2. job' = [job EXCEPT ![j] = next]
    BY <1>5 DEF WriteEnds
  <2> HIDE DEF next
  <2>3. QED
    BY <1>1, <2>1, <2>2
<1>6. CASE SaveMeetsError(j)
  <2>1. PICK keys \in SUBSET job[j].keys :
          job' = [job EXCEPT ![j] = [Moved(j, "read", keys, Empty) EXCEPT
                     !.mixed = FALSE, !.clean = FALSE, !.before = Empty]]
    BY <1>6 DEF SaveMeetsError
  <2> DEFINE next == [Moved(j, "read", keys, Empty) EXCEPT
                     !.mixed = FALSE, !.clean = FALSE, !.before = Empty]
  <2>2. next.op = job[j].op /\ next.client = job[j].client /\ next.pairs = job[j].pairs
    BY <1>1 DEF Moved, Job
  <2>3. job' = [job EXCEPT ![j] = next]
    BY <2>1
  <2> HIDE DEF next
  <2>4. QED
    BY <1>1, <2>2, <2>3
<1>7. QED
  BY <1>2, <1>3, <1>4, <1>5, <1>6 DEF StorageStep

-----------------------------------------------------------------------------
(* One step of the clients, whoever is impatient and whatever fails.        *)

SafeInv == StorageInv /\ ClientInv

LEMMA SameJobs ==
  ASSUME SafeInv, UNCHANGED <<process, file, job>>, main' \in Seq(Result), ClientTypeOK'
  PROVE  SafeInv'
BY DEF SafeInv, ClientInv, StorageInv, StorageTypeOK, JobShape, CleanSaves, Saving, Free, Done,
       OwnKeys

LEMMA QuietStepSafe == ASSUME SafeInv, QuietStep PROVE SafeInv'
<1>1. ClientTypeOK'
  BY QuietStepType DEF SafeInv, ClientInv
<1>2. UNCHANGED <<process, file, job, main>>
  BY QuietStepIsQuiet DEF Quiet, storageVars
<1>3. main' \in Seq(Result)
  BY <1>2 DEF SafeInv, StorageInv, StorageTypeOK
<1>4. QED
  BY <1>1, <1>2, <1>3, SameJobs

LEMMA NewProfileType ==
  ASSUME NewProfile, userId' \in Data \cup {Nil}, firstId' \in Data \cup {Nil},
         theme' \in Data \cup {Nil}, screen' \in {"list", "profile", "picker"}
  PROVE  ClientTypeOK'
<1>1. /\ stored' \in Dictionaries /\ updated' \in Dictionaries /\ shown' \in Dictionaries
      /\ ended' \in Dictionaries /\ asked' \in Dictionaries
      /\ \A k \in Keys \ profileKeys : updated'[k] = Nil
  BY DEF NewProfile, Empty, Dictionaries
<1>2. values' \in Seq(Dictionaries) /\ picks' \subseteq Data /\ cancelled' \subseteq Keys
  BY DEF NewProfile
<1>3. /\ mode' \in {"view", "image", "text"} /\ canSave' \in BOOLEAN /\ canCancel' \in BOOLEAN
      /\ alert' \in {"none", "Data saved", "Failed to save data."}
  BY DEF NewProfile
<1>4. QED
  BY <1>1, <1>2, <1>3 DEF ClientTypeOK

(* Two loads are put where there were no jobs.                              *)
LEMMA LaunchSafe == ASSUME SafeInv, Launch PROVE SafeInv'
<1>1. PICK i \in Jobs, j \in Jobs :
        /\ i # j
        /\ job' = [job EXCEPT ![i] = LoadValueJob("theme", themeKey),
                              ![j] = LoadValueJob("identity", idKey)]
  BY DEF Launch
<1>2. \A c \in Clients, k \in Keys :
        LET load == LoadValueJob(c, k)
        IN  /\ load \in Job /\ load.op = "loadValue" /\ load.pc = "read"
            /\ load.clean = FALSE /\ load.client = c
  BY NoJobType DEF LoadValueJob, NoJob, Job
<1>3. "theme" \in Clients /\ "identity" \in Clients
  BY ClientsAssumption
<1>4. /\ job' \in [Jobs -> Job]
      /\ \A h \in {i, j} : /\ job'[h].op = "loadValue" /\ job'[h].pc = "read"
                           /\ job'[h].clean = FALSE /\ job'[h].client \in Clients
      /\ \A h \in Jobs \ {i, j} : job'[h] = job[h]
  BY <1>1, <1>2, <1>3, KeysOfClients DEF SafeInv, StorageInv, StorageTypeOK
<1>5. UNCHANGED main /\ process' = "running"
      /\ (IF file.state = "missing" THEN file' \in {Whole(Empty), Missing} ELSE UNCHANGED file)
  BY DEF Launch, createFileLocallyIfNeeded
<1>6. StorageTypeOK'
  BY <1>4, <1>5, EmptyType, WholeType DEF SafeInv, StorageInv, StorageTypeOK, Files
<1>7. JobShape'
  BY <1>4 DEF SafeInv, StorageInv, JobShape, Saving, Free
<1>8. \A d : file = Whole(d) => file' = file
  BY <1>5 DEF Whole
<1>9. \A h \in Jobs : Saving(h)' => Saving(h) /\ job'[h] = job[h]
  BY <1>4 DEF Saving
<1>10. CleanSaves'
  BY <1>8, <1>9 DEF SafeInv, StorageInv, CleanSaves, Done
<1>11. OwnKeys'
  BY <1>9 DEF SafeInv, ClientInv, OwnKeys, Owns
<1>12. ClientTypeOK'
  BY NewProfileType DEF Launch, SafeInv, ClientInv, ClientTypeOK
<1>13. QED
  BY <1>6, <1>7, <1>10, <1>11, <1>12 DEF SafeInv, StorageInv, ClientInv

LEMMA KillSafe == ASSUME SafeInv, Kill PROVE SafeInv'
<1>1. StorageInv'
  BY KillProcessInv DEF Kill, SafeInv
<1>2. OwnKeys'
  BY DEF Kill, KillProcess, OwnKeys, Saving, NoJob
<1>3. ClientTypeOK'
  BY DEF Kill, clientVars, profileVars, fieldVars, buttonVars, arrivalVars, SafeInv, ClientInv,
         ClientTypeOK
<1>4. QED
  BY <1>1, <1>2, <1>3 DEF SafeInv, ClientInv

LEMMA RequestSafe ==
  ASSUME SafeInv, Requesting
  PROVE  SafeInv'
<1> USE DEF SafeInv, ClientInv
<1>1. "theme" \in Clients /\ "profile" \in Clients
  BY ClientsAssumption
<1>2. main \in Seq(Result)
  BY DEF StorageInv, StorageTypeOK
<1>3. ASSUME NEW v \in Data, changeTheme(v)
      PROVE  SafeInv'
  <2>1. Only(themeKey, v) \in Dictionaries /\ Owns("theme", Only(themeKey, v))
    BY KeysOfClients, OnlyType DEF Owns
  <2>2. StorageInv' /\ OwnKeys'
    BY <1>1, <1>2, <1>3, <2>1, SaveInv, SaveOwns DEF changeTheme
  <2>3. ClientTypeOK'
    BY <1>3 DEF changeTheme, profileVars, fieldVars, buttonVars, arrivalVars, ClientTypeOK
  <2>4. QED
    BY <2>2, <2>3
<1>4. CASE presentUserProfileScreen
  <2>1. Load("profile") /\ UNCHANGED <<process, file, main, userId, theme, firstId>>
        /\ NewProfile /\ screen' = "profile"
    BY <1>4 DEF presentUserProfileScreen
  <2>2. StorageInv'
    BY <1>1, <2>1, LoadInv
  <2>3. \A j \in Jobs : Saving(j)' => Saving(j) /\ job'[j] = job[j]
    BY <2>1 DEF Load, LoadJob, NoJob, Saving, StorageInv, StorageTypeOK
  <2>4. OwnKeys'
    BY <2>3 DEF OwnKeys, Owns
  <2>5. ClientTypeOK'
    BY <2>1, NewProfileType DEF ClientTypeOK
  <2>6. QED
    BY <2>2, <2>4, <2>5
<1>5. updated \in Dictionaries /\ Owns("profile", updated)
  BY DEF ClientTypeOK, Owns, DictKeys
<1>6. CASE didSaveButtonTapped
  <2>1. /\ IF updated = Empty THEN UNCHANGED job ELSE Save("profile", updated)
        /\ UNCHANGED <<process, file, main>>
    BY <1>6 DEF didSaveButtonTapped, OthersUnchanged
  <2>2. Merged(asked, updated) \in Dictionaries
    BY MergedType DEF ClientTypeOK
  <2>3. ClientTypeOK'
    BY <1>6, <2>2 DEF didSaveButtonTapped, OthersUnchanged, fieldVars, arrivalVars, ClientTypeOK
  <2>4. CASE UNCHANGED job
    BY <1>2, <2>1, <2>3, <2>4, SameJobs
  <2>5. CASE Save("profile", updated)
    BY <1>1, <1>2, <1>5, <2>1, <2>3, <2>5, SaveInv, SaveOwns
  <2>6. QED
    BY <2>1, <2>4, <2>5
<1>7. CASE tapTryAgain
  <2>1. Save("profile", updated) /\ UNCHANGED <<process, file, main>>
    BY <1>7 DEF tapTryAgain, OthersUnchanged
  <2>2. ClientTypeOK'
    BY <1>7 DEF tapTryAgain, OthersUnchanged, fieldVars, buttonVars, arrivalVars, ClientTypeOK
  <2>3. QED
    BY <1>1, <1>2, <1>5, <2>1, <2>2, SaveInv, SaveOwns
<1>8. QED
  BY <1>3, <1>4, <1>6, <1>7 DEF Requesting

(* Closing the profile screen only takes its name off its requests.         *)
LEMMA CloseSafe == ASSUME SafeInv, close PROVE SafeInv'
<1> USE DEF SafeInv, ClientInv, StorageInv
<1>1. "none" \in Clients
  BY ClientsAssumption
<1>2. job \in [Jobs -> Job] /\ main \in Seq(Result)
  BY DEF StorageTypeOK
<1>3. \A j \in Jobs :
        /\ job'[j] \in Job
        /\ job'[j].op = job[j].op /\ job'[j].pairs = job[j].pairs /\ job'[j].keys = job[j].keys
        /\ job'[j].pc = job[j].pc /\ job'[j].dict = job[j].dict /\ job'[j].mixed = job[j].mixed
        /\ job'[j].clean = job[j].clean /\ job'[j].before = job[j].before
        /\ job'[j].client = IF job[j].client = "profile" THEN "none" ELSE job[j].client
  <2> TAKE j \in Jobs
  <2>1. job[j] \in Job
    BY <1>2
  <2>2. job'[j] = IF job[j].client = "profile" THEN [job[j] EXCEPT !.client = "none"] ELSE job[j]
    BY DEF close
  <2>3. QED
    BY <1>1, <2>1, <2>2 DEF Job
<1>4. job' \in [Jobs -> Job]
  BY <1>3 DEF close
<1>5. main' \in Seq(Result)
  <2>1. /\ DOMAIN main' = DOMAIN main
        /\ main' = [i \in DOMAIN main |-> IF main[i].client = "profile"
                                         THEN [main[i] EXCEPT !.client = "none"] ELSE main[i]]
    BY DEF close
  <2>2. \A i \in DOMAIN main : main'[i] \in Result
    <3> TAKE i \in DOMAIN main
    <3>1. main[i] \in Result
      BY <1>2
    <3>2. main'[i] \in {main[i], [main[i] EXCEPT !.client = "none"]}
      BY <2>1
    <3>3. QED
      BY <1>1, <3>1, <3>2 DEF Result
  <2>3. Len(main) \in Nat /\ DOMAIN main = 1..Len(main)
    BY <1>2
  <2>4. QED
    BY <2>1, <2>2, <2>3
<1>6. StorageTypeOK'
  BY <1>4, <1>5 DEF close, StorageTypeOK
<1>7. JobShape'
  BY <1>1, <1>3 DEF JobShape, Saving, Free
<1>8. CleanSaves'
  BY <1>3 DEF close, CleanSaves, Saving, Done
<1>9. OwnKeys'
  BY <1>3 DEF OwnKeys, Saving, Owns
<1>10. ClientTypeOK'
  BY NewProfileType DEF close, ClientTypeOK
<1>11. QED
  BY <1>6, <1>7, <1>8, <1>9, <1>10

LEMMA CompletionSafe == ASSUME SafeInv, Completion PROVE SafeInv'
<1> USE DEF SafeInv, ClientInv
<1> DEFINE result == Head(main)
<1>1. main \in Seq(Result) /\ main # <<>>
  BY DEF Completion, StorageInv, StorageTypeOK
<1>2. result \in Result /\ main' \in Seq(Result)
  BY <1>1 DEF Completion
<1>3. result.dict \in Dictionaries
  BY <1>2 DEF Result
<1>4. UNCHANGED <<process, file>>
  BY DEF Completion
<1> HIDE DEF result
<1>5. CASE Ignored(result) /\ UNCHANGED <<clientVars, job>>
  <2>1. ClientTypeOK'
    BY <1>5 DEF clientVars, profileVars, fieldVars, buttonVars, arrivalVars, ClientTypeOK
  <2>2. QED
    BY <1>2, <1>4, <1>5, <2>1, SameJobs
<1>6. CASE getUserId(result)
  <2>1. CASE result.success
    <3>1. /\ userId' = result.dict[idKey] /\ UNCHANGED <<firstId, job, theme>>
          /\ UNCHANGED profileVars
      BY <1>6, <2>1 DEF getUserId
    <3>2. userId' \in Data \cup {Nil}
      BY <1>3, <3>1, KeysOfClients DEF Dictionaries
    <3>3. ClientTypeOK'
      BY <3>1, <3>2 DEF profileVars, fieldVars, buttonVars, arrivalVars, ClientTypeOK
    <3>4. QED
      BY <1>2, <1>4, <3>1, <3>3, SameJobs
  <2>2. CASE ~result.success
    <3>1. PICK d \in Data : createNewId(d)
      BY <1>6, <2>2 DEF getUserId
    <3>2. Only(idKey, d) \in Dictionaries /\ Owns("identity", Only(idKey, d))
      BY KeysOfClients, OnlyType DEF Owns
    <3>3. StorageInv' /\ OwnKeys'
      BY <1>2, <1>4, <3>1, <3>2, ClientsAssumption, SaveInv, SaveOwns DEF createNewId
    <3>4. UNCHANGED theme /\ UNCHANGED profileVars
      BY <1>6 DEF getUserId
    <3>5. ClientTypeOK'
      BY <3>1, <3>4 DEF createNewId, profileVars, fieldVars, buttonVars, arrivalVars, ClientTypeOK
    <3>6. QED
      BY <3>3, <3>5
  <2>3. QED
    BY <2>1, <2>2
<1>7. CASE loadThemeFor(result)
  <2>1. theme' \in Data \cup {Nil}
    BY <1>3, <1>7, KeysOfClients DEF loadThemeFor, Dictionaries
  <2>2. ClientTypeOK'
    BY <1>7, <2>1 DEF loadThemeFor, profileVars, fieldVars, buttonVars, arrivalVars, ClientTypeOK
  <2>3. QED
    BY <1>2, <1>4, <1>7, <2>2, SameJobs DEF loadThemeFor
<1>8. CASE fetchProfileData(result)
  <2>1. OnProfileKeys(result.dict) \in Dictionaries
    BY <1>3, OnProfileKeysType
  <2>2. stored' \in Dictionaries /\ values' \in Seq(Dictionaries)
    <3>1. stored \in Dictionaries /\ values \in Seq(Dictionaries)
      BY DEF ClientTypeOK
    <3>2. \/ UNCHANGED <<stored, values>>
          \/ stored' = OnProfileKeys(result.dict) /\ values' = Append(values, stored')
      BY <1>8 DEF fetchProfileData, getValues
    <3>3. QED
      BY <2>1, <3>1, <3>2
  <2>3. ClientTypeOK'
    BY <1>8, <2>2 DEF fetchProfileData, buttonVars, ClientTypeOK
  <2>4. QED
    BY <1>2, <1>4, <1>8, <2>3, SameJobs DEF fetchProfileData
<1>9. CASE saveProfile(result)
  <2>1. stored' \in Dictionaries /\ updated' \in Dictionaries
    BY <1>9, MergedType, EmptyType DEF saveProfile, ClientTypeOK
  <2>2. \A k \in Keys \ profileKeys : updated'[k] = Nil
    BY <1>9 DEF saveProfile, ClientTypeOK, Empty
  <2>3. alert' \in {"none", "Data saved", "Failed to save data."}
    BY <1>9 DEF saveProfile, presentAlert, ClientTypeOK
  <2>4. ClientTypeOK'
    BY <1>9, <2>1, <2>2, <2>3 DEF saveProfile, buttonVars, arrivalVars, ClientTypeOK
  <2>5. QED
    BY <1>2, <1>4, <1>9, <2>4, SameJobs DEF saveProfile
<1>10. QED
  BY <1>5, <1>6, <1>7, <1>8, <1>9 DEF Completion, result

LEMMA JobStepSafe ==
  ASSUME SafeInv, NEW j \in Jobs, JobStep(j)
  PROVE  SafeInv'
<1>1. StorageInv'
  BY StorageStepInv DEF JobStep, SafeInv
<1>2. OwnKeys'
  BY StepShape DEF JobStep, SafeInv, ClientInv, OwnKeys, Saving, Owns
<1>3. ClientTypeOK'
  BY DEF JobStep, clientVars, profileVars, fieldVars, buttonVars, arrivalVars, SafeInv, ClientInv,
         ClientTypeOK
<1>4. QED
  BY <1>1, <1>2, <1>3 DEF SafeInv, ClientInv

LEMMA SafeInit == ClientInit => SafeInv
<1> SUFFICES ASSUME ClientInit
             PROVE  SafeInv
  OBVIOUS
<1>1. StorageInv
  BY StorageInitInv DEF ClientInit, AtList, StorageInit
<1>2. OwnKeys
  BY DEF ClientInit, AtList, OwnKeys, Saving, NoJob
<1>3. values \in Seq(Dictionaries)
  BY DEF ClientInit, AtList
<1>4. ClientTypeOK
  BY <1>3, EmptyType DEF ClientInit, AtList, ClientTypeOK, Empty
<1>5. QED
  BY <1>1, <1>2, <1>4 DEF SafeInv, ClientInv

LEMMA SafeNext == SafeInv /\ [ClientNext]_allVars => SafeInv'
<1> SUFFICES ASSUME SafeInv, [ClientNext]_allVars
             PROVE  SafeInv'
  OBVIOUS
<1>1. CASE Launch
  BY <1>1, LaunchSafe
<1>2. CASE Kill
  BY <1>2, KillSafe
<1>3. CASE Requesting
  BY <1>3, RequestSafe
<1>4. CASE close
  BY <1>4, CloseSafe
<1>5. CASE QuietStep
  BY <1>5, QuietStepSafe
<1>6. CASE Completion
  BY <1>6, CompletionSafe
<1>7. CASE \E j \in Jobs : JobStep(j)
  BY <1>7, JobStepSafe
<1>8. CASE UNCHANGED allVars
  <2>1. ClientTypeOK'
    BY <1>8 DEF allVars, clientVars, profileVars, fieldVars, buttonVars, arrivalVars, SafeInv,
                ClientInv, ClientTypeOK
  <2>2. main' \in Seq(Result)
    BY <1>8 DEF allVars, storageVars, SafeInv, StorageInv, StorageTypeOK
  <2>3. QED
    BY <1>8, <2>1, <2>2, SameJobs DEF allVars, storageVars
<1>9. QED
  BY <1>1, <1>2, <1>3, <1>4, <1>5, <1>6, <1>7, <1>8
     DEF ClientNext, Editing, OtherTap, Arrival, NoImage, QuietStep

(* Under all of the app's requests, with overlaps, errors and ends of the   *)
(* process, the storage keeps its invariant, and each client saves its own *)
(* keys.                                                                   *)
THEOREM ClientsAreSafe == ClientSpec => [](StorageInv /\ ClientInv)
BY SafeInit, SafeNext, PTL DEF ClientSpec, SafeInv

(* So what a save that met no other promises holds for the app.             *)
THEOREM ClientsSaveAlone == ClientSpec => []SavedAlone
BY ClientsAreSafe, InvSavedAlone, PTL

-----------------------------------------------------------------------------
(* The answer that the profile screen is owed after a save.                 *)

Due(x) == x.op = "save" /\ x.client = "profile"

LEMMA DueMeans ==
  AnswerDue <=> (\E j \in Jobs : Due(job[j])) \/ (\E i \in DOMAIN main : Due(main[i]))
BY DEF AnswerDue, SaveUnderWay, Saving, Due

LEMMA DueMeansNext ==
  AnswerDue' <=> (\E j \in Jobs : Due(job'[j])) \/ (\E i \in DOMAIN main' : Due(main'[i]))
BY DEF AnswerDue, SaveUnderWay, Saving, Due

(* A request leaves the saves alone that are under way.                     *)
JobsStay == \A j \in Jobs : Due(job[j]) => Due(job'[j])

LEMMA SaveStays ==
  ASSUME StorageTypeOK, NEW c, NEW pairs, Save(c, pairs)
  PROVE  JobsStay
<1> DEFINE save == SaveJob(c, pairs, file.state = "whole" /\ \A i \in Jobs : ~Saving(i))
<1>1. PICK j \in Jobs : Free(j) /\ job' = [Jostled EXCEPT ![j] = save]
  BY DEF Save
<1> HIDE DEF save
<1>2. \A i \in Jobs \ {j} : job'[i] = Jostled[i]
  BY <1>1 DEF Jostled
<1>3. ASSUME NEW i \in Jobs, Due(job[i]) PROVE Due(job'[i])
  <2>1. i # j
    BY <1>1, <1>3 DEF Due, Free
  <2>2. job'[i] = job[i] \/ job'[i] = [job[i] EXCEPT !.clean = FALSE, !.before = Empty]
    BY <1>2, <2>1 DEF Jostled
  <2>3. job[i] \in Job
    BY DEF StorageTypeOK
  <2>4. QED
    BY <1>3, <2>2, <2>3 DEF Due, Job
<1>4. QED
  BY <1>3 DEF JobsStay

LEMMA LoadStays ==
  ASSUME StorageTypeOK, NEW c, Load(c)
  PROVE  JobsStay
BY DEF StorageTypeOK, Load, Free, Due, JobsStay

LEMMA RequestStays ==
  ASSUME StorageTypeOK, Requesting
  PROVE  JobsStay /\ UNCHANGED main
<1>1. CASE \E v \in Data : changeTheme(v)
  BY <1>1, SaveStays DEF changeTheme
<1>2. CASE presentUserProfileScreen
  BY <1>2, LoadStays DEF presentUserProfileScreen
<1>3. CASE didSaveButtonTapped
  <2>1. UNCHANGED main /\ (UNCHANGED job \/ Save("profile", updated))
    BY <1>3 DEF didSaveButtonTapped, OthersUnchanged
  <2>2. UNCHANGED job => JobsStay
    BY DEF JobsStay
  <2>3. QED
    BY <2>1, <2>2, SaveStays
<1>4. CASE tapTryAgain
  BY <1>4, SaveStays DEF tapTryAgain, OthersUnchanged
<1>5. QED
  BY <1>1, <1>2, <1>3, <1>4 DEF Requesting

LEMMA StayingKeepsDue ==
  ASSUME JobsStay, UNCHANGED main, AnswerDue
  PROVE  AnswerDue'
BY DueMeans, DueMeansNext DEF JobsStay

(* A save that ends sends its result, the only one that takes its place.    *)
LEMMA StepKeepsDue ==
  ASSUME StorageInv, NEW j \in Jobs, StorageStep(j), AnswerDue
  PROVE  AnswerDue'
<1>1. main \in Seq(Result) /\ job \in [Jobs -> Job]
  BY DEF StorageInv, StorageTypeOK
<1>2. UNCHANGED main \/ \E x : main' = Append(main, x)
  BY DEF StorageStep, ReadForKey, NoFileForKey, WriteBegins, WriteEnds, SaveMeetsError, SaveDone,
         LoadSucceeds, LoadFails, Send
<1>3. ASSUME NEW i \in DOMAIN main, Due(main[i])
      PROVE  \E h \in DOMAIN main' : Due(main'[h])
  <2>1. i \in DOMAIN main' /\ main'[i] = main[i]
    BY <1>1, <1>2
  <2>2. QED
    BY <1>3, <2>1
<1>4. ASSUME NEW i \in Jobs, Due(job[i]), job'[i].op # "none"
      PROVE  Due(job'[i])
  BY <1>4, StepShape DEF Due
<1>5. ASSUME NEW i \in Jobs, Due(job[i]), job'[i].op = "none"
      PROVE  \E h \in DOMAIN main' : Due(main'[h])
  <2>1. SaveDone(j) \/ LoadSucceeds(j) \/ LoadFails(j)
    BY <1>5, StepMoves DEF StorageStep, Due
  <2>2. job' = [job EXCEPT ![j] = NoJob]
    BY <2>1 DEF SaveDone, LoadSucceeds, LoadFails
  <2>3. i = j
    BY <1>1, <1>5, <2>2 DEF Due
  <2>4. SaveDone(j)
    BY <1>5, <2>1, <2>3 DEF LoadSucceeds, LoadFails, Due
  <2> DEFINE x == [op |-> job[j].op, client |-> job[j].client, success |-> TRUE, dict |-> Empty]
  <2>5. main' = Append(main, x)
    BY <2>4 DEF SaveDone, Send
  <2>6. Due(x)
    BY <1>5, <2>3 DEF Due
  <2> HIDE DEF x
  <2>7. Len(main) + 1 \in DOMAIN main' /\ main'[Len(main) + 1] = x
    BY <1>1, <2>5
  <2>8. QED
    BY <2>6, <2>7
<1>6. QED
  BY <1>3, <1>4, <1>5, DueMeans, DueMeansNext

(* The result of a save of the screen makes an alert, unless there is one   *)
(* already or the screen is covered or gone; any other result leaves those *)
(* that are due in the queue.                                              *)
LEMMA CompletionKeepsDue ==
  ASSUME StorageTypeOK, Completion, AnswerDue
  PROVE  AnswerDue' \/ alert' # "none" \/ screen' # "profile"
<1> DEFINE result == Head(main)
<1>1. main \in Seq(Result) /\ main # <<>> /\ main' = Tail(main)
  BY DEF Completion, StorageTypeOK
<1>2. \/ UNCHANGED job
      \/ \E d \in Data : Save("identity", Only(idKey, d))
  BY DEF Completion, getUserId, createNewId, loadThemeFor, fetchProfileData, saveProfile
<1>3. JobsStay
  BY <1>2, SaveStays DEF JobsStay
<1>4. ASSUME NEW i \in DOMAIN main, i # 1, Due(main[i])
      PROVE  \E h \in DOMAIN main' : Due(main'[h])
  <2>1. i - 1 \in DOMAIN main' /\ main'[i - 1] = main[i]
    BY <1>1, <1>4
  <2>2. QED
    BY <1>4, <2>1
<1>5. ASSUME Due(main[1])
      PROVE  alert' # "none" \/ screen' # "profile"
  <2>1. Due(result)
    BY <1>1, <1>5
  <2>2. ~Ignored(result) /\ result.client = "profile" /\ result.op = "save"
    BY <2>1 DEF Due, Ignored
  <2>3. saveProfile(result)
    BY <2>2 DEF Completion
  <2>4. QED
    BY <2>3 DEF saveProfile, presentAlert
<1>6. QED
  BY <1>3, <1>4, <1>5, DueMeans, DueMeansNext DEF JobsStay

LEMMA NextKeepsDue ==
  ASSUME SafeInv, [ClientNext]_allVars, AnswerDue
  PROVE  AnswerDue' \/ alert' # "none" \/ screen' # "profile" \/ process' = "killed"
<1>1. StorageInv /\ StorageTypeOK
  BY DEF SafeInv, StorageInv
<1>2. UNCHANGED job => JobsStay
  BY DEF JobsStay
<1>3. CASE Launch \/ close
  BY <1>3 DEF Launch, close
<1>4. CASE Kill
  BY <1>4 DEF Kill, KillProcess
<1>5. CASE Requesting
  BY <1>1, <1>5, RequestStays, StayingKeepsDue
<1>6. CASE QuietStep \/ UNCHANGED allVars
  <2>1. UNCHANGED <<job, main>>
    BY <1>6, QuietStepIsQuiet DEF Quiet, allVars, storageVars
  <2>2. QED
    BY <1>2, <2>1, StayingKeepsDue
<1>7. CASE Completion
  BY <1>1, <1>7, CompletionKeepsDue
<1>8. CASE \E j \in Jobs : JobStep(j)
  BY <1>1, <1>8, StepKeepsDue DEF JobStep
<1>9. QED
  BY <1>3, <1>4, <1>5, <1>6, <1>7, <1>8
     DEF ClientNext, Editing, OtherTap, Arrival, NoImage, QuietStep

-----------------------------------------------------------------------------
(* The end of the requests of the app's clients.                            *)

(* A process that was killed has left no request behind.                    *)
KilledIdle == process = "killed" => \A j \in Jobs : Free(j)

LEMMA KilledIdleNext ==
  ASSUME SafeInv, KilledIdle, [ClientNext]_allVars
  PROVE  KilledIdle'
<1> SUFFICES ASSUME process' = "killed"
             PROVE  \A j \in Jobs : Free(j)'
  BY DEF KilledIdle
<1>1. CASE Kill
  BY <1>1 DEF Kill, KillProcess, Free, NoJob
<1>2. CASE UNCHANGED <<process, job>>
  BY <1>2 DEF KilledIdle, Free
<1>3. CASE Launch \/ close \/ Requesting
  BY <1>3 DEF Launch, close, Requesting, changeTheme, presentUserProfileScreen,
              didSaveButtonTapped, tapTryAgain, AlertTap, MayRequest, OthersUnchanged
<1>4. CASE QuietStep \/ UNCHANGED allVars
  BY <1>2, <1>4, QuietStepIsQuiet DEF Quiet, allVars, storageVars
<1>5. CASE Completion
  BY <1>5 DEF Completion
<1>6. ASSUME NEW j \in Jobs, JobStep(j)
      PROVE  FALSE
  <2>1. StorageStep(j) /\ UNCHANGED process
    BY <1>6 DEF JobStep, StorageStep, ReadForKey, NoFileForKey, WriteBegins, WriteEnds,
                SaveMeetsError, SaveDone, LoadSucceeds, LoadFails
  <2>2. Free(j)
    BY <2>1 DEF KilledIdle
  <2>3. ~Free(j)
    BY <2>1 DEF SafeInv, StorageInv, JobShape, StorageStep, ReadForKey, NoFileForKey, WriteBegins,
                WriteEnds, SaveMeetsError, SaveDone, LoadSucceeds, LoadFails, Saving, Free
  <2>4. QED
    BY <2>2, <2>3
<1>7. QED
  BY <1>1, <1>3, <1>4, <1>5, <1>6 DEF ClientNext, Editing, OtherTap, Arrival, NoImage, QuietStep

LEMMA LaunchGrows ==
  ASSUME SafeInv, KilledIdle, Launch
  PROVE  NoneGrows
<1>1. PICK i \in Jobs, j \in Jobs :
        /\ i # j
        /\ job' = [job EXCEPT ![i] = LoadValueJob("theme", themeKey),
                              ![j] = LoadValueJob("identity", idKey)]
  BY DEF Launch
<1>2. job \in [Jobs -> Job] /\ StorageTypeOK
  BY DEF SafeInv, StorageInv, StorageTypeOK
<1>3. NewJob(LoadValueJob("theme", themeKey)) /\ NewJob(LoadValueJob("identity", idKey))
  BY NewJobs, KeysOfClients
<1>4. NewJob(job'[i]) /\ NewJob(job'[j]) /\ \A h \in Jobs \ {i, j} : job'[h] = job[h]
  BY <1>1, <1>2, <1>3
<1>5. Free(i) /\ Free(j)
  BY DEF Launch, KilledIdle
<1>6. ASSUME NEW h \in {i, j}
      PROVE  JobLeft(h)' <= 3 * Cardinality(Keys) + 1 /\ Free(h)
  BY <1>4, <1>5, NewJobAhead, JobLeftIsAhead
<1>7. ASSUME NEW h \in Jobs \ {i, j}
      PROVE  JobLeft(h)' <= IF Free(h) THEN 3 * Cardinality(Keys) + 1 ELSE JobLeft(h)
  <2>1. JobLeft(h)' = JobLeft(h)
    BY <1>4, SameJobLeft
  <2>2. JobLeft(h) \in Nat /\ (Free(h) => JobLeft(h) = 0) /\ Cardinality(Keys) \in Nat
    BY <1>2, JobLeftType, KeysCounted
  <2>3. QED
    BY <2>1, <2>2
<1>8. QED
  BY <1>6, <1>7 DEF NoneGrows

LEMMA RequestingTakes ==
  ASSUME SafeInv, Requesting
  PROVE  UNCHANGED job \/ \E j \in Jobs : Taken(j)
<1>1. StorageTypeOK /\ updated \in Dictionaries
  BY DEF SafeInv, StorageInv, ClientInv, ClientTypeOK
<1>2. \A v \in Data : Only(themeKey, v) \in Dictionaries
  BY KeysOfClients, OnlyType
<1>3. \/ UNCHANGED job
      \/ \E v \in Data : Save("theme", Only(themeKey, v))
      \/ Save("profile", updated)
      \/ Load("profile")
  BY DEF Requesting, changeTheme, presentUserProfileScreen, didSaveButtonTapped, tapTryAgain
<1>4. QED
  BY <1>1, <1>2, <1>3, SaveTakes, LoadTakes

LEMMA CompletionTakes ==
  ASSUME SafeInv, Completion
  PROVE  UNCHANGED job \/ \E j \in Jobs : Taken(j)
<1>1. StorageTypeOK
  BY DEF SafeInv, StorageInv
<1>2. \A d \in Data : Only(idKey, d) \in Dictionaries
  BY KeysOfClients, OnlyType
<1>3. UNCHANGED job \/ \E d \in Data : Save("identity", Only(idKey, d))
  BY DEF Completion, getUserId, createNewId, loadThemeFor, fetchProfileData, saveProfile
<1>4. QED
  BY <1>1, <1>2, <1>3, SaveTakes

LEMMA CloseLeft ==
  ASSUME SafeInv, close, NEW j \in Jobs
  PROVE  JobLeft(j)' = JobLeft(j)
<1>1. job[j] \in Job
  BY DEF SafeInv, StorageInv, StorageTypeOK
<1>2. job'[j] = job[j] \/ job'[j] = [job[j] EXCEPT !.client = "none"]
  BY DEF close
<1>3. job'[j].op = job[j].op /\ job'[j].keys = job[j].keys /\ job'[j].pc = job[j].pc
  BY <1>1, <1>2 DEF Job
<1>4. QED
  BY <1>3, SameJobLeft

LEMMA ClientNextGrows ==
  ASSUME SafeInv, KilledIdle, SafeInv', [ClientNext]_allVars
  PROVE  NoneGrows
<1>1. StorageInv /\ StorageTypeOK /\ StorageTypeOK'
  BY DEF SafeInv, StorageInv
<1>2. ASSUME UNCHANGED job PROVE NoneGrows
  <2>1. ASSUME NEW j \in Jobs PROVE JobLeft(j)' = JobLeft(j)
    BY <1>2, SameJobLeft
  <2>2. QED
    BY <1>1, <2>1, RestGrows
<1>3. CASE Launch
  BY <1>3, LaunchGrows
<1>4. CASE Kill
  BY <1>1, <1>4, KilledJobs, RestGrows DEF Kill
<1>5. CASE Requesting \/ Completion
  BY <1>1, <1>2, <1>5, RequestingTakes, CompletionTakes, TakenGrows
<1>6. CASE close
  BY <1>1, <1>6, CloseLeft, RestGrows
<1>7. CASE QuietStep \/ UNCHANGED allVars
  BY <1>2, <1>7, QuietStepIsQuiet DEF Quiet, allVars, storageVars
<1>8. CASE \E j \in Jobs : JobStep(j)
  BY <1>1, <1>8, StepGrows DEF JobStep
<1>9. QED
  BY <1>3, <1>4, <1>5, <1>6, <1>7, <1>8
     DEF ClientNext, Editing, OtherTap, Arrival, NoImage, QuietStep

-----------------------------------------------------------------------------
(* An answer that is due stays due until there is an alert, or nobody left  *)
(* to see it: with any overlap of requests, any errors and any taps.       *)
THEOREM AnswersAreKept == ClientSpec => AnswersKept
<1>1. SafeInv /\ [ClientNext]_allVars =>
        [AnswerDue => \/ AnswerDue' \/ alert' # "none"
                      \/ screen' # "profile" \/ process' = "killed"]_allVars
  BY NextKeepsDue
<1>2. QED
  BY <1>1, ClientsAreSafe, PTL DEF ClientSpec, SafeInv, AnswersKept

(* The screens of the run, which begin with any file, take the same steps.  *)
LEMMA ScreenInitSafe == ScreenInit => SafeInv
<1> SUFFICES ASSUME NEW d \in Data, NEW f \in {Torn, Missing, Whole(Only(idKey, d))},
                    AtList("running", f, d)
             PROVE  SafeInv
  BY DEF ScreenInit
<1>1. f \in Files
  BY KeysOfClients, OnlyType, WholeType DEF Files
<1>2. StorageTypeOK
  BY <1>1, NoJobType DEF AtList, StorageTypeOK
<1>3. JobShape /\ CleanSaves /\ OwnKeys
  BY DEF AtList, NoJob, JobShape, CleanSaves, OwnKeys, Saving, Free
<1>4. values \in Seq(Dictionaries)
  BY DEF AtList
<1>5. ClientTypeOK
  BY <1>4, EmptyType DEF AtList, ClientTypeOK, Empty
<1>6. QED
  BY <1>2, <1>3, <1>5 DEF SafeInv, StorageInv, ClientInv

LEMMA ScreenNextIsClients == ScreenNext => ClientNext
BY DEF ScreenNext, ClientNext, Requesting

THEOREM AnswersAreKeptOnScreen == FairScreenSpec => AnswersKept
<1>1. ScreenInit => SafeInv
  BY ScreenInitSafe
<1>2. [ScreenNext]_allVars => [ClientNext]_allVars
  BY ScreenNextIsClients
<1>3. SafeInv /\ [ClientNext]_allVars => SafeInv'
  BY SafeNext
<1>4. SafeInv /\ [ClientNext]_allVars =>
        [AnswerDue => \/ AnswerDue' \/ alert' # "none"
                      \/ screen' # "profile" \/ process' = "killed"]_allVars
  BY NextKeepsDue
<1>5. QED
  BY <1>1, <1>2, <1>3, <1>4, PTL DEF FairScreenSpec, AnswersKept

(* None of the app's requests gets more steps before it than its keys give  *)
(* it: not by the results of others, a screen that is closed or a process  *)
(* that is launched again.                                                 *)
THEOREM ClientJobsNeverGrow == ClientSpec => JobsShorten
<1>1. ClientInit => KilledIdle
  BY DEF ClientInit, AtList, KilledIdle, Free, NoJob
<1>2. SafeInv /\ KilledIdle /\ [ClientNext]_allVars => KilledIdle'
  BY KilledIdleNext
<1>3. SafeInv /\ KilledIdle /\ SafeInv' /\ [ClientNext]_allVars =>
        [\A j \in Jobs :
           /\ JobLeft(j)' <= IF Free(j) THEN 3 * Cardinality(Keys) + 1 ELSE JobLeft(j)
           /\ StorageStep(j) => JobLeft(j)' < JobLeft(j)]_storageVars
  <2> SUFFICES ASSUME SafeInv, KilledIdle, SafeInv', [ClientNext]_allVars
               PROVE  \A j \in Jobs :
                        /\ JobLeft(j)' <= IF Free(j) THEN 3 * Cardinality(Keys) + 1 ELSE JobLeft(j)
                        /\ StorageStep(j) => JobLeft(j)' < JobLeft(j)
    OBVIOUS
  <2>1. NoneGrows
    BY ClientNextGrows
  <2>2. \A j \in Jobs : StorageStep(j) => JobLeft(j)' < JobLeft(j)
    BY StepShortens DEF SafeInv
  <2>3. QED
    BY <2>1, <2>2 DEF NoneGrows
<1>4. QED
  BY <1>1, <1>2, <1>3, ClientsAreSafe, PTL DEF ClientSpec, SafeInv, JobsShorten

================================================================================
