----------------------------- MODULE PatientProofs -----------------------------
(***************************************************************************)
(* What the screens of LocalProfile say is what the file holds, for a user  *)
(* who waits: proofs about PatientSpec.                                    *)
(***************************************************************************)
EXTENDS LocalProfileProofs

-----------------------------------------------------------------------------
(* Final.                                                                   *)

LEMMA FinalSaving ==
  ASSUME StorageInv, SavesApart, NEW j \in Jobs, Saving(j)
  PROVE  /\ Final = Merged(job[j].before, job[j].pairs)
         /\ \A i \in Jobs : Saving(i) => i = j
<1>1. \A i \in Jobs : Saving(i) => i = j
  BY DEF StorageInv, SavesApart, CleanSaves
<1>2. (CHOOSE i \in Jobs : Saving(i)) = j
  BY <1>1
<1>3. QED
  BY <1>1, <1>2 DEF Final

LEMMA FinalIdle ==
  ASSUME \A j \in Jobs : ~Saving(j)
  PROVE  Final = file.dict
BY DEF Final

LEMMA FinalType == ASSUME StorageInv, SavesApart PROVE Final \in Dictionaries
<1>1. CASE \E j \in Jobs : Saving(j)
  <2>1. PICK j \in Jobs : Saving(j)
    BY <1>1
  <2>2. job[j].before \in Dictionaries /\ job[j].pairs \in Dictionaries
    BY DEF StorageInv, StorageTypeOK, Job
  <2>3. QED
    BY <2>1, <2>2, FinalSaving, MergedType
<1>2. CASE \A j \in Jobs : ~Saving(j)
  BY <1>2, FinalIdle, FileType DEF StorageInv, StorageTypeOK
<1>3. QED
  BY <1>1, <1>2

(* What the steps of a save, and of the screen, leave as it is.             *)
LEMMA FinalKept ==
  ASSUME StorageInv, SavesApart, UNCHANGED file \/ \E i \in Jobs : Saving(i),
         \A i \in Jobs : Saving(i)' <=> Saving(i),
         \A i \in Jobs : Saving(i) => /\ job'[i].before = job[i].before
                                      /\ job'[i].pairs = job[i].pairs
  PROVE  Final' = Final
<1>1. CASE \E j \in Jobs : Saving(j)
  <2>1. PICK j \in Jobs : Saving(j)
    BY <1>1
  <2>2. \A i \in Jobs : Saving(i) => i = j
    BY <2>1, FinalSaving
  <2>3. Final = Merged(job[j].before, job[j].pairs)
    BY <2>1, FinalSaving
  <2>4. (CHOOSE i \in Jobs : Saving(i)') = j
    BY <2>1, <2>2
  <2>5. Final' = Merged(job'[j].before, job'[j].pairs)
    BY <2>1, <2>4 DEF Final
  <2>6. QED
    BY <2>1, <2>3, <2>5
<1>2. CASE \A j \in Jobs : ~Saving(j)
  BY <1>2 DEF Final
<1>3. QED
  BY <1>1, <1>2

(* A save that meets no other save.                                         *)
LEMMA SaveStarts ==
  ASSUME StorageInv, \A j \in Jobs : ~Saving(j), file.state = "whole",
         NEW c \in Clients, NEW pairs \in Dictionaries, Save(c, pairs), UNCHANGED file
  PROVE  /\ Final' = Merged(Final, pairs)
         /\ \E j \in Jobs : /\ Free(j)
                            /\ job' = [job EXCEPT ![j] = SaveJob(c, pairs, TRUE)]
                            /\ job'[j].op = "save" /\ job'[j].client = c
                            /\ job'[j].clean /\ job'[j].before = Final
<1>1. job \in [Jobs -> Job]
  BY DEF StorageInv, StorageTypeOK
<1>2. PICK j \in Jobs : Free(j) /\ job' = [Jostled EXCEPT ![j] =
          SaveJob(c, pairs, file.state = "whole" /\ \A i \in Jobs : ~Saving(i))]
  BY DEF Save
<1>3. Jostled = job
  BY <1>1 DEF Jostled
<1>4. (file.state = "whole" /\ \A i \in Jobs : ~Saving(i)) = TRUE
  OBVIOUS
<1>5. job' = [job EXCEPT ![j] = SaveJob(c, pairs, TRUE)]
  BY <1>2, <1>3, <1>4
<1>6. /\ SaveJob(c, pairs, TRUE).op = "save" /\ SaveJob(c, pairs, TRUE).client = c
      /\ SaveJob(c, pairs, TRUE).pairs = pairs /\ SaveJob(c, pairs, TRUE).clean
      /\ SaveJob(c, pairs, TRUE).before = file.dict
  BY DEF SaveJob, NoJob
<1>7. job'[j] = SaveJob(c, pairs, TRUE) /\ \A i \in Jobs \ {j} : job'[i] = job[i]
  BY <1>1, <1>5
<1>8. Saving(j)' /\ \A i \in Jobs : Saving(i)' => i = j
  BY <1>6, <1>7 DEF Saving
<1>9. (CHOOSE i \in Jobs : Saving(i)') = j
  BY <1>8
<1>10. Final' = Merged(file.dict, pairs)
  BY <1>6, <1>7, <1>8, <1>9 DEF Final
<1>11. QED
  BY <1>2, <1>5, <1>6, <1>7, <1>10, FinalIdle

-----------------------------------------------------------------------------
(* Who waits.                                                               *)

(* It is the operation and the client alone that matter.                    *)
LEMMA AwaitsBy ==
  ASSUME NEW c, NEW r, NEW s, r.op = s.op, r.client = s.client
  PROVE  Awaits(c, r) <=> Awaits(c, s)
BY DEF Awaits, Ignored

LEMMA IdleAwaitsNothing ==
  ASSUME Quiescent, NEW c
  PROVE  AwaitedJobs(c) = {} /\ AwaitedResults(c) = {} /\ ~Waiting(c)
<1>1. \A j \in Jobs : ~Awaits(c, job[j])
  BY DEF Quiescent, Free, Awaits
<1>2. DOMAIN main = {}
  BY DEF Quiescent
<1>3. QED
  BY <1>1, <1>2 DEF AwaitedJobs, AwaitedResults, Waiting

LEMMA SavesAwaited ==
  ASSUME NEW j \in Jobs, Saving(j)
  PROVE  /\ Awaits("profile", job[j]) <=> job[j].client = "profile"
         /\ ~Awaits("identity", job[j]) /\ ~Awaits("theme", job[j])
BY DEF Saving, Awaits, Ignored

(* One request, where there was nothing under way.                          *)
LEMMA OneRequest ==
  ASSUME Quiescent, job \in [Jobs -> Job], NEW j \in Jobs, NEW new,
         job' = [job EXCEPT ![j] = new], UNCHANGED main
  PROVE  /\ \A c : /\ AwaitedJobs(c)' = IF Awaits(c, new) THEN {j} ELSE {}
                   /\ AwaitedResults(c)' = {}
                   /\ Waiting(c)' <=> Awaits(c, new)
         /\ \A i \in Jobs \ {j} : ~Saving(i)' /\ \A c : ~Awaits(c, job'[i])
         /\ main' = <<>>
<1>1. job'[j] = new /\ \A i \in Jobs \ {j} : job'[i] = job[i]
  OBVIOUS
<1>2. \A i \in Jobs \ {j} : ~Saving(i)' /\ \A c : ~Awaits(c, job'[i])
  BY <1>1 DEF Quiescent, Free, Saving, Awaits
<1>3. main' = <<>> /\ DOMAIN main' = {}
  BY DEF Quiescent
<1>4. \A c : AwaitedJobs(c)' = IF Awaits(c, new) THEN {j} ELSE {}
  BY <1>1, <1>2 DEF AwaitedJobs
<1>5. \A c : AwaitedResults(c)' = {}
  BY <1>3 DEF AwaitedResults
<1>6. \A c : Waiting(c)' <=> Awaits(c, new)
  BY <1>4, <1>5 DEF Waiting
<1>7. QED
  BY <1>2, <1>3, <1>4, <1>5, <1>6

-----------------------------------------------------------------------------
(* Steps that leave the storage, identity and theme alone.                  *)

LEMMA QuietKeeps ==
  ASSUME PatientInv, SafeInv', Quiet,
         screen' = "list" <=> screen = "list", UNCHANGED <<stored, asked>>,
         alert' # "none" => alert' = alert /\ screen' = screen,
         SaveAwaited => UNCHANGED updated /\ picks' = {}
  PROVE  PatientInv' /\ Final' = Final
<1>1. UNCHANGED <<process, file, job, main, userId, theme, firstId>>
  BY DEF Quiet, storageVars
<1>2. Final' = Final
  BY <1>1 DEF Final, Saving
<1>3. \A c : /\ AwaitedJobs(c)' = AwaitedJobs(c) /\ AwaitedResults(c)' = AwaitedResults(c)
            /\ Waiting(c)' = Waiting(c)
  BY <1>1 DEF AwaitedJobs, AwaitedResults, Waiting
<1>4. SaveAwaited' <=> SaveAwaited
  BY <1>1, <1>3 DEF SaveAwaited, Saving
<1>5. AwaitedAlone' /\ LoadsOwnKeys' /\ SavesApart'
  BY <1>1, <1>3 DEF PatientInv, AwaitedAlone, LoadsOwnKeys, SavesApart, Quiescent, Saving, Free
<1>6. ResultsTrue' /\ IdentityKnown' /\ ThemeKnown'
  BY <1>1, <1>2, <1>3 DEF PatientInv, ResultsTrue, IdentityKnown, ThemeKnown
<1>7. ProfileKnown'
  BY <1>1, <1>2, <1>3, <1>4 DEF PatientInv, ProfileKnown
<1>8. AskedKnown'
  BY <1>1, <1>2 DEF PatientInv, AskedKnown, Saving
<1>9. QED
  BY <1>2, <1>5, <1>6, <1>7, <1>8 DEF PatientInv, SafeInv

(* While a save is awaited nothing is edited, and no picture comes.         *)
PatientQuiet == /\ QuietStep
                /\ \/ Idle \/ didCancelButtonTapped
                   \/ didEditButtonTapped \/ tapOk
                   \/ didProfileImageViewTapped \/ dismissPicker
                   \/ Arrival

LEMMA PatientQuietKeeps ==
  ASSUME PatientInv, SafeInv', PatientQuiet
  PROVE  PatientInv' /\ UNCHANGED <<Final, userId, theme, stored>>
<1>1. Quiet
  BY QuietStepIsQuiet DEF PatientQuiet
<1>2. UNCHANGED <<stored, asked>>
  BY DEF PatientQuiet, QuietStep, didEditButtonTapped, tapOk, didProfileImageViewTapped,
         dismissPicker, didCancelButtonTapped, updateScreen, textFieldDidEndEditing,
         imagePickerController, didPickPicture, PictureLoaded, PictureFails, fieldVars
<1>3. /\ alert' # "none" => alert' = alert
      /\ screen' = screen \/ (screen = "profile" /\ screen' = "picker" /\ alert = "none")
                         \/ (screen = "picker" /\ screen' = "profile")
  BY DEF PatientQuiet, QuietStep, didEditButtonTapped, tapOk, didProfileImageViewTapped,
         dismissPicker, didCancelButtonTapped, updateScreen, textFieldDidEndEditing,
         imagePickerController, didPickPicture, PictureLoaded, PictureFails, PickerEnds, Tap
<1>4. alert' # "none" => screen' = screen
  BY <1>3 DEF PatientInv, AskedKnown
<1>5. ASSUME SaveAwaited
      PROVE  UNCHANGED updated /\ picks' = {}
  <2>1. Waiting("profile") /\ ~Quiescent /\ process = "running"
    <3>1. Waiting("profile")
      BY <1>5 DEF SaveAwaited, Waiting
    <3>2. ~Quiescent
      BY <3>1, IdleAwaitsNothing
    <3>3. QED
      BY <3>1, <3>2 DEF PatientInv, AwaitedAlone, SafeInv, StorageInv, StorageTypeOK
  <2>2. picks = {}
    BY <1>5, <2>1 DEF PatientInv, AwaitedAlone, ProfileKnown
  <2>3. \/ didCancelButtonTapped \/ didEditButtonTapped \/ tapOk
        \/ didProfileImageViewTapped \/ dismissPicker
        \/ \E i \in DOMAIN values : updateScreen(i)
    BY <2>1, <2>2 DEF PatientQuiet, Idle, Arrival, PictureLoaded, PictureFails
  <2>4. QED
    BY <2>2, <2>3 DEF didCancelButtonTapped, didEditButtonTapped, tapOk,
                      didProfileImageViewTapped, dismissPicker, updateScreen, fieldVars, arrivalVars
<1>6. QED
  BY <1>1, <1>2, <1>3, <1>4, <1>5, QuietKeeps DEF Quiet

-----------------------------------------------------------------------------
(* The end of the process, and a new launch.                                *)

LEMMA KillKeeps ==
  ASSUME PatientInv, SafeInv', Kill, \A j \in Jobs : ~Saving(j)
  PROVE  PatientInv' /\ Final' = Final
<1>1. /\ process' = "killed" /\ job' = [j \in Jobs |-> NoJob] /\ main' = <<>> /\ UNCHANGED file
      /\ UNCHANGED <<userId, theme, firstId, screen, asked, alert>>
  BY DEF Kill, KillProcess, clientVars, profileVars
<1>2. Quiescent' /\ \A j \in Jobs : ~Saving(j)'
  BY <1>1 DEF Quiescent, Free, Saving, NoJob
<1>3. Final' = Final
  BY <1>1, <1>2 DEF Final
<1>4. \A c : AwaitedJobs(c)' = {} /\ AwaitedResults(c)' = {} /\ ~Waiting(c)'
  <2> TAKE c
  <2>1. \A j \in Jobs : ~Awaits(c, job'[j])
    BY <1>2 DEF Quiescent, Free, Awaits
  <2>2. DOMAIN main' = {}
    BY <1>1
  <2>3. QED
    BY <2>1, <2>2 DEF AwaitedJobs, AwaitedResults, Waiting
<1>5. AwaitedAlone' /\ LoadsOwnKeys'
  BY <1>2, <1>4 DEF AwaitedAlone, LoadsOwnKeys, AwaitedJobs
<1>6. SavesApart'
  BY <1>1, <1>2 DEF PatientInv, SavesApart
<1>7. ResultsTrue' /\ IdentityKnown' /\ ThemeKnown' /\ ProfileKnown'
  BY <1>1, <1>3 DEF PatientInv, ResultsTrue, IdentityKnown, ThemeKnown, ProfileKnown
<1>8. AskedKnown'
  BY <1>1, <1>2, <1>3 DEF PatientInv, AskedKnown
<1>9. QED
  BY <1>3, <1>5, <1>6, <1>7, <1>8 DEF PatientInv, SafeInv

(* The template of a first launch holds what was known: nothing.            *)
LEMMA LaunchKeeps ==
  ASSUME PatientInv, SafeInv', Launch, file' # Missing
  PROVE  PatientInv' /\ Final' = Final
<1>1. PICK i \in Jobs, j \in Jobs :
        /\ i # j
        /\ job' = [job EXCEPT ![i] = LoadValueJob("theme", themeKey),
                              ![j] = LoadValueJob("identity", idKey)]
  BY DEF Launch
<1>2. /\ process = "killed" /\ process' = "running" /\ Quiescent /\ UNCHANGED <<main, firstId>>
      /\ userId' = Nil /\ theme' = Nil /\ screen' = "list" /\ asked' = Empty /\ alert' = "none"
  BY DEF Launch, NewProfile, PatientInv, AwaitedAlone
<1>3. /\ job'[i] = LoadValueJob("theme", themeKey) /\ job'[j] = LoadValueJob("identity", idKey)
      /\ \A h \in Jobs \ {i, j} : job'[h] = job[h]
  BY <1>1 DEF PatientInv, StorageInv, StorageTypeOK
<1>4. \A c, k : LET load == LoadValueJob(c, k)
               IN  load.op = "loadValue" /\ load.client = c /\ load.keys = {k}
  BY DEF LoadValueJob, NoJob
<1>5. /\ \A h \in Jobs \ {i, j} : Free(h)' /\ \A c : ~Awaits(c, job'[h])
      /\ \A h \in Jobs : ~Saving(h)' /\ ~Saving(h)
  BY <1>2, <1>3, <1>4 DEF Quiescent, Free, Saving, Awaits
<1>6. /\ \A c : Awaits(c, job'[i]) <=> c = "theme"
      /\ \A c : Awaits(c, job'[j]) <=> c = "identity"
  BY <1>3, <1>4 DEF Awaits, Ignored
<1>7. /\ AwaitedJobs("identity")' = {j} /\ AwaitedJobs("theme")' = {i}
      /\ AwaitedJobs("profile")' = {}
      /\ \A c : AwaitedResults(c)' = {}
  <2>1. \A c : AwaitedResults(c)' = {}
    BY <1>2 DEF Quiescent, AwaitedResults
  <2>2. AwaitedJobs("identity")' = {j}
    BY <1>1, <1>5, <1>6 DEF AwaitedJobs
  <2>3. AwaitedJobs("theme")' = {i}
    BY <1>1, <1>5, <1>6 DEF AwaitedJobs
  <2>4. AwaitedJobs("profile")' = {}
    <3>1. ~Awaits("profile", job'[i]) /\ ~Awaits("profile", job'[j])
      BY <1>6
    <3>2. QED
      BY <1>5, <3>1 DEF AwaitedJobs
  <2>5. QED
    BY <2>1, <2>2, <2>3, <2>4
<1>8. Waiting("identity")' /\ Waiting("theme")' /\ ~Waiting("profile")'
  BY <1>7 DEF Waiting
<1>9. AwaitedAlone' /\ LoadsOwnKeys'
  <2>1. AwaitedAlone'
    BY <1>2, <1>7, <1>8 DEF AwaitedAlone
  <2>2. LoadsOwnKeys'
    <3> SUFFICES ASSUME NEW h \in Jobs
                 PROVE  /\ Awaits("identity", job'[h]) =>
                             job'[h].op = "loadValue" /\ job'[h].keys = {idKey}
                        /\ Awaits("theme", job'[h]) =>
                             job'[h].op = "loadValue" /\ job'[h].keys = {themeKey}
                        /\ ~Awaits("profile", job'[h])
      BY DEF LoadsOwnKeys
    <3>1. CASE h = i
      BY <1>3, <1>4, <1>6, <3>1
    <3>2. CASE h = j
      BY <1>3, <1>4, <1>6, <3>2
    <3>3. CASE h \notin {i, j}
      BY <1>5, <3>3
    <3>4. QED
      BY <3>1, <3>2, <3>3
  <2>3. QED
    BY <2>1, <2>2
<1>10. file.state # "torn" /\ file \in Files
  BY <1>5 DEF PatientInv, SavesApart, StorageInv, StorageTypeOK
<1>11. file'.state = "whole" /\ file'.dict = file.dict
  <2>1. CASE file.state = "missing"
    BY <1>10, <2>1 DEF Launch, createFileLocallyIfNeeded, Files, Whole, Torn, Missing
  <2>2. CASE file.state # "missing"
    BY <1>10, <2>2 DEF Launch, createFileLocallyIfNeeded, Files, Whole, Torn, Missing
  <2>3. QED
    BY <2>1, <2>2
<1>12. SavesApart'
  BY <1>5, <1>11 DEF SavesApart
<1>13. Final' = Final
  BY <1>5, <1>11 DEF Final
<1>14. ResultsTrue'
  BY <1>2 DEF Quiescent, ResultsTrue
<1>15. IdentityKnown' /\ ThemeKnown' /\ ProfileKnown'
  BY <1>2, <1>8, <1>13 DEF PatientInv, IdentityKnown, ThemeKnown, ProfileKnown
<1>16. AskedKnown'
  BY <1>2 DEF AskedKnown, Empty
<1>17. QED
  BY <1>9, <1>12, <1>13, <1>14, <1>15, <1>16 DEF PatientInv, SafeInv

-----------------------------------------------------------------------------
(* The requests, made when nothing is under way.                            *)

LEMMA IdleFacts ==
  ASSUME PatientInv, Quiescent, process = "running"
  PROVE  /\ \A j \in Jobs : ~Saving(j)
         /\ file.state = "whole" /\ Final = file.dict /\ Final \in Dictionaries
         /\ firstId # Nil /\ Final[themeKey] = theme
         /\ screen # "list" => stored = OnProfileKeys(Final)
<1>1. \A j \in Jobs : ~Saving(j)
  BY DEF Quiescent, Free, Saving
<1>2. \A c : ~Waiting(c)
  BY IdleAwaitsNothing
<1>3. file.state = "whole"
  BY <1>1 DEF PatientInv, SavesApart, StorageInv, StorageTypeOK, Files, Whole, Torn, Missing
<1>4. Final \in Dictionaries
  BY FinalType DEF PatientInv
<1>5. QED
  BY <1>1, <1>2, <1>3, <1>4, FinalIdle DEF PatientInv, IdentityKnown, ThemeKnown, ProfileKnown

(* A save of theme or profile: all that it changes is what it saves.        *)
LEMMA SaveKeeps ==
  ASSUME PatientInv, Quiescent, process = "running",
         NEW c \in {"theme", "profile"}, NEW pairs \in Dictionaries,
         Save(c, pairs), UNCHANGED <<process, file, main>>,
         c = "profile" => screen' # "list"
  PROVE  /\ Final' = Merged(Final, pairs)
         /\ AwaitedAlone' /\ LoadsOwnKeys' /\ SavesApart' /\ ResultsTrue'
         /\ \A d : Waiting(d)' <=> d = "profile" /\ c = "profile"
         /\ SaveAwaited' => c = "profile"
<1>1. /\ \A j \in Jobs : ~Saving(j)
      /\ file.state = "whole"
  BY IdleFacts
<1>2. c \in Clients
  BY ClientsAssumption
<1>3. Final' = Merged(Final, pairs)
  BY <1>1, <1>2, SaveStarts DEF PatientInv
<1>4. PICK j \in Jobs : /\ Free(j)
                        /\ job' = [job EXCEPT ![j] = SaveJob(c, pairs, TRUE)]
                        /\ job'[j].op = "save" /\ job'[j].client = c /\ job'[j].clean
  BY <1>1, <1>2, SaveStarts DEF PatientInv
<1> DEFINE new == SaveJob(c, pairs, TRUE)
<1> HIDE DEF new
<1>5. job \in [Jobs -> Job] /\ job' = [job EXCEPT ![j] = new] /\ job'[j] = new
  BY <1>4 DEF PatientInv, StorageInv, StorageTypeOK, new
<1>6. \A d : Awaits(d, new) <=> d = "profile" /\ c = "profile"
  BY <1>4, <1>5 DEF Awaits, Ignored
<1>7. /\ \A d : /\ AwaitedJobs(d)' = IF Awaits(d, new) THEN {j} ELSE {}
                /\ AwaitedResults(d)' = {}
                /\ Waiting(d)' <=> Awaits(d, new)
      /\ \A i \in Jobs \ {j} : ~Saving(i)' /\ \A d : ~Awaits(d, job'[i])
      /\ main' = <<>>
  BY <1>5, OneRequest
<1>8. \A d : Waiting(d)' <=> d = "profile" /\ c = "profile"
  BY <1>6, <1>7
<1>9. AwaitedAlone'
  BY <1>7, <1>8 DEF AwaitedAlone
<1>10. LoadsOwnKeys'
  <2>1. \A i \in Jobs : ~Awaits("identity", job'[i]) /\ ~Awaits("theme", job'[i])
    BY <1>5, <1>6, <1>7
  <2>2. \A i \in Jobs : Awaits("profile", job'[i]) => Saving(i)'
    BY <1>4, <1>7 DEF Saving
  <2>3. QED
    BY <2>1, <2>2 DEF LoadsOwnKeys
<1>11. SavesApart'
  BY <1>1, <1>4, <1>7, <1>8 DEF SavesApart
<1>12. ResultsTrue'
  BY <1>7 DEF ResultsTrue
<1>13. SaveAwaited' => c = "profile"
  BY <1>8 DEF SaveAwaited, Waiting
<1>14. QED
  BY <1>3, <1>8, <1>9, <1>10, <1>11, <1>12, <1>13

LEMMA ChangeThemeKeeps ==
  ASSUME PatientInv, SafeInv', Quiescent, NEW v \in Data, changeTheme(v)
  PROVE  PatientInv' /\ Final' = Merged(Final, Only(themeKey, v))
<1>1. /\ process = "running" /\ screen = "list" /\ theme' = v /\ Save("theme", Only(themeKey, v))
      /\ UNCHANGED <<process, file, main, userId, firstId, screen, stored, updated, asked, alert>>
  BY DEF changeTheme, MayRequest, profileVars, fieldVars
<1>2. Only(themeKey, v) \in Dictionaries
  BY KeysOfClients, OnlyType
<1>3. /\ Final' = Merged(Final, Only(themeKey, v))
      /\ AwaitedAlone' /\ LoadsOwnKeys' /\ SavesApart' /\ ResultsTrue'
  BY <1>1, <1>2, SaveKeeps
<1>4. Final \in Dictionaries /\ firstId # Nil
  BY <1>1, IdleFacts
<1>5. /\ Final'[themeKey] = v
      /\ \A k \in Keys \ {themeKey} : Final'[k] = Final[k]
  BY <1>3, <1>4, KeysOfClients, NilAssumption DEF Merged, Only, Empty
<1>6. IdentityKnown'
  BY <1>1, <1>4, <1>5, KeysAssumption, KeysOfClients DEF PatientInv, IdentityKnown
<1>7. ThemeKnown' /\ ProfileKnown'
  BY <1>1, <1>5 DEF ThemeKnown, ProfileKnown
<1>8. AskedKnown'
  BY <1>1, <1>5, KeysOfClients DEF PatientInv, AskedKnown
<1>9. QED
  BY <1>3, <1>6, <1>7, <1>8 DEF PatientInv, SafeInv

LEMMA ProfileSaveKeeps ==
  ASSUME PatientInv, SafeInv', Idle, didSaveButtonTapped
  PROVE  PatientInv' /\ Final' = IF updated = Empty THEN Final ELSE Merged(Final, updated)
<1>1. /\ process = "running" /\ screen = "profile" /\ alert = "none" /\ Quiescent /\ picks = {}
      /\ UNCHANGED <<process, file, main, userId, theme, firstId, screen, stored, updated, picks, alert>>
      /\ asked' = Merged(asked, updated)
      /\ IF updated = Empty THEN UNCHANGED job ELSE Save("profile", updated)
  BY DEF didSaveButtonTapped, Tap, Idle, OthersUnchanged, fieldVars, arrivalVars
<1>2. /\ updated \in Dictionaries /\ asked \in Dictionaries
      /\ \A k \in Keys \ profileKeys : updated[k] = Nil
  BY DEF PatientInv, ClientInv, ClientTypeOK
<1>3. CASE updated = Empty
  <2>1. asked' = asked
    BY <1>1, <1>2, <1>3 DEF Merged, Empty, Dictionaries
  <2>2. ~SaveAwaited
    BY <1>1, IdleAwaitsNothing DEF SaveAwaited
  <2>3. Quiet
    BY <1>1, <1>3 DEF Quiet, storageVars
  <2>4. QED
    BY <1>1, <1>3, <2>1, <2>2, <2>3, QuietKeeps
<1>4. CASE updated # Empty
  <2>1. /\ Final' = Merged(Final, updated)
        /\ AwaitedAlone' /\ LoadsOwnKeys' /\ SavesApart' /\ ResultsTrue'
        /\ Waiting("profile")'
    BY <1>1, <1>2, <1>4, SaveKeeps
  <2>2. /\ Final \in Dictionaries /\ firstId # Nil /\ Final[themeKey] = theme
        /\ stored = OnProfileKeys(Final)
    BY <1>1, IdleFacts
  <2>3. \A k \in Keys \ profileKeys : Final'[k] = Final[k]
    BY <1>2, <2>1, <2>2 DEF Merged
  <2>4. IdentityKnown' /\ ThemeKnown'
    BY <1>1, <2>2, <2>3, KeysOfClients DEF PatientInv, IdentityKnown, ThemeKnown
  <2>5. OnProfileKeys(Final') = Merged(stored, updated)
    BY <1>2, <2>1, <2>2 DEF OnProfileKeys, Merged
  <2>6. ProfileKnown'
    BY <1>1, <2>1, <2>5 DEF ProfileKnown
  <2>7. AskedKnown'
    BY <1>1, <1>2, <2>1, <2>2 DEF PatientInv, AskedKnown, Merged
  <2>8. QED
    BY <1>4, <2>1, <2>4, <2>6, <2>7 DEF PatientInv, SafeInv
<1>5. QED
  BY <1>3, <1>4

LEMMA PresentKeeps ==
  ASSUME PatientInv, SafeInv', Quiescent, presentUserProfileScreen
  PROVE  PatientInv' /\ Final' = Final
<1>1. /\ process = "running" /\ screen = "list" /\ screen' = "profile" /\ Load("profile")
      /\ asked' = Empty /\ alert' = "none"
      /\ UNCHANGED <<process, file, main, userId, theme, firstId>>
  BY DEF presentUserProfileScreen, MayRequest, NewProfile
<1> DEFINE new == LoadJob("profile")
<1>2. new.op = "load" /\ new.client = "profile" /\ new.keys = Keys
  BY DEF LoadJob, NoJob
<1> HIDE DEF new
<1>3. PICK j \in Jobs : job' = [job EXCEPT ![j] = new]
  BY <1>1 DEF Load, new
<1>4. job \in [Jobs -> Job] /\ job'[j] = new
  BY <1>3 DEF PatientInv, StorageInv, StorageTypeOK
<1>5. \A d : Awaits(d, new) <=> d = "profile"
  BY <1>2 DEF Awaits, Ignored
<1>6. /\ \A d : /\ AwaitedJobs(d)' = IF Awaits(d, new) THEN {j} ELSE {}
                /\ AwaitedResults(d)' = {}
                /\ Waiting(d)' <=> Awaits(d, new)
      /\ \A i \in Jobs \ {j} : ~Saving(i)' /\ \A d : ~Awaits(d, job'[i])
      /\ main' = <<>>
  BY <1>1, <1>3, <1>4, OneRequest
<1>7. \A i \in Jobs : ~Saving(i)'
  BY <1>2, <1>4, <1>6 DEF Saving
<1>8. /\ \A i \in Jobs : ~Saving(i)
      /\ file.state = "whole" /\ firstId # Nil /\ Final[themeKey] = theme
  BY <1>1, IdleFacts
<1>9. Final' = Final
  BY <1>1, <1>7, <1>8, FinalIdle DEF Final
<1>10. AwaitedAlone'
  BY <1>1, <1>5, <1>6 DEF AwaitedAlone
<1>11. LoadsOwnKeys'
  <2>1. \A i \in Jobs : ~Awaits("identity", job'[i]) /\ ~Awaits("theme", job'[i])
    <3>1. ~Awaits("identity", new) /\ ~Awaits("theme", new)
      BY <1>5
    <3>2. QED
      BY <1>4, <1>6, <3>1
  <2>2. \A i \in Jobs : Awaits("profile", job'[i]) => i = j
    BY <1>6
  <2>3. QED
    BY <1>2, <1>4, <2>1, <2>2 DEF LoadsOwnKeys
<1>12. SavesApart' /\ ResultsTrue'
  BY <1>1, <1>6, <1>7, <1>8 DEF SavesApart, ResultsTrue
<1>13. IdentityKnown' /\ ThemeKnown'
  BY <1>1, <1>8, <1>9 DEF PatientInv, IdentityKnown, ThemeKnown
<1>14. ~SaveAwaited'
  BY <1>6, <1>7 DEF SaveAwaited
<1>15. Waiting("profile")'
  BY <1>5, <1>6
<1>16. ProfileKnown'
  BY <1>14, <1>15 DEF ProfileKnown
<1>17. AskedKnown'
  BY <1>1 DEF AskedKnown, Empty
<1>18. QED
  BY <1>9, <1>10, <1>11, <1>12, <1>13, <1>16, <1>17 DEF PatientInv, SafeInv

LEMMA RequestKeeps == ASSUME PatientInv, SafeInv', Requesting, Idle PROVE PatientInv'
<1>1. ~tapTryAgain
  BY DEF PatientInv, AskedKnown, tapTryAgain, AlertTap
<1>2. Quiescent
  BY DEF Idle
<1>3. QED
  BY <1>1, <1>2, ChangeThemeKeeps, ProfileSaveKeeps, PresentKeeps DEF Requesting

(* Closing: what was under way for the profile screen is awaited no more.   *)
LEMMA CloseKeeps == ASSUME PatientInv, SafeInv', close PROVE PatientInv' /\ Final' = Final
<1>1. /\ process = "running" /\ screen' = "list" /\ asked' = Empty /\ alert' = "none"
      /\ UNCHANGED <<process, file, userId, theme, firstId>>
  BY DEF close, NewProfile
<1>2. \A j \in Jobs :
        /\ job'[j].op = job[j].op /\ job'[j].pairs = job[j].pairs /\ job'[j].keys = job[j].keys
        /\ job'[j].clean = job[j].clean /\ job'[j].before = job[j].before
        /\ job'[j].client = IF job[j].client = "profile" THEN "none" ELSE job[j].client
  <2> TAKE j \in Jobs
  <2>1. job[j] \in Job
    BY DEF PatientInv, StorageInv, StorageTypeOK
  <2>2. job'[j] = IF job[j].client = "profile" THEN [job[j] EXCEPT !.client = "none"] ELSE job[j]
    BY DEF close
  <2>3. QED
    BY <2>1, <2>2 DEF Job
<1>3. /\ DOMAIN main' = DOMAIN main
      /\ \A i \in DOMAIN main :
          /\ main'[i].op = main[i].op /\ main'[i].success = main[i].success
          /\ main'[i].dict = main[i].dict
          /\ main'[i].client = IF main[i].client = "profile" THEN "none" ELSE main[i].client
  <2>1. /\ DOMAIN main' = DOMAIN main
        /\ main' = [i \in DOMAIN main |-> IF main[i].client = "profile"
                                         THEN [main[i] EXCEPT !.client = "none"] ELSE main[i]]
    BY DEF close
  <2> SUFFICES ASSUME NEW i \in DOMAIN main
               PROVE  /\ main'[i].op = main[i].op /\ main'[i].success = main[i].success
                      /\ main'[i].dict = main[i].dict
                      /\ main'[i].client = IF main[i].client = "profile" THEN "none"
                                                                        ELSE main[i].client
    BY <2>1
  <2>2. main[i] \in Result
    BY DEF PatientInv, StorageInv, StorageTypeOK
  <2>3. main'[i] = IF main[i].client = "profile" THEN [main[i] EXCEPT !.client = "none"] ELSE main[i]
    BY <2>1
  <2>4. QED
    BY <2>2, <2>3 DEF Result
<1>4. /\ \A j \in Jobs :
           /\ Awaits("identity", job'[j]) <=> Awaits("identity", job[j])
           /\ Awaits("theme", job'[j]) <=> Awaits("theme", job[j])
           /\ ~Awaits("profile", job'[j])
      /\ \A i \in DOMAIN main :
           /\ Awaits("identity", main'[i]) <=> Awaits("identity", main[i])
           /\ Awaits("theme", main'[i]) <=> Awaits("theme", main[i])
           /\ ~Awaits("profile", main'[i])
  BY <1>2, <1>3 DEF Awaits, Ignored
<1>5. /\ \A c \in {"identity", "theme"} : /\ AwaitedJobs(c)' = AwaitedJobs(c)
                                         /\ AwaitedResults(c)' = AwaitedResults(c)
      /\ AwaitedJobs("profile")' = {} /\ AwaitedResults("profile")' = {}
  <2>1. AwaitedJobs("identity")' = AwaitedJobs("identity")
    BY <1>4 DEF AwaitedJobs
  <2>2. AwaitedResults("identity")' = AwaitedResults("identity")
    BY <1>3, <1>4 DEF AwaitedResults
  <2>3. AwaitedJobs("theme")' = AwaitedJobs("theme")
    BY <1>4 DEF AwaitedJobs
  <2>4. AwaitedResults("theme")' = AwaitedResults("theme")
    BY <1>3, <1>4 DEF AwaitedResults
  <2>5. AwaitedJobs("profile")' = {} /\ AwaitedResults("profile")' = {}
    BY <1>3, <1>4 DEF AwaitedJobs, AwaitedResults
  <2>6. QED
    BY <2>1, <2>2, <2>3, <2>4, <2>5
<1>6. /\ \A c \in {"identity", "theme"} : Waiting(c)' <=> Waiting(c)
      /\ ~Waiting("profile")'
  BY <1>5 DEF Waiting
<1>7. \A j \in Jobs : Saving(j)' <=> Saving(j)
  BY <1>2 DEF Saving
<1>8. Final' = Final
  BY <1>1, <1>2, <1>7, FinalKept DEF PatientInv
<1>9. AwaitedAlone'
  BY <1>1, <1>5, <1>6 DEF PatientInv, AwaitedAlone
<1>10. LoadsOwnKeys'
  BY <1>2, <1>4 DEF PatientInv, LoadsOwnKeys
<1>11. SavesApart'
  BY <1>1, <1>2, <1>6, <1>7 DEF PatientInv, SavesApart
<1>12. ResultsTrue'
  <2> SUFFICES ASSUME NEW i \in DOMAIN main
               PROVE  /\ Awaits("identity", main'[i]) =>
                           IF main'[i].success THEN firstId # Nil /\ main'[i].dict[idKey] = firstId
                                               ELSE firstId = Nil
                      /\ Awaits("theme", main'[i]) => main'[i].dict[themeKey] = Final[themeKey]
                      /\ ~Awaits("profile", main'[i])
    BY <1>1, <1>3, <1>8 DEF ResultsTrue
  <2>1. /\ Awaits("identity", main[i]) =>
             IF main[i].success THEN firstId # Nil /\ main[i].dict[idKey] = firstId
                                ELSE firstId = Nil
        /\ Awaits("theme", main[i]) => main[i].dict[themeKey] = Final[themeKey]
    BY DEF PatientInv, ResultsTrue
  <2>2. QED
    BY <1>3, <1>4, <2>1
<1>13. IdentityKnown' /\ ThemeKnown' /\ ProfileKnown'
  BY <1>1, <1>6, <1>8 DEF PatientInv, IdentityKnown, ThemeKnown, ProfileKnown
<1>14. AskedKnown'
  BY <1>1 DEF AskedKnown, Empty
<1>15. QED
  BY <1>8, <1>9, <1>10, <1>11, <1>12, <1>13, <1>14 DEF PatientInv, SafeInv

-----------------------------------------------------------------------------
(* The results, taken one by one from the main queue.                       *)

LEMMA ResultTaken ==
  ASSUME PatientInv, main # <<>>, main' = Tail(main), NEW c
  PROVE  /\ Awaits(c, Head(main)) => 1 \in AwaitedResults(c)
         /\ \A i : i \in AwaitedResults(c)' => i + 1 \in AwaitedResults(c) /\ i \in Nat /\ i # 0
         /\ AwaitedResults(c) # {} /\ ~Awaits(c, Head(main)) => AwaitedResults(c)' # {}
         /\ \A i \in DOMAIN main' : i + 1 \in DOMAIN main /\ main'[i] = main[i + 1]
<1>1. main \in Seq(Result)
  BY DEF PatientInv, StorageInv, StorageTypeOK
<1>2. /\ Len(main) \in Nat /\ Len(main) # 0 /\ DOMAIN main = 1..Len(main)
      /\ DOMAIN main' = 1..(Len(main) - 1)
      /\ \A i \in 1..(Len(main) - 1) : main'[i] = main[i + 1]
      /\ Head(main) = main[1]
  BY <1>1
<1>3. \A i \in DOMAIN main' : i + 1 \in DOMAIN main /\ main'[i] = main[i + 1]
  BY <1>2
<1>4. Awaits(c, Head(main)) => 1 \in AwaitedResults(c)
  BY <1>2 DEF AwaitedResults
<1>5. \A i : i \in AwaitedResults(c)' => i + 1 \in AwaitedResults(c) /\ i \in Nat /\ i # 0
  BY <1>2 DEF AwaitedResults
<1>6. ASSUME AwaitedResults(c) # {}, ~Awaits(c, Head(main))
      PROVE  AwaitedResults(c)' # {}
  <2>1. PICK i \in DOMAIN main : Awaits(c, main[i])
    BY <1>6 DEF AwaitedResults
  <2>2. i \in Int /\ i - 1 \in 1..(Len(main) - 1) /\ (i - 1) + 1 = i
    BY <1>2, <1>6, <2>1
  <2>3. main'[i - 1] = main[i]
    BY <1>2, <2>2
  <2>4. i - 1 \in AwaitedResults(c)'
    BY <1>2, <2>1, <2>2, <2>3 DEF AwaitedResults
  <2>5. QED
    BY <2>4
<1>7. QED
  BY <1>3, <1>4, <1>5, <1>6

(* What was awaited is awaited no more, and everything else still is.       *)
LEMMA ResultAwaited ==
  ASSUME PatientInv, main # <<>>, main' = Tail(main), NEW c \in {"identity", "theme", "profile"}
  PROVE  /\ Awaits(c, Head(main)) => /\ AwaitedJobs(c) = {} /\ AwaitedResults(c)' = {}
                                     /\ Waiting(c)
         /\ ~Awaits(c, Head(main)) => (AwaitedResults(c)' = {} <=> AwaitedResults(c) = {})
         /\ \A i, j \in AwaitedResults(c)' : i = j
<1>1. \A i, j \in AwaitedResults(c) : i = j
  BY DEF PatientInv, AwaitedAlone
<1>2. AwaitedJobs(c) = {} \/ AwaitedResults(c) = {}
  BY DEF PatientInv, AwaitedAlone
<1>3. \A i : i \in AwaitedResults(c)' => i + 1 \in AwaitedResults(c) /\ i \in Nat /\ i # 0
  BY ResultTaken
<1>4. \A i, j \in AwaitedResults(c)' : i = j
  BY <1>1, <1>3
<1>5. ASSUME Awaits(c, Head(main))
      PROVE  AwaitedJobs(c) = {} /\ AwaitedResults(c)' = {} /\ Waiting(c)
  <2>1. 1 \in AwaitedResults(c)
    BY <1>5, ResultTaken
  <2>2. AwaitedResults(c)' = {}
    BY <1>1, <1>3, <2>1
  <2>3. QED
    BY <1>2, <2>1, <2>2 DEF Waiting
<1>6. ASSUME ~Awaits(c, Head(main))
      PROVE  AwaitedResults(c)' = {} <=> AwaitedResults(c) = {}
  BY <1>3, <1>6, ResultTaken
<1>7. QED
  BY <1>4, <1>5, <1>6

LEMMA ResultGone ==
  ASSUME PatientInv, process = "running", main # <<>>, main' = Tail(main),
         UNCHANGED <<process, file, job, screen, firstId>>
  PROVE  /\ Final' = Final
         /\ AwaitedAlone' /\ LoadsOwnKeys' /\ SavesApart' /\ ResultsTrue'
         /\ \A c \in {"identity", "theme", "profile"} :
              Waiting(c)' <=> Waiting(c) /\ ~Awaits(c, Head(main))
         /\ SaveAwaited' => SaveAwaited
<1>1. Final' = Final
  BY DEF Final, Saving
<1>2. \A c : AwaitedJobs(c)' = AwaitedJobs(c)
  BY DEF AwaitedJobs
<1>3. \A c \in {"identity", "theme", "profile"} :
        Waiting(c)' <=> Waiting(c) /\ ~Awaits(c, Head(main))
  <2> TAKE c \in {"identity", "theme", "profile"}
  <2>1. CASE Awaits(c, Head(main))
    BY <1>2, <2>1, ResultAwaited DEF Waiting
  <2>2. CASE ~Awaits(c, Head(main))
    BY <1>2, <2>2, ResultAwaited DEF Waiting
  <2>3. QED
    BY <2>1, <2>2
<1>4. AwaitedAlone'
  <2>1. ASSUME NEW c \in {"identity", "theme", "profile"}
        PROVE  /\ \A i, j \in AwaitedJobs(c)' : i = j
               /\ \A i, j \in AwaitedResults(c)' : i = j
               /\ AwaitedJobs(c)' = {} \/ AwaitedResults(c)' = {}
    <3>1. \A i, j \in AwaitedJobs(c)' : i = j
      BY <1>2 DEF PatientInv, AwaitedAlone
    <3>2. \A i, j \in AwaitedResults(c)' : i = j
      BY ResultAwaited
    <3>3. AwaitedJobs(c) = {} \/ AwaitedResults(c) = {}
      BY DEF PatientInv, AwaitedAlone
    <3>4. QED
      BY <1>2, <3>1, <3>2, <3>3, ResultAwaited
  <2>2. QED
    BY <1>3, <2>1 DEF PatientInv, AwaitedAlone
<1>5. LoadsOwnKeys'
  BY DEF PatientInv, LoadsOwnKeys, Saving
<1>6. SavesApart'
  BY <1>3 DEF PatientInv, SavesApart, Saving
<1>7. ResultsTrue'
  <2> SUFFICES ASSUME NEW i \in DOMAIN main'
               PROVE  /\ Awaits("identity", main'[i]) =>
                           IF main'[i].success THEN firstId # Nil /\ main'[i].dict[idKey] = firstId
                                               ELSE firstId = Nil
                      /\ Awaits("theme", main'[i]) => main'[i].dict[themeKey] = Final[themeKey]
                      /\ Awaits("profile", main'[i]) =>
                           /\ main'[i].success
                           /\ main'[i].op = "load" =>
                                OnProfileKeys(main'[i].dict) = OnProfileKeys(Final)
    BY <1>1 DEF ResultsTrue
  <2>1. i + 1 \in DOMAIN main /\ main'[i] = main[i + 1]
    BY ResultTaken
  <2>2. QED
    BY <2>1 DEF PatientInv, ResultsTrue
<1>8. SaveAwaited' => SaveAwaited
  <2>1. ASSUME NEW i \in AwaitedResults("profile")', main'[i].op = "save"
        PROVE  SaveAwaited
    <3>1. i + 1 \in AwaitedResults("profile") /\ main'[i] = main[i + 1]
      BY ResultTaken, <2>1 DEF AwaitedResults
    <3>2. QED
      BY <2>1, <3>1 DEF SaveAwaited
  <2>2. QED
    BY <1>2, <2>1 DEF SaveAwaited, Saving
<1>9. QED
  BY <1>1, <1>3, <1>4, <1>5, <1>6, <1>7, <1>8

LEMMA ResultSays ==
  ASSUME PatientInv, main # <<>>
  PROVE  LET result == Head(main)
         IN  /\ Awaits("identity", result) =>
                  IF result.success THEN firstId # Nil /\ result.dict[idKey] = firstId
                                    ELSE firstId = Nil
             /\ Awaits("theme", result) => result.dict[themeKey] = Final[themeKey]
             /\ Awaits("profile", result) =>
                  /\ result.success
                  /\ result.op = "load" => OnProfileKeys(result.dict) = OnProfileKeys(Final)
<1>1. 1 \in DOMAIN main /\ Head(main) = main[1]
  BY DEF PatientInv, StorageInv, StorageTypeOK
<1>2. QED
  BY <1>1 DEF PatientInv, ResultsTrue

(* The identity that is made where none is known, and the first save.       *)
LEMMA NewIdKeeps ==
  ASSUME PatientInv, SafeInv', process = "running", main # <<>>, main' = Tail(main),
         UNCHANGED <<process, file, theme, profileVars>>, Awaits("identity", Head(main)),
         ~Head(main).success, NEW d \in Data, createNewId(d)
  PROVE  /\ PatientInv'
         /\ Final = Empty /\ Final' = Merged(Final, Only(idKey, d))
<1>1. Waiting("identity") /\ AwaitedJobs("identity") = {} /\ AwaitedResults("identity")' = {}
  BY ResultAwaited
<1>2. firstId = Nil /\ Final = Empty
  BY ResultSays DEF PatientInv, IdentityKnown
<1>3. /\ userId' = d /\ firstId' = d /\ d # Nil /\ Save("identity", Only(idKey, d))
      /\ UNCHANGED <<screen, stored, updated, picks, asked, alert>>
  BY <1>2, NilAssumption DEF createNewId, profileVars, fieldVars, arrivalVars
<1>4. /\ \A j \in Jobs : ~Saving(j)
      /\ file.state = "whole"
      /\ screen = "list" /\ ~Waiting("profile")
  BY <1>1 DEF PatientInv, SavesApart, AwaitedAlone, StorageInv, StorageTypeOK, Files, Whole, Torn, Missing
<1>5. Only(idKey, d) \in Dictionaries /\ "identity" \in Clients
  BY KeysOfClients, OnlyType, ClientsAssumption
<1>6. Final' = Merged(Final, Only(idKey, d))
  BY <1>3, <1>4, <1>5, SaveStarts DEF PatientInv
<1>7. PICK j \in Jobs : /\ Free(j)
                        /\ job' = [job EXCEPT ![j] = SaveJob("identity", Only(idKey, d), TRUE)]
                        /\ job'[j].op = "save" /\ job'[j].client = "identity"
                        /\ job'[j].clean /\ job'[j].before = Final
  BY <1>3, <1>4, <1>5, SaveStarts DEF PatientInv
<1>8. \A i \in Jobs \ {j} : job'[i] = job[i]
  BY <1>7 DEF PatientInv, StorageInv, StorageTypeOK
<1>9. \A c : ~Awaits(c, job'[j]) /\ ~Awaits(c, job[j])
  <2>1. ~Awaits("profile", job'[j]) /\ \A c : c # "profile" => ~Awaits(c, job'[j])
    BY <1>7 DEF Awaits, Ignored
  <2>2. QED
    BY <1>7, <2>1 DEF Awaits, Free
<1>10. \A c : AwaitedJobs(c)' = AwaitedJobs(c)
  BY <1>8, <1>9 DEF AwaitedJobs
<1>11. ~Awaits("theme", Head(main)) /\ ~Awaits("profile", Head(main))
  BY DEF Awaits
<1>12. /\ ~Waiting("identity")' /\ ~Waiting("profile")'
       /\ Waiting("theme")' <=> Waiting("theme")
  BY <1>1, <1>4, <1>10, <1>11, ResultAwaited DEF Waiting
<1>13. AwaitedAlone'
  <2>1. ASSUME NEW c \in {"identity", "theme", "profile"}
        PROVE  /\ \A i, h \in AwaitedJobs(c)' : i = h
               /\ \A i, h \in AwaitedResults(c)' : i = h
               /\ AwaitedJobs(c)' = {} \/ AwaitedResults(c)' = {}
    <3>1. \A i, h \in AwaitedJobs(c)' : i = h
      BY <1>10 DEF PatientInv, AwaitedAlone
    <3>2. \A i, h \in AwaitedResults(c)' : i = h
      BY ResultAwaited
    <3>3. AwaitedJobs(c) = {} \/ AwaitedResults(c) = {}
      BY DEF PatientInv, AwaitedAlone
    <3>4. QED
      BY <1>10, <3>1, <3>2, <3>3, ResultAwaited
  <2>2. QED
    BY <1>12, <2>1 DEF AwaitedAlone
<1>14. LoadsOwnKeys'
  BY <1>8, <1>9 DEF PatientInv, LoadsOwnKeys, Saving
<1>15. /\ Final'[idKey] = d
       /\ \A k \in Keys \ {idKey} : Final'[k] = Final[k]
  BY <1>2, <1>3, <1>6, KeysOfClients DEF Merged, Only, Empty
<1>16. SavesApart'
  <2>1. \A i \in Jobs : Saving(i)' => i = j
    BY <1>4, <1>8 DEF Saving
  <2>2. file.dict[themeKey] = Nil
    BY <1>2, <1>4, FinalIdle, KeysOfClients DEF Empty
  <2>3. QED
    BY <1>2, <1>4, <1>7, <1>12, <2>1, <2>2 DEF SavesApart
<1>17. ResultsTrue'
  <2> SUFFICES ASSUME NEW i \in DOMAIN main'
               PROVE  /\ ~Awaits("identity", main'[i]) /\ ~Awaits("profile", main'[i])
                      /\ Awaits("theme", main'[i]) => main'[i].dict[themeKey] = Final'[themeKey]
    BY DEF ResultsTrue
  <2>1. i + 1 \in DOMAIN main /\ main'[i] = main[i + 1]
    BY ResultTaken
  <2>2. ~Awaits("identity", main'[i]) /\ ~Awaits("profile", main'[i])
    BY <1>12 DEF Waiting, AwaitedResults
  <2>3. themeKey \in Keys \ {idKey}
    BY KeysAssumption, KeysOfClients
  <2>4. QED
    BY <1>15, <2>1, <2>2, <2>3 DEF PatientInv, ResultsTrue
<1>18. IdentityKnown'
  BY <1>3, <1>15 DEF IdentityKnown
<1>19. ThemeKnown'
  <2>1. themeKey \in Keys \ {idKey}
    BY KeysAssumption, KeysOfClients
  <2>2. QED
    BY <1>12, <1>15, <2>1 DEF PatientInv, ThemeKnown
<1>20. ProfileKnown'
  BY <1>3, <1>4 DEF ProfileKnown
<1>21. AskedKnown'
  <2>1. \A k \in Keys : asked[k] = Nil
    BY <1>2 DEF PatientInv, AskedKnown, Empty
  <2>2. alert = "none"
    BY <1>4 DEF PatientInv, AskedKnown
  <2>3. QED
    BY <1>3, <2>1, <2>2 DEF AskedKnown
<1>22. QED
  BY <1>2, <1>6, <1>13, <1>14, <1>16, <1>17, <1>18, <1>19, <1>20, <1>21 DEF PatientInv, SafeInv

LEMMA CompletionKeeps == ASSUME PatientInv, SafeInv', Completion PROVE PatientInv'
<1> DEFINE result == Head(main)
<1>1. /\ process = "running" /\ main # <<>> /\ main' = Tail(main) /\ UNCHANGED <<process, file>>
      /\ \/ Ignored(result) /\ UNCHANGED <<clientVars, job>>
         \/ result.client = "identity" /\ result.op = "loadValue" /\ getUserId(result)
         \/ result.client = "theme" /\ result.op = "loadValue" /\ loadThemeFor(result)
         \/ result.client = "profile" /\ result.op = "load" /\ fetchProfileData(result)
         \/ result.client = "profile" /\ result.op = "save" /\ saveProfile(result)
  BY DEF Completion
<1>2. LET r == result
      IN  /\ Awaits("identity", r) =>
               IF r.success THEN firstId # Nil /\ r.dict[idKey] = firstId ELSE firstId = Nil
          /\ Awaits("theme", r) => r.dict[themeKey] = Final[themeKey]
          /\ Awaits("profile", r) =>
               /\ r.success
               /\ r.op = "load" => OnProfileKeys(r.dict) = OnProfileKeys(Final)
  BY <1>1, ResultSays
<1>3. \A c \in {"identity", "theme", "profile"} : Awaits(c, result) => Waiting(c)
  BY <1>1, ResultAwaited
<1> HIDE DEF result
<1>4. CASE Ignored(result) /\ UNCHANGED <<clientVars, job>>
  <2>1. UNCHANGED <<userId, theme, firstId, screen, stored, updated, picks, asked, alert>>
    BY <1>4 DEF clientVars, profileVars, fieldVars, arrivalVars
  <2>2. \A c : ~Awaits(c, result)
    BY <1>4 DEF Awaits
  <2>3. /\ Final' = Final
        /\ AwaitedAlone' /\ LoadsOwnKeys' /\ SavesApart' /\ ResultsTrue'
        /\ \A c \in {"identity", "theme", "profile"} : Waiting(c)' <=> Waiting(c)
        /\ SaveAwaited' => SaveAwaited
    BY <1>1, <1>4, <2>1, <2>2, ResultGone DEF result
  <2>4. IdentityKnown' /\ ThemeKnown'
    BY <1>1, <2>1, <2>3 DEF PatientInv, IdentityKnown, ThemeKnown
  <2>5. ProfileKnown'
    BY <1>1, <2>1, <2>3 DEF PatientInv, ProfileKnown
  <2>6. AskedKnown'
    BY <1>1, <1>4, <2>1, <2>3 DEF PatientInv, AskedKnown, Saving
  <2>7. QED
    BY <2>3, <2>4, <2>5, <2>6 DEF PatientInv, SafeInv
<1>5. CASE result.client = "identity" /\ result.op = "loadValue" /\ getUserId(result)
  <2>1. Awaits("identity", result)
    BY <1>5 DEF Awaits, Ignored
  <2>2. UNCHANGED <<theme, profileVars>>
    BY <1>5 DEF getUserId
  <2>3. CASE ~result.success
    <3>1. PICK d \in Data : createNewId(d)
      BY <1>5, <2>3 DEF getUserId
    <3>2. QED
      BY <1>1, <2>1, <2>2, <2>3, <3>1, NewIdKeeps DEF result
  <2>4. CASE result.success
    <3>1. userId' = firstId /\ firstId # Nil /\ UNCHANGED <<firstId, job>>
      BY <1>2, <1>5, <2>1, <2>4 DEF getUserId
    <3>2. UNCHANGED <<screen, stored, updated, picks, asked, alert>>
      BY <2>2 DEF profileVars, fieldVars, arrivalVars
    <3>3. screen = "list"
      BY <1>3, <2>1 DEF PatientInv, AwaitedAlone
    <3>4. ~Awaits("theme", result)
      BY <1>5 DEF Awaits
    <3>5. /\ Final' = Final
          /\ AwaitedAlone' /\ LoadsOwnKeys' /\ SavesApart' /\ ResultsTrue'
          /\ Waiting("theme")' <=> Waiting("theme")
      BY <1>1, <3>1, <3>2, <3>4, ResultGone DEF result
    <3>6. IdentityKnown' /\ ThemeKnown'
      BY <1>1, <2>2, <3>1, <3>5 DEF PatientInv, IdentityKnown, ThemeKnown
    <3>7. ProfileKnown' /\ AskedKnown'
      BY <1>1, <3>1, <3>2, <3>3, <3>5 DEF PatientInv, ProfileKnown, AskedKnown, Saving
    <3>8. QED
      BY <3>5, <3>6, <3>7 DEF PatientInv, SafeInv
  <2>5. QED
    BY <2>3, <2>4
<1>6. CASE result.client = "theme" /\ result.op = "loadValue" /\ loadThemeFor(result)
  <2>1. Awaits("theme", result) /\ ~Awaits("identity", result) /\ ~Awaits("profile", result)
    BY <1>6 DEF Awaits, Ignored
  <2>2. /\ theme' = Final[themeKey]
        /\ UNCHANGED <<userId, firstId, job, screen, stored, updated, picks, asked, alert>>
    BY <1>2, <1>6, <2>1 DEF loadThemeFor, profileVars, fieldVars, arrivalVars
  <2>3. /\ Final' = Final
        /\ AwaitedAlone' /\ LoadsOwnKeys' /\ SavesApart' /\ ResultsTrue'
        /\ Waiting("identity")' <=> Waiting("identity")
        /\ Waiting("profile")' <=> Waiting("profile")
        /\ SaveAwaited' => SaveAwaited
    BY <1>1, <2>1, <2>2, ResultGone DEF result
  <2>4. IdentityKnown' /\ ThemeKnown'
    BY <1>1, <2>2, <2>3 DEF PatientInv, IdentityKnown, ThemeKnown
  <2>5. ProfileKnown'
    BY <1>1, <2>2, <2>3 DEF PatientInv, ProfileKnown
  <2>6. AskedKnown'
    BY <1>1, <2>2, <2>3 DEF PatientInv, AskedKnown, Saving
  <2>7. QED
    BY <2>3, <2>4, <2>5, <2>6 DEF PatientInv, SafeInv
<1>7. CASE result.client = "profile" /\ result.op = "load" /\ fetchProfileData(result)
  <2>1. Awaits("profile", result) /\ ~Awaits("identity", result) /\ ~Awaits("theme", result)
    BY <1>7 DEF Awaits, Ignored
  <2>2. /\ stored' = OnProfileKeys(Final)
        /\ UNCHANGED <<userId, theme, firstId, job, screen, updated, picks, asked, alert>>
    BY <1>2, <1>7, <2>1 DEF fetchProfileData
  <2>3. /\ Final' = Final
        /\ AwaitedAlone' /\ LoadsOwnKeys' /\ SavesApart' /\ ResultsTrue'
        /\ Waiting("identity")' <=> Waiting("identity")
        /\ Waiting("theme")' <=> Waiting("theme")
        /\ ~Waiting("profile")'
    BY <1>1, <2>1, <2>2, ResultGone DEF result
  <2>4. ~SaveAwaited'
    BY <2>3 DEF SaveAwaited, Waiting
  <2>5. IdentityKnown' /\ ThemeKnown'
    BY <1>1, <2>2, <2>3 DEF PatientInv, IdentityKnown, ThemeKnown
  <2>6. ProfileKnown'
    BY <2>2, <2>3, <2>4 DEF ProfileKnown
  <2>7. AskedKnown'
    BY <1>1, <2>2, <2>3 DEF PatientInv, AskedKnown, Saving
  <2>8. QED
    BY <2>3, <2>5, <2>6, <2>7 DEF PatientInv, SafeInv
<1>8. CASE result.client = "profile" /\ result.op = "save" /\ saveProfile(result)
  <2>1. Awaits("profile", result) /\ ~Awaits("identity", result) /\ ~Awaits("theme", result)
    BY <1>8 DEF Awaits, Ignored
  <2>2. Waiting("profile") /\ AwaitedJobs("profile") = {} /\ 1 \in AwaitedResults("profile")
    BY <1>1, <2>1, ResultAwaited, ResultTaken DEF result
  <2>3. SaveAwaited
    <3>1. main[1] = result
      BY <1>1 DEF result, PatientInv, StorageInv, StorageTypeOK
    <3>2. QED
      BY <1>8, <2>2, <3>1 DEF SaveAwaited
  <2>4. OnProfileKeys(Final) = Merged(stored, updated)
    BY <1>1, <2>2, <2>3 DEF PatientInv, AwaitedAlone, ProfileKnown
  <2>5. /\ stored' = OnProfileKeys(Final) /\ presentAlert("Data saved")
        /\ UNCHANGED <<userId, theme, firstId, job, screen, asked>>
    BY <1>2, <1>8, <2>1, <2>4 DEF saveProfile
  <2>6. /\ Final' = Final
        /\ AwaitedAlone' /\ LoadsOwnKeys' /\ SavesApart' /\ ResultsTrue'
        /\ Waiting("identity")' <=> Waiting("identity")
        /\ Waiting("theme")' <=> Waiting("theme")
        /\ ~Waiting("profile")'
    BY <1>1, <2>1, <2>5, ResultGone DEF result
  <2>7. ~SaveAwaited'
    BY <2>6 DEF SaveAwaited, Waiting
  <2>8. IdentityKnown' /\ ThemeKnown' /\ ProfileKnown'
    BY <1>1, <2>5, <2>6, <2>7 DEF PatientInv, IdentityKnown, ThemeKnown, ProfileKnown
  <2>9. \A j \in Jobs : ~Saving(j)
    <3> SUFFICES ASSUME NEW j \in Jobs, Saving(j)
                 PROVE  FALSE
      OBVIOUS
    <3>1. job[j].client = "profile"
      BY <2>2 DEF PatientInv, SavesApart
    <3>2. j \in AwaitedJobs("profile")
      BY <3>1, SavesAwaited DEF AwaitedJobs
    <3>3. QED
      BY <2>2, <3>2
  <2>10. file.state = "whole"
    BY <1>1, <2>9 DEF PatientInv, SavesApart, StorageInv, StorageTypeOK, Files, Whole, Torn, Missing
  <2>11. AskedKnown'
    BY <1>1, <2>5, <2>6, <2>9, <2>10 DEF PatientInv, AskedKnown, Saving, presentAlert
  <2>12. QED
    BY <2>6, <2>8, <2>11 DEF PatientInv, SafeInv
<1>9. QED
  BY <1>1, <1>4, <1>5, <1>6, <1>7, <1>8

-----------------------------------------------------------------------------
(* The steps of the requests.                                               *)

(* A save that goes on changes nobody's expectations.                       *)
LEMMA SaveGoesOn ==
  ASSUME PatientInv, SafeInv', NEW j \in Jobs, Saving(j), UNCHANGED <<process, main, clientVars>>,
         \A i \in Jobs :
           /\ job'[i].op = job[i].op /\ job'[i].client = job[i].client
           /\ job'[i].pairs = job[i].pairs /\ job'[i].before = job[i].before
           /\ job'[i].clean = job[i].clean
           /\ i # j => job'[i].keys = job[i].keys,
         file'.state # "missing",
         job[j].client = "identity" => file'.dict[themeKey] = Nil
  PROVE  PatientInv' /\ Final' = Final
<1>1. UNCHANGED <<userId, theme, firstId, screen, stored, updated, picks, asked, alert>>
  BY DEF clientVars, profileVars, fieldVars, arrivalVars
<1>2. \A i \in Jobs : Saving(i)' <=> Saving(i)
  BY DEF Saving
<1>3. \A c : \A i \in Jobs : Awaits(c, job'[i]) <=> Awaits(c, job[i])
  BY AwaitsBy
<1>4. \A c : /\ AwaitedJobs(c)' = AwaitedJobs(c) /\ AwaitedResults(c)' = AwaitedResults(c)
            /\ Waiting(c)' = Waiting(c)
  BY <1>3 DEF AwaitedJobs, AwaitedResults, Waiting
<1>5. Final' = Final
  BY <1>2, FinalKept DEF PatientInv
<1>6. ~Quiescent
  BY DEF Saving, Quiescent, Free
<1>7. AwaitedAlone'
  BY <1>1, <1>4, <1>6 DEF PatientInv, AwaitedAlone
<1>8. \A i \in Jobs : Saving(i) => i = j
  BY FinalSaving DEF PatientInv
<1>9. LoadsOwnKeys'
  <2> SUFFICES ASSUME NEW i \in Jobs
               PROVE  /\ Awaits("identity", job'[i]) => job'[i].op = "loadValue" /\ job'[i].keys = {idKey}
                      /\ Awaits("theme", job'[i]) => job'[i].op = "loadValue" /\ job'[i].keys = {themeKey}
                      /\ Awaits("profile", job'[i]) =>
                           Saving(i)' \/ (job'[i].op = "load" /\ job'[i].keys = Keys)
    BY DEF LoadsOwnKeys
  <2>1. CASE i = j
    BY <1>2, <1>3, <2>1, SavesAwaited
  <2>2. CASE i # j
    BY <1>2, <1>3, <2>2 DEF PatientInv, LoadsOwnKeys
  <2>3. QED
    BY <2>1, <2>2
<1>10. SavesApart'
  BY <1>2, <1>4, <1>8 DEF PatientInv, SavesApart
<1>11. ResultsTrue' /\ IdentityKnown' /\ ThemeKnown'
  BY <1>1, <1>4, <1>5 DEF PatientInv, ResultsTrue, IdentityKnown, ThemeKnown
<1>12. SaveAwaited' <=> SaveAwaited
  <2>1. \A i \in AwaitedJobs("profile") : Saving(i)' <=> Saving(i)
    BY <1>2 DEF AwaitedJobs
  <2>2. QED
    BY <1>4, <2>1 DEF SaveAwaited
<1>13. ProfileKnown'
  BY <1>1, <1>4, <1>5, <1>12 DEF PatientInv, ProfileKnown
<1>14. AskedKnown'
  BY <1>1, <1>5 DEF PatientInv, AskedKnown
<1>15. QED
  BY <1>5, <1>7, <1>9, <1>10, <1>11, <1>13, <1>14 DEF PatientInv, SafeInv

LEMMA SaveMovesOn ==
  ASSUME PatientInv, SafeInv', NEW j \in Jobs, JobStep(j),
         (\E k \in Keys : ReadForKey(j, k)) \/ WriteBegins(j) \/ WriteEnds(j)
  PROVE  PatientInv' /\ Final' = Final
<1>1. job \in [Jobs -> Job] /\ job[j] \in Job
  BY DEF PatientInv, StorageInv, StorageTypeOK
<1>2. UNCHANGED <<process, main, clientVars>>
  BY DEF JobStep, ReadForKey, WriteBegins, WriteEnds
<1>3. Saving(j)
  BY DEF ReadForKey, WriteBegins, WriteEnds, PatientInv, StorageInv, JobShape
<1>4. /\ job[j].clean /\ ~job[j].mixed
      /\ job[j].pc # "read" => job[j].dict = Merged(job[j].before, Done(j))
  BY <1>3 DEF PatientInv, SavesApart, StorageInv, CleanSaves
<1>5. CASE \E k \in Keys : ReadForKey(j, k)
  <2>1. PICK k \in Keys : ReadForKey(j, k)
    BY <1>5
  <2> DEFINE next == Moved(j, "write", job[j].keys \ {k}, [file.dict EXCEPT ![k] = job[j].pairs[k]])
  <2>2. /\ next.op = job[j].op /\ next.client = job[j].client /\ next.pairs = job[j].pairs
        /\ next.before = job[j].before /\ next.clean = job[j].clean
    BY <1>1 DEF Moved, Job
  <2>3. job' = [job EXCEPT ![j] = next] /\ file.state = "whole" /\ UNCHANGED file
    BY <2>1 DEF ReadForKey
  <2> HIDE DEF next
  <2>4. \A i \in Jobs :
          /\ job'[i].op = job[i].op /\ job'[i].client = job[i].client
          /\ job'[i].pairs = job[i].pairs /\ job'[i].before = job[i].before
          /\ job'[i].clean = job[i].clean
          /\ i # j => job'[i].keys = job[i].keys
    BY <1>1, <2>2, <2>3
  <2>5. job[j].client = "identity" => file'.dict[themeKey] = Nil
    BY <1>3, <2>3 DEF PatientInv, SavesApart
  <2>6. QED
    BY <1>2, <1>3, <2>3, <2>4, <2>5, SaveGoesOn
<1>6. CASE WriteBegins(j)
  <2>1. file' = Torn
    BY <1>6 DEF WriteBegins
  <2>2. \A i \in Jobs :
          /\ job'[i].op = job[i].op /\ job'[i].client = job[i].client
          /\ job'[i].pairs = job[i].pairs /\ job'[i].before = job[i].before
          /\ job'[i].clean = job[i].clean
          /\ i # j => job'[i].keys = job[i].keys
    <3> TAKE i \in Jobs
    <3>1. job[i] \in Job
      BY <1>1
    <3>2. job'[i] \in { [job[i] EXCEPT !.pc = "writing",
                                      !.mixed = {h \in Jobs : job[h].pc = "writing"} # {}],
                       [job[i] EXCEPT !.mixed = TRUE], job[i] }
      BY <1>6 DEF WriteBegins
    <3>3. QED
      BY <3>1, <3>2 DEF Job
  <2>3. file'.state # "missing" /\ file'.dict[themeKey] = Nil
    BY <2>1, KeysOfClients DEF Torn, Empty
  <2>4. QED
    BY <1>2, <1>3, <2>2, <2>3, SaveGoesOn
<1>7. CASE WriteEnds(j)
  <2> DEFINE next == [Moved(j, "read", job[j].keys, Empty) EXCEPT !.mixed = FALSE]
  <2>1. /\ next.op = job[j].op /\ next.client = job[j].client /\ next.pairs = job[j].pairs
        /\ next.before = job[j].before /\ next.clean = job[j].clean
    BY <1>1 DEF Moved, Job
  <2>2. job' = [job EXCEPT ![j] = next] /\ file' = Whole(job[j].dict) /\ job[j].pc = "writing"
    BY <1>4, <1>7 DEF WriteEnds
  <2> HIDE DEF next
  <2>3. \A i \in Jobs :
          /\ job'[i].op = job[i].op /\ job'[i].client = job[i].client
          /\ job'[i].pairs = job[i].pairs /\ job'[i].before = job[i].before
          /\ job'[i].clean = job[i].clean
          /\ i # j => job'[i].keys = job[i].keys
    BY <1>1, <2>1, <2>2
  <2>4. file'.state = "whole" /\ file'.dict = Merged(job[j].before, Done(j))
    BY <1>4, <2>2 DEF Whole
  <2>5. ASSUME job[j].client = "identity"
        PROVE  file'.dict[themeKey] = Nil
    <3>1. job[j].before = Empty
      BY <1>3, <2>5 DEF PatientInv, SavesApart
    <3>2. DictKeys(job[j].pairs) = {idKey}
      BY <1>3, <2>5 DEF PatientInv, ClientInv, OwnKeys, Owns
    <3>3. job[j].pairs[themeKey] = Nil
      BY <3>2, KeysAssumption, KeysOfClients DEF DictKeys
    <3>4. Done(j)[themeKey] = Nil
      BY <3>3, KeysOfClients DEF Done, Without
    <3>5. QED
      BY <2>4, <3>1, <3>4, KeysOfClients DEF Merged, Empty
  <2>6. QED
    BY <1>2, <1>3, <2>3, <2>4, <2>5, SaveGoesOn
<1>8. QED
  BY <1>5, <1>6, <1>7

(* A request that ends sends its result, which is awaited in its place.     *)
LEMMA JobEnds ==
  ASSUME PatientInv, SafeInv', NEW j \in Jobs, ~Free(j), job' = [job EXCEPT ![j] = NoJob],
         NEW r \in Result, main' = Append(main, r), r.op = job[j].op, r.client = job[j].client,
         UNCHANGED <<process, file, clientVars>>, Final' = Final,
         file.state = "torn" => ~Saving(j),
         Awaits("identity", r) =>
           IF r.success THEN firstId # Nil /\ r.dict[idKey] = firstId ELSE firstId = Nil,
         Awaits("theme", r) => r.dict[themeKey] = Final[themeKey],
         Awaits("profile", r) =>
           r.success /\ (r.op = "load" => OnProfileKeys(r.dict) = OnProfileKeys(Final))
  PROVE  PatientInv'
<1>1. UNCHANGED <<userId, theme, firstId, screen, stored, updated, picks, asked, alert>>
  BY DEF clientVars, profileVars, fieldVars, arrivalVars
<1>2. job \in [Jobs -> Job] /\ main \in Seq(Result)
  BY DEF PatientInv, StorageInv, StorageTypeOK
<1>3. job'[j] = NoJob /\ \A i \in Jobs \ {j} : job'[i] = job[i]
  BY <1>2
<1>4. /\ Len(main) \in Nat /\ DOMAIN main = 1..Len(main)
      /\ DOMAIN main' = 1..(Len(main) + 1)
      /\ \A i \in DOMAIN main : main'[i] = main[i]
      /\ main'[Len(main) + 1] = r
  BY <1>2
<1>5. Free(j)' /\ ~Saving(j)' /\ \A c : ~Awaits(c, job'[j])
  BY <1>3 DEF NoJob, Free, Saving, Awaits
<1>6. \A c : Awaits(c, r) <=> Awaits(c, job[j])
  BY AwaitsBy
<1>7. \A c : AwaitedJobs(c)' = AwaitedJobs(c) \ {j}
  BY <1>3, <1>5 DEF AwaitedJobs
<1>8. \A c : AwaitedResults(c)' =
             AwaitedResults(c) \cup (IF Awaits(c, job[j]) THEN {Len(main) + 1} ELSE {})
  BY <1>4, <1>6 DEF AwaitedResults
<1>9. \A c : Awaits(c, job[j]) <=> j \in AwaitedJobs(c)
  BY DEF AwaitedJobs
<1>10. \A c \in {"identity", "theme", "profile"} :
         /\ \A i, h \in AwaitedJobs(c)' : i = h
         /\ \A i, h \in AwaitedResults(c)' : i = h
         /\ AwaitedJobs(c)' = {} \/ AwaitedResults(c)' = {}
  <2> TAKE c \in {"identity", "theme", "profile"}
  <2>1. /\ \A i, h \in AwaitedJobs(c) : i = h
        /\ \A i, h \in AwaitedResults(c) : i = h
        /\ AwaitedJobs(c) = {} \/ AwaitedResults(c) = {}
    BY DEF PatientInv, AwaitedAlone
  <2>2. QED
    BY <1>7, <1>8, <1>9, <2>1
<1>11. \A c : Waiting(c)' <=> Waiting(c)
  BY <1>7, <1>8, <1>9 DEF Waiting
<1>12. process = "running" /\ process' = "running"
  BY DEF PatientInv, AwaitedAlone, Quiescent, StorageInv, StorageTypeOK
<1>13. AwaitedAlone'
  BY <1>1, <1>10, <1>11, <1>12 DEF PatientInv, AwaitedAlone
<1>14. LoadsOwnKeys'
  BY <1>3, <1>5 DEF PatientInv, LoadsOwnKeys, Saving
<1>15. \A i \in Jobs : Saving(i)' => i # j /\ Saving(i) /\ job'[i] = job[i]
  BY <1>3, <1>5 DEF Saving
<1>16. SavesApart'
  <2>1. file.state = "torn" => \E i \in Jobs : Saving(i)'
    BY <1>3 DEF PatientInv, SavesApart, Saving
  <2>2. QED
    BY <1>11, <1>15, <2>1 DEF PatientInv, SavesApart
<1>17. ResultsTrue'
  <2> SUFFICES ASSUME NEW i \in DOMAIN main'
               PROVE  /\ Awaits("identity", main'[i]) =>
                           IF main'[i].success THEN firstId # Nil /\ main'[i].dict[idKey] = firstId
                                               ELSE firstId = Nil
                      /\ Awaits("theme", main'[i]) => main'[i].dict[themeKey] = Final[themeKey]
                      /\ Awaits("profile", main'[i]) =>
                           /\ main'[i].success
                           /\ main'[i].op = "load" =>
                                OnProfileKeys(main'[i].dict) = OnProfileKeys(Final)
    BY <1>1 DEF ResultsTrue
  <2>1. CASE i \in DOMAIN main
    BY <1>4, <2>1 DEF PatientInv, ResultsTrue
  <2>2. CASE i = Len(main) + 1
    BY <1>4, <2>2
  <2>3. QED
    BY <1>4, <2>1, <2>2
<1>18. IdentityKnown' /\ ThemeKnown'
  BY <1>1, <1>11 DEF PatientInv, IdentityKnown, ThemeKnown
<1>19. SaveAwaited' => SaveAwaited
  <2>1. ASSUME NEW i \in AwaitedJobs("profile")', Saving(i)'
        PROVE  SaveAwaited
    <3>1. i \in AwaitedJobs("profile") /\ i \in Jobs
      BY <1>7, <2>1 DEF AwaitedJobs
    <3>2. QED
      BY <1>15, <2>1, <3>1 DEF SaveAwaited
  <2>2. ASSUME NEW i \in AwaitedResults("profile")', main'[i].op = "save"
        PROVE  SaveAwaited
    <3>1. CASE i = Len(main) + 1
      <4>1. i \notin AwaitedResults("profile")
        BY <1>4, <3>1 DEF AwaitedResults
      <4>2. j \in AwaitedJobs("profile") /\ Saving(j)
        BY <1>4, <1>8, <1>9, <2>2, <3>1, <4>1 DEF Saving
      <4>3. QED
        BY <4>2 DEF SaveAwaited
    <3>2. CASE i \in AwaitedResults("profile")
      <4>1. main'[i] = main[i]
        BY <1>4, <3>2 DEF AwaitedResults
      <4>2. QED
        BY <2>2, <3>2, <4>1 DEF SaveAwaited
    <3>3. QED
      BY <1>8, <2>2, <3>1, <3>2
  <2>3. QED
    BY <2>1, <2>2 DEF SaveAwaited
<1>20. ProfileKnown'
  BY <1>1, <1>11, <1>19 DEF PatientInv, ProfileKnown
<1>21. AskedKnown'
  BY <1>1, <1>15 DEF PatientInv, AskedKnown
<1>22. QED
  BY <1>13, <1>14, <1>16, <1>17, <1>18, <1>20, <1>21 DEF PatientInv, SafeInv

LEMMA ResultOf ==
  ASSUME PatientInv, NEW j \in Jobs, ~Free(j), NEW success \in BOOLEAN, NEW dict \in Dictionaries,
         Send(j, success, dict)
  PROVE  \E r \in Result : /\ main' = Append(main, r)
                           /\ r.op = job[j].op /\ r.client = job[j].client
                           /\ r.success = success /\ r.dict = dict
<1> DEFINE r == [op |-> job[j].op, client |-> job[j].client, success |-> success, dict |-> dict]
<1>1. job[j].op \in {"save", "load", "loadValue"} /\ job[j].client \in Clients
  BY DEF PatientInv, StorageInv, StorageTypeOK, JobShape, Free, Job
<1>2. r \in Result
  BY <1>1 DEF Result
<1>3. main' = Append(main, r)
  BY DEF Send
<1>4. QED
  BY <1>2, <1>3

LEMMA SaveDoneKeeps ==
  ASSUME PatientInv, SafeInv', NEW j \in Jobs, JobStep(j), SaveDone(j)
  PROVE  PatientInv' /\ Final' = Final
<1>1. /\ Saving(j) /\ ~Free(j) /\ job[j].pc = "read" /\ job[j].keys = {}
      /\ Send(j, TRUE, Empty) /\ job' = [job EXCEPT ![j] = NoJob]
      /\ UNCHANGED <<process, file, clientVars>>
  BY DEF JobStep, SaveDone, Saving, Free
<1>2. job[j].clean
  BY <1>1 DEF PatientInv, SavesApart
<1>3. file = Whole(Merged(job[j].before, job[j].pairs))
  BY <1>1, <1>2, InvSavedAlone DEF PatientInv, SavedAlone
<1>4. /\ Final = Merged(job[j].before, job[j].pairs)
      /\ \A i \in Jobs : Saving(i) => i = j
  BY <1>1, FinalSaving DEF PatientInv
<1>5. \A i \in Jobs : ~Saving(i)'
  BY <1>1, <1>4 DEF Saving, NoJob, PatientInv, StorageInv, StorageTypeOK
<1>6. Final' = Final
  BY <1>1, <1>3, <1>4, <1>5 DEF Final, Whole
<1>7. PICK r \in Result : /\ main' = Append(main, r)
                          /\ r.op = job[j].op /\ r.client = job[j].client /\ r.success = TRUE
  BY <1>1, EmptyType, ResultOf
<1>8. r.op = "save" /\ ~Awaits("identity", r) /\ ~Awaits("theme", r)
  BY <1>1, <1>7 DEF Saving, Awaits, Ignored
<1>9. file.state # "torn"
  BY <1>3 DEF Whole
<1>10. QED
  BY <1>1, <1>6, <1>7, <1>8, <1>9, JobEnds

(* What a load reads, whether or not there is something to read.            *)
LEMMA LoadReads ==
  ASSUME PatientInv, NEW j \in Jobs, job[j].op \in {"load", "loadValue"}
  PROVE  /\ Awaits("identity", job[j]) \/ Awaits("profile", job[j]) =>
              (\A i \in Jobs : ~Saving(i)) /\ file.state = "whole" /\ Final = file.dict
         /\ Awaits("theme", job[j]) =>
              IF \A i \in Jobs : ~Saving(i)
              THEN file.state = "whole" /\ Final = file.dict
              ELSE file.dict[themeKey] = Nil /\ Final[themeKey] = Nil
<1>1. ASSUME \A i \in Jobs : ~Saving(i)
      PROVE  file.state = "whole" /\ Final = file.dict
  <2>1. ~Quiescent
    BY DEF Quiescent, Free
  <2>2. process = "running"
    BY <2>1 DEF PatientInv, AwaitedAlone, StorageInv, StorageTypeOK
  <2>3. QED
    BY <1>1, <2>2, FinalIdle
       DEF PatientInv, SavesApart, StorageInv, StorageTypeOK, Files, Whole, Torn, Missing
<1>2. ASSUME Awaits("identity", job[j])
      PROVE  \A i \in Jobs : ~Saving(i)
  <2>1. Waiting("identity")
    BY <1>2 DEF Waiting, AwaitedJobs
  <2>2. QED
    BY <2>1 DEF PatientInv, SavesApart
<1>3. ASSUME Awaits("profile", job[j])
      PROVE  \A i \in Jobs : ~Saving(i)
  <2> SUFFICES ASSUME NEW i \in Jobs, Saving(i)
               PROVE  FALSE
    OBVIOUS
  <2>1. j \in AwaitedJobs("profile") /\ Waiting("profile")
    BY <1>3 DEF Waiting, AwaitedJobs
  <2>2. job[i].client = "profile"
    BY <2>1 DEF PatientInv, SavesApart
  <2>3. i \in AwaitedJobs("profile")
    BY <2>2, SavesAwaited DEF AwaitedJobs
  <2>4. i = j
    BY <2>1, <2>3 DEF PatientInv, AwaitedAlone
  <2>5. QED
    BY <2>4 DEF Saving
<1>4. ASSUME Awaits("theme", job[j]), NEW i \in Jobs, Saving(i)
      PROVE  file.dict[themeKey] = Nil /\ Final[themeKey] = Nil
  <2>1. Waiting("theme")
    BY <1>4 DEF Waiting, AwaitedJobs
  <2>2. job[i].client = "identity" /\ job[i].before = Empty /\ file.dict[themeKey] = Nil
    BY <1>4, <2>1 DEF PatientInv, SavesApart
  <2>3. Final = Merged(Empty, job[i].pairs)
    BY <1>4, <2>2, FinalSaving DEF PatientInv
  <2>4. DictKeys(job[i].pairs) = {idKey}
    BY <1>4, <2>2 DEF PatientInv, ClientInv, OwnKeys, Owns
  <2>5. job[i].pairs[themeKey] = Nil
    BY <2>4, KeysAssumption, KeysOfClients DEF DictKeys
  <2>6. QED
    BY <2>2, <2>3, <2>5, KeysOfClients DEF Merged, Empty
<1>5. QED
  BY <1>1, <1>2, <1>3, <1>4

LEMMA LoadKeeps ==
  ASSUME PatientInv, SafeInv', NEW j \in Jobs, JobStep(j), ~StorageError(j),
         LoadSucceeds(j) \/ LoadFails(j)
  PROVE  PatientInv' /\ Final' = Final
<1>1. /\ job[j].op \in {"load", "loadValue"} /\ ~Free(j) /\ ~Saving(j)
      /\ job' = [job EXCEPT ![j] = NoJob]
      /\ UNCHANGED <<process, file, clientVars>>
  BY DEF JobStep, LoadSucceeds, LoadFails, Free, Saving
<1>2. Loaded(job[j].keys) \in Dictionaries
  BY FileType DEF Loaded, Dictionaries, PatientInv, StorageInv, StorageTypeOK
<1>3. PICK success \in BOOLEAN :
        /\ success <=> Readable(j)
        /\ Send(j, success, IF success THEN Loaded(job[j].keys) ELSE Empty)
  <2>1. CASE LoadSucceeds(j)
    BY <2>1 DEF LoadSucceeds
  <2>2. CASE LoadFails(j)
    BY <2>2 DEF LoadFails, StorageError
  <2>3. QED
    BY <2>1, <2>2
<1> DEFINE dict == IF success THEN Loaded(job[j].keys) ELSE Empty
<1>4. dict \in Dictionaries
  BY <1>2, EmptyType
<1>5. PICK r \in Result : /\ main' = Append(main, r)
                          /\ r.op = job[j].op /\ r.client = job[j].client
                          /\ r.success = success /\ r.dict = dict
  BY <1>1, <1>3, <1>4, ResultOf
<1>6. \A c : Awaits(c, r) <=> Awaits(c, job[j])
  BY <1>5, AwaitsBy
<1>7. \A i \in Jobs : /\ Saving(i)' <=> Saving(i)
                      /\ Saving(i) => job'[i] = job[i]
  BY <1>1 DEF Saving, NoJob, PatientInv, StorageInv, StorageTypeOK
<1>8. Final' = Final
  BY <1>1, <1>7, FinalKept DEF PatientInv
<1>9. ASSUME Awaits("identity", r)
      PROVE  IF r.success THEN firstId # Nil /\ r.dict[idKey] = firstId ELSE firstId = Nil
  <2>1. /\ file.state = "whole" /\ Final = file.dict /\ Final[idKey] = firstId
        /\ job[j].op = "loadValue" /\ job[j].keys = {idKey}
    BY <1>1, <1>6, <1>9, LoadReads DEF PatientInv, LoadsOwnKeys, IdentityKnown
  <2>2. Loaded(job[j].keys)[idKey] = firstId
    BY <2>1, KeysOfClients DEF Loaded
  <2>3. Readable(j) <=> Loaded(job[j].keys) # Empty
    BY <2>1 DEF Readable
  <2>4. Loaded(job[j].keys) = Empty <=> firstId = Nil
    BY <2>1, <2>2, KeysOfClients DEF Loaded, Empty
  <2>5. QED
    BY <1>3, <1>5, <2>2, <2>3, <2>4
<1>10. ASSUME Awaits("theme", r)
       PROVE  r.dict[themeKey] = Final[themeKey]
  <2>1. job[j].op = "loadValue" /\ job[j].keys = {themeKey}
    BY <1>6, <1>10 DEF PatientInv, LoadsOwnKeys
  <2>2. Loaded(job[j].keys)[themeKey] = file.dict[themeKey] /\ Empty[themeKey] = Nil
    BY <2>1, KeysOfClients DEF Loaded, Empty
  <2>3. CASE \A i \in Jobs : ~Saving(i)
    <3>1. file.state = "whole" /\ Final = file.dict
      BY <1>1, <1>6, <1>10, <2>3, LoadReads
    <3>2. ~Readable(j) => Loaded(job[j].keys) = Empty
      BY <3>1 DEF Readable
    <3>3. QED
      BY <1>3, <1>5, <2>2, <3>1, <3>2
  <2>4. CASE ~\A i \in Jobs : ~Saving(i)
    <3>1. file.dict[themeKey] = Nil /\ Final[themeKey] = Nil
      BY <1>1, <1>6, <1>10, <2>4, LoadReads
    <3>2. QED
      BY <1>5, <2>2, <3>1
  <2>5. QED
    BY <2>3, <2>4
<1>11. ASSUME Awaits("profile", r)
       PROVE  r.success /\ (r.op = "load" => OnProfileKeys(r.dict) = OnProfileKeys(Final))
  <2>1. /\ file.state = "whole" /\ Final = file.dict
        /\ job[j].op = "load" /\ job[j].keys = Keys
    BY <1>1, <1>6, <1>11, LoadReads DEF PatientInv, LoadsOwnKeys
  <2>2. Readable(j)
    BY <2>1 DEF Readable
  <2>3. OnProfileKeys(Loaded(job[j].keys)) = OnProfileKeys(Final)
    BY <2>1 DEF OnProfileKeys, Loaded
  <2>4. QED
    BY <1>3, <1>5, <2>2, <2>3
<1>12. QED
  BY <1>1, <1>5, <1>8, <1>9, <1>10, <1>11, JobEnds

LEMMA JobStepKeeps ==
  ASSUME PatientInv, SafeInv', NEW j \in Jobs, JobStep(j), ~StorageError(j)
  PROVE  PatientInv' /\ Final' = Final
<1>1. ASSUME NEW k \in Keys, NoFileForKey(j, k)
      PROVE  FALSE
  <2>1. Saving(j) /\ job[j].clean /\ job[j].pc = "read" /\ file.state # "whole"
    BY <1>1 DEF NoFileForKey, PatientInv, SavesApart
  <2>2. QED
    BY <2>1 DEF PatientInv, StorageInv, CleanSaves, Whole
<1>2. QED
  BY <1>1, SaveMovesOn, SaveDoneKeeps, LoadKeeps DEF JobStep, StorageStep, StorageError

-----------------------------------------------------------------------------
(* The theorems.                                                            *)

LEMMA PatientInit == ClientInit => PatientInv
<1> SUFFICES ASSUME ClientInit
             PROVE  PatientInv
  OBVIOUS
<1>1. SafeInv
  BY SafeInit
<1>2. /\ process = "killed" /\ file = Missing /\ \A j \in Jobs : job[j] = NoJob
      /\ main = <<>> /\ userId = Nil /\ firstId = Nil /\ asked = Empty /\ alert = "none"
  BY DEF ClientInit, AtList
<1>3. Quiescent /\ \A j \in Jobs : ~Saving(j)
  BY <1>2 DEF Quiescent, Free, Saving, NoJob
<1>4. \A c : AwaitedJobs(c) = {} /\ AwaitedResults(c) = {} /\ ~Waiting(c)
  BY <1>3, IdleAwaitsNothing
<1>5. AwaitedAlone /\ LoadsOwnKeys
  BY <1>3, <1>4 DEF AwaitedAlone, LoadsOwnKeys, AwaitedJobs
<1>6. SavesApart
  BY <1>2, <1>3 DEF SavesApart, Missing
<1>7. Final = Empty
  BY <1>2, <1>3, FinalIdle DEF Missing
<1>8. ResultsTrue
  BY <1>2 DEF ResultsTrue
<1>9. IdentityKnown /\ ThemeKnown /\ ProfileKnown /\ AskedKnown
  BY <1>2, <1>7, KeysOfClients DEF IdentityKnown, ThemeKnown, ProfileKnown, AskedKnown, Empty
<1>10. QED
  BY <1>1, <1>5, <1>6, <1>8, <1>9 DEF PatientInv, SafeInv

LEMMA PatientIsClient == PatientNext => ClientNext
BY DEF PatientNext, ClientNext

LEMMA PatientStep == PatientInv /\ [PatientNext]_allVars => PatientInv'
<1> SUFFICES ASSUME PatientInv, [PatientNext]_allVars
             PROVE  PatientInv'
  OBVIOUS
<1>1. SafeInv'
  BY SafeNext, PatientIsClient DEF PatientInv, SafeInv
<1>2. CASE Launch /\ file' # Missing
  BY <1>1, <1>2, LaunchKeeps
<1>3. CASE Kill /\ \A j \in Jobs : ~Saving(j)
  BY <1>1, <1>3, KillKeeps
<1>4. CASE Requesting /\ Idle
  BY <1>1, <1>4, RequestKeeps
<1>5. CASE Editing /\ Idle
  BY <1>1, <1>5, PatientQuietKeeps DEF Editing, PatientQuiet, QuietStep
<1>6. CASE didCancelButtonTapped /\ Quiescent
  BY <1>1, <1>6, PatientQuietKeeps DEF PatientQuiet, QuietStep
<1>7. CASE OtherTap
  BY <1>1, <1>7, PatientQuietKeeps, CloseKeeps DEF OtherTap, PatientQuiet, QuietStep
<1>8. CASE Arrival
  BY <1>1, <1>8, PatientQuietKeeps DEF Arrival, PatientQuiet, QuietStep
<1>9. CASE Completion
  BY <1>1, <1>9, CompletionKeeps
<1>10. CASE \E j \in Jobs : JobStep(j) /\ ~StorageError(j)
  BY <1>1, <1>10, JobStepKeeps
<1>11. CASE UNCHANGED allVars
  <2>1. Quiet /\ UNCHANGED <<screen, stored, updated, picks, asked, alert>>
    BY <1>11 DEF allVars, clientVars, profileVars, fieldVars, arrivalVars, Quiet
  <2>2. SaveAwaited => picks' = {}
    <3>1. SaveAwaited => Waiting("profile")
      BY DEF SaveAwaited, Waiting
    <3>2. Waiting("profile") => process = "running" /\ screen # "list"
      BY IdleAwaitsNothing DEF PatientInv, AwaitedAlone, StorageInv, StorageTypeOK
    <3>3. QED
      BY <2>1, <3>1, <3>2 DEF PatientInv, ProfileKnown
  <2>3. QED
    BY <1>1, <2>1, <2>2, QuietKeeps
<1>12. QED
  BY <1>2, <1>3, <1>4, <1>5, <1>6, <1>7, <1>8, <1>9, <1>10, <1>11 DEF PatientNext

(* For a user who waits, a save overlaps nothing that it could spoil, and   *)
(* what each screen has been told is what the file holds.                  *)
THEOREM PatientInvariant == PatientSpec => []PatientInv
BY PatientInit, PatientStep, PTL DEF PatientSpec

(* The identity of an install outlives restarts.                            *)
THEOREM IdentityIsKept == PatientSpec => []IdentityKept
<1>1. PatientInv => IdentityKept
  BY DEF PatientInv, IdentityKnown, IdentityKept
<1>2. QED
  BY <1>1, PatientInvariant, PTL

(* The theme on screen is the one that the next launch loads.               *)
THEOREM ThemeIsRemembered == PatientSpec => []ThemeRemembered
<1>1. PatientInv => ThemeRemembered
  BY IdleFacts DEF ThemeRemembered
<1>2. QED
  BY <1>1, PatientInvariant, PTL

(* "Data saved" means that what was asked for is in the file.               *)
THEOREM SavedIsInFile == PatientSpec => []DataSavedMeansSaved
<1>1. PatientInv => DataSavedMeansSaved
  BY FinalIdle DEF PatientInv, AskedKnown, DataSavedMeansSaved
<1>2. QED
  BY <1>1, PatientInvariant, PTL

(* Cancel goes back to what is stored.                                      *)
THEOREM CancelIsRestored == PatientSpec => []CancelRestoresFile
<1>1. PatientInv => CancelRestoresFile
  BY IdleFacts DEF CancelRestoresFile
<1>2. QED
  BY <1>1, PatientInvariant, PTL

-----------------------------------------------------------------------------
(* The file implements Settings: Final stands for the dictionary, whatever  *)
(* the file holds while a save is under way.                               *)

LEMMA EmptyIsNothing == Empty = Kept!Nothing
BY DEF Empty, Kept!Nothing

LEMMA OnePair ==
  ASSUME NEW d \in Dictionaries, NEW k \in Keys, NEW v \in Data
  PROVE  Merged(d, Only(k, v)) = [d EXCEPT ![k] = v]
<1>1. \A h \in Keys : Only(k, v)[h] = IF h = k THEN v ELSE Nil
  BY DEF Only, Empty
<1>2. \A h \in Keys : Merged(d, Only(k, v))[h] = [d EXCEPT ![k] = v][h]
  BY <1>1, NilAssumption DEF Merged, Dictionaries
<1>3. QED
  BY <1>2 DEF Merged, Dictionaries

LEMMA KnownIdentity ==
  ASSUME PatientInv, Quiescent, process = "running"
  PROVE  Final \in Dictionaries /\ Final[idKey] # Nil
BY IdleFacts DEF PatientInv, IdentityKnown

LEMMA SettingsInit == ClientInit => Kept!Init
<1> SUFFICES ASSUME ClientInit PROVE Kept!Init
  OBVIOUS
<1>1. /\ file = Missing /\ \A j \in Jobs : job[j] = NoJob
      /\ userId = Nil /\ theme = Nil /\ stored = Empty
  BY DEF ClientInit, AtList
<1>2. Final = Empty
  BY <1>1, FinalIdle DEF Saving, NoJob, Missing
<1>3. QED
  BY <1>1, <1>2, EmptyIsNothing DEF Kept!Init

(* A launch knows nothing of what is kept.                                  *)
LEMMA LaunchTells ==
  ASSUME PatientInv, SafeInv', Launch, file' # Missing
  PROVE  Kept!Next
<1>1. Final' = Final /\ userId' = Nil /\ theme' = Nil /\ stored' = Empty
  BY LaunchKeeps DEF Launch, NewProfile
<1>2. Kept!Relaunch
  BY <1>1, EmptyIsNothing DEF Kept!Relaunch
<1>3. QED
  BY <1>2 DEF Kept!Next

(* A request changes what it saves, and nothing else, before it is through. *)
LEMMA RequestChanges ==
  ASSUME PatientInv, SafeInv', Requesting, Idle
  PROVE  Kept!Next \/ UNCHANGED <<Final, userId, theme, stored>>
<1>1. Quiescent /\ ~tapTryAgain
  BY DEF Idle, PatientInv, AskedKnown, tapTryAgain, AlertTap
<1>2. ASSUME NEW v \in Data, changeTheme(v) PROVE Kept!Next
  <2>1. /\ process = "running" /\ theme' = v
        /\ UNCHANGED <<userId, stored>>
    BY <1>2 DEF changeTheme, MayRequest, profileVars, fieldVars
  <2>2. Final' = Merged(Final, Only(themeKey, v))
    BY <1>1, <1>2, ChangeThemeKeeps
  <2>3. Final' = [Final EXCEPT ![themeKey] = v] /\ Final[idKey] # Nil
    BY <1>1, <2>1, <2>2, OnePair, KnownIdentity, KeysOfClients
  <2>4. Kept!ChooseTheme(v)
    BY <2>1, <2>3 DEF Kept!ChooseTheme
  <2>5. QED
    BY <2>4 DEF Kept!Next
<1>3. CASE didSaveButtonTapped
  <2> DEFINE pairs == [k \in DictKeys(updated) |-> updated[k]]
  <2>1. process = "running" /\ UNCHANGED <<userId, theme, stored>>
    BY <1>3 DEF didSaveButtonTapped, Tap, OthersUnchanged, fieldVars
  <2>2. Final' = IF updated = Empty THEN Final ELSE Merged(Final, updated)
    BY <1>3, ProfileSaveKeeps
  <2>3. /\ updated \in Dictionaries /\ DictKeys(updated) \in SUBSET profileKeys
        /\ pairs \in [DictKeys(updated) -> Data]
    BY DEF PatientInv, ClientInv, ClientTypeOK, DictKeys, Dictionaries
  <2>4. Merged(Final, updated) = [k \in Keys |-> IF k \in DOMAIN pairs THEN pairs[k] ELSE Final[k]]
    BY DEF Merged, DictKeys
  <2>5. Final[idKey] # Nil
    BY <1>1, <2>1, KnownIdentity
  <2>6. updated # Empty => Kept!SaveProfile(pairs)
    <3> HIDE DEF pairs
    <3> QED BY <2>1, <2>2, <2>4, <2>5 DEF Kept!SaveProfile
  <2>7. updated # Empty => Kept!Next
    <3> HIDE DEF pairs
    <3> QED BY <2>3, <2>6 DEF Kept!Next
  <2>8. QED
    BY <2>1, <2>2, <2>7
<1>4. CASE presentUserProfileScreen
  <2>1. Final' = Final /\ stored' = Empty /\ UNCHANGED <<userId, theme>>
    BY <1>1, <1>4, PresentKeeps DEF presentUserProfileScreen, NewProfile
  <2>2. Kept!LeaveProfile
    BY <2>1, EmptyIsNothing DEF Kept!LeaveProfile
  <2>3. QED
    BY <2>2 DEF Kept!Next
<1>5. QED
  BY <1>1, <1>2, <1>3, <1>4 DEF Requesting

LEMMA CloseLeaves == ASSUME PatientInv, SafeInv', close PROVE Kept!Next
<1>1. Final' = Final /\ stored' = Empty /\ UNCHANGED <<userId, theme>>
  BY CloseKeeps DEF close, NewProfile
<1>2. Kept!LeaveProfile
  BY <1>1, EmptyIsNothing DEF Kept!LeaveProfile
<1>3. QED
  BY <1>2 DEF Kept!Next

(* What a result says is what is kept, or will be when the save under way   *)
(* is through; an identity is made where there is none.                    *)
LEMMA CompletionTells ==
  ASSUME PatientInv, SafeInv', Completion
  PROVE  Kept!Next \/ UNCHANGED <<Final, userId, theme, stored>>
<1> DEFINE result == Head(main)
<1>1. /\ process = "running" /\ main # <<>> /\ main' = Tail(main) /\ UNCHANGED <<process, file>>
      /\ \/ Ignored(result) /\ UNCHANGED <<clientVars, job>>
         \/ result.client = "identity" /\ result.op = "loadValue" /\ getUserId(result)
         \/ result.client = "theme" /\ result.op = "loadValue" /\ loadThemeFor(result)
         \/ result.client = "profile" /\ result.op = "load" /\ fetchProfileData(result)
         \/ result.client = "profile" /\ result.op = "save" /\ saveProfile(result)
  BY DEF Completion
<1>2. /\ Awaits("identity", result) =>
           IF result.success THEN firstId # Nil /\ result.dict[idKey] = firstId ELSE firstId = Nil
      /\ Awaits("theme", result) => result.dict[themeKey] = Final[themeKey]
      /\ Awaits("profile", result) =>
           /\ result.success
           /\ result.op = "load" => OnProfileKeys(result.dict) = OnProfileKeys(Final)
  BY <1>1, ResultSays
<1>3. UNCHANGED job => Final' = Final
  BY <1>1 DEF Final, Saving
<1>4. OnProfileKeys(Final) = [k \in Keys |-> IF k \in profileKeys THEN Final[k] ELSE Nil]
  BY DEF OnProfileKeys
<1>5. CASE Ignored(result) /\ UNCHANGED <<clientVars, job>>
  BY <1>3, <1>5 DEF clientVars, profileVars, fieldVars
<1>6. CASE result.client = "identity" /\ result.op = "loadValue" /\ getUserId(result)
  <2>1. Awaits("identity", result) /\ UNCHANGED <<theme, stored, profileVars>>
    BY <1>6 DEF Awaits, Ignored, getUserId, profileVars, fieldVars
  <2>2. CASE result.success
    <3>1. userId' = Final[idKey] /\ Final[idKey] # Nil /\ Final' = Final
      BY <1>2, <1>3, <1>6, <2>1, <2>2 DEF getUserId, PatientInv, IdentityKnown
    <3>2. Kept!TellIdentity
      BY <2>1, <3>1 DEF Kept!TellIdentity
    <3>3. QED
      BY <3>2 DEF Kept!Next
  <2>3. CASE ~result.success
    <3>1. PICK d \in Data : createNewId(d)
      BY <1>6, <2>3 DEF getUserId
    <3>2. Final = Empty /\ Final' = Merged(Final, Only(idKey, d))
      BY <1>1, <2>1, <2>3, <3>1, NewIdKeeps
    <3>3. Final' = [Final EXCEPT ![idKey] = d] /\ userId' = d
      BY <3>1, <3>2, OnePair, EmptyType, KeysOfClients DEF createNewId
    <3>4. Kept!MakeIdentity(d)
      BY <2>1, <3>2, <3>3, EmptyIsNothing DEF Kept!MakeIdentity
    <3>5. QED
      BY <3>4 DEF Kept!Next
  <2>4. QED
    BY <2>2, <2>3
<1>7. CASE result.client = "theme" /\ result.op = "loadValue" /\ loadThemeFor(result)
  <2>1. theme' = Final[themeKey] /\ Final' = Final /\ UNCHANGED <<userId, stored>>
    BY <1>2, <1>3, <1>7 DEF Awaits, Ignored, loadThemeFor, profileVars, fieldVars
  <2>2. Kept!TellTheme
    BY <2>1 DEF Kept!TellTheme
  <2>3. QED
    BY <2>2 DEF Kept!Next
<1>8. CASE result.client = "profile" /\ result.op = "load" /\ fetchProfileData(result)
  <2>1. stored' = OnProfileKeys(Final) /\ Final' = Final /\ UNCHANGED <<userId, theme>>
    BY <1>2, <1>3, <1>8 DEF Awaits, Ignored, fetchProfileData
  <2>2. Kept!TellProfile
    BY <1>4, <2>1 DEF Kept!TellProfile
  <2>3. QED
    BY <2>2 DEF Kept!Next
<1>9. CASE result.client = "profile" /\ result.op = "save" /\ saveProfile(result)
  <2>1. Awaits("profile", result)
    BY <1>9 DEF Awaits, Ignored
  <2>2. Waiting("profile") /\ 1 \in AwaitedResults("profile")
    BY <1>1, <2>1, ResultAwaited, ResultTaken
  <2>3. main[1].op = "save"
    BY <1>1, <1>9 DEF PatientInv, StorageInv, StorageTypeOK
  <2>4. SaveAwaited
    BY <2>2, <2>3 DEF SaveAwaited
  <2>5. OnProfileKeys(Final) = Merged(stored, updated)
    BY <1>1, <2>2, <2>4 DEF PatientInv, AwaitedAlone, ProfileKnown
  <2>6. stored' = OnProfileKeys(Final) /\ Final' = Final /\ UNCHANGED <<userId, theme>>
    BY <1>2, <1>3, <1>9, <2>1, <2>5 DEF saveProfile
  <2>7. Kept!TellProfile
    BY <1>4, <2>6 DEF Kept!TellProfile
  <2>8. QED
    BY <2>7 DEF Kept!Next
<1>10. QED
  BY <1>1, <1>5, <1>6, <1>7, <1>8, <1>9

LEMMA SettingsStep == PatientInv /\ [PatientNext]_allVars => [Kept!Next]_(Kept!view)
<1> SUFFICES ASSUME PatientInv, [PatientNext]_allVars
             PROVE  Kept!Next \/ UNCHANGED <<Final, userId, theme, stored>>
  BY DEF Kept!view
<1>1. SafeInv'
  BY SafeNext, PatientIsClient DEF PatientInv, SafeInv
<1>2. CASE Launch /\ file' # Missing
  BY <1>1, <1>2, LaunchTells
<1>3. CASE Kill /\ \A j \in Jobs : ~Saving(j)
  BY <1>1, <1>3, KillKeeps DEF Kill, clientVars, profileVars, fieldVars
<1>4. CASE Requesting /\ Idle
  BY <1>1, <1>4, RequestChanges
<1>5. CASE Editing /\ Idle
  BY <1>1, <1>5, PatientQuietKeeps DEF Editing, PatientQuiet, QuietStep
<1>6. CASE didCancelButtonTapped /\ Quiescent
  BY <1>1, <1>6, PatientQuietKeeps DEF PatientQuiet, QuietStep
<1>7. CASE OtherTap
  BY <1>1, <1>7, PatientQuietKeeps, CloseLeaves DEF OtherTap, PatientQuiet, QuietStep
<1>8. CASE Arrival
  BY <1>1, <1>8, PatientQuietKeeps DEF Arrival, PatientQuiet, QuietStep
<1>9. CASE Completion
  BY <1>1, <1>9, CompletionTells
<1>10. ASSUME NEW j \in Jobs, JobStep(j), ~StorageError(j)
       PROVE  UNCHANGED <<Final, userId, theme, stored>>
  BY <1>1, <1>10, JobStepKeeps DEF JobStep, clientVars, profileVars, fieldVars
<1>11. CASE UNCHANGED allVars
  BY <1>11 DEF allVars, storageVars, clientVars, profileVars, fieldVars, Final, Saving
<1>12. QED
  BY <1>2, <1>3, <1>4, <1>5, <1>6, <1>7, <1>8, <1>9, <1>10, <1>11 DEF PatientNext

(* For a user who waits, what is saved key by key, in a file that is torn   *)
(* in between and read by whoever runs, is one dictionary that each tap     *)
(* changes at once, that restarts keep, and of which every client is told. *)
THEOREM SettingsAreKept == PatientSpec => ImplementsSettings
BY SettingsInit, SettingsStep, PatientInvariant, PTL DEF PatientSpec, ImplementsSettings, Kept!Spec
================================================================================
