------------------------------ MODULE LocalProfile -----------------------------
(***************************************************************************)
(* Who uses the storage: the user's identity (ConversationsListPresenter), *)
(* the theme (StorageService.loadThemeFor, ConversationsListPresenter and  *)
(* the theme screen) and the profile screen (ProfilePresenter and          *)
(* UserProfileViewController).  Taps and results run on the main queue,    *)
(* one at a time, so each is one action.                                   *)
(*                                                                         *)
(* UIKit is not under src/.  What is used of it: a button that is hidden   *)
(* or disabled is not tapped; an alert, or a picker (the sheet of sources, *)
(* the gallery, the camera, the pictures screen), takes all taps; and an   *)
(* alert that is presented while one of them is up is dropped.             *)
(***************************************************************************)
EXTENDS PlistStorage

CONSTANTS idKey, themeKey,
          textKeys,  \* name, location and info
          imageKey

profileKeys == textKeys \cup {imageKey}

ASSUME KeysAssumption == /\ Keys = {idKey, themeKey} \cup profileKeys
                         /\ idKey # themeKey
                         /\ {idKey, themeKey} \cap profileKeys = {}
                         /\ imageKey \notin textKeys
ASSUME ClientsAssumption == Clients = {"identity", "theme", "profile", "none"}

VARIABLES
  userId,      \* ConversationsListPresenter.userId
  theme,       \* theme on screen; Nil for the light one of a new install
  screen,      \* "list", "profile", or "picker" when one covers the profile screen
  stored,      \* ProfilePresenter.stored, the keys it shows
  updated,     \* ProfilePresenter.updated
  shown,       \* what the text fields and the picture show
  values,      \* getValues: what is on its way to updateScreen, in any order
  picks,       \* pictures of the pictures screen that are still loaded for this screen
  ended,       \* placeholder of a text field: its text when editing ended last
  mode,        \* "view", "image" when a picture was picked, "text" when isProfileEditing
  canSave,     \* saveButton.isEnabled
  canCancel,   \* cancelButton.isEnabled
  alert,       \* "none", "Data saved" or "Failed to save data."
  firstId,     \* not in the code: the first identity of this install ...
  asked,       \* ... the pairs for which this profile screen's Save was tapped ...
  cancelled    \* ... and the keys whose edit was taken off the screen, not changed since

fieldVars   == <<stored, updated, shown, ended>>
buttonVars  == <<mode, canSave, canCancel>>
arrivalVars == <<values, picks>>
profileVars == <<screen, fieldVars, buttonVars, arrivalVars, alert, asked, cancelled>>
clientVars  == <<userId, theme, firstId, profileVars>>
allVars     == <<storageVars, clientVars>>

ClientTypeOK ==
  /\ userId \in Data \cup {Nil} /\ firstId \in Data \cup {Nil}
  /\ theme \in Data \cup {Nil}
  /\ screen \in {"list", "profile", "picker"}
  /\ stored \in Dictionaries /\ updated \in Dictionaries /\ shown \in Dictionaries
  /\ ended \in Dictionaries /\ asked \in Dictionaries
  /\ \A k \in Keys \ profileKeys : updated[k] = Nil
  /\ mode \in {"view", "image", "text"}
  /\ canSave \in BOOLEAN /\ canCancel \in BOOLEAN /\ cancelled \subseteq Keys
  /\ values \in Seq(Dictionaries) /\ picks \subseteq Data
  /\ alert \in {"none", "Data saved", "Failed to save data."}

(***************************************************************************)
(* The profile screen as its nib has it.                                   *)
(***************************************************************************)
NewProfile == /\ stored' = Empty /\ updated' = Empty /\ shown' = Empty /\ ended' = Empty
              /\ mode' = "view" /\ canSave' = FALSE /\ canCancel' = TRUE
              /\ values' = <<>> /\ picks' = {}
              /\ alert' = "none" /\ asked' = Empty /\ cancelled' = {}

(* Nothing under way, the list on screen, and identity `id`.                *)
AtList(p, f, id) ==
  /\ process = p /\ file = f /\ job = [j \in Jobs |-> NoJob] /\ main = <<>>
  /\ userId = id /\ firstId = id /\ theme = Nil /\ screen = "list"
  /\ stored = Empty /\ updated = Empty /\ shown = Empty /\ ended = Empty
  /\ mode = "view" /\ canSave = FALSE /\ canCancel = TRUE
  /\ values = <<>> /\ picks = {}
  /\ alert = "none" /\ asked = Empty /\ cancelled = {}

ClientInit == AtList("killed", Missing, Nil)

(***************************************************************************)
(* Launch: the theme is loaded, and by the list its identity.  (The list   *)
(* also loads the dictionary to show a name, which changes nothing here.)  *)
(***************************************************************************)
Launch ==
  /\ process = "killed" /\ process' = "running"
  /\ createFileLocallyIfNeeded
  /\ \E i, j \in Jobs :
       /\ i # j
       /\ job' = [job EXCEPT ![i] = LoadValueJob("theme", themeKey),
                             ![j] = LoadValueJob("identity", idKey)]
  /\ userId' = Nil /\ theme' = Nil /\ screen' = "list"
  /\ NewProfile
  /\ UNCHANGED <<main, firstId>>

Kill == KillProcess /\ UNCHANGED clientVars

(***************************************************************************)
(* Identity and theme.                                                     *)
(***************************************************************************)
Only(k, v) == [Empty EXCEPT ![k] = v]

createNewId(d) == /\ userId' = d
                  /\ firstId' = IF firstId = Nil THEN d ELSE firstId
                  /\ Save("identity", Only(idKey, d))

(* Mutant: a new identity is not saved.                                     *)
getUserId_NotSaved(result) ==
  /\ IF result.success
     THEN userId' = result.dict[idKey] /\ UNCHANGED <<firstId, job>>
     ELSE \E d \in Data : /\ userId' = d
                          /\ firstId' = IF firstId = Nil THEN d ELSE firstId
                          /\ UNCHANGED job
  /\ UNCHANGED <<theme, profileVars>>

getUserId(result) ==
  /\ IF result.success
     THEN userId' = result.dict[idKey] /\ UNCHANGED <<firstId, job>>
     ELSE \E d \in Data : createNewId(d)
  /\ UNCHANGED <<theme, profileVars>>

loadThemeFor(result) ==
  /\ theme' = result.dict[themeKey]
  /\ UNCHANGED <<userId, firstId, profileVars, job>>

(* Mutants: the theme is saved for the key of the identity, or not at all.  *)
changeTheme_IdKey(v) ==
  /\ MayRequest /\ screen = "list"
  /\ theme' = v
  /\ Save("theme", Only(idKey, v))
  /\ UNCHANGED <<process, file, main, userId, firstId, profileVars>>

changeTheme_NotSaved(v) ==
  /\ MayRequest /\ screen = "list"
  /\ theme' = v
  /\ UNCHANGED <<storageVars, userId, firstId, profileVars>>

changeTheme(v) ==
  /\ MayRequest /\ screen = "list"
  /\ theme' = v
  /\ Save("theme", Only(themeKey, v))
  /\ UNCHANGED <<process, file, main, userId, firstId, profileVars>>

(***************************************************************************)
(* The profile screen.                                                     *)
(***************************************************************************)
OnProfileKeys(d) == [k \in Keys |-> IF k \in profileKeys THEN d[k] ELSE Nil]

presentUserProfileScreen ==
  /\ MayRequest /\ screen = "list"
  /\ screen' = "profile"
  /\ NewProfile
  /\ Load("profile")
  /\ UNCHANGED <<process, file, main, userId, theme, firstId>>

(* Results for a screen that is gone reach nobody.                          *)
close ==
  /\ process = "running" /\ screen = "profile" /\ alert = "none"
  /\ screen' = "list"
  /\ NewProfile
  /\ job' = [j \in Jobs |-> IF job[j].client = "profile"
                            THEN [job[j] EXCEPT !.client = "none"] ELSE job[j]]
  /\ main' = [i \in DOMAIN main |-> IF main[i].client = "profile"
                                    THEN [main[i] EXCEPT !.client = "none"] ELSE main[i]]
  /\ UNCHANGED <<process, file, userId, theme, firstId>>

Tap == process = "running" /\ screen = "profile" /\ alert = "none"
OthersUnchanged == UNCHANGED <<process, file, main, userId, theme, firstId>>

didEditButtonTapped ==
  /\ Tap /\ mode = "view"
  /\ mode' = "text" /\ canCancel' = TRUE
  /\ OthersUnchanged
  /\ UNCHANGED <<job, screen, fieldVars, arrivalVars, canSave, alert, asked, cancelled>>

(* Mutant: the first text is kept when a field is edited again.             *)
textFieldDidEndEditing_FirstKept(k, v) ==
  /\ Tap /\ mode = "text"
  /\ shown' = [shown EXCEPT ![k] = v]
  /\ updated' = IF ended[k] = v \/ updated[k] # Nil THEN updated ELSE [updated EXCEPT ![k] = v]
  /\ ended' = [ended EXCEPT ![k] = v]
  /\ canSave' \in {TRUE, canSave \/ shown[k] # v}
  /\ cancelled' = IF shown[k] = v THEN cancelled ELSE cancelled \ {k}
  /\ OthersUnchanged
  /\ UNCHANGED <<job, screen, stored, arrivalVars, mode, canCancel, alert, asked>>

(* A field is edited and left.  A text that is the placeholder already was  *)
(* noted before, when the field was left with it.  Any typing enables Save, *)
(* also when it is undone.                                                  *)
textFieldDidEndEditing(k, v) ==
  /\ Tap /\ mode = "text"
  /\ shown' = [shown EXCEPT ![k] = v]
  /\ updated' = IF ended[k] = v THEN updated ELSE [updated EXCEPT ![k] = v]
  /\ ended' = [ended EXCEPT ![k] = v]
  /\ canSave' \in {TRUE, canSave \/ shown[k] # v}
  /\ cancelled' = IF shown[k] = v THEN cancelled ELSE cancelled \ {k}
  /\ OthersUnchanged
  /\ UNCHANGED <<job, screen, stored, arrivalVars, mode, canCancel, alert, asked>>

(* Mutant: the buttons are shown as they are.                               *)
addProfileImage_ButtonsAsTheyAre(v) ==
  /\ shown' = [shown EXCEPT ![imageKey] = v]
  /\ mode' = IF mode = "view" THEN "image" ELSE mode
  /\ cancelled' = cancelled \ {imageKey}
  /\ UNCHANGED <<canSave, canCancel>>

addProfileImage(v) ==
  /\ shown' = [shown EXCEPT ![imageKey] = v]
  /\ mode' = IF mode = "view" THEN "image" ELSE mode
  /\ canSave' = TRUE /\ canCancel' = TRUE
  /\ cancelled' = cancelled \ {imageKey}

didProfileImageViewTapped ==
  /\ Tap
  /\ screen' = "picker"
  /\ OthersUnchanged
  /\ UNCHANGED <<job, fieldVars, buttonVars, arrivalVars, alert, asked, cancelled>>

PickerEnds == process = "running" /\ screen = "picker" /\ screen' = "profile"

dismissPicker ==
  /\ PickerEnds
  /\ OthersUnchanged
  /\ UNCHANGED <<job, fieldVars, buttonVars, arrivalVars, alert, asked, cancelled>>

(* A picture of the gallery or the camera is there at once, and not noted   *)
(* if it has no JPEG data ...                                              *)
imagePickerController(v, isJPEG) ==
  /\ PickerEnds
  /\ addProfileImage(v)
  /\ updated' = IF isJPEG THEN [updated EXCEPT ![imageKey] = v] ELSE updated
  /\ OthersUnchanged
  /\ UNCHANGED <<job, stored, ended, arrivalVars, alert, asked>>

(* ... and one of the pictures screen after it was loaded, if it ever is,   *)
(* whatever the profile screen does by then.                               *)
didPickPicture(v) ==
  /\ PickerEnds
  /\ v \notin picks /\ picks' = picks \cup {v}
  /\ OthersUnchanged
  /\ UNCHANGED <<job, fieldVars, buttonVars, values, alert, asked, cancelled>>

updateProfileImage(v, isImage) ==
  /\ updated' = [updated EXCEPT ![imageKey] = v]
  /\ IF isImage THEN addProfileImage(v) ELSE UNCHANGED <<shown, buttonVars, cancelled>>

PictureLoaded(v, isImage) ==
  /\ process = "running" /\ v \in picks /\ picks' = picks \ {v}
  /\ updateProfileImage(v, isImage)
  /\ OthersUnchanged
  /\ UNCHANGED <<job, screen, stored, ended, values, alert, asked>>

PictureFails(v) ==
  /\ process = "running" /\ v \in picks /\ picks' = picks \ {v}
  /\ OthersUnchanged
  /\ UNCHANGED <<job, screen, fieldVars, buttonVars, values, alert, asked, cancelled>>

didSaveButtonTapped ==
  /\ Tap /\ MayRequest /\ mode # "view" /\ canSave
  /\ canSave' = FALSE /\ canCancel' = FALSE
  /\ asked' = Merged(asked, updated)
  /\ IF updated = Empty THEN UNCHANGED job ELSE Save("profile", updated)
  /\ OthersUnchanged
  /\ UNCHANGED <<screen, fieldVars, arrivalVars, mode, alert, cancelled>>

(* From a global queue and then the main queue, which keeps no order.       *)
getValues(d) == values' = Append(values, d)

updateScreen(i) ==
  /\ process = "running"
  /\ shown' = values[i]
  /\ values' = SubSeq(values, 1, i - 1) \o SubSeq(values, i + 1, Len(values))
  /\ cancelled' = DictKeys(updated)
  /\ OthersUnchanged
  /\ UNCHANGED <<job, screen, stored, updated, ended, buttonVars, picks, alert, asked>>

didCancelButtonTapped ==
  /\ Tap /\ mode # "view" /\ canCancel
  /\ Len(values) <= Backlog
  /\ getValues(stored)
  /\ mode' = "view"
  /\ OthersUnchanged
  /\ UNCHANGED <<job, screen, fieldVars, picks, canSave, canCancel, alert, asked, cancelled>>

fetchProfileData(result) ==
  /\ IF result.success
     THEN LET d == OnProfileKeys(result.dict) IN stored' = d /\ getValues(d)
     ELSE UNCHANGED <<stored, values>>
  /\ UNCHANGED <<job, userId, theme, firstId, screen, updated, shown, ended, buttonVars, picks,
                 alert, asked, cancelled>>

presentAlert(title) ==
  alert' = IF alert = "none" /\ screen = "profile" THEN title ELSE alert

(* Mutants: what was saved is not noted in `stored`; a save of nothing new  *)
(* ends without an alert.                                                  *)
saveProfile_NotNoted(result) ==
  /\ presentAlert(IF result.success THEN "Data saved" ELSE "Failed to save data.")
  /\ updated' = IF result.success THEN Empty ELSE updated
  /\ UNCHANGED <<job, userId, theme, firstId, screen, stored, shown, ended, buttonVars,
                 arrivalVars, asked, cancelled>>

saveProfile_NewsOnly(result) ==
  /\ IF result.success
     THEN /\ IF updated # Empty THEN presentAlert("Data saved") ELSE UNCHANGED alert
          /\ stored' = Merged(stored, updated)
          /\ updated' = Empty
     ELSE /\ presentAlert("Failed to save data.")
          /\ UNCHANGED <<stored, updated>>
  /\ UNCHANGED <<job, userId, theme, firstId, screen, shown, ended, buttonVars, arrivalVars,
                 asked, cancelled>>

saveProfile(result) ==
  /\ IF result.success
     THEN /\ presentAlert("Data saved")
          /\ stored' = Merged(stored, updated)
          /\ updated' = Empty
     ELSE /\ presentAlert("Failed to save data.")
          /\ UNCHANGED <<stored, updated>>
  /\ UNCHANGED <<job, userId, theme, firstId, screen, shown, ended, buttonVars, arrivalVars,
                 asked, cancelled>>

AlertTap == process = "running" /\ alert # "none"

tapOk ==
  /\ AlertTap
  /\ alert' = "none" /\ mode' = "view"
  /\ OthersUnchanged
  /\ UNCHANGED <<job, screen, fieldVars, arrivalVars, canSave, canCancel, asked, cancelled>>

tapTryAgain ==
  /\ AlertTap /\ alert = "Failed to save data." /\ MayRequest
  /\ alert' = "none"
  /\ Save("profile", updated)
  /\ OthersUnchanged
  /\ UNCHANGED <<screen, fieldVars, buttonVars, arrivalVars, asked, cancelled>>

(***************************************************************************)
(* The main queue.                                                         *)
(***************************************************************************)
Ignored(result) == \/ result.client = "none"
                   \/ result.client \in {"identity", "theme"} /\ result.op = "save"

Completion ==
  /\ process = "running" /\ main # <<>>
  /\ main' = Tail(main)
  /\ LET result == Head(main)
     IN  \/ Ignored(result) /\ UNCHANGED <<clientVars, job>>
         \/ result.client = "identity" /\ result.op = "loadValue" /\ getUserId(result)
         \/ result.client = "theme" /\ result.op = "loadValue" /\ loadThemeFor(result)
         \/ result.client = "profile" /\ result.op = "load" /\ fetchProfileData(result)
         \/ result.client = "profile" /\ result.op = "save" /\ saveProfile(result)
  /\ UNCHANGED <<process, file>>

Requesting == \/ \E v \in Data : changeTheme(v)
              \/ presentUserProfileScreen
              \/ didSaveButtonTapped
              \/ tapTryAgain

Editing == \E v \in Data : \/ \E k \in textKeys : textFieldDidEndEditing(k, v)
                           \/ imagePickerController(v, TRUE)
                           \/ didPickPicture(v)

OtherTap == \/ close \/ didEditButtonTapped \/ tapOk
            \/ didProfileImageViewTapped \/ dismissPicker

Arrival == \/ \E i \in DOMAIN values : updateScreen(i)
           \/ \E v \in Data : PictureLoaded(v, TRUE) \/ PictureFails(v)

NoImage == \E v \in Data : PictureLoaded(v, FALSE) \/ imagePickerController(v, FALSE)

JobStep(j) == StorageStep(j) /\ UNCHANGED clientVars

ClientNext == \/ Launch
              \/ Kill
              \/ Requesting
              \/ Editing
              \/ OtherTap
              \/ didCancelButtonTapped
              \/ Arrival
              \/ NoImage
              \/ Completion
              \/ \E j \in Jobs : JobStep(j)

ClientSpec == ClientInit /\ [][ClientNext]_allVars

(* The user requests nothing and edits nothing until the storage is idle    *)
(* and everything has come that is on its way to the screen, and cancels   *)
(* nothing before the storage is idle: the values of an earlier load could *)
(* come before those of the Cancel, or after.  The system does not kill    *)
(* the app during a save, no request meets an I/O error, and pictures are  *)
(* images with JPEG data.                                                  *)
Idle == Quiescent /\ values = <<>> /\ picks = {}

PatientNext == \/ Launch /\ file' # Missing
               \/ Kill /\ \A j \in Jobs : ~Saving(j)
               \/ (Requesting \/ Editing) /\ Idle
               \/ didCancelButtonTapped /\ Quiescent
               \/ OtherTap
               \/ Arrival
               \/ Completion
               \/ \E j \in Jobs : JobStep(j) /\ ~StorageError(j)

PatientSpec == ClientInit /\ [][PatientNext]_allVars

(* One launch, whose profile screens find the file whole, missing, or torn  *)
(* by an earlier end of the process, and meet any errors.  The global and  *)
(* the main queue are served.  What the user taps, and whether a picture   *)
(* ever comes, is left open.                                               *)
ScreenInit == \E d \in Data : \E f \in {Torn, Missing, Whole(Only(idKey, d))} :
                AtList("running", f, d)

ScreenNext == \/ presentUserProfileScreen
              \/ didSaveButtonTapped \/ tapTryAgain \/ didCancelButtonTapped
              \/ Editing
              \/ OtherTap
              \/ Arrival
              \/ NoImage
              \/ Completion
              \/ \E j \in Jobs : JobStep(j)

FairScreenSpec == /\ ScreenInit /\ [][ScreenNext]_allVars
                  /\ \A j \in Jobs : WF_allVars(JobStep(j))
                  /\ WF_allVars(Completion)

(***************************************************************************)
(* Properties.                                                             *)
(***************************************************************************)
(* Each client saves its own keys, so that only the file they share can mix *)
(* them up.                                                                *)
Owns(client, pairs) ==
  CASE client = "identity" -> DictKeys(pairs) = {idKey}
    [] client = "theme"    -> DictKeys(pairs) = {themeKey}
    [] OTHER               -> DictKeys(pairs) \subseteq profileKeys

OwnKeys == \A j \in Jobs : Saving(j) => Owns(job[j].client, job[j].pairs)

ClientInv == ClientTypeOK /\ OwnKeys

(* What the alert of presentSuccessLoadAlert says: everything for which     *)
(* Save was tapped on this screen is in the file.                          *)
DataSavedMeansSaved ==
  alert = "Data saved" =>
    \A k \in Keys : asked[k] # Nil => file.state = "whole" /\ file.dict[k] = asked[k]

(* An install keeps the identity it made first: messages sent before the    *)
(* app was killed are still the user's own.                                *)
IdentityKept == userId \in {Nil, firstId}

(* The theme on screen is the one the next launch will load.                *)
ThemeRemembered ==
  process = "running" /\ Quiescent => file.dict[themeKey] = theme

(* What Cancel goes back to is what is stored.                              *)
CancelRestoresFile ==
  process = "running" /\ screen # "list" /\ Quiescent => stored = OnProfileKeys(file.dict)

(* The screen shows what is stored with the edits that Save would store,    *)
(* however the loads, the pictures and the texts came in - but for an edit *)
(* that Cancel has taken off the screen: `updated` keeps it, and the next  *)
(* Save stores it unseen.                                                  *)
ScreenShowsEdits ==
  process = "running" /\ Idle =>
    \A k \in Keys \ cancelled : shown[k] = Merged(stored, updated)[k]

(* Save disables both buttons before it finds that there is nothing to      *)
(* save, and an alert that is dropped enables nothing either.  The user who *)
(* can only close the screen then loses nothing by it.                     *)
Stuck == /\ process = "running" /\ screen = "profile" /\ Idle
         /\ mode # "view" /\ ~canSave /\ ~canCancel /\ alert = "none"

StuckLosesNothing == Stuck => \A k \in Keys \ cancelled : updated[k] \in {Nil, stored[k]}

(* A save of the profile screen is answered by an alert, unless the screen  *)
(* is closed or covered: after a failure, and also for a second try that   *)
(* has nothing left to save.                                               *)
SaveUnderWay == \E j \in Jobs : Saving(j) /\ job[j].client = "profile"

SaveAnswered ==
  SaveUnderWay ~> (alert # "none" \/ screen # "profile")

(* The screen is owed an answer as long as a save of it, or the result of   *)
(* one, is on its way.                                                     *)
AnswerDue == \/ SaveUnderWay
             \/ \E i \in DOMAIN main : main[i].op = "save" /\ main[i].client = "profile"

(* No step but the alert, the end of the screen or that of the process      *)
(* takes away an answer that is due: not the failure of a key, not a tap,  *)
(* nor the result of another save, however they overlap.                   *)
AnswersKept ==
  [][AnswerDue => \/ AnswerDue' \/ alert' # "none"
                  \/ screen' # "profile" \/ process' = "killed"]_allVars

(***************************************************************************)
(* Why they hold for a patient user: an invariant that every step keeps.   *)
(***************************************************************************)
(* What the file holds when the save under way is through.                  *)
Final == IF \E j \in Jobs : Saving(j)
         THEN LET j == CHOOSE j \in Jobs : Saving(j) IN Merged(job[j].before, job[j].pairs)
         ELSE file.dict

(* The file implements Settings, although it is read and written key by     *)
(* key, by whoever runs, without a lock.                                   *)
Kept == INSTANCE Settings WITH settings <- Final, identity <- userId, profile <- stored

ImplementsSettings == Kept!Spec

(* A request or a result of which its client makes something.               *)
Awaits(c, r)      == r.op # "none" /\ r.client = c /\ ~Ignored(r)
AwaitedJobs(c)    == {j \in Jobs : Awaits(c, job[j])}
AwaitedResults(c) == {i \in DOMAIN main : Awaits(c, main[i])}
Waiting(c)        == AwaitedJobs(c) # {} \/ AwaitedResults(c) # {}

AwaitedAlone ==
  /\ \A c \in {"identity", "theme", "profile"} :
       /\ \A i, j \in AwaitedJobs(c) : i = j
       /\ \A i, j \in AwaitedResults(c) : i = j
       /\ AwaitedJobs(c) = {} \/ AwaitedResults(c) = {}
  /\ process = "killed" => Quiescent
  /\ Waiting("identity") => screen = "list"
  /\ Waiting("profile") => screen # "list"

LoadsOwnKeys ==
  \A j \in Jobs :
    /\ Awaits("identity", job[j]) => job[j].op = "loadValue" /\ job[j].keys = {idKey}
    /\ Awaits("theme", job[j])    => job[j].op = "loadValue" /\ job[j].keys = {themeKey}
    /\ Awaits("profile", job[j])  => Saving(j) \/ (job[j].op = "load" /\ job[j].keys = Keys)

(* A save overlaps no load but that of the theme, which it cannot disturb:  *)
(* the identity that is saved then is the first thing that ever is.        *)
SavesApart ==
  /\ \A j \in Jobs : Saving(j) =>
       /\ job[j].clean
       /\ ~Waiting("identity")
       /\ Waiting("theme") => job[j].client = "identity"
       /\ Waiting("profile") => job[j].client = "profile"
       /\ job[j].client = "identity" => job[j].before = Empty /\ file.dict[themeKey] = Nil
  /\ file.state = "torn" => \E j \in Jobs : Saving(j)
  /\ file.state = "missing" => process = "killed"

ResultsTrue ==
  \A i \in DOMAIN main :
    /\ Awaits("identity", main[i]) =>
         IF main[i].success THEN firstId # Nil /\ main[i].dict[idKey] = firstId
                            ELSE firstId = Nil
    /\ Awaits("theme", main[i]) => main[i].dict[themeKey] = Final[themeKey]
    /\ Awaits("profile", main[i]) =>
         /\ main[i].success
         /\ main[i].op = "load" => OnProfileKeys(main[i].dict) = OnProfileKeys(Final)

IdentityKnown == /\ userId \in {Nil, firstId}
                 /\ Final[idKey] = firstId
                 /\ firstId = Nil => Final = Empty
                 /\ process = "running" /\ firstId = Nil => Waiting("identity")

ThemeKnown == process = "running" => Waiting("theme") \/ Final[themeKey] = theme

SaveAwaited == \/ \E j \in AwaitedJobs("profile") : Saving(j)
               \/ \E i \in AwaitedResults("profile") : main[i].op = "save"

ProfileKnown ==
  process = "running" /\ screen # "list" =>
    /\ ~Waiting("profile") => stored = OnProfileKeys(Final)
    /\ SaveAwaited => OnProfileKeys(Final) = Merged(stored, updated) /\ picks = {}

AskedKnown ==
  /\ \A k \in Keys : asked[k] # Nil => k \in profileKeys /\ Final[k] = asked[k]
  /\ alert # "none" => /\ alert = "Data saved" /\ screen = "profile"
                       /\ file.state = "whole" /\ \A j \in Jobs : ~Saving(j)

(* Nothing overlaps a save that could spoil it, each client waits for one   *)
(* thing at a time, and what it has been told, or will be told next, is    *)
(* what the file holds, or will hold when the save under way is through.   *)
PatientInv == /\ StorageInv /\ ClientInv
              /\ AwaitedAlone /\ LoadsOwnKeys /\ SavesApart /\ ResultsTrue
              /\ IdentityKnown /\ ThemeKnown /\ ProfileKnown /\ AskedKnown

(* What the screen shows is explained by `stored` and `updated`: nothing is *)
(* edited before the load is through, whatever is on its way to the screen *)
(* is `stored`, a placeholder is the text that a save would leave, and     *)
(* buttons that are both disabled have nothing left to save.               *)
LoadAwaited == \/ \E j \in AwaitedJobs("profile") : job[j].op = "load"
               \/ \E i \in AwaitedResults("profile") : main[i].op = "load"

UntouchedBeforeLoad == LoadAwaited => updated = Empty /\ ended = Empty /\ values = <<>> /\ picks = {}

ArrivalsAreStored == values # <<>> => ~SaveAwaited /\ \A i \in DOMAIN values : values[i] = stored

PlaceholdersNoted == \A k \in textKeys : ended[k] # Nil => Merged(stored, updated)[k] = ended[k]

EditsShown == values = <<>> => \A k \in Keys \ cancelled : shown[k] = Merged(stored, updated)[k]

DisabledSaved == ~canSave /\ ~canCancel /\ ~SaveAwaited =>
                   \A k \in Keys \ cancelled : updated[k] \in {Nil, stored[k]}

EditsKnown == process = "running" => /\ UntouchedBeforeLoad /\ ArrivalsAreStored
                                     /\ PlaceholdersNoted /\ EditsShown /\ DisabledSaved

(* All that the steps of a patient user keep, in the storage, in what its   *)
(* clients know and on the profile screen.                                 *)
ScreenInv == PatientInv /\ EditsKnown
================================================================================
