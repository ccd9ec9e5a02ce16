----------------------------- MODULE ScreenProofs ------------------------------
(***************************************************************************)
(* Proofs that the profile screen shows what Save would store: EditsKnown  *)
(* of LocalProfile is kept by every step of PatientNext, given PatientInv. *)
(***************************************************************************)
EXTENDS PatientProofs

-----------------------------------------------------------------------------
(* The request of the profile screen that is under way, by its operation.   *)

AwaitsOp(op) == \/ \E j \in AwaitedJobs("profile") : job[j].op = op
                \/ \E i \in AwaitedResults("profile") : main[i].op = op

LEMMA AwaitedOps ==
  /\ LoadAwaited <=> AwaitsOp("load")
  /\ SaveAwaited <=> AwaitsOp("save")
BY DEF LoadAwaited, SaveAwaited, AwaitsOp, Saving

LEMMA NotWaitingForOp == ASSUME ~Waiting("profile") PROVE ~LoadAwaited /\ ~SaveAwaited
BY DEF Waiting, LoadAwaited, SaveAwaited

LEMMA OneOp == ASSUME PatientInv, LoadAwaited PROVE ~SaveAwaited
BY DEF PatientInv, AwaitedAlone, LoadAwaited, SaveAwaited, Saving

(* Jobs that move on, or are not of the profile screen, are awaited as ever.*)
LEMMA SameOps ==
  ASSUME UNCHANGED main,
         \A j \in Jobs : /\ Awaits("profile", job'[j]) <=> Awaits("profile", job[j])
                         /\ Awaits("profile", job[j]) => job'[j].op = job[j].op
  PROVE  (LoadAwaited' <=> LoadAwaited) /\ (SaveAwaited' <=> SaveAwaited)
<1>1. AwaitedJobs("profile")' = AwaitedJobs("profile")
  BY DEF AwaitedJobs
<1>2. \A j \in AwaitedJobs("profile") : job'[j].op = job[j].op
  BY DEF AwaitedJobs
<1>3. AwaitedResults("profile")' = AwaitedResults("profile")
  BY DEF AwaitedResults
<1>4. QED
  BY <1>1, <1>2, <1>3 DEF LoadAwaited, SaveAwaited, Saving

(* A job that ends hands on what it was awaited for.                        *)
LEMMA HandedOn ==
  ASSUME PatientInv, NEW j \in Jobs, ~Free(j), job' = [job EXCEPT ![j] = NoJob],
         NEW r \in Result, main' = Append(main, r), r.op = job[j].op, r.client = job[j].client
  PROVE  (LoadAwaited' <=> LoadAwaited) /\ (SaveAwaited' <=> SaveAwaited)
<1>1. main \in Seq(Result) /\ job \in [Jobs -> Job]
  BY DEF PatientInv, StorageInv, StorageTypeOK
<1>2. /\ Len(main) \in Nat /\ DOMAIN main = 1..Len(main)
      /\ DOMAIN main' = 1..(Len(main) + 1) /\ main'[Len(main) + 1] = r
      /\ \A i \in 1..Len(main) : main'[i] = main[i]
  BY <1>1
<1>3. Awaits("profile", r) <=> Awaits("profile", job[j])
  BY AwaitsBy
<1>4. AwaitedJobs("profile")' = AwaitedJobs("profile") \ {j}
  BY <1>1 DEF AwaitedJobs, Awaits, NoJob
<1>5. AwaitedResults("profile")' = AwaitedResults("profile")
                                     \cup {i \in {Len(main) + 1} : Awaits("profile", r)}
  BY <1>2 DEF AwaitedResults
<1>6. \A i \in AwaitedJobs("profile") \ {j} : job'[i] = job[i]
  BY <1>1 DEF AwaitedJobs
<1>7. \A i \in AwaitedResults("profile") : main'[i] = main[i]
  BY <1>2 DEF AwaitedResults
<1>8. \A op : AwaitsOp(op)' <=> \/ \E i \in AwaitedJobs("profile") \ {j} : job[i].op = op
                                \/ \E i \in AwaitedResults("profile") : main[i].op = op
                                \/ Awaits("profile", r) /\ r.op = op
  <2> TAKE op
  <2>1. (\E i \in AwaitedJobs("profile")' : job'[i].op = op)
           <=> \E i \in AwaitedJobs("profile") \ {j} : job[i].op = op
    BY <1>4, <1>6
  <2>2. (\E i \in AwaitedResults("profile")' : main'[i].op = op)
           <=> \/ \E i \in AwaitedResults("profile") : main[i].op = op
               \/ Awaits("profile", r) /\ r.op = op
    BY <1>2, <1>5, <1>7
  <2>3. QED
    BY <2>1, <2>2 DEF AwaitsOp
<1>9. j \in AwaitedJobs("profile") <=> Awaits("profile", r)
  BY <1>3 DEF AwaitedJobs
<1>10. \A op : AwaitsOp(op)' <=> AwaitsOp(op)
  BY <1>8, <1>9 DEF AwaitsOp
<1>11. (LoadAwaited' <=> AwaitsOp("load")') /\ (SaveAwaited' <=> AwaitsOp("save")')
  BY DEF LoadAwaited, SaveAwaited, AwaitsOp, Saving
<1>12. QED
  BY <1>10, <1>11, AwaitedOps

(* A result that is taken and was not awaited by the profile screen.        *)
LEMMA OtherResultTaken ==
  ASSUME PatientInv, main # <<>>, main' = Tail(main), ~Awaits("profile", Head(main)),
         \A j \in Jobs : /\ Awaits("profile", job'[j]) <=> Awaits("profile", job[j])
                         /\ Awaits("profile", job[j]) => job'[j].op = job[j].op
  PROVE  (LoadAwaited' <=> LoadAwaited) /\ (SaveAwaited' <=> SaveAwaited)
<1>1. main \in Seq(Result)
  BY DEF PatientInv, StorageInv, StorageTypeOK
<1>2. /\ Len(main) \in Nat /\ Len(main) # 0 /\ DOMAIN main = 1..Len(main)
      /\ DOMAIN main' = 1..(Len(main) - 1)
      /\ \A i \in 1..(Len(main) - 1) : main'[i] = main[i + 1]
      /\ Head(main) = main[1]
  BY <1>1
<1>3. AwaitedJobs("profile")' = AwaitedJobs("profile")
  BY DEF AwaitedJobs
<1>4. \A j \in AwaitedJobs("profile") : job'[j].op = job[j].op
  BY DEF AwaitedJobs
<1>5. \A i \in AwaitedResults("profile") :
        i - 1 \in AwaitedResults("profile")' /\ main'[i - 1] = main[i]
  <2> TAKE i \in AwaitedResults("profile")
  <2>1. i \in 1..Len(main) /\ Awaits("profile", main[i])
    BY <1>2 DEF AwaitedResults
  <2>2. i \in Int /\ i - 1 \in 1..(Len(main) - 1) /\ (i - 1) + 1 = i
    BY <1>2, <2>1
  <2>3. main'[i - 1] = main[i]
    BY <1>2, <2>2
  <2>4. QED
    BY <1>2, <2>1, <2>2, <2>3 DEF AwaitedResults
<1>6. \A i \in AwaitedResults("profile")' :
        i + 1 \in AwaitedResults("profile") /\ main'[i] = main[i + 1]
  BY ResultTaken DEF AwaitedResults
<1>7. \A op : AwaitsOp(op)' <=> AwaitsOp(op)
  <2> TAKE op
  <2>1. (\E j \in AwaitedJobs("profile")' : job'[j].op = op)
           <=> \E j \in AwaitedJobs("profile") : job[j].op = op
    BY <1>3, <1>4
  <2>2. (\E i \in AwaitedResults("profile")' : main'[i].op = op)
           <=> \E i \in AwaitedResults("profile") : main[i].op = op
    <3>1. ASSUME NEW i \in AwaitedResults("profile"), main[i].op = op
          PROVE  \E k \in AwaitedResults("profile")' : main'[k].op = op
      BY <1>5, <3>1
    <3>2. ASSUME NEW i \in AwaitedResults("profile")', main'[i].op = op
          PROVE  \E k \in AwaitedResults("profile") : main[k].op = op
      BY <1>6, <3>2
    <3>3. QED
      BY <3>1, <3>2
  <2>3. QED
    BY <2>1, <2>2 DEF AwaitsOp
<1>8. (LoadAwaited' <=> AwaitsOp("load")') /\ (SaveAwaited' <=> AwaitsOp("save")')
  BY DEF LoadAwaited, SaveAwaited, AwaitsOp, Saving
<1>9. QED
  BY <1>7, <1>8, AwaitedOps

(* One that it did await: nothing is left.                                  *)
LEMMA OwnResultTaken ==
  ASSUME PatientInv, main # <<>>, main' = Tail(main), UNCHANGED job, Awaits("profile", Head(main))
  PROVE  ~LoadAwaited' /\ ~SaveAwaited'
<1>1. AwaitedJobs("profile") = {} /\ AwaitedResults("profile")' = {}
  BY ResultAwaited
<1>2. AwaitedJobs("profile")' = {}
  BY <1>1 DEF AwaitedJobs
<1>3. QED
  BY <1>1, <1>2 DEF LoadAwaited, SaveAwaited

-----------------------------------------------------------------------------
(* Steps that leave the fields as they are.                                 *)

LEMMA FieldTypes ==
  ASSUME PatientInv
  PROVE  /\ stored \in Dictionaries /\ updated \in Dictionaries /\ shown \in Dictionaries
         /\ ended \in Dictionaries /\ values \in Seq(Dictionaries)
         /\ canSave \in BOOLEAN /\ canCancel \in BOOLEAN
BY DEF PatientInv, ClientInv, ClientTypeOK

LEMMA FieldsKept ==
  ASSUME EditsKnown, UNCHANGED <<process, stored, updated, shown, ended, values, cancelled>>,
         LoadAwaited' => LoadAwaited /\ (picks = {} => picks' = {}),
         SaveAwaited' <=> SaveAwaited,
         ~canSave' /\ ~canCancel' => ~canSave /\ ~canCancel
  PROVE  EditsKnown'
<1> SUFFICES ASSUME process = "running"
             PROVE  EditsKnown'
  BY DEF EditsKnown
<1> USE DEF EditsKnown
<1>1. UntouchedBeforeLoad'
  BY DEF UntouchedBeforeLoad
<1>2. ArrivalsAreStored'
  BY DEF ArrivalsAreStored
<1>3. PlaceholdersNoted' /\ EditsShown'
  BY DEF PlaceholdersNoted, EditsShown
<1>4. DisabledSaved'
  BY DEF DisabledSaved
<1>5. QED
  BY <1>1, <1>2, <1>3, <1>4

LEMMA NewScreenKnown == ASSUME NewProfile PROVE EditsKnown'
<1>1. /\ stored' = Empty /\ updated' = Empty /\ shown' = Empty /\ ended' = Empty
      /\ canCancel' = TRUE /\ values' = <<>> /\ picks' = {}
  BY DEF NewProfile
<1>2. \A k \in Keys : Empty[k] = Nil /\ Merged(Empty, Empty)[k] = Nil
  BY DEF Empty, Merged
<1>3. PlaceholdersNoted' /\ EditsShown'
  BY <1>1, <1>2, KeysOfClients DEF PlaceholdersNoted, EditsShown
<1>4. UntouchedBeforeLoad' /\ ArrivalsAreStored' /\ DisabledSaved'
  BY <1>1 DEF UntouchedBeforeLoad, ArrivalsAreStored, DisabledSaved
<1>5. QED
  BY <1>3, <1>4 DEF EditsKnown

LEMMA IdleNothingAwaited == ASSUME Quiescent PROVE ~LoadAwaited /\ ~SaveAwaited
BY IdleAwaitsNothing, NotWaitingForOp

LEMMA QuietAwaits ==
  ASSUME Quiet
  PROVE  (LoadAwaited' <=> LoadAwaited) /\ (SaveAwaited' <=> SaveAwaited)
BY SameOps DEF Quiet, storageVars

-----------------------------------------------------------------------------
(* The edits.                                                               *)

LEMMA MergedAt ==
  ASSUME NEW d, NEW e, NEW k \in Keys
  PROVE  Merged(d, e)[k] = IF e[k] # Nil THEN e[k] ELSE d[k]
BY DEF Merged

LEMMA TextKnown ==
  ASSUME PatientInv, EditsKnown, Idle, NEW k \in textKeys, NEW v \in Data,
         textFieldDidEndEditing(k, v)
  PROVE  EditsKnown'
<1>1. /\ process = "running" /\ UNCHANGED <<process, job, main, stored, values, picks, canCancel>>
      /\ shown' = [shown EXCEPT ![k] = v] /\ ended' = [ended EXCEPT ![k] = v]
      /\ updated' = IF ended[k] = v THEN updated ELSE [updated EXCEPT ![k] = v]
      /\ canSave' \in {TRUE, canSave \/ shown[k] # v}
      /\ cancelled' = IF shown[k] = v THEN cancelled ELSE cancelled \ {k}
  BY DEF textFieldDidEndEditing, Tap, OthersUnchanged, arrivalVars
<1>2. k \in Keys /\ v # Nil
  BY KeysOfClients, NilAssumption
<1>3. /\ ~LoadAwaited /\ ~SaveAwaited /\ values = <<>>
      /\ LoadAwaited' <=> LoadAwaited
  BY <1>1, IdleNothingAwaited, SameOps DEF Idle
<1>4. PlaceholdersNoted /\ EditsShown /\ DisabledSaved
  BY <1>1 DEF EditsKnown
<1>5. /\ updated'[k] = IF ended[k] = v THEN updated[k] ELSE v
      /\ shown'[k] = v /\ ended'[k] = v
      /\ \A l \in Keys \ {k} : /\ updated'[l] = updated[l] /\ shown'[l] = shown[l]
                               /\ ended'[l] = ended[l]
  BY <1>1, <1>2, FieldTypes DEF Dictionaries
<1>6. ended[k] = v => Merged(stored, updated)[k] = v
  BY <1>2, <1>4 DEF PlaceholdersNoted
<1> DEFINE M == Merged(stored, updated)
           new == Merged(stored, updated')
<1>m. \A l \in Keys : /\ M[l] = IF updated[l] # Nil THEN updated[l] ELSE stored[l]
                      /\ new[l] = IF updated'[l] # Nil THEN updated'[l] ELSE stored[l]
  BY MergedAt
<1>s. Merged(stored, updated)' = new
  BY <1>1
<1> HIDE DEF M, new
<1>7. new[k] = v
  <2>1. CASE ended[k] = v
    BY <1>2, <1>5, <1>6, <1>m, <2>1 DEF M
  <2>2. CASE ended[k] # v
    BY <1>2, <1>5, <1>m, <2>2
  <2>3. QED
    BY <2>1, <2>2
<1>8. \A l \in Keys \ {k} : new[l] = M[l]
  BY <1>5, <1>m
<1>9. PlaceholdersNoted'
  BY <1>4, <1>5, <1>7, <1>8, <1>s, KeysOfClients DEF PlaceholdersNoted, M
<1>10. EditsShown'
  BY <1>1, <1>3, <1>4, <1>5, <1>7, <1>8, <1>s DEF EditsShown, M
<1>11. DisabledSaved'
  <2> SUFFICES ASSUME ~canSave', ~canCancel', NEW l \in Keys \ cancelled'
               PROVE  updated'[l] \in {Nil, stored[l]}
    BY <1>1 DEF DisabledSaved
  <2>1. ~canSave /\ ~canCancel /\ shown[k] = v /\ cancelled' = cancelled
    BY <1>1
  <2>2. \A m \in Keys \ cancelled : updated[m] \in {Nil, stored[m]}
    BY <1>3, <1>4, <2>1 DEF DisabledSaved
  <2>3. CASE l # k
    BY <1>5, <2>1, <2>2, <2>3
  <2>4. CASE l = k
    <3>1. Merged(stored, updated)[k] = v
      BY <1>3, <1>4, <2>1, <2>4 DEF EditsShown
    <3>2. stored[k] = v
      BY <1>2, <2>1, <2>2, <2>4, <3>1, MergedAt
    <3>3. QED
      BY <1>5, <2>1, <2>2, <2>4, <3>2
  <2>5. QED
    BY <2>3, <2>4
<1>12. UntouchedBeforeLoad' /\ ArrivalsAreStored'
  BY <1>1, <1>3 DEF UntouchedBeforeLoad, ArrivalsAreStored
<1>13. QED
  BY <1>9, <1>10, <1>11, <1>12 DEF EditsKnown

LEMMA PictureKnown ==
  ASSUME PatientInv, EditsKnown, process = "running", NEW v \in Data,
         UNCHANGED <<process, job, main, stored, ended, values>>, picks' \subseteq picks,
         updated' = [updated EXCEPT ![imageKey] = v], addProfileImage(v),
         ~LoadAwaited
  PROVE  EditsKnown'
<1>1. /\ shown' = [shown EXCEPT ![imageKey] = v] /\ canSave' = TRUE
      /\ cancelled' = cancelled \ {imageKey}
  BY DEF addProfileImage
<1>2. imageKey \in Keys /\ imageKey \notin textKeys /\ v # Nil
  BY KeysOfClients, KeysAssumption, NilAssumption
<1>3. ~LoadAwaited' /\ (SaveAwaited' <=> SaveAwaited)
  BY SameOps
<1>4. /\ updated'[imageKey] = v /\ shown'[imageKey] = v
      /\ \A l \in Keys \ {imageKey} : updated'[l] = updated[l] /\ shown'[l] = shown[l]
  BY <1>1, <1>2, FieldTypes DEF Dictionaries
<1> DEFINE M == Merged(stored, updated)
           new == Merged(stored, updated')
<1>m. \A l \in Keys : /\ M[l] = IF updated[l] # Nil THEN updated[l] ELSE stored[l]
                      /\ new[l] = IF updated'[l] # Nil THEN updated'[l] ELSE stored[l]
  BY DEF Merged
<1>s. Merged(stored, updated)' = new
  OBVIOUS
<1> HIDE DEF M, new
<1>5. new[imageKey] = v /\ \A l \in Keys \ {imageKey} : new[l] = M[l]
  BY <1>2, <1>4, <1>m
<1>6. PlaceholdersNoted'
  BY <1>2, <1>5, <1>s, KeysOfClients DEF EditsKnown, PlaceholdersNoted, M
<1>7. EditsShown'
  BY <1>1, <1>4, <1>5, <1>s DEF EditsKnown, EditsShown, M
<1>8. UntouchedBeforeLoad' /\ ArrivalsAreStored' /\ DisabledSaved'
  BY <1>1, <1>3 DEF EditsKnown, UntouchedBeforeLoad, ArrivalsAreStored, DisabledSaved
<1>9. QED
  BY <1>6, <1>7, <1>8 DEF EditsKnown

-----------------------------------------------------------------------------
(* What arrives at the screen.                                              *)

LEMMA ScreenUpdated ==
  ASSUME PatientInv, EditsKnown, NEW i \in DOMAIN values, updateScreen(i)
  PROVE  EditsKnown'
<1>1. /\ process = "running" /\ UNCHANGED <<process, job, main, stored, updated, ended, picks>>
      /\ shown' = values[i] /\ cancelled' = DictKeys(updated)
      /\ values' = SubSeq(values, 1, i - 1) \o SubSeq(values, i + 1, Len(values))
  BY DEF updateScreen, OthersUnchanged
<1>2. /\ Len(values) \in Nat /\ i \in 1..Len(values) /\ values # <<>>
  BY FieldTypes
<1>3. ~SaveAwaited /\ ~LoadAwaited /\ \A l \in DOMAIN values : values[l] = stored
  BY <1>1, <1>2 DEF EditsKnown, ArrivalsAreStored, UntouchedBeforeLoad
<1>4. ~LoadAwaited' /\ ~SaveAwaited'
  BY <1>1, <1>3, SameOps
<1>5. \A l \in DOMAIN values' : \E m \in DOMAIN values : values'[l] = values[m]
  <2>1. values \in Seq(Dictionaries)
    BY FieldTypes
  <2> DEFINE front == SubSeq(values, 1, i - 1)
             back == SubSeq(values, i + 1, Len(values))
  <2>2. /\ front \in Seq(Dictionaries) /\ Len(front) = i - 1
        /\ \A l \in 1..(i - 1) : front[l] = values[l]
    BY <1>2, <2>1
  <2>3. /\ back \in Seq(Dictionaries) /\ Len(back) = Len(values) - i
        /\ \A l \in 1..(Len(values) - i) : back[l] = values[l + i]
    BY <1>2, <2>1
  <2> HIDE DEF front, back
  <2>4. /\ DOMAIN (front \o back) = 1..(Len(values) - 1)
        /\ \A l \in 1..(Len(values) - 1) :
             (front \o back)[l] = IF l <= i - 1 THEN front[l] ELSE back[l - (i - 1)]
    BY <1>2, <2>2, <2>3
  <2>5. ASSUME NEW l \in 1..(Len(values) - 1)
        PROVE  \E m \in DOMAIN values : (front \o back)[l] = values[m]
    <3>1. CASE l <= i - 1
      BY <1>2, <2>1, <2>2, <2>4, <3>1
    <3>2. CASE ~(l <= i - 1)
      <4>1. l - (i - 1) \in 1..(Len(values) - i) /\ (l - (i - 1)) + i \in 1..Len(values)
        BY <1>2, <3>2
      <4>2. (front \o back)[l] = values[(l - (i - 1)) + i]
        BY <2>3, <2>4, <3>2, <4>1
      <4>3. QED
        BY <2>1, <4>1, <4>2
    <3>3. QED
      BY <3>1, <3>2
  <2>6. values' = front \o back
    BY <1>1 DEF front, back
  <2>7. QED
    BY <2>4, <2>5, <2>6
<1>6. ArrivalsAreStored'
  BY <1>1, <1>3, <1>4, <1>5 DEF ArrivalsAreStored
<1>7. \A k \in Keys \ cancelled' : updated[k] = Nil /\ Merged(stored, updated)[k] = stored[k]
  BY <1>1, MergedAt DEF DictKeys
<1>8. EditsShown' /\ DisabledSaved'
  BY <1>1, <1>3, <1>7 DEF EditsShown, DisabledSaved
<1>9. UntouchedBeforeLoad' /\ PlaceholdersNoted'
  BY <1>1, <1>4 DEF EditsKnown, UntouchedBeforeLoad, PlaceholdersNoted
<1>10. QED
  BY <1>6, <1>8, <1>9 DEF EditsKnown

LEMMA CancelKnown ==
  ASSUME PatientInv, EditsKnown, Quiescent, didCancelButtonTapped
  PROVE  EditsKnown'
<1>1. /\ process = "running" /\ canCancel /\ values' = Append(values, stored)
      /\ UNCHANGED <<process, job, main, stored, updated, ended, canSave, canCancel>>
  BY DEF didCancelButtonTapped, Tap, OthersUnchanged, fieldVars, getValues
<1>2. ~LoadAwaited' /\ ~SaveAwaited'
  BY <1>1, IdleNothingAwaited, SameOps
<1>3. /\ values' # <<>>
      /\ \A i \in DOMAIN values' : (i \in DOMAIN values /\ values'[i] = values[i]) \/ values'[i] = stored
  BY <1>1, FieldTypes
<1>4. \A i \in DOMAIN values : values[i] = stored
  BY <1>1 DEF EditsKnown, ArrivalsAreStored
<1>5. ArrivalsAreStored' /\ EditsShown'
  BY <1>1, <1>2, <1>3, <1>4 DEF ArrivalsAreStored, EditsShown
<1>6. UntouchedBeforeLoad' /\ DisabledSaved' /\ PlaceholdersNoted'
  BY <1>1, <1>2 DEF EditsKnown, UntouchedBeforeLoad, DisabledSaved, PlaceholdersNoted
<1>7. QED
  BY <1>5, <1>6 DEF EditsKnown

-----------------------------------------------------------------------------
(* Requests.                                                                *)

LEMMA ThemeTapKnown ==
  ASSUME PatientInv, EditsKnown, Quiescent, NEW v \in Data, changeTheme(v)
  PROVE  EditsKnown'
<1>1. /\ process = "running" /\ screen = "list" /\ Save("theme", Only(themeKey, v))
      /\ UNCHANGED <<process, file, main, screen>>
      /\ UNCHANGED <<stored, updated, shown, ended, values, picks, canSave, canCancel, cancelled>>
  BY DEF changeTheme, MayRequest, profileVars, fieldVars, buttonVars, arrivalVars
<1>2. Only(themeKey, v) \in Dictionaries
  BY KeysOfClients, OnlyType
<1>3. ~Waiting("profile")'
  BY <1>1, <1>2, SaveKeeps
<1>4. ~LoadAwaited' /\ ~SaveAwaited'
  BY <1>3 DEF Waiting, LoadAwaited, SaveAwaited
<1>5. QED
  BY <1>1, <1>4, IdleNothingAwaited, FieldsKept

LEMMA SaveTapKnown ==
  ASSUME PatientInv, EditsKnown, Idle, didSaveButtonTapped
  PROVE  EditsKnown'
<1>1. /\ process = "running" /\ screen = "profile" /\ Quiescent /\ values = <<>>
      /\ UNCHANGED <<process, file, main, screen, stored, updated, shown, ended, values, picks>>
      /\ UNCHANGED cancelled
      /\ IF updated = Empty THEN UNCHANGED job ELSE Save("profile", updated)
  BY DEF didSaveButtonTapped, Tap, Idle, OthersUnchanged, fieldVars, arrivalVars
<1>2. PlaceholdersNoted' /\ EditsShown' /\ ArrivalsAreStored'
  BY <1>1 DEF EditsKnown, PlaceholdersNoted, EditsShown, ArrivalsAreStored
<1>3. CASE updated = Empty
  <2>1. ~LoadAwaited'
    BY <1>1, <1>3, IdleNothingAwaited, SameOps
  <2>2. UntouchedBeforeLoad' /\ DisabledSaved'
    BY <1>1, <1>3, <2>1 DEF UntouchedBeforeLoad, DisabledSaved, Empty
  <2>3. QED
    BY <1>2, <2>2 DEF EditsKnown
<1>4. CASE updated # Empty
  <2>1. PICK j \in Jobs : job'[j].op = "save" /\ job'[j].client = "profile"
    <3>1. file.state = "whole" /\ \A i \in Jobs : ~Saving(i)
      BY <1>1, IdleFacts
    <3>2. "profile" \in Clients
      BY ClientsAssumption
    <3>3. StorageInv /\ updated \in Dictionaries /\ Save("profile", updated) /\ UNCHANGED file
      BY <1>1, <1>4, FieldTypes DEF PatientInv
    <3>4. QED
      BY <3>1, <3>2, <3>3, SaveStarts
  <2>2. Awaits("profile", job'[j])
    BY <2>1 DEF Awaits, Ignored
  <2>3. SaveAwaited'
    BY <2>1, <2>2 DEF SaveAwaited, AwaitedJobs, Saving
  <2>4. AwaitedAlone'
    BY <1>1, <1>4, SaveKeeps, FieldTypes
  <2>5. ~LoadAwaited'
    BY <2>3, <2>4 DEF AwaitedAlone, LoadAwaited, SaveAwaited, Saving
  <2>6. UntouchedBeforeLoad' /\ DisabledSaved'
    BY <2>3, <2>5 DEF UntouchedBeforeLoad, DisabledSaved
  <2>7. QED
    BY <1>2, <2>6 DEF EditsKnown
<1>5. QED
  BY <1>3, <1>4

LEMMA RequestKnown == ASSUME PatientInv, EditsKnown, Requesting, Idle PROVE EditsKnown'
<1>1. ~tapTryAgain
  BY DEF PatientInv, AskedKnown, tapTryAgain, AlertTap
<1>2. CASE presentUserProfileScreen
  BY <1>2, NewScreenKnown DEF presentUserProfileScreen
<1>3. QED
  BY <1>1, <1>2, ThemeTapKnown, SaveTapKnown DEF Requesting, Idle

-----------------------------------------------------------------------------
(* Results.                                                                 *)

LEMMA LoadKnown ==
  ASSUME PatientInv, EditsKnown, process = "running", UNCHANGED <<process, file>>,
         main # <<>>, main' = Tail(main),
         Head(main).client = "profile", Head(main).op = "load", fetchProfileData(Head(main))
  PROVE  EditsKnown'
<1> DEFINE result == Head(main)
<1>1. Awaits("profile", result)
  BY DEF Awaits, Ignored
<1>2. 1 \in AwaitedResults("profile") /\ main[1] = result
  BY <1>1, ResultTaken DEF PatientInv, StorageInv, StorageTypeOK
<1>3. LoadAwaited
  BY <1>2 DEF LoadAwaited
<1>4. updated = Empty /\ ended = Empty /\ values = <<>>
  BY <1>3 DEF EditsKnown, UntouchedBeforeLoad
<1>5. result.success
  BY <1>1, ResultSays
<1>6. /\ values' = Append(<<>>, stored') /\ UNCHANGED <<job, updated, ended>>
  BY <1>4, <1>5 DEF fetchProfileData, getValues
<1>7. ~LoadAwaited' /\ ~SaveAwaited'
  BY <1>1, <1>6, OwnResultTaken
<1>8. DOMAIN values' = {1} /\ values'[1] = stored' /\ values' # <<>>
  BY <1>6
<1>9. ArrivalsAreStored' /\ EditsShown' /\ UntouchedBeforeLoad'
  BY <1>7, <1>8 DEF ArrivalsAreStored, EditsShown, UntouchedBeforeLoad
<1>10. PlaceholdersNoted' /\ DisabledSaved'
  BY <1>4, <1>6, KeysOfClients DEF PlaceholdersNoted, DisabledSaved, Empty
<1>11. QED
  BY <1>9, <1>10 DEF EditsKnown

LEMMA SavedKnown ==
  ASSUME PatientInv, EditsKnown, process = "running", UNCHANGED <<process, file>>,
         main # <<>>, main' = Tail(main),
         Head(main).client = "profile", Head(main).op = "save", saveProfile(Head(main))
  PROVE  EditsKnown'
<1> DEFINE result == Head(main)
<1>1. Awaits("profile", result)
  BY DEF Awaits, Ignored
<1>2. 1 \in AwaitedResults("profile") /\ main[1] = result
  BY <1>1, ResultTaken DEF PatientInv, StorageInv, StorageTypeOK
<1>3. SaveAwaited
  BY <1>2 DEF SaveAwaited
<1>4. values = <<>>
  BY <1>3 DEF EditsKnown, ArrivalsAreStored
<1>5. result.success
  BY <1>1, ResultSays
<1>6. /\ stored' = Merged(stored, updated) /\ updated' = Empty
      /\ UNCHANGED <<job, shown, ended, values, cancelled>>
  BY <1>5 DEF saveProfile, buttonVars, arrivalVars
<1>7. ~LoadAwaited' /\ ~SaveAwaited'
  BY <1>1, <1>6, OwnResultTaken
<1>8. \A k \in Keys : Merged(stored, updated)'[k] = Merged(stored, updated)[k]
  BY <1>6 DEF Merged, Empty
<1>9. PlaceholdersNoted' /\ EditsShown'
  BY <1>4, <1>6, <1>8, KeysOfClients DEF EditsKnown, PlaceholdersNoted, EditsShown
<1>10. UntouchedBeforeLoad' /\ ArrivalsAreStored' /\ DisabledSaved'
  BY <1>4, <1>6, <1>7 DEF UntouchedBeforeLoad, ArrivalsAreStored, DisabledSaved, Empty
<1>11. QED
  BY <1>9, <1>10 DEF EditsKnown

LEMMA CompletionKnown == ASSUME PatientInv, EditsKnown, Completion PROVE EditsKnown'
<1> DEFINE result == Head(main)
<1>1. /\ process = "running" /\ main # <<>> /\ main' = Tail(main) /\ UNCHANGED <<process, file>>
      /\ \/ Ignored(result) /\ UNCHANGED <<clientVars, job>>
         \/ result.client = "identity" /\ result.op = "loadValue" /\ getUserId(result)
         \/ result.client = "theme" /\ result.op = "loadValue" /\ loadThemeFor(result)
         \/ result.client = "profile" /\ result.op = "load" /\ fetchProfileData(result)
         \/ result.client = "profile" /\ result.op = "save" /\ saveProfile(result)
  BY DEF Completion
<1>2. ASSUME ~Awaits("profile", result), UNCHANGED profileVars,
             \A j \in Jobs : /\ Awaits("profile", job'[j]) <=> Awaits("profile", job[j])
                             /\ Awaits("profile", job[j]) => job'[j].op = job[j].op
      PROVE  EditsKnown'
  <2>1. (LoadAwaited' <=> LoadAwaited) /\ (SaveAwaited' <=> SaveAwaited)
    BY <1>1, <1>2, OtherResultTaken
  <2>2. UNCHANGED <<stored, updated, shown, ended, values, picks, canSave, canCancel, cancelled>>
    BY <1>2 DEF profileVars, fieldVars, buttonVars, arrivalVars
  <2>3. QED
    BY <1>1, <2>1, <2>2, FieldsKept
<1>3. CASE Ignored(result) /\ UNCHANGED <<clientVars, job>>
  BY <1>2, <1>3 DEF clientVars, Awaits
<1>4. CASE result.client = "theme" /\ loadThemeFor(result)
  BY <1>2, <1>4 DEF loadThemeFor, Awaits
<1>5. CASE result.client = "identity" /\ getUserId(result)
  <2>1. ~Awaits("profile", result) /\ UNCHANGED profileVars
    BY <1>5 DEF getUserId, Awaits
  <2>2. CASE UNCHANGED job
    BY <1>2, <2>1, <2>2
  <2>3. ASSUME NEW d \in Data, createNewId(d)
        PROVE  \A j \in Jobs : /\ Awaits("profile", job'[j]) <=> Awaits("profile", job[j])
                               /\ Awaits("profile", job[j]) => job'[j].op = job[j].op
    <3> DEFINE save == SaveJob("identity", Only(idKey, d),
                               file.state = "whole" /\ \A i \in Jobs : ~Saving(i))
    <3>1. PICK i \in Jobs : Free(i) /\ job' = [Jostled EXCEPT ![i] = save]
      BY <2>3 DEF createNewId, Save
    <3>2. save.client = "identity" /\ save.op = "save"
      BY DEF SaveJob, NoJob
    <3> HIDE DEF save
    <3>3. job'[i] = save /\ \A j \in Jobs \ {i} : job'[j] = Jostled[j]
      BY <3>1 DEF Jostled
    <3>4. \A j \in Jobs : Jostled[j].op = job[j].op /\ Jostled[j].client = job[j].client
      BY DEF Jostled, PatientInv, StorageInv, StorageTypeOK, Job
    <3>5. ~Awaits("profile", job[i]) /\ ~Awaits("profile", job'[i])
      BY <3>1, <3>2, <3>3 DEF Free, Awaits
    <3>6. QED
      BY <3>3, <3>4, <3>5, AwaitsBy
  <2>4. QED
    BY <1>2, <1>5, <2>1, <2>2, <2>3 DEF getUserId
<1>6. QED
  BY <1>1, <1>3, <1>4, <1>5, LoadKnown, SavedKnown

-----------------------------------------------------------------------------
(* The storage at work.                                                     *)

LEMMA JobKnown ==
  ASSUME PatientInv, EditsKnown, NEW j \in Jobs, JobStep(j), ~StorageError(j)
  PROVE  EditsKnown'
<1>1. job \in [Jobs -> Job] /\ job[j] \in Job
  BY DEF PatientInv, StorageInv, StorageTypeOK
<1>2. ASSUME (LoadAwaited' <=> LoadAwaited) /\ (SaveAwaited' <=> SaveAwaited), UNCHANGED process
      PROVE  EditsKnown'
  <2>1. UNCHANGED <<stored, updated, shown, ended, values, picks, canSave, canCancel, cancelled>>
    BY DEF JobStep, clientVars, profileVars, fieldVars, buttonVars, arrivalVars
  <2>2. QED
    BY <1>2, <2>1, FieldsKept
<1>3. ASSUME NEW k \in Keys, NoFileForKey(j, k)
      PROVE  FALSE
  <2>1. Saving(j) /\ job[j].clean /\ job[j].pc = "read" /\ file.state # "whole"
    BY <1>3 DEF NoFileForKey, PatientInv, SavesApart
  <2>2. QED
    BY <2>1 DEF PatientInv, StorageInv, CleanSaves, Whole
<1>4. CASE (\E k \in Keys : ReadForKey(j, k)) \/ WriteBegins(j) \/ WriteEnds(j)
  <2>1. UNCHANGED <<process, main>>
    BY <1>4 DEF ReadForKey, WriteBegins, WriteEnds
  <2>2. \A i \in Jobs : job'[i].op = job[i].op /\ job'[i].client = job[i].client
    <3>1. CASE WriteBegins(j)
      BY <1>1, <3>1 DEF WriteBegins, Job
    <3>2. CASE (\E k \in Keys : ReadForKey(j, k)) \/ WriteEnds(j)
      <4>1. PICK next : /\ job' = [job EXCEPT ![j] = next]
                        /\ next.op = job[j].op /\ next.client = job[j].client
        <5>1. CASE WriteEnds(j)
          <6> DEFINE next == [Moved(j, "read", job[j].keys, Empty) EXCEPT !.mixed = FALSE]
          <6>1. job' = [job EXCEPT ![j] = next]
            BY <5>1 DEF WriteEnds
          <6>2. next.op = job[j].op /\ next.client = job[j].client
            BY <1>1 DEF Moved, Job
          <6> HIDE DEF next
          <6>3. QED
            BY <6>1, <6>2
        <5>2. ASSUME NEW k \in Keys, ReadForKey(j, k)
              PROVE  \E next : /\ job' = [job EXCEPT ![j] = next]
                               /\ next.op = job[j].op /\ next.client = job[j].client
          <6> DEFINE next == Moved(j, "write", job[j].keys \ {k},
                                   [file.dict EXCEPT ![k] = job[j].pairs[k]])
          <6>1. job' = [job EXCEPT ![j] = next]
            BY <5>2 DEF ReadForKey
          <6>2. next.op = job[j].op /\ next.client = job[j].client
            BY <1>1 DEF Moved, Job
          <6> HIDE DEF next
          <6>3. QED
            BY <6>1, <6>2
        <5>3. QED
          BY <3>2, <5>1, <5>2
      <4>2. QED
        BY <1>1, <4>1
    <3>3. QED
      BY <1>4, <3>1, <3>2
  <2>3. (LoadAwaited' <=> LoadAwaited) /\ (SaveAwaited' <=> SaveAwaited)
    BY <2>1, <2>2, AwaitsBy, SameOps
  <2>4. QED
    BY <1>2, <2>1, <2>3
<1>5. CASE SaveDone(j) \/ LoadSucceeds(j) \/ LoadFails(j)
  <2>1. /\ job[j].op \in {"save", "load", "loadValue"} /\ ~Free(j)
        /\ job' = [job EXCEPT ![j] = NoJob] /\ UNCHANGED process
    BY <1>5 DEF SaveDone, LoadSucceeds, LoadFails, Free, Saving
  <2>2. PICK success \in BOOLEAN, dict \in Dictionaries : Send(j, success, dict)
    <3>1. Loaded(job[j].keys) \in Dictionaries
      BY FileType DEF PatientInv, StorageInv, StorageTypeOK, Loaded, Dictionaries
    <3>2. QED
      BY <1>5, <3>1, EmptyType DEF SaveDone, LoadSucceeds, LoadFails
  <2>3. PICK r \in Result : main' = Append(main, r) /\ r.op = job[j].op /\ r.client = job[j].client
    BY <2>1, <2>2, ResultOf
  <2>4. QED
    BY <1>2, <2>1, <2>3, HandedOn
<1>6. QED
  BY <1>3, <1>4, <1>5 DEF JobStep, StorageStep, StorageError

-----------------------------------------------------------------------------
(* All steps of a patient user.                                             *)

LEMMA OtherTapKnown ==
  ASSUME PatientInv, EditsKnown, OtherTap
  PROVE  EditsKnown'
<1>1. CASE close
  BY <1>1, NewScreenKnown DEF close
<1>2. CASE didEditButtonTapped \/ tapOk \/ didProfileImageViewTapped \/ dismissPicker
  <2>1. (LoadAwaited' <=> LoadAwaited) /\ (SaveAwaited' <=> SaveAwaited)
    BY <1>2, QuietStepIsQuiet, QuietAwaits DEF QuietStep
  <2>2. /\ UNCHANGED <<process, stored, updated, shown, ended, values, picks, canSave, cancelled>>
        /\ ~canCancel' => ~canCancel
    BY <1>2 DEF didEditButtonTapped, tapOk, didProfileImageViewTapped, dismissPicker,
                OthersUnchanged, fieldVars, buttonVars, arrivalVars
  <2>3. QED
    BY <2>1, <2>2, FieldsKept
<1>3. QED
  BY <1>1, <1>2 DEF OtherTap

LEMMA EditingKnown == ASSUME PatientInv, EditsKnown, Editing, Idle PROVE EditsKnown'
<1>1. ~LoadAwaited /\ ~SaveAwaited
  BY IdleNothingAwaited DEF Idle
<1>2. ASSUME NEW v \in Data, imagePickerController(v, TRUE)
      PROVE  EditsKnown'
  BY <1>1, <1>2, PictureKnown DEF imagePickerController, PickerEnds, OthersUnchanged, arrivalVars
<1>3. ASSUME NEW v \in Data, didPickPicture(v)
      PROVE  EditsKnown'
  <2>1. UNCHANGED <<process, job, main, stored, updated, shown, ended, values, canSave, canCancel, cancelled>>
    BY <1>3 DEF didPickPicture, OthersUnchanged, fieldVars, buttonVars
  <2>2. ~LoadAwaited' /\ ~SaveAwaited'
    BY <1>1, <2>1, SameOps
  <2>3. QED
    BY <1>1, <2>1, <2>2, FieldsKept
<1>4. QED
  BY <1>2, <1>3, TextKnown DEF Editing

LEMMA ArrivalKnown == ASSUME PatientInv, EditsKnown, Arrival PROVE EditsKnown'
<1>1. ASSUME NEW v \in Data, PictureLoaded(v, TRUE)
      PROVE  EditsKnown'
  <2>1. process = "running" /\ picks # {} /\ picks' \subseteq picks
    BY <1>1 DEF PictureLoaded
  <2>2. ~LoadAwaited
    BY <2>1 DEF EditsKnown, UntouchedBeforeLoad
  <2>3. QED
    BY <1>1, <2>1, <2>2, PictureKnown DEF PictureLoaded, updateProfileImage, OthersUnchanged
<1>2. ASSUME NEW v \in Data, PictureFails(v)
      PROVE  EditsKnown'
  <2>1. /\ picks' \subseteq picks
        /\ UNCHANGED <<process, job, main, stored, updated, shown, ended, values>>
        /\ UNCHANGED <<canSave, canCancel, cancelled>>
    BY <1>2 DEF PictureFails, OthersUnchanged, fieldVars, buttonVars
  <2>2. (LoadAwaited' <=> LoadAwaited) /\ (SaveAwaited' <=> SaveAwaited)
    BY <2>1, SameOps
  <2>3. QED
    BY <2>1, <2>2, FieldsKept
<1>3. QED
  BY <1>1, <1>2, ScreenUpdated DEF Arrival

LEMMA EditsKnownInit == ClientInit => EditsKnown
BY DEF ClientInit, AtList, EditsKnown

LEMMA EditsKnownStep == PatientInv /\ EditsKnown /\ [PatientNext]_allVars => EditsKnown'
<1> SUFFICES ASSUME PatientInv, EditsKnown, [PatientNext]_allVars
             PROVE  EditsKnown'
  OBVIOUS
<1>1. CASE Launch
  BY <1>1, NewScreenKnown DEF Launch
<1>2. CASE Kill
  BY <1>2 DEF Kill, KillProcess, EditsKnown
<1>3. CASE Requesting /\ Idle
  BY <1>3, RequestKnown
<1>4. CASE Editing /\ Idle
  BY <1>4, EditingKnown
<1>5. CASE didCancelButtonTapped /\ Quiescent
  BY <1>5, CancelKnown
<1>6. CASE OtherTap
  BY <1>6, OtherTapKnown
<1>7. CASE Arrival
  BY <1>7, ArrivalKnown
<1>8. CASE Completion
  BY <1>8, CompletionKnown
<1>9. CASE \E j \in Jobs : JobStep(j) /\ ~StorageError(j)
  BY <1>9, JobKnown
<1>10. CASE UNCHANGED allVars
  <2>1. UNCHANGED <<process, job, main, stored, updated, shown, ended, values, picks>>
    BY <1>10 DEF allVars, storageVars, clientVars, profileVars, fieldVars, arrivalVars
  <2>2. UNCHANGED <<canSave, canCancel, cancelled>>
    BY <1>10 DEF allVars, clientVars, profileVars, buttonVars
  <2>3. (LoadAwaited' <=> LoadAwaited) /\ (SaveAwaited' <=> SaveAwaited)
    BY <2>1, SameOps
  <2>4. QED
    BY <2>1, <2>2, <2>3, FieldsKept
<1>11. QED
  BY <1>1, <1>2, <1>3, <1>4, <1>5, <1>6, <1>7, <1>8, <1>9, <1>10 DEF PatientNext

(* What is on its way to the screen, a placeholder, a disabled button: for  *)
(* a user who waits, all agree with `stored` and `updated`.                *)
THEOREM EditsAreKnown == PatientSpec => []EditsKnown
BY PatientInvariant, EditsKnownInit, EditsKnownStep, PTL DEF PatientSpec

(* With what the storage and its clients know, it is all that the steps of  *)
(* a patient user keep.                                                    *)
THEOREM ScreenInvariant == PatientSpec => []ScreenInv
BY PatientInvariant, EditsAreKnown, PTL DEF ScreenInv

(* The screen shows what Save would store, but for what Cancel has hidden.  *)
THEOREM EditsAreShown == PatientSpec => []ScreenShowsEdits
<1>1. EditsKnown => ScreenShowsEdits
  BY DEF EditsKnown, EditsShown, ScreenShowsEdits, Idle
<1>2. QED
  BY <1>1, EditsAreKnown, PTL

(* A screen that can only be closed has nothing to lose.                    *)
THEOREM StuckIsSaved == PatientSpec => []StuckLosesNothing
<1>1. EditsKnown => StuckLosesNothing
  BY IdleNothingAwaited DEF EditsKnown, DisabledSaved, StuckLosesNothing, Stuck, Idle
<1>2. QED
  BY <1>1, EditsAreKnown, PTL
================================================================================
