--------------------------- MODULE Server_proofs ----------------------------
(***************************************************************************)
(* The services around the ledger: types and invariants of the background  *)
(* indexer, the settings, the capability registry, the session token, the  *)
(* Google account, the upgrade of the tables, the streams over folders and *)
(* the token of Drive, for any number of threads, tasks, requests and      *)
(* restarts.                                                               *)
(***************************************************************************)
EXTENDS Indexer, Settings, Capabilities, Session, GoogleAccount,
        SchemaUpgrade, CatalogStream, DriveToken, TLAPS

-----------------------------------------------------------------------------
(* The indexer *)

\* A stop that has not ended keeps the flags up.  Unless a stop has set the
\* event over a worker, or it was used for two tasks at once, one worker at
\* most is at work, none while the event is set, and none gets past its checks
\* while a restore replaces the database.
QuietInv ==
  /\ restore \in {"stopping", "stopped", "replacing"} => stopping
  /\ ~forced /\ ~crowded =>
       /\ \A i, j \in AtWork : i = j
       /\ quiet => AtWork = {}
       /\ restore = "replacing" =>
            \A i \in Tasks : worker[i] \notin {"broker", "scanning"}

\* The indexer starts with its types.
LEMMA IndexerTypedAtFirst == IndexerInit => IndexerTypeOK
<1> SUFFICES ASSUME IndexerInit PROVE IndexerTypeOK
  OBVIOUS
<1> USE DEF IndexerInit
<1>1. ready \in Seq([call : {"spawn", "step", "cancel", "wake"},
                    of : 0 .. MaxTasks])
  OBVIOUS
<1>2. {current, cancelled, nTasks} \subseteq 0 .. MaxTasks
      /\ nRestores \in 0 .. MaxRestores
  BY IndexerAssumption
<1>3. {stopping, quiet, forced, crowded, resumed} \subseteq BOOLEAN
  OBVIOUS
<1> QED
  BY <1>1, <1>2, <1>3 DEF IndexerTypeOK

\* A step keeps the types of the workers, the event and the restore.
LEMMA IndexerTyped ==
  ASSUME IndexerTypeOK, [IndexerNext]_indexVars
  PROVE  IndexerTypeOK'
<1> USE IndexerAssumption DEF IndexerTypeOK, flags, restoring, indexHistory
<1> DEFINE Callbacks == [call : {"spawn", "step", "cancel", "wake"},
                         of : 0 .. MaxTasks]
<1>1. 0 \in 0 .. MaxTasks /\ Tasks \subseteq 0 .. MaxTasks
  BY DEF Tasks
<1>2. \A c \in {"spawn", "step", "cancel", "wake"}, i \in 0 .. MaxTasks :
        [call |-> c, of |-> i] \in Callbacks
  OBVIOUS
<1>3. /\ ready \in Seq(Callbacks)
      /\ ready # <<>> => Tail(ready) \in Seq(Callbacks)
  OBVIOUS
<1>a. ASSUME NEW s \in Seq(Callbacks), NEW e \in Callbacks
      PROVE  Append(s, e) \in Seq(Callbacks)
  BY <1>a
<1>4. ASSUME NEW rest \in Seq(Callbacks), Create(rest)
      PROVE  /\ current' \in 0 .. MaxTasks /\ nTasks' \in 0 .. MaxTasks
             /\ ready' \in Seq(Callbacks)
             /\ task' \in [Tasks -> {"none", "created", "waiting", "done"}]
             /\ doomed' = doomed
  BY <1>4, <1>2 DEF Create, Tasks
<1>5. CASE Startup
  <2>1. <<>> \in Seq(Callbacks)
    OBVIOUS
  <2> QED
    BY <1>5, <1>4, <2>1 DEF Startup
<1>6. CASE Spawn
  BY <1>6, <1>4, <1>3 DEF Spawn
<1>7. ASSUME NEW i \in Tasks, FirstStep(i)
      PROVE  IndexerTypeOK'
  BY <1>7, <1>3 DEF FirstStep
<1>8. ASSUME NEW i \in Tasks, CancelTask(i)
      PROVE  IndexerTypeOK'
  <2>1. [call |-> "wake", of |-> i] \in Callbacks
    BY <1>1, <1>2
  <2>2. ready' \in Seq(Callbacks)
    BY <1>8, <1>3, <2>1 DEF CancelTask
  <2>3. doomed' \in [Tasks -> BOOLEAN]
    BY <1>8 DEF CancelTask
  <2> QED
    BY <1>8, <2>2, <2>3 DEF CancelTask
<1>9. ASSUME NEW i \in Tasks, Wake(i)
      PROVE  IndexerTypeOK'
  BY <1>9, <1>3 DEF Wake
<1>10. ASSUME NEW i \in Tasks, Work(i)
       PROVE  IndexerTypeOK'
  <2>1. [call |-> "wake", of |-> i] \in Callbacks
    BY <1>1, <1>2
  <2>2. CASE WorkerBegins(i)
    BY <2>2 DEF WorkerBegins, loop
  <2>3. CASE WorkerChecks(i)
    BY <2>3 DEF WorkerChecks, Obey, loop
  <2>4. CASE WorkerScans(i)
    BY <2>4 DEF WorkerScans, loop
  <2>5. CASE WorkerLeaves(i)
    <3>1. ready' \in Seq(Callbacks)
      <4> HIDE DEF Callbacks, IndexerTypeOK
      <4> QED
        BY <2>5, <2>1, <1>3, <1>a DEF WorkerLeaves
    <3> QED
      BY <2>5, <3>1 DEF WorkerLeaves
  <2> QED
    BY <1>10, <2>2, <2>3, <2>4, <2>5 DEF Work
<1>11. CASE StopSignals
  <2>1. [call |-> "cancel", of |-> current] \in Callbacks
    BY <1>2
  <2>2. ready' \in Seq(Callbacks)
    <3> HIDE DEF Callbacks, IndexerTypeOK
    <3> QED
      BY <1>11, <2>1, <1>3, <1>a DEF StopSignals
  <2> QED
    BY <1>11, <2>2 DEF StopSignals
<1>w. CASE WaitEnds
  BY <1>w DEF WaitEnds, loop
<1>12. CASE StopReturns
  BY <1>12, <1>1 DEF StopReturns
<1>13. CASE StartClears
  BY <1>13 DEF StartClears, loop
<1>14. CASE StartReturns
  <2>1. [call |-> "spawn", of |-> 0] \in Callbacks
    BY <1>1, <1>2
  <2>2. ready' \in Seq(Callbacks)
    <3> HIDE DEF Callbacks, IndexerTypeOK
    <3> QED
      BY <1>14, <2>1, <1>3, <1>a DEF StartReturns
  <2> QED
    BY <1>14, <2>2, <1>1 DEF StartReturns
<1>15. CASE UNCHANGED indexVars
  BY <1>15 DEF indexVars, loop
<1> QED
  BY <1>5, <1>6, <1>7, <1>8, <1>9, <1>10, <1>11, <1>w, <1>12, <1>13, <1>14,
     <1>15
  DEF IndexerNext, EventLoop, RestoreStep

\* The callbacks of the loop are well formed, and so is every flag.
THEOREM IndexerTypes == IndexerSpec => []IndexerTypeOK
<1>1. IndexerInit => IndexerTypeOK
  BY IndexerTypedAtFirst
<1>2. QED
  BY <1>1, IndexerTyped, PTL DEF IndexerSpec

\* A step keeps one worker at most at work, and none while the database is
\* replaced.
LEMMA QuietKept ==
  ASSUME IndexerTypeOK, QuietInv, [IndexerNext]_indexVars
  PROVE  QuietInv'
<1> USE DEF QuietInv, flags, restoring, indexHistory
<1>1. /\ AtWork \subseteq Tasks
      /\ DOMAIN worker = Tasks
      /\ \A i \in Tasks : i \in AtWork <=>
           worker[i] \in {"begun", "broker", "scanning", "leaving"}
      /\ worker = [i \in Tasks |-> worker[i]]
  BY DEF AtWork, IndexerTypeOK
<1>2. worker' = worker => AtWork' = AtWork
  BY DEF AtWork
<1>3. CASE Startup \/ Spawn
  BY <1>3, <1>2 DEF Startup, Spawn
<1>4. ASSUME NEW i \in Tasks, FirstStep(i)
      PROVE  QuietInv'
  <2>1. AtWork' = AtWork \/ AtWork' = AtWork \ {i}
    BY <1>4 DEF FirstStep, AtWork, IndexerTypeOK
  <2>2. \A j \in Tasks : worker'[j] = worker[j] \/ worker'[j] = "queued"
    BY <1>4, <1>1 DEF FirstStep
  <2> QED
    BY <1>4, <2>1, <2>2 DEF FirstStep, IndexerTypeOK
<1>5. ASSUME NEW i \in Tasks, CancelTask(i)
      PROVE  QuietInv'
  <2>1. AtWork' = AtWork
    BY <1>5 DEF CancelTask, AtWork, IndexerTypeOK
  <2>2. \A j \in Tasks : worker'[j] = worker[j] \/ worker'[j] = "ended"
    BY <1>5, <1>1 DEF CancelTask
  <2> QED
    BY <1>5, <2>1, <2>2 DEF CancelTask
<1>6. ASSUME NEW i \in Tasks, Wake(i)
      PROVE  QuietInv'
  BY <1>6, <1>2 DEF Wake
<1>7. ASSUME NEW i \in Tasks, WorkerBegins(i)
      PROVE  QuietInv'
  <2>1. AtWork' = AtWork \cup {i}
    BY <1>7, <1>1 DEF WorkerBegins, AtWork
  <2>2. \A j \in Tasks : worker'[j] = worker[j] \/ worker'[j] = "begun"
    BY <1>7, <1>1 DEF WorkerBegins
  <2> QED
    BY <1>7, <2>1, <2>2 DEF WorkerBegins
<1>8. ASSUME NEW i \in Tasks, WorkerChecks(i)
      PROVE  QuietInv'
  <2>1. AtWork' = AtWork
    BY <1>8, <1>1 DEF WorkerChecks, Obey, AtWork
  <2>2. \A j \in Tasks : \/ worker'[j] = worker[j]
                         \/ worker'[j] = "leaving"
                         \/ ~stopping
    BY <1>8, <1>1 DEF WorkerChecks, Obey
  <2> QED
    BY <1>8, <2>1, <2>2 DEF WorkerChecks
<1>9. ASSUME NEW i \in Tasks, WorkerScans(i)
      PROVE  QuietInv'
  <2>1. AtWork' = AtWork
    BY <1>9, <1>1 DEF WorkerScans, AtWork
  <2>2. \A j \in Tasks : worker'[j] = worker[j] \/ worker'[j] = "leaving"
    BY <1>9, <1>1 DEF WorkerScans
  <2> QED
    BY <1>9, <2>1, <2>2 DEF WorkerScans, loop
<1>10. ASSUME NEW i \in Tasks, WorkerLeaves(i)
       PROVE  QuietInv'
  <2>1. AtWork' = AtWork \ {i} /\ i \in AtWork
    BY <1>10, <1>1 DEF WorkerLeaves, AtWork
  <2>2. \A j \in Tasks : worker'[j] = worker[j] \/ worker'[j] = "ended"
    BY <1>10, <1>1 DEF WorkerLeaves
  <2> QED
    BY <1>10, <2>1, <2>2 DEF WorkerLeaves
<1>11. CASE StopSignals
  BY <1>11, <1>2 DEF StopSignals
<1>w. CASE WaitEnds
  BY <1>w, <1>2 DEF WaitEnds
<1>12. CASE StopReturns
  BY <1>12, <1>1, <1>2 DEF StopReturns, IndexerTypeOK
<1>13. CASE StartClears
  BY <1>13, <1>2 DEF StartClears
<1>14. CASE StartReturns
  BY <1>14, <1>2 DEF StartReturns
<1>15. CASE UNCHANGED indexVars
  BY <1>15, <1>2 DEF indexVars
<1> QED
  BY <1>3, <1>4, <1>5, <1>6, <1>7, <1>8, <1>9, <1>10, <1>11, <1>w, <1>12,
     <1>13, <1>14, <1>15 DEF IndexerNext, EventLoop, RestoreStep, Work

\* No worker scans while a restore replaces the database.
THEOREM QuietWhileReplacingSafe == IndexerSpec => []QuietWhileReplacing
<1>1. IndexerInit => IndexerTypeOK /\ QuietInv
  BY IndexerTypedAtFirst DEF IndexerInit, QuietInv, AtWork
<1>2. IndexerTypeOK /\ QuietInv /\ [IndexerNext]_indexVars
        => IndexerTypeOK' /\ QuietInv'
  BY IndexerTyped, QuietKept
<1>3. QuietInv => QuietWhileReplacing
  BY DEF QuietInv, QuietWhileReplacing
<1> QED
  BY <1>1, <1>2, <1>3, PTL DEF IndexerSpec

-----------------------------------------------------------------------------
(* The settings *)

\* As long as no two saves overlap, one request at most has a save to do, and
\* it has a file open while it writes.
OneSaver ==
  ~rivals =>
    /\ \A g, h \in Savers : saver[g] # "idle" /\ saver[h] # "idle" => g = h
    /\ \A h \in Savers :
         handle[h] = IF saver[h] # "open" THEN "none"
                     ELSE IF InPlace THEN "disk" ELSE "tmp"

\* What request h is going to write: the settings, but for its field.
Merges(h) == \A f \in Fields \ {field[h]} : merged[h][f] = saved[f]

\* Where the settings are while nothing, or a single request, saves them.
SettingsInv ==
  ~rivals /\ ~cutShort =>
    /\ (\A h \in Savers : saver[h] = "idle") => SettingsKept
    /\ \A h \in Savers :
         /\ saver[h] \in {"merged", "open"} => Merges(h)
         /\ saver[h] = "merged" => Parsed(disk) = saved
         /\ saver[h] \in {"open", "written"} /\ ~InPlace
              => Parsed(disk) = saved
         /\ saver[h] = "written" =>
              IF InPlace THEN disk = merged[h] /\ saved = merged[h]
              ELSE tmp = merged[h] /\ Merges(h)

\* What a file may hold, told apart from no file and a torn one.
LEMMA SettingsContents ==
  /\ Defaults \in Contents
  /\ Absent \notin Contents /\ Torn \notin Contents
  /\ Contents \subseteq [Fields -> Nat]
BY SettingsAssumption DEF Defaults, Contents

\* A file that parses is what it holds, and every file parses to contents.
LEMMA ParsedContents ==
  /\ \A c \in Contents : Parsed(c) = c
  /\ \A c \in Contents \cup {Absent, Torn} : Parsed(c) \in Contents
BY SettingsContents DEF Parsed

\* A merge sets one field and keeps the others.
LEMMA MergedContents ==
  ASSUME NEW base \in Contents, NEW f \in Fields,
         nSaves \in 0 .. MaxSaves, nSaves < MaxSaves
  PROVE  /\ MergedWith(base, f) \in Contents
         /\ \A g \in Fields \ {f} : MergedWith(base, f)[g] = base[g]
<1>1. nSaves + 1 \in 0 .. MaxSaves
  BY SettingsAssumption
<1> QED
  BY <1>1 DEF MergedWith, Contents

\* What a request saves is contents of the file.
LEMMA SavedByContents ==
  ASSUME SettingsTypeOK, NEW h \in Savers
  PROVE  /\ SavedBy(h) \in Contents
         /\ Merges(h) => SavedBy(h) = merged[h]
<1>1. /\ saved \in [Fields -> 0 .. MaxSaves]
      /\ merged[h] \in [Fields -> 0 .. MaxSaves]
      /\ field[h] \in Fields
  BY DEF SettingsTypeOK, Contents
<1>2. SavedBy(h) \in [Fields -> 0 .. MaxSaves]
  BY <1>1 DEF SavedBy
<1>3. ASSUME Merges(h), NEW f \in Fields
      PROVE  SavedBy(h)[f] = merged[h][f]
  BY <1>1, <1>3 DEF SavedBy, Merges
<1> QED
  BY <1>1, <1>2, <1>3 DEF Contents

\* A step keeps the types of the files and the requests.
LEMMA SettingsTyped ==
  ASSUME SettingsTypeOK, [SettingsNext]_settingsVars
  PROVE  SettingsTypeOK'
<1> USE SettingsContents, ParsedContents DEF SettingsTypeOK
<1> HIDE DEF Contents
<1>1. ASSUME NEW h \in Savers, NEW f \in Fields, LoadAndMerge(h, f)
      PROVE  SettingsTypeOK'
  <2> DEFINE base == IF which \in Kept THEN kept ELSE Parsed(disk)
  <2>1. base \in Contents
    OBVIOUS
  <2>2. MergedWith(base, f) \in Contents
    BY <1>1, <2>1, MergedContents DEF LoadAndMerge
  <2>3. nSaves' \in 0 .. MaxSaves
    BY <1>1, SettingsAssumption DEF LoadAndMerge
  <2>4. merged' = [merged EXCEPT ![h] = MergedWith(base, f)]
        /\ kept' = IF which \in Kept THEN MergedWith(base, f) ELSE kept
    BY <1>1 DEF LoadAndMerge
  <2>5. OthersBusy(h) \in BOOLEAN
    BY DEF OthersBusy
  <2>6. merged' \in [Savers -> Contents] /\ kept' \in Contents
    <3> HIDE DEF base
    <3> QED
      BY <2>2, <2>4
  <2> QED
    BY <1>1, <2>3, <2>5, <2>6 DEF LoadAndMerge
<1>2. ASSUME NEW h \in Savers, OpenFile(h)
      PROVE  SettingsTypeOK'
  BY <1>2 DEF OpenFile
<1>3. ASSUME NEW h \in Savers, WriteFile(h)
      PROVE  SettingsTypeOK'
  BY <1>3, SavedByContents DEF WriteFile
<1>4. ASSUME NEW h \in Savers, ReplaceFile(h)
      PROVE  SettingsTypeOK'
  BY <1>4, SavedByContents DEF ReplaceFile, Answer
<1>5. ASSUME NEW h \in Savers, ReplaceFails(h)
      PROVE  SettingsTypeOK'
  BY <1>5 DEF ReplaceFails, Answer, diskVars
<1>6. ASSUME NEW h \in Savers, AnswerInPlace(h)
      PROVE  SettingsTypeOK'
  BY <1>6 DEF AnswerInPlace, Answer
<1>7. CASE DieAndLoad
  BY <1>7 DEF DieAndLoad
<1>8. CASE UNCHANGED settingsVars
  BY <1>8 DEF settingsVars, diskVars, saverVars
<1>9. ASSUME NEW h \in Savers, SaveFails(h)
      PROVE  SettingsTypeOK'
  BY <1>9 DEF SaveFails, Answer, diskVars
<1> QED
  BY <1>1, <1>2, <1>3, <1>4, <1>5, <1>6, <1>7, <1>8, <1>9 DEF SettingsNext

\* At first the settings are the defaults and nobody saves them.
LEMMA SettingsAtFirst ==
  SettingsInit => SettingsTypeOK /\ OneSaver /\ SettingsInv
<1> SUFFICES ASSUME SettingsInit
             PROVE  SettingsTypeOK /\ OneSaver /\ SettingsInv
  OBVIOUS
<1>1. (CHOOSE f \in Fields : TRUE) \in Fields
  BY SettingsAssumption
<1>2. SettingsTypeOK
  <2>1. nSaves \in 0 .. MaxSaves
    BY SettingsAssumption DEF SettingsInit
  <2>2. kept \in Contents /\ saved \in Contents
        /\ merged \in [Savers -> Contents]
    BY SettingsContents DEF SettingsInit
  <2>3. field \in [Savers -> Fields]
    BY <1>1 DEF SettingsInit
  <2> QED
    BY <2>1, <2>2, <2>3 DEF SettingsInit, SettingsTypeOK
<1>3. OneSaver /\ SettingsInv
  BY DEF SettingsInit, OneSaver, SettingsInv, SettingsKept, Parsed
<1> QED
  BY <1>2, <1>3

\* A step keeps one request at most at its save, unless saves overlap.
LEMMA OneSaverKept ==
  ASSUME SettingsTypeOK, OneSaver, [SettingsNext]_settingsVars
  PROVE  OneSaver'
<1> USE DEF SettingsTypeOK, OneSaver, InPlace
<1>1. ASSUME NEW h \in Savers, NEW f \in Fields, LoadAndMerge(h, f)
      PROVE  OneSaver'
  BY <1>1 DEF LoadAndMerge, OthersBusy
<1>2. ASSUME NEW h \in Savers, OpenFile(h)
      PROVE  OneSaver'
  BY <1>2 DEF OpenFile
<1>3. ASSUME NEW h \in Savers, WriteFile(h)
      PROVE  OneSaver'
  BY <1>3 DEF WriteFile
<1>4. ASSUME NEW h \in Savers, ReplaceFile(h)
      PROVE  OneSaver'
  <2>1. \A g \in Savers : ~rivals => handle[g] = "none"
    BY <1>4 DEF ReplaceFile
  <2>2. \A g \in Savers : ~rivals => handle'[g] = "none"
    BY <1>4, <2>1 DEF ReplaceFile
  <2> QED
    BY <1>4, <2>2 DEF ReplaceFile, Answer
<1>5. ASSUME NEW h \in Savers, ReplaceFails(h)
      PROVE  OneSaver'
  BY <1>5 DEF ReplaceFails, Answer
<1>6. ASSUME NEW h \in Savers, AnswerInPlace(h)
      PROVE  OneSaver'
  BY <1>6 DEF AnswerInPlace, Answer
<1>7. CASE DieAndLoad
  BY <1>7 DEF DieAndLoad
<1>8. CASE UNCHANGED settingsVars
  BY <1>8 DEF settingsVars, diskVars, saverVars
<1>9. ASSUME NEW h \in Savers, SaveFails(h)
      PROVE  OneSaver'
  BY <1>9 DEF SaveFails, Answer
<1> QED
  BY <1>1, <1>2, <1>3, <1>4, <1>5, <1>6, <1>7, <1>8, <1>9 DEF SettingsNext

\* A step keeps what was saved in the file, or in the request at work.
LEMMA SettingsInvKept ==
  ASSUME SettingsTypeOK, OneSaver, SettingsInv, [SettingsNext]_settingsVars
  PROVE  SettingsInv'
<1> USE DEF OneSaver, SettingsInv, Merges
<1>t. SettingsTypeOK'
  BY SettingsTyped
<1>1. ASSUME NEW h \in Savers, NEW f \in Fields, LoadAndMerge(h, f)
      PROVE  SettingsInv'
  <2> SUFFICES ASSUME ~rivals', ~cutShort'
               PROVE  SettingsInv'
    OBVIOUS
  <2> DEFINE base == IF which \in Kept THEN kept ELSE Parsed(disk)
  <2>1. ~rivals /\ ~cutShort /\ \A g \in Savers : saver[g] = "idle"
    BY <1>1 DEF LoadAndMerge, OthersBusy, SettingsTypeOK
  <2>2. base = saved /\ base \in Contents /\ Parsed(disk) = saved
    BY <2>1, ParsedContents DEF SettingsKept, SettingsTypeOK
  <2>3. \A g \in Fields \ {f} : MergedWith(base, f)[g] = saved[g]
    <3>1. nSaves \in 0 .. MaxSaves /\ nSaves < MaxSaves
      BY <1>1 DEF LoadAndMerge, SettingsTypeOK
    <3>2. \A g \in Fields \ {f} : MergedWith(base, f)[g] = base[g]
      BY <2>2, <3>1, MergedContents
    <3> QED
      BY <2>2, <3>2
  <2>4. merged'[h] = MergedWith(base, f) /\ field'[h] = f
    BY <1>1 DEF LoadAndMerge, SettingsTypeOK
  <2>5. /\ saver'[h] = "merged"
        /\ \A g \in Savers \ {h} : saver'[g] = "idle"
    BY <1>1, <2>1 DEF LoadAndMerge, SettingsTypeOK
  <2>6. Merges(h)'
    <3> HIDE DEF base
    <3> QED
      BY <1>1, <2>3, <2>4 DEF LoadAndMerge
  <2>7. Parsed(disk)' = saved'
    BY <1>1, <2>2 DEF LoadAndMerge, Parsed
  <2> HIDE DEF base, Merges
  <2> QED
    BY <2>5, <2>6, <2>7
<1>2. ASSUME NEW h \in Savers, OpenFile(h)
      PROVE  SettingsInv'
  BY <1>2 DEF OpenFile, SettingsTypeOK, InPlace, Parsed
<1>3. ASSUME NEW h \in Savers, WriteFile(h)
      PROVE  SettingsInv'
  <2>1. Merges(h) /\ ~rivals => SavedBy(h) = merged[h]
    BY SavedByContents
  <2> QED
    BY <1>3, <2>1 DEF WriteFile, SettingsTypeOK, InPlace, Parsed
<1>4. ASSUME NEW h \in Savers, ReplaceFile(h)
      PROVE  SettingsInv'
  <2> SUFFICES ASSUME ~rivals, ~cutShort
               PROVE  SettingsInv'
    BY <1>4 DEF ReplaceFile
  <2>1. tmp = merged[h] /\ SavedBy(h) = merged[h] /\ merged[h] \in Contents
    BY <1>4, SavedByContents DEF ReplaceFile, SettingsTypeOK
  <2>2. disk' = merged[h] /\ saved' = merged[h]
    BY <1>4, <2>1 DEF ReplaceFile
  <2>3. Parsed(disk)' = saved'
    BY <2>1, <2>2, ParsedContents DEF Parsed
  <2>4. which' \notin Kept
    BY <1>4 DEF ReplaceFile, InPlace, Kept, Replaced
  <2>5. \A g \in Savers : saver'[g] = "idle"
    BY <1>4 DEF ReplaceFile, Answer, SettingsTypeOK
  <2> QED
    BY <2>3, <2>4, <2>5 DEF SettingsKept
<1>5. ASSUME NEW h \in Savers, ReplaceFails(h)
      PROVE  SettingsInv'
  <2> SUFFICES ASSUME ~rivals, ~cutShort
               PROVE  SettingsInv'
    BY <1>5 DEF ReplaceFails
  <2>1. Parsed(disk) = saved /\ which \notin Kept
    BY <1>5 DEF ReplaceFails, InPlace, Kept, Replaced
  <2>2. \A g \in Savers : saver'[g] = "idle"
    BY <1>5 DEF ReplaceFails, Answer, SettingsTypeOK
  <2>3. Parsed(disk)' = saved' /\ which' \notin Kept
    BY <1>5, <2>1 DEF ReplaceFails, diskVars, Parsed
  <2> QED
    BY <2>2, <2>3 DEF SettingsKept
<1>6. ASSUME NEW h \in Savers, AnswerInPlace(h)
      PROVE  SettingsInv'
  <2> SUFFICES ASSUME ~rivals, ~cutShort
               PROVE  SettingsInv'
    BY <1>6 DEF AnswerInPlace
  <2>1. disk = merged[h] /\ saved = merged[h] /\ merged[h] \in Contents
    BY <1>6 DEF AnswerInPlace, SettingsTypeOK
  <2>2. kept' = IF which \in Kept THEN saved ELSE kept
    BY <1>6, <2>1, SettingsContents DEF AnswerInPlace
  <2>3. Parsed(disk)' = saved'
    BY <1>6, <2>1, ParsedContents DEF AnswerInPlace, Parsed
  <2>4. \A g \in Savers : saver'[g] = "idle"
    BY <1>6 DEF AnswerInPlace, Answer, SettingsTypeOK
  <2> QED
    BY <1>6, <2>2, <2>3, <2>4 DEF SettingsKept, AnswerInPlace
<1>7. CASE DieAndLoad
  <2> SUFFICES ASSUME ~rivals', ~cutShort'
               PROVE  SettingsInv'
    OBVIOUS
  <2>1. ~rivals /\ ~cutShort
    BY <1>7 DEF DieAndLoad, SettingsTypeOK
  <2>2. PICK h \in Savers : saver[h] # "idle"
    BY <1>7 DEF DieAndLoad
  <2>3. saver[h] \in {"merged", "open", "written"} /\ merged[h] \in Contents
    BY <2>2 DEF SettingsTypeOK
  <2>4. ~(InPlace /\ saver[h] = "open")
    BY <1>7 DEF DieAndLoad
  <2>5. Parsed(disk) = saved
    BY <2>1, <2>3, <2>4, ParsedContents
  <2>6. Parsed(disk)' = saved' /\ (which' \in Kept => kept' = saved')
    BY <1>7, <2>5 DEF DieAndLoad, Parsed
  <2>7. \A g \in Savers : saver'[g] = "idle"
    BY <1>7 DEF DieAndLoad
  <2> QED
    BY <2>6, <2>7 DEF SettingsKept
<1>8. CASE UNCHANGED settingsVars
  BY <1>8 DEF settingsVars, diskVars, saverVars, SettingsKept, InPlace, Parsed
<1>9. ASSUME NEW h \in Savers, SaveFails(h)
      PROVE  SettingsInv'
  <2> SUFFICES ASSUME ~rivals', ~cutShort'
               PROVE  SettingsInv'
    OBVIOUS
  <2>1. /\ ~rivals /\ ~cutShort /\ which \notin Kept
        /\ ~(InPlace /\ saver[h] = "open")
    BY <1>9 DEF SaveFails, SettingsTypeOK
  <2>2. Parsed(disk) = saved
    BY <1>9, <2>1 DEF SaveFails
  <2>3. \A g \in Savers : saver'[g] = "idle"
    BY <1>9, <2>1 DEF SaveFails, Answer, SettingsTypeOK
  <2>4. Parsed(disk)' = saved' /\ which' \notin Kept
    BY <1>9, <2>1, <2>2 DEF SaveFails, diskVars, Parsed
  <2> QED
    BY <2>3, <2>4 DEF SettingsKept
<1> QED
  BY <1>1, <1>2, <1>3, <1>4, <1>5, <1>6, <1>7, <1>8, <1>9 DEF SettingsNext

\* The file, the temporary file and what is merged are settings or no file.
THEOREM SettingsTypes == SettingsSpec => []SettingsTypeOK
BY SettingsAtFirst, SettingsTyped, PTL DEF SettingsSpec

\* Between two saves that did not overlap with others every field is as it was
\* last set by a save that did not fail, unless a write in place was cut short
\* or a save of the reader failed.
THEOREM SettingsKeptSafe == SettingsSpec => []SettingsKept
<1>1. SettingsTypeOK /\ OneSaver /\ SettingsInv /\ [SettingsNext]_settingsVars
        => SettingsTypeOK' /\ OneSaver' /\ SettingsInv'
  BY SettingsTyped, OneSaverKept, SettingsInvKept
<1>2. SettingsInv => SettingsKept
  BY DEF SettingsInv, SettingsKept
<1> QED
  BY SettingsAtFirst, <1>1, <1>2, PTL DEF SettingsSpec

-----------------------------------------------------------------------------
(* The capabilities *)

\* When no request is under way, the snapshot taken last is the registry,
\* whether its thread has written it yet or not.
SnapshotInv ==
  (\A r \in Askers : asking[r] = "idle") =>
    /\ \A w \in writers : w.n = nEmits => w.caps = status
    /\ onDisk = nEmits => manifest = status

\* The snapshots that emits up to the given one may have taken.
Snapshots(top) == [n : 1 .. top, caps : [Caps -> CapStatuses]]

\* What the plugins and the core register covers every capability.
LEMMA RegistryTyped ==
  /\ PluginsLoaded \in [Caps -> CapStatuses]
  /\ \A ok \in BOOLEAN : CoreRegistered(ok) \in [Caps -> CapStatuses]
<1>1. PluginsLoaded \in [Caps -> CapStatuses]
  BY DEF PluginsLoaded, StatusOf, CapStatuses
<1> QED
  BY <1>1 DEF CoreRegistered, CapStatuses

\* At first the registry holds what has been registered, and no request is
\* under way.
LEMMA CapabilitiesAtFirst ==
  CapabilitiesInit => CapabilitiesTypeOK /\ SnapshotInv
<1> SUFFICES ASSUME CapabilitiesInit
             PROVE  CapabilitiesTypeOK /\ SnapshotInv
  OBVIOUS
<1>1. /\ status \in [Caps -> CapStatuses]
      /\ PluginsLoaded \in [Caps -> CapStatuses]
  BY RegistryTyped DEF CapabilitiesInit
<1>2. manifest \in [Caps -> CapStatuses]
  BY DEF CapabilitiesInit, CapStatuses
<1>3. writers \subseteq Snapshots(nEmits)
  BY <1>1 DEF CapabilitiesInit, Snapshots
<1>4. /\ nEmits \in 0 .. MaxEmits /\ onDisk \in 0 .. nEmits
  BY CapabilitiesAssumption DEF CapabilitiesInit
<1>5. CapabilitiesTypeOK
  BY <1>1, <1>2, <1>3, <1>4
  DEF CapabilitiesInit, CapabilitiesTypeOK, Snapshots
<1>6. SnapshotInv
  <2>1. \A w \in writers : w.n = nEmits => w.caps = status
    BY DEF CapabilitiesInit
  <2>2. onDisk # nEmits
    BY DEF CapabilitiesInit
  <2> QED
    BY <2>1, <2>2 DEF SnapshotInv
<1> QED
  BY <1>5, <1>6

\* Whatever a request is told to set are capabilities, with a status.
LEMMA SettingTyped ==
  ASSUME NEW plugins, NEW s \in {"ready", "blocked"}
  PROVE  SettingTo(plugins, s)
           \in SUBSET (Nat \X Caps \X {"ready", "blocked"})
BY CapabilitiesAssumption DEF SettingTo, Caps, ProvidedCaps

\* A step keeps the types of the registry, its writers and its file.
LEMMA CapabilitiesTyped ==
  ASSUME CapabilitiesTypeOK, [CapabilitiesNext]_capVars
  PROVE  CapabilitiesTypeOK'
<1> DEFINE Sets == SUBSET (Nat \X Caps \X {"ready", "blocked"})
<1> USE DEF CapabilitiesTypeOK
<1>a. ASSUME NEW r \in Askers, NEW sets \in Sets, NEW withReader \in BOOLEAN,
             Asks(r, sets, withReader)
      PROVE  CapabilitiesTypeOK'
  BY <1>a DEF Asks
<1>1. ASSUME NEW r \in Askers, Probe(r) \/ AfterTransform(r)
                               \/ ReadCapabilities(r)
      PROVE  CapabilitiesTypeOK'
  <2>1. PICK sets \in Sets, withReader \in BOOLEAN : Asks(r, sets, withReader)
    BY <1>1, SettingTyped DEF Probe, AfterTransform, ReadCapabilities
  <2> QED
    BY <2>1, <1>a
<1>2. ASSUME NEW r \in Askers, Upsert(r)
      PROVE  CapabilitiesTypeOK'
  <2>1. PICK next \in upserts[r] :
          /\ status' = [status EXCEPT ![next[2]] = next[3]]
          /\ upserts' = [upserts EXCEPT ![r] = @ \ {next}]
    BY <1>2 DEF Upsert
  <2>2. upserts[r] \in Sets
    OBVIOUS
  <2>3. next[3] \in {"ready", "blocked"}
    BY <2>2
  <2>4. status' \in [Caps -> CapStatuses]
    BY <2>1, <2>3 DEF CapStatuses
  <2>5. upserts' \in [Askers -> Sets]
    BY <2>1, <2>2
  <2> QED
    BY <1>2, <2>4, <2>5 DEF Upsert
<1>3. ASSUME NEW r \in Askers, EmitManifest(r)
      PROVE  CapabilitiesTypeOK'
  <2>1. nEmits' \in 0 .. MaxEmits /\ onDisk' \in 0 .. nEmits'
    BY <1>3, CapabilitiesAssumption DEF EmitManifest, Emit
  <2>2. writers \subseteq Snapshots(nEmits + 1)
    BY DEF Snapshots
  <2>3. [n |-> nEmits + 1, caps |-> status] \in Snapshots(nEmits + 1)
    BY DEF Snapshots
  <2>4. writers' \subseteq Snapshots(nEmits')
    BY <1>3, <2>2, <2>3 DEF EmitManifest, Emit
  <2> QED
    BY <1>3, <2>1, <2>4 DEF EmitManifest, Snapshots
<1>4. ASSUME NEW r \in Askers, ReaderProbed(r)
      PROVE  CapabilitiesTypeOK'
  <2>1. PICK s \in {"ready", "blocked"} :
          upserts' = [upserts EXCEPT ![r] =
                        {<<i, ReaderCaps[i], s>> : i \in DOMAIN ReaderCaps}]
    BY <1>4 DEF ReaderProbed
  <2>2. {<<i, ReaderCaps[i], s>> : i \in DOMAIN ReaderCaps} \in Sets
    BY CapabilitiesAssumption DEF Caps
  <2>3. upserts' \in [Askers -> Sets]
    BY <2>1, <2>2
  <2> QED
    BY <1>4, <2>3 DEF ReaderProbed
<1>5. ASSUME NEW w \in writers, WriterEnds(w)
      PROVE  CapabilitiesTypeOK'
  <2>1. w \in Snapshots(nEmits)
    BY DEF Snapshots
  <2>2. w.caps \in [Caps -> CapStatuses] /\ w.n \in 0 .. nEmits
    BY <2>1 DEF Snapshots
  <2> QED
    BY <1>5, <2>2 DEF WriterEnds
<1>6. CASE UNCHANGED capVars
  BY <1>6 DEF capVars
<1> QED
  BY <1>1, <1>2, <1>3, <1>4, <1>5, <1>6 DEF CapabilitiesNext

\* The registry, the manifest and every snapshot give capabilities a status.
THEOREM CapabilitiesTypes == CapabilitiesSpec => []CapabilitiesTypeOK
BY CapabilitiesAtFirst, CapabilitiesTyped, PTL DEF CapabilitiesSpec

\* A step keeps the last snapshot equal to the registry: what changes the
\* registry takes one afterwards, under the request that is under way.
LEMMA SnapshotKept ==
  ASSUME CapabilitiesTypeOK, SnapshotInv, [CapabilitiesNext]_capVars
  PROVE  SnapshotInv'
<1> USE DEF SnapshotInv
<1>1. \A r \in Askers : asking \in [Askers -> {"idle", "setting", "probed"}]
  BY DEF CapabilitiesTypeOK
<1>2. ASSUME NEW r \in Askers, NEW sets, NEW withReader,
             Asks(r, sets, withReader)
      PROVE  SnapshotInv'
  <2>1. asking'[r] = "setting"
    BY <1>1, <1>2 DEF Asks
  <2> QED
    BY <2>1
<1>3. ASSUME NEW r \in Askers, Probe(r) \/ AfterTransform(r)
                               \/ ReadCapabilities(r)
      PROVE  SnapshotInv'
  BY <1>2, <1>3 DEF Probe, AfterTransform, ReadCapabilities
<1>4. ASSUME NEW r \in Askers, Upsert(r)
      PROVE  SnapshotInv'
  <2>1. asking'[r] = "setting"
    BY <1>4 DEF Upsert
  <2> QED
    BY <2>1
<1>5. ASSUME NEW r \in Askers, EmitManifest(r)
      PROVE  SnapshotInv'
  <2>1. \A w \in writers : w.n <= nEmits
    BY DEF CapabilitiesTypeOK
  <2>2. nEmits \in Nat /\ onDisk <= nEmits
    BY CapabilitiesAssumption DEF CapabilitiesTypeOK
  <2>3. \A w \in writers' :
          w.n = nEmits' => w = [n |-> nEmits + 1, caps |-> status]
    BY <1>5, <2>1, <2>2 DEF EmitManifest, Emit, CapabilitiesTypeOK
  <2>4. onDisk' # nEmits'
    BY <1>5, <2>2 DEF EmitManifest, Emit, CapabilitiesTypeOK
  <2>5. status' = status
    BY <1>5 DEF EmitManifest
  <2> QED
    BY <2>3, <2>4, <2>5
<1>6. ASSUME NEW r \in Askers, ReaderProbed(r)
      PROVE  SnapshotInv'
  <2>1. asking'[r] = "setting"
    BY <1>1, <1>6 DEF ReaderProbed
  <2> QED
    BY <2>1
<1>7. ASSUME NEW w \in writers, WriterEnds(w)
      PROVE  SnapshotInv'
  BY <1>7 DEF WriterEnds
<1>8. CASE UNCHANGED capVars
  BY <1>8 DEF capVars
<1> QED
  BY <1>3, <1>4, <1>5, <1>6, <1>7, <1>8 DEF CapabilitiesNext

\* Once no request is under way, the manifest that was taken and written last
\* is the registry.
THEOREM ManifestCurrentSafe == CapabilitiesSpec => []ManifestCurrent
<1>1. CapabilitiesTypeOK /\ SnapshotInv /\ [CapabilitiesNext]_capVars
        => CapabilitiesTypeOK' /\ SnapshotInv'
  BY CapabilitiesTyped, SnapshotKept
<1>2. SnapshotInv => ManifestCurrent
  BY DEF SnapshotInv, ManifestCurrent
<1> QED
  BY CapabilitiesAtFirst, <1>1, <1>2, PTL DEF CapabilitiesSpec

-----------------------------------------------------------------------------
(* The session token *)

\* No token is newer than the one of the server that runs, and what compares
\* the cookie with SESSION_TOKEN expects that one since it was handed out.
ServedInv ==
  /\ cookie <= Manager(boots)
  /\ cookie = Manager(boots) => sessionToken = Manager(boots)
  /\ \A c \in Calls :
       /\ arriving[c] <= Manager(boots)
       /\ call[c] = "arriving" /\ arriving[c] = Manager(boots)
            => sessionToken = Manager(boots)

\* A second attempt that nothing has disturbed goes with the right cookie: the
\* first one cleared the token kept, so that any other has been fetched since.
RetryInv ==
  \A c \in Calls :
    /\ retried[c] /\ ~disturbed[c] =>
         /\ cache # 0 \/ call[c] = "send" => cookie = Manager(boots)
         /\ call[c] # "denied"
    /\ call[c] = "refused" => disturbed[c]

\* The tokens are numbers, and those of a later server are larger.
LEMMA TokenFacts ==
  /\ 0 \in Tokens /\ Tokens \subseteq Nat
  /\ \A n \in 0 .. MaxRuns : Manager(n) \in Tokens
  /\ \A n \in 0 .. MaxRuns : n < MaxRuns =>
       /\ n + 1 \in 0 .. MaxRuns /\ Built(n + 1) \in Tokens
       /\ Manager(n) < Manager(n + 1)
BY SessionAssumption DEF Tokens, Manager, Built

\* The calls keep their types when the token they wait for has come or failed
\* to.
LEMMA SettleTyped ==
  ASSUME SessionTypeOK, NEW c \in Calls, NEW s \in {"ensure", "failed"},
         Settle(c, s)
  PROVE  /\ call' \in [Calls -> {"ensure", "fetching", "arriving", "waiting",
                                 "send", "granted", "denied"} \cup Ended]
         /\ awaits' \in [Calls -> Calls \cup {NoCall}]
         /\ retried' \in [Calls -> BOOLEAN]
         /\ arriving' \in [Calls -> Tokens]
BY TokenFacts DEF SessionTypeOK, Settle, Ended

\* A step keeps the types of the calls, the cookie and the tokens.
LEMMA SessionTyped ==
  ASSUME SessionTypeOK, [SessionNext]_sessionVars
  PROVE  SessionTypeOK'
<1> USE TokenFacts, SessionAssumption DEF SessionTypeOK, server, tokens, calls
<1>1. CASE Start
  BY <1>1 DEF Start
<1>2. CASE Exit
  BY <1>2 DEF Exit
<1>3. CASE Reload
  BY <1>3 DEF Reload, Ended
<1>4. ASSUME NEW c \in Calls, Begin(c)
      PROVE  SessionTypeOK'
  BY <1>4 DEF Begin
<1>5. ASSUME NEW c \in Calls, Ensure(c)
      PROVE  SessionTypeOK'
  BY <1>5 DEF Ensure, GoOn, Ended
<1>6. ASSUME NEW c \in Calls, ServeToken(c)
      PROVE  SessionTypeOK'
  BY <1>6 DEF ServeToken
<1>7. ASSUME NEW c \in Calls, TokenArrives(c)
      PROVE  SessionTypeOK'
  <2>1. arriving[c] \in Tokens /\ Settle(c, "ensure")
    BY <1>7 DEF TokenArrives
  <2>2. disturbed' \in [Calls -> BOOLEAN]
    BY <1>7 DEF TokenArrives
  <2> QED
    BY <1>7, <2>1, <2>2, SettleTyped DEF TokenArrives
<1>8. ASSUME NEW c \in Calls, FetchFails(c)
      PROVE  SessionTypeOK'
  BY <1>8, SettleTyped DEF FetchFails
<1>9. ASSUME NEW c \in Calls, Send(c)
      PROVE  SessionTypeOK'
  BY <1>9 DEF Send, GoOn, Ended
<1>10. ASSUME NEW c \in Calls, Denied(c)
       PROVE  SessionTypeOK'
  BY <1>10 DEF Denied, GoOn, Ended
<1>11. ASSUME NEW c \in Calls, Granted(c) \/ AnswerLost(c)
       PROVE  SessionTypeOK'
  BY <1>11 DEF Granted, AnswerLost, GoOn, Ended
<1>12. CASE UNCHANGED sessionVars
  BY <1>12 DEF sessionVars
<1> QED
  BY <1>1, <1>2, <1>3, <1>4, <1>5, <1>6, <1>7, <1>8, <1>9, <1>10, <1>11,
     <1>12 DEF SessionNext, Proceed

\* Before the first server runs no call is under way.
LEMMA SessionAtFirst ==
  SessionInit => SessionTypeOK /\ ServedInv /\ RetryInv
<1> SUFFICES ASSUME SessionInit
             PROVE  SessionTypeOK /\ ServedInv /\ RetryInv
  OBVIOUS
<1>1. SessionTypeOK
  <2>1. /\ boots \in 0 .. MaxRuns
        /\ {sessionToken, cookie, cache} \subseteq Tokens
    BY TokenFacts, SessionAssumption DEF SessionInit
  <2>2. /\ arriving \in [Calls -> Tokens]
        /\ awaits \in [Calls -> Calls \cup {NoCall}]
    BY TokenFacts DEF SessionInit
  <2> QED
    BY <2>1, <2>2 DEF SessionInit, SessionTypeOK, Ended
<1>2. ServedInv /\ RetryInv
  BY DEF SessionInit, ServedInv, RetryInv, Manager
<1> QED
  BY <1>1, <1>2

\* The tokens on both sides and the calls of the page are well formed.
THEOREM SessionTypes == SessionSpec => []SessionTypeOK
BY SessionAtFirst, SessionTyped, PTL DEF SessionSpec

\* A step keeps the tokens in order: only a restart makes a newer one, and
\* SESSION_TOKEN is set before it is handed out.
LEMMA ServedKept ==
  ASSUME SessionTypeOK, ServedInv, [SessionNext]_sessionVars
  PROVE  ServedInv'
<1> USE DEF ServedInv, server, tokens, calls
<1>0. /\ boots \in 0 .. MaxRuns /\ Manager(boots) \in Nat /\ cookie \in Nat
      /\ \A c \in Calls : arriving[c] \in Nat /\ arriving[c] \in Tokens
  BY TokenFacts DEF SessionTypeOK
<1>1. CASE Start
  <2>1. /\ boots' = boots + 1 /\ Manager(boots) < Manager(boots')
        /\ Manager(boots') \in Nat
    BY <1>0, <1>1, TokenFacts, SessionAssumption DEF Start
  <2> QED
    BY <1>0, <1>1, <2>1 DEF Start
<1>a. ASSUME boots' = boots PROVE Manager(boots') = Manager(boots)
  BY <1>a
<1>2. CASE Exit
  BY <1>2, <1>a DEF Exit
<1>3. CASE Reload
  <2>1. /\ boots' = boots
        /\ \A c \in Calls : arriving'[c] = 0 /\ call'[c] = "idle"
    BY <1>3 DEF Reload
  <2> QED
    BY <1>0, <1>3, <2>1, <1>a DEF Reload
<1>4. ASSUME NEW c \in Calls,
             Begin(c) \/ Ensure(c) \/ Send(c) \/ Denied(c) \/ Granted(c)
               \/ AnswerLost(c)
      PROVE  ServedInv'
  <2>1. /\ boots' = boots /\ cookie' = cookie /\ sessionToken' = sessionToken
        /\ arriving' = arriving
    BY <1>4 DEF Begin, Ensure, Send, Denied, Granted, AnswerLost, GoOn
  <2>2. \A d \in Calls : call'[d] = "arriving" => call[d] = "arriving"
    BY <1>4 DEF Begin, Ensure, Send, Denied, Granted, AnswerLost, GoOn,
                SessionTypeOK
  <2> QED
    BY <2>1, <2>2, <1>a
<1>5. ASSUME NEW c \in Calls, ServeToken(c)
      PROVE  ServedInv'
  <2>1. \A d \in Calls : arriving'[d] = IF d = c THEN Manager(boots)
                                        ELSE arriving[d]
    BY <1>5 DEF ServeToken, SessionTypeOK
  <2> QED
    BY <1>0, <1>5, <2>1, <1>a DEF ServeToken
<1>6. ASSUME NEW c \in Calls, NEW s \in {"ensure", "failed"}, Settle(c, s)
      PROVE  \A d \in Calls :
               /\ arriving'[d] = 0 \/ arriving'[d] = arriving[d]
               /\ call'[d] = "arriving" =>
                    call[d] = "arriving" /\ arriving'[d] = arriving[d]
  BY <1>6 DEF Settle, Holding, SessionTypeOK
<1>7. ASSUME NEW c \in Calls, TokenArrives(c)
      PROVE  ServedInv'
  <2>1. boots' = boots /\ sessionToken' = sessionToken
        /\ cookie' = arriving[c] /\ Settle(c, "ensure") /\ call[c] = "arriving"
    BY <1>7 DEF TokenArrives
  <2> QED
    BY <1>0, <2>1, <1>6, <1>a
<1>8. ASSUME NEW c \in Calls, FetchFails(c)
      PROVE  ServedInv'
  <2>1. boots' = boots /\ sessionToken' = sessionToken
        /\ cookie' = cookie /\ Settle(c, "failed")
    BY <1>8 DEF FetchFails
  <2> QED
    BY <1>0, <2>1, <1>6, <1>a
<1>9. CASE UNCHANGED sessionVars
  BY <1>9, <1>a DEF sessionVars
<1> QED
  BY <1>1, <1>2, <1>3, <1>4, <1>5, <1>7, <1>8, <1>9 DEF SessionNext, Proceed

\* A step keeps what a call that was refused once has behind it.
LEMMA RetryKept ==
  ASSUME SessionTypeOK, ServedInv, RetryInv, [SessionNext]_sessionVars
  PROVE  RetryInv'
<1> USE DEF RetryInv, server, tokens, calls
<1>a. ASSUME boots' = boots PROVE Manager(boots') = Manager(boots)
  BY <1>a
\* Only call c moves, and the server and the cookie stay as they are.
<1>b. ASSUME NEW c \in Calls, UNCHANGED <<server, cookie>>,
             cache' \in {0, cache},
             \A d \in Calls \ {c} : /\ call'[d] = call[d]
                                    /\ retried'[d] = retried[d]
                                    /\ disturbed'[d] = disturbed[d],
             retried'[c] /\ ~disturbed'[c] =>
               /\ cache' # 0 \/ call'[c] = "send" => cookie = Manager(boots)
               /\ call'[c] # "denied",
             call'[c] = "refused" => disturbed'[c]
      PROVE  RetryInv'
  <2>1. Manager(boots)' = Manager(boots)
    BY <1>b
  <2>2. ASSUME NEW d \in Calls
        PROVE /\ retried'[d] /\ ~disturbed'[d] =>
                   /\ cache' # 0 \/ call'[d] = "send" =>
                        cookie' = Manager(boots)
                   /\ call'[d] # "denied"
              /\ call'[d] = "refused" => disturbed'[d]
    <3>1. CASE d = c
      BY <1>b, <3>1
    <3>2. CASE d # c
      BY <1>b, <3>2
    <3> QED
      BY <3>1, <3>2
  <2> QED
    BY <2>1, <2>2
<1>1. CASE Start
  BY <1>1 DEF Start
<1>2. CASE Exit
  BY <1>2, <1>a DEF Exit
<1>3. CASE Reload
  BY <1>3 DEF Reload
<1>4. ASSUME NEW c \in Calls, Begin(c)
      PROVE  RetryInv'
  <2>1. /\ call'[c] = "ensure" /\ ~retried'[c]
        /\ \A d \in Calls \ {c} : /\ call'[d] = call[d]
                                  /\ retried'[d] = retried[d]
                                  /\ disturbed'[d] = disturbed[d]
    BY <1>4 DEF Begin, SessionTypeOK
  <2> QED
    BY <1>4, <2>1, <1>b DEF Begin
<1>5. ASSUME NEW c \in Calls, Ensure(c)
      PROVE  RetryInv'
  <2>1. /\ call'[c] \notin {"denied", "refused"}
        /\ call'[c] = "send" => cache # 0
        /\ \A d \in Calls \ {c} : call'[d] = call[d]
        /\ UNCHANGED <<server, cookie, cache, retried, disturbed>>
    BY <1>5 DEF Ensure, GoOn, SessionTypeOK
  <2> QED
    BY <2>1, <1>b
<1>6. ASSUME NEW c \in Calls, ServeToken(c)
      PROVE  RetryInv'
  <2>1. /\ call' = [call EXCEPT ![c] = "arriving"]
        /\ UNCHANGED <<boots, cookie, cache, retried, disturbed>>
    BY <1>6 DEF ServeToken
  <2> QED
    BY <2>1, <1>a DEF SessionTypeOK
<1>7. ASSUME NEW c \in Calls, TokenArrives(c)
      PROVE  RetryInv'
  <2>1. /\ UNCHANGED <<boots, retried>> /\ cookie' = arriving[c]
        /\ \A d \in Calls : call'[d] = call[d] \/ call'[d] = "ensure"
        /\ \A d \in Calls : ~disturbed'[d] =>
             ~disturbed[d] /\ arriving[c] = Manager(boots)
        /\ \A d \in Calls : disturbed[d] => disturbed'[d]
    BY <1>7 DEF TokenArrives, Settle, SessionTypeOK
  <2> QED
    BY <2>1, <1>a
<1>8. ASSUME NEW c \in Calls, FetchFails(c)
      PROVE  RetryInv'
  <2>1. /\ UNCHANGED <<boots, retried, cookie, cache, disturbed>>
        /\ \A d \in Calls : call'[d] = call[d] \/ call'[d] = "failed"
    BY <1>8 DEF FetchFails, Settle, SessionTypeOK
  <2> QED
    BY <2>1, <1>a
<1>9. ASSUME NEW c \in Calls, Send(c)
      PROVE  RetryInv'
  <2>1. /\ call[c] = "send" /\ call'[c] \in {"failed", "granted", "denied"}
        /\ call'[c] = "denied" => ~Authorised
        /\ \A d \in Calls \ {c} : call'[d] = call[d]
        /\ UNCHANGED <<server, cookie, cache, retried, disturbed>>
    BY <1>9 DEF Send, GoOn, SessionTypeOK
  <2>2. retried[c] /\ ~disturbed[c] => Authorised
    BY <2>1 DEF ServedInv, Authorised
  <2> QED
    BY <2>1, <2>2, <1>b
<1>10. ASSUME NEW c \in Calls, Denied(c)
       PROVE  RetryInv'
  <2>1. /\ call[c] = "denied" /\ UNCHANGED <<server, cookie, disturbed>>
        /\ \A d \in Calls \ {c} : call'[d] = call[d]
                                  /\ retried'[d] = retried[d]
        /\ \/ retried[c] /\ UNCHANGED <<cache, retried>>
           \/ call'[c] = "ensure" /\ cache' = 0
    BY <1>10 DEF Denied, GoOn, SessionTypeOK
  <2>2. retried[c] => call'[c] = "refused" /\ disturbed[c]
    BY <1>10 DEF Denied, GoOn, SessionTypeOK
  <2> QED
    BY <2>1, <2>2, <1>b
<1>11. ASSUME NEW c \in Calls, Granted(c) \/ AnswerLost(c)
       PROVE  RetryInv'
  <2>1. /\ call'[c] \in {"ok", "failed"}
        /\ \A d \in Calls \ {c} : call'[d] = call[d]
        /\ UNCHANGED <<server, cookie, cache, retried, disturbed>>
    BY <1>11 DEF Granted, AnswerLost, GoOn, SessionTypeOK
  <2> QED
    BY <2>1, <1>b
<1>12. CASE UNCHANGED sessionVars
  BY <1>12, <1>a DEF sessionVars
<1> QED
  BY <1>1, <1>2, <1>3, <1>4, <1>5, <1>6, <1>7, <1>8, <1>9, <1>10, <1>11,
     <1>12 DEF SessionNext, Proceed

\* The retry gets over every mismatch that is not due to another start of the
\* server.
THEOREM RefusedOnlyIfDisturbedSafe == SessionSpec => []RefusedOnlyIfDisturbed
<1>1. SessionTypeOK /\ ServedInv /\ RetryInv /\ [SessionNext]_sessionVars
        => SessionTypeOK' /\ ServedInv' /\ RetryInv'
  BY SessionTyped, ServedKept, RetryKept
<1>2. RetryInv => RefusedOnlyIfDisturbed
  BY DEF RetryInv, RefusedOnlyIfDisturbed
<1> QED
  BY SessionAtFirst, <1>1, <1>2, PTL DEF SessionSpec

-----------------------------------------------------------------------------
(* The Google account *)

\* The secret that lets the app act for the account.
Refresh == "oauth_refresh"

\* The operations that a request may still have to do.
Storing == {<<Set(Refresh, v)>> : v \in Values}

\* The lists of operations that remove the token.
Dropping == {<<Delete(Refresh)>>, <<Delete("client"), Delete(Refresh)>>}

\* What a handler may still have to do at the store.
OpLists == Storing \cup Dropping \cup {<<Set("client", 1)>>, <<>>}

\* A handler at the store has something to do, and nobody else has; one that
\* writes the temporary file has read the file, and has a change to save.
HandlerInv ==
  /\ ops \in [Handlers -> OpLists]
  /\ \A h \in Handlers :
       /\ ops[h] # <<>> <=> doing[h] = "store"
       /\ read[h] # <<>> => doing[h] = "store"
       /\ writing[h] # "none" => read[h] # <<>> /\ ~NothingToSave(h)

\* The refresh tokens that are, or have been, anywhere but on their way to the
\* store.
KnownValues ==
  {keyring[Refresh], store[Refresh]} \cup removed
    \cup {seen[h] : h \in Handlers}
    \cup {read[h][Refresh] : h \in {g \in Handlers : read[g] # <<>>}}

\* A token on its way to the store is new, and no other one.
FreshTokens ==
  /\ \A k \in KnownValues : k <= refreshes
  /\ \A h \in Handlers, v \in Values :
       ops[h] = <<Set(Refresh, v)>> =>
         /\ v # 0 /\ v <= refreshes /\ v \notin KnownValues
         /\ \A g \in Handlers : ops[g] = ops[h] => g = h

FreshInv == ~excused => FreshTokens

\* Unless something is excused one handler at most uses the temporary file,
\* and when it has written it, that is what it holds.
TempInv ==
  ~excused =>
    \A h \in Handlers : writing[h] # "none" =>
      /\ \A g \in Handlers : writing[g] # "none" => g = h
      /\ writing[h] \in {"temp", "written"}
      /\ writing[h] = "written" => temp = FileWith(read[h], Head(ops[h]))

\* Handler h has read the file, to delete the token, and either it has taken
\* the token out of the keyring or the file had none.
Dropped(h) ==
  /\ read[h] # <<>> /\ Head(ops[h]) = Delete(Refresh)
  /\ available \/ read[h][Refresh] = 0

\* Unless something is excused: the keyring that works is the only place of
\* secrets; a token is in use until it is deleted, and no more from then on;
\* while the token stored last is to be kept nobody deletes.
TokenInv ==
  /\ ~available => keyring = NoSecrets
  /\ ~excused =>
       /\ available =>
            /\ store = NoSecrets
            /\ \A h \in Handlers : read[h] # <<>> =>
                 read[h] = NoSecrets /\ Head(ops[h]).op = "delete"
       /\ \A h \in Handlers : Dropped(h) => Visible(Refresh) = 0
       /\ Visible(Refresh) \notin removed
       /\ latest # 0 =>
            /\ Visible(Refresh) = latest
            /\ \A h \in Handlers :
                 doing[h] # "revoke" /\ ops[h] \notin Dropping

\* Codes are sent for states that have been looked up, and are gone.
CodeInv == \A f \in Flows :
  posted[f] <= 1 /\ (posted[f] = 1 => flows[f] = "gone")

-----------------------------------------------------------------------------

\* The fields of an operation, and the secrets and values there are.
LEMMA OpFacts ==
  /\ \A s, v : Set(s, v).op = "set" /\ Set(s, v).secret = s
               /\ Set(s, v).value = v
  /\ \A s : Delete(s).op = "delete" /\ Delete(s).secret = s
            /\ Delete(s).value = 0
  /\ Refresh \in Secrets /\ "client" \in Secrets /\ Refresh # "client"
  /\ 0 \in Values /\ 1 \in Values
  /\ Values \subseteq Nat
  /\ NoSecrets \in [Secrets -> Values]
  /\ \A s \in Secrets : NoSecrets[s] = 0
BY GoogleAssumption DEF Set, Delete, Refresh, Secrets, Values, NoSecrets

\* What a list of operations starts with, and what is left after that.
LEMMA OpShapes ==
  ASSUME NEW list \in OpLists, list # <<>>
  PROVE  \/ \E v \in Values : /\ list = <<Set(Refresh, v)>>
                              /\ Head(list) = Set(Refresh, v)
                              /\ Tail(list) = <<>>
         \/ /\ list = <<Set("client", 1)>>
            /\ Head(list) = Set("client", 1) /\ Tail(list) = <<>>
         \/ /\ list = <<Delete(Refresh)>>
            /\ Head(list) = Delete(Refresh) /\ Tail(list) = <<>>
         \/ /\ list = <<Delete("client"), Delete(Refresh)>>
            /\ Head(list) = Delete("client")
            /\ Tail(list) = <<Delete(Refresh)>>
<1>1. \A x : Head(<<x>>) = x /\ Tail(<<x>>) = <<>>
  OBVIOUS
<1>2. \A x, y : Head(<<x, y>>) = x /\ Tail(<<x, y>>) = <<y>>
  OBVIOUS
<1>3. \/ \E v \in Values : list = <<Set(Refresh, v)>>
      \/ list = <<Set("client", 1)>>
      \/ list = <<Delete(Refresh)>>
      \/ list = <<Delete("client"), Delete(Refresh)>>
  BY DEF OpLists, Storing, Dropping
<1> QED
  BY <1>1, <1>2, <1>3

\* The lists of operations, told apart.
LEMMA OpListsDiffer ==
  /\ <<>> \in OpLists /\ <<Set("client", 1)>> \in OpLists
  /\ Dropping \subseteq OpLists
  /\ \A v \in Values : <<Set(Refresh, v)>> \in OpLists
  /\ <<Delete(Refresh)>> \in Dropping
  /\ <<Delete("client"), Delete(Refresh)>> \in Dropping
  /\ <<>> \notin Dropping /\ <<Set("client", 1)>> \notin Dropping
  /\ \A v : <<Set(Refresh, v)>> \notin Dropping
  /\ \A v : <<Set(Refresh, v)>> # <<>>
  /\ \A v : <<Set(Refresh, v)>> # <<Set("client", 1)>>
  /\ \A v, w : <<Set(Refresh, v)>> = <<Set(Refresh, w)>> => v = w
<1>1. /\ <<>> \in OpLists /\ <<Set("client", 1)>> \in OpLists
      /\ Dropping \subseteq OpLists
      /\ \A v \in Values : <<Set(Refresh, v)>> \in OpLists
      /\ <<Delete(Refresh)>> \in Dropping
      /\ <<Delete("client"), Delete(Refresh)>> \in Dropping
  BY DEF OpLists, Storing, Dropping
<1>2. <<>> \notin Dropping
  BY DEF Dropping
<1>3. \A x, y : <<x>> = <<y>> => x = y
  OBVIOUS
<1>4. \A x, y, z : <<x>> # <<y, z>> /\ <<x>> # <<>>
  OBVIOUS
<1>5. \A s, t, v : Set(s, v) # Delete(t)
  BY OpFacts
<1>6. \A s, v, t, w : Set(s, v) = Set(t, w) => s = t /\ v = w
  BY OpFacts
<1>7. \A s, v : <<Set(s, v)>> \notin Dropping
  BY <1>3, <1>4, <1>5 DEF Dropping
<1> QED
  BY <1>1, <1>2, <1>3, <1>4, <1>6, <1>7, OpFacts

\* Deleting, in terms of the lists.
LEMMA DeletingLists ==
  ASSUME HandlerInv, NEW h \in Handlers
  PROVE  Deleting(h) <=> \E g \in Handlers \ {h} :
                           doing[g] = "revoke" \/ ops[g] \in Dropping
<1>1. ASSUME NEW list \in OpLists
      PROVE  (\E i \in DOMAIN list : list[i] = Delete(Refresh))
               <=> list \in Dropping
  <2>1. CASE list = <<>>
    BY <2>1, OpListsDiffer
  <2>2. CASE list # <<>> /\ list \in Dropping
    BY <2>2 DEF Dropping
  <2>3. CASE list # <<>> /\ list \notin Dropping
    <3>1. PICK s, v : list = <<Set(s, v)>>
      BY <2>3 DEF OpLists, Storing
    <3>2. \A i \in DOMAIN list : list[i] = Set(s, v)
      BY <3>1
    <3> QED
      BY <2>3, <3>2, OpFacts
  <2> QED
    BY <2>1, <2>2, <2>3
<1>2. \A g \in Handlers : ops[g] \in OpLists
  BY DEF HandlerInv
<1> QED
  BY <1>1, <1>2 DEF Deleting, Refresh

\* The operation a handler is at, and what is left after it.
LEMMA HeadTyped ==
  ASSUME HandlerInv, NEW h \in Handlers, doing[h] = "store"
  PROVE  /\ ops[h] \in OpLists /\ ops[h] # <<>>
         /\ Head(ops[h]).secret \in Secrets
         /\ Head(ops[h]).value \in Values
         /\ Tail(ops[h]) \in OpLists
<1>1. ops[h] \in OpLists /\ ops[h] # <<>>
  BY DEF HandlerInv
<1>2. \/ \E v \in Values : Head(ops[h]) = Set(Refresh, v)
      \/ Head(ops[h]) = Set("client", 1)
      \/ Head(ops[h]) = Delete(Refresh)
      \/ Head(ops[h]) = Delete("client")
  BY <1>1, OpShapes
<1>3. Tail(ops[h]) = <<>> \/ Tail(ops[h]) = <<Delete(Refresh)>>
  BY <1>1, OpShapes
<1>4. Head(ops[h]).secret \in Secrets /\ Head(ops[h]).value \in Values
  BY <1>2, OpFacts
<1> QED
  BY <1>1, <1>3, <1>4, OpListsDiffer

\* A handler goes on with a shorter list and keeps the types.
LEMMA ContinueTyped ==
  ASSUME GoogleTypeOK, HandlerInv, NEW h \in Handlers, NEW rest \in OpLists,
         Continue(h, rest),
         \A g \in Handlers :
           writing'[g] # "none" => g # h /\ writing[g] # "none"
  PROVE  /\ HandlerInv'
         /\ doing' \in [Handlers -> {"idle", "exchange", "revoke", "store"}]
         /\ read' \in [Handlers -> [Secrets -> Values] \cup {<<>>}]
<1>1. ops' \in [Handlers -> OpLists]
  BY DEF HandlerInv, Continue
<1>2. doing' \in [Handlers -> {"idle", "exchange", "revoke", "store"}]
      /\ read' \in [Handlers -> [Secrets -> Values] \cup {<<>>}]
  BY DEF GoogleTypeOK, Continue
<1>3. ASSUME NEW g \in Handlers
      PROVE  /\ ops'[g] # <<>> <=> doing'[g] = "store"
             /\ read'[g] # <<>> => doing'[g] = "store"
             /\ writing'[g] # "none" => read'[g] # <<>> /\ ~NothingToSave(g)'
  <2>1. CASE g = h
    BY <2>1 DEF Continue, HandlerInv, GoogleTypeOK
  <2>2. CASE g # h
    BY <2>2 DEF Continue, HandlerInv, GoogleTypeOK, NothingToSave
  <2> QED
    BY <2>1, <2>2
<1> QED
  BY <1>1, <1>2, <1>3 DEF HandlerInv

\* The handlers do what they did, but for one that has no operations before
\* or after.
LEMMA AsideTyped ==
  ASSUME GoogleTypeOK, HandlerInv, NEW h \in Handlers, doing[h] # "store",
         NEW s \in {"idle", "exchange", "revoke"},
         doing' = [doing EXCEPT ![h] = s], UNCHANGED <<ops, read, writing>>
  PROVE  /\ HandlerInv'
         /\ doing' \in [Handlers -> {"idle", "exchange", "revoke", "store"}]
BY DEF HandlerInv, GoogleTypeOK, NothingToSave

\* A handler that has not read the file has nothing to do with the temporary
\* one.
LEMMA NotWriting ==
  ASSUME HandlerInv, NEW h \in Handlers,
         doing[h] # "store" \/ read[h] = <<>>
  PROVE  \A g \in Handlers : writing[g] # "none" => g # h
BY DEF HandlerInv

\* What a handler notes of an operation keeps the types.
LEMMA NoteTyped ==
  ASSUME GoogleTypeOK, HandlerInv, NEW h \in Handlers, doing[h] = "store",
         NEW lost \in BOOLEAN, Note(h, Head(ops[h]), lost)
  PROVE  /\ latest' \in Values /\ removed' \subseteq Values \ {0}
         /\ seen' \in [Handlers -> Values] /\ excused' \in BOOLEAN
<1>1. Head(ops[h]).value \in Values
  BY HeadTyped
<1>2. 0 \in Values
  BY OpFacts
<1> QED
  BY <1>1, <1>2 DEF Note, GoogleTypeOK, Deleting

\* A step keeps the types, and what the handlers have to do.
LEMMA GoogleTyped ==
  ASSUME GoogleTypeOK, HandlerInv, [GoogleNext]_googleVars
  PROVE  GoogleTypeOK' /\ HandlerInv'
<1> USE GoogleAssumption
<1> USE DEF secretVars, flowVars, handlerVars, history
<1>1. ASSUME NEW f \in Flows, Launch(f)
      PROVE  GoogleTypeOK' /\ HandlerInv'
  BY <1>1 DEF Launch, GoogleTypeOK, HandlerInv, NothingToSave
<1>2. ASSUME NEW f \in Flows, Expire(f)
      PROVE  GoogleTypeOK' /\ HandlerInv'
  BY <1>2 DEF Expire, GoogleTypeOK, HandlerInv, NothingToSave
<1>3. ASSUME NEW f \in Flows, NEW h \in Handlers, Callback(h, f)
      PROVE  GoogleTypeOK' /\ HandlerInv'
  <2>1. HandlerInv'
        /\ doing' \in [Handlers -> {"idle", "exchange", "revoke", "store"}]
    <3>1. CASE HasClient
      BY <1>3, <3>1, AsideTyped DEF Callback
    <3>2. CASE ~HasClient
      BY <1>3, <3>2 DEF Callback, HandlerInv, GoogleTypeOK, NothingToSave
    <3> QED
      BY <3>1, <3>2
  <2>2. flows' \in [Flows -> {"none", "pending", "gone"}]
    BY <1>3 DEF Callback, StateHolds, PopState, GoogleTypeOK
  <2>3. posted' \in [Flows -> Nat]
    <3>1. posted' = posted \/ posted' = [posted EXCEPT ![f] = @ + 1]
      BY <1>3 DEF Callback
    <3>2. posted \in [Flows -> Nat]
      BY DEF GoogleTypeOK
    <3>3. posted[f] + 1 \in Nat
      BY <3>2
    <3> QED
      BY <3>1, <3>2, <3>3
  <2> QED
    BY <1>3, <2>1, <2>2, <2>3 DEF Callback, GoogleTypeOK
<1>4. ASSUME NEW h \in Handlers, Exchanged(h)
      PROVE  GoogleTypeOK' /\ HandlerInv'
  <2>1. PICK rest \in OpLists : Continue(h, rest)
    <3>1. refreshes < MaxRefresh => refreshes + 1 \in Values
      BY DEF Values, GoogleTypeOK
    <3> QED
      BY <1>4, <3>1, OpListsDiffer DEF Exchanged, Refresh
  <2>2. refreshes' \in Values
    BY <1>4 DEF Exchanged, Values, GoogleTypeOK
  <2>3. \A g \in Handlers :
          writing'[g] # "none" => g # h /\ writing[g] # "none"
    BY <1>4, NotWriting DEF Exchanged
  <2> QED
    BY <1>4, <2>1, <2>2, <2>3, ContinueTyped DEF Exchanged, GoogleTypeOK
<1>5. ASSUME NEW h \in Handlers, RevokeRead(h)
      PROVE  GoogleTypeOK' /\ HandlerInv'
  <2>1. Visible(Refresh) \in Values /\ 0 \in Values
    BY OpFacts DEF Visible, GoogleTypeOK
  <2> QED
    BY <1>5, <2>1, AsideTyped DEF RevokeRead, GoogleTypeOK, Refresh
<1>6. ASSUME NEW h \in Handlers,
             RevokePosted(h) \/ PostSettings(h) \/ ClearSettings(h)
      PROVE  GoogleTypeOK' /\ HandlerInv'
  <2>1. PICK rest \in OpLists : Continue(h, rest)
    BY <1>6, OpListsDiffer
    DEF RevokePosted, PostSettings, ClearSettings, Refresh
  <2>2. /\ UNCHANGED <<secretVars, flowVars, seen, writing, posted, removed,
                       excused>>
        /\ latest' \in {0, latest} /\ doing[h] # "store"
    BY <1>6 DEF RevokePosted, PostSettings, ClearSettings
  <2>3. \A g \in Handlers :
          writing'[g] # "none" => g # h /\ writing[g] # "none"
    BY <2>2, NotWriting
  <2> QED
    BY <2>1, <2>2, <2>3, ContinueTyped, OpFacts DEF GoogleTypeOK
<1>7. ASSUME NEW h \in Handlers, SetKeyring(h)
      PROVE  GoogleTypeOK' /\ HandlerInv'
  <2>1. doing[h] = "store"
    BY <1>7 DEF SetKeyring
  <2>2. Continue(h, Tail(ops[h])) /\ Note(h, Head(ops[h]), FALSE)
    BY <1>7 DEF SetKeyring
  <2>3. keyring' \in [Secrets -> Values]
    BY <1>7, <2>1, HeadTyped DEF SetKeyring, GoogleTypeOK
  <2>4. UNCHANGED <<available, store, temp, flowVars, writing, posted>>
    BY <1>7 DEF SetKeyring
  <2>w. \A g \in Handlers :
          writing'[g] # "none" => g # h /\ writing[g] # "none"
    BY <1>7, NotWriting DEF SetKeyring
  <2>5. /\ HandlerInv'
        /\ doing' \in [Handlers -> {"idle", "exchange", "revoke", "store"}]
        /\ read' \in [Handlers -> [Secrets -> Values] \cup {<<>>}]
    BY <2>1, <2>2, <2>w, HeadTyped, ContinueTyped
  <2>6. /\ latest' \in Values /\ removed' \subseteq Values \ {0}
        /\ seen' \in [Handlers -> Values] /\ excused' \in BOOLEAN
    BY <2>1, <2>2, NoteTyped
  <2> QED
    BY <2>3, <2>4, <2>5, <2>6 DEF GoogleTypeOK
<1>8. ASSUME NEW h \in Handlers, ReadStore(h)
      PROVE  GoogleTypeOK' /\ HandlerInv'
  <2>1. doing[h] = "store" /\ Head(ops[h]).secret \in Secrets
    BY <1>8, HeadTyped DEF ReadStore
  <2>a. /\ keyring \in [Secrets -> Values] /\ 0 \in Values
        /\ {excused, available} \subseteq BOOLEAN
    BY OpFacts DEF GoogleTypeOK
  <2>2. keyring' \in [Secrets -> Values] /\ excused' \in BOOLEAN
    BY <1>8, <2>1, <2>a DEF ReadStore
  <2>3. read' \in [Handlers -> [Secrets -> Values] \cup {<<>>}]
    BY <1>8 DEF ReadStore, GoogleTypeOK
  <2>4. UNCHANGED <<available, store, temp, flowVars, doing, ops, seen,
                    writing, posted, removed, latest>>
    BY <1>8 DEF ReadStore
  <2>5. \A g \in Handlers : read'[g] # <<>> => g = h \/ read[g] # <<>>
    BY <1>8 DEF ReadStore, GoogleTypeOK
  <2>7. \A g \in Handlers : writing[g] # "none" => g # h
    BY <1>8, NotWriting DEF ReadStore
  <2>8. \A g \in Handlers : g # h => read'[g] = read[g]
    BY <1>8 DEF ReadStore, GoogleTypeOK
  <2>6. HandlerInv'
    BY <2>1, <2>4, <2>5, <2>7, <2>8 DEF HandlerInv, NothingToSave
  <2> QED
    BY <2>2, <2>3, <2>4, <2>6 DEF GoogleTypeOK
<1>f. ASSUME NEW h \in Handlers, writing[h] # "none"
      PROVE  /\ doing[h] = "store" /\ read[h] \in [Secrets -> Values]
             /\ FileWith(read[h], Head(ops[h])) \in [Secrets -> Values]
  <2>1. doing[h] = "store" /\ read[h] \in [Secrets -> Values]
    BY <1>f DEF HandlerInv, GoogleTypeOK
  <2> QED
    BY <2>1, HeadTyped DEF FileWith
<1>9. ASSUME NEW h \in Handlers, SkipStore(h)
      PROVE  GoogleTypeOK' /\ HandlerInv'
  <2>1. /\ doing[h] = "store" /\ Continue(h, Tail(ops[h]))
        /\ Note(h, Head(ops[h]), FALSE)
        /\ UNCHANGED <<secretVars, flowVars, writing, posted>>
    BY <1>9 DEF SkipStore
  <2>2. \A g \in Handlers :
          writing'[g] # "none" => g # h /\ writing[g] # "none"
    BY <1>9, <2>1 DEF SkipStore, HandlerInv
  <2> QED
    BY <2>1, <2>2, HeadTyped, ContinueTyped, NoteTyped DEF GoogleTypeOK
<1>o. ASSUME NEW h \in Handlers, OpenTemp(h)
      PROVE  GoogleTypeOK' /\ HandlerInv'
  <2>1. /\ read[h] # <<>> /\ ~NothingToSave(h)
        /\ temp' = NoSecrets
        /\ writing' = [writing EXCEPT ![h] = "temp"]
        /\ UNCHANGED <<available, keyring, store, flowVars, doing, ops, read,
                       seen, posted, removed, latest>>
    BY <1>o DEF OpenTemp
  <2>2. excused' \in BOOLEAN
    BY <1>o DEF OpenTemp, GoogleTypeOK
  <2> QED
    BY <2>1, <2>2, OpFacts DEF GoogleTypeOK, HandlerInv, NothingToSave
<1>i. ASSUME NEW h \in Handlers, FillTemp(h)
      PROVE  GoogleTypeOK' /\ HandlerInv'
  <2>1. writing[h] # "none"
        /\ writing' = [writing EXCEPT ![h] = "written"]
        /\ UNCHANGED <<available, keyring, flowVars, doing, ops, read, seen,
                       history>>
    BY <1>i DEF FillTemp
  <2>2. /\ temp' \in {temp, FileWith(read[h], Head(ops[h]))}
        /\ store' \in {store, FileWith(read[h], Head(ops[h]))}
    BY <1>i DEF FillTemp
  <2>3. HandlerInv'
    BY <2>1 DEF GoogleTypeOK, HandlerInv, NothingToSave
  <2> QED
    BY <2>1, <2>2, <2>3, <1>f DEF GoogleTypeOK
<1>p. ASSUME NEW h \in Handlers, ReplaceStore(h)
      PROVE  GoogleTypeOK' /\ HandlerInv'
  <2>1. /\ doing[h] = "store" /\ Continue(h, Tail(ops[h]))
        /\ UNCHANGED <<available, keyring, flowVars, posted>>
    BY <1>p, <1>f DEF ReplaceStore
  <2>2. PICK lost \in BOOLEAN : Note(h, Head(ops[h]), lost)
    BY <1>p DEF ReplaceStore
  <2>3. store' \in [Secrets -> Values] /\ temp' = <<>>
    BY <1>p DEF ReplaceStore, GoogleTypeOK
  <2>4. /\ writing' \in [Handlers ->
                           {"none", "temp", "store", "gone", "written"}]
        /\ \A g \in Handlers :
             writing'[g] # "none" => g # h /\ writing[g] # "none"
    BY <1>p DEF ReplaceStore, GoogleTypeOK
  <2> QED
    BY <2>1, <2>2, <2>3, <2>4, HeadTyped, ContinueTyped, NoteTyped
    DEF GoogleTypeOK
<1>10. ASSUME NEW h \in Handlers, StoreFails(h)
      PROVE  GoogleTypeOK' /\ HandlerInv'
  <2>1. doing[h] = "store" /\ excused' = TRUE
        /\ UNCHANGED <<secretVars, flowVars, seen, posted, removed, latest>>
    BY <1>10 DEF StoreFails
  <2>2. PICK rest \in OpLists : Continue(h, rest)
    BY <1>10, <2>1, HeadTyped, OpListsDiffer DEF StoreFails
  <2>3. /\ writing' = [writing EXCEPT ![h] = "none"]
        /\ \A g \in Handlers :
             writing'[g] # "none" => g # h /\ writing[g] # "none"
    BY <1>10 DEF StoreFails, GoogleTypeOK
  <2> QED
    BY <2>1, <2>2, <2>3, ContinueTyped DEF GoogleTypeOK
<1>11. ASSUME NEW other \in BOOLEAN, StartProcess(other)
       PROVE  GoogleTypeOK' /\ HandlerInv'
  <2>1. tokenFile' \in 1 .. MaxStarts
    BY <1>11 DEF StartProcess, GoogleTypeOK
  <2>2. CASE other
    BY <1>11, <2>1, <2>2 DEF StartProcess, GoogleTypeOK, HandlerInv,
                              NothingToSave
  <2>3. CASE ~other
    BY <1>11, <2>1, <2>3, OpListsDiffer, OpFacts
    DEF StartProcess, GoogleTypeOK, HandlerInv
  <2> QED
    BY <2>2, <2>3
<1>12. CASE UNCHANGED googleVars
  BY <1>12 DEF googleVars, GoogleTypeOK, HandlerInv, NothingToSave
<1> QED
  BY <1>1, <1>2, <1>3, <1>4, <1>5, <1>6, <1>7, <1>8, <1>9, <1>o, <1>i, <1>p,
     <1>10, <1>11, <1>12 DEF GoogleNext, HandleGoogle

\* At first no request is under way and no token is stored.
LEMMA GoogleAtFirst ==
  GoogleInit =>
    GoogleTypeOK /\ HandlerInv /\ TempInv /\ FreshInv /\ TokenInv
      /\ CodeInv
<1> SUFFICES ASSUME GoogleInit
             PROVE  GoogleTypeOK /\ HandlerInv /\ TempInv /\ FreshInv
                    /\ TokenInv /\ CodeInv
  OBVIOUS
<1>1. GoogleTypeOK
  <2>1. /\ refreshes \in Values /\ latest \in Values
        /\ tokenFile \in 1 .. MaxStarts
        /\ {keyring, store} \subseteq [Secrets -> Values]
    BY OpFacts, GoogleAssumption DEF GoogleInit
  <2>2. /\ signed \in [Flows -> 0 .. MaxStarts]
        /\ seen \in [Handlers -> Values]
        /\ posted \in [Flows -> Nat]
    BY OpFacts, GoogleAssumption DEF GoogleInit
  <2>3. /\ flows \in [Flows -> {"none", "pending", "gone"}]
        /\ doing \in [Handlers -> {"idle", "exchange", "revoke", "store"}]
        /\ read \in [Handlers -> [Secrets -> Values] \cup {<<>>}]
    BY DEF GoogleInit
  <2> QED
    BY <2>1, <2>2, <2>3 DEF GoogleInit, GoogleTypeOK
<1>2. HandlerInv
  BY OpListsDiffer DEF GoogleInit, HandlerInv
<1>3. KnownValues \subseteq {0}
  BY OpFacts DEF GoogleInit, KnownValues
<1>4. FreshInv
  BY <1>3, OpListsDiffer, GoogleAssumption
  DEF GoogleInit, FreshInv, FreshTokens
<1>t. TempInv
  BY DEF GoogleInit, TempInv
<1>5. TokenInv
  BY OpFacts DEF GoogleInit, TokenInv, Dropped, Visible
<1>6. CodeInv
  BY DEF GoogleInit, CodeInv
<1> QED
  BY <1>1, <1>2, <1>t, <1>4, <1>5, <1>6

\* The flows, the requests and the two places of a secret are well formed.
THEOREM GoogleTypes == GoogleSpec => []GoogleTypeOK
<1>1. GoogleTypeOK /\ HandlerInv /\ [GoogleNext]_googleVars
        => GoogleTypeOK' /\ HandlerInv'
  BY GoogleTyped
<1> QED
  BY GoogleAtFirst, <1>1, PTL DEF GoogleSpec

\* A step sends a code only for the request that has consumed the state of
\* its flow.
LEMMA CodeKept ==
  ASSUME GoogleTypeOK, CodeInv, [GoogleNext]_googleVars
  PROVE  CodeInv'
<1> USE DEF CodeInv, secretVars, flowVars, handlerVars, history
<1>1. ASSUME NEW f \in Flows, Launch(f) \/ Expire(f)
      PROVE  CodeInv'
  BY <1>1 DEF Launch, Expire, GoogleTypeOK
<1>2. ASSUME NEW f \in Flows, NEW h \in Handlers, Callback(h, f)
      PROVE  CodeInv'
  <2>1. flows[f] = "pending" /\ flows' = [flows EXCEPT ![f] = "gone"]
        /\ (posted' = [posted EXCEPT ![f] = @ + 1] \/ posted' = posted)
    BY <1>2 DEF Callback, StateHolds, PopState
  <2>2. posted[f] = 0
    BY <2>1 DEF GoogleTypeOK
  <2> QED
    BY <2>1, <2>2 DEF GoogleTypeOK
<1>3. ASSUME NEW h \in Handlers, HandleGoogle(h)
      PROVE  CodeInv'
  BY <1>3 DEF HandleGoogle, Exchanged, RevokeRead, RevokePosted, PostSettings,
              ClearSettings, SetKeyring, ReadStore, SkipStore, OpenTemp,
              FillTemp, ReplaceStore, StoreFails
<1>4. ASSUME NEW other \in BOOLEAN, StartProcess(other)
      PROVE  CodeInv'
  BY <1>4 DEF StartProcess
<1>5. CASE UNCHANGED googleVars
  BY <1>5 DEF googleVars
<1> QED
  BY <1>1, <1>2, <1>3, <1>4, <1>5 DEF GoogleNext

\* The code of a flow is sent to Google at most once.
THEOREM CodeExchangedOnceSafe == GoogleSpec => []CodeExchangedOnce
<1>1. GoogleTypeOK /\ HandlerInv /\ CodeInv /\ [GoogleNext]_googleVars
        => GoogleTypeOK' /\ HandlerInv' /\ CodeInv'
  BY GoogleTyped, CodeKept
<1>2. CodeInv => CodeExchangedOnce
  BY DEF CodeInv, CodeExchangedOnce
<1> QED
  BY GoogleAtFirst, <1>1, <1>2, PTL DEF GoogleSpec
-----------------------------------------------------------------------------
(* Tokens on their way to the store *)

\* What is known of the token, part by part.
LEMMA KnownHas ==
  /\ keyring[Refresh] \in KnownValues /\ store[Refresh] \in KnownValues
  /\ removed \subseteq KnownValues
  /\ \A g \in Handlers : seen[g] \in KnownValues
  /\ \A g \in Handlers : read[g] # <<>> => read[g][Refresh] \in KnownValues
BY DEF KnownValues

\* What is known after a step, from what is known part by part.
LEMMA KnownFrom ==
  ASSUME NEW new,
         keyring'[Refresh] \in KnownValues \cup new,
         store'[Refresh] \in KnownValues \cup new,
         removed' \subseteq KnownValues \cup new,
         \A g \in Handlers : seen'[g] \in KnownValues \cup new,
         \A g \in Handlers :
           read'[g] # <<>> => read'[g][Refresh] \in KnownValues \cup new
  PROVE  KnownValues' \subseteq KnownValues \cup new
BY DEF KnownValues

\* Nobody sets out to store another token, and the one that h stored, if any,
\* becomes known.
LEMMA FreshFrame ==
  ASSUME GoogleTypeOK, FreshTokens, refreshes' = refreshes,
         NEW h \in Handlers, NEW new,
         \A v \in new :
           v = 0 \/ (v \in Values /\ ops[h] = <<Set(Refresh, v)>>),
         ops'[h] = ops[h] => new \subseteq {0},
         KnownValues' \subseteq KnownValues \cup new,
         \A g \in Handlers : ops'[g] = ops[g]
                             \/ (g = h /\ ops'[g] \notin Storing)
  PROVE  FreshTokens'
<1>1. refreshes \in Nat
  BY OpFacts DEF GoogleTypeOK
<1>2. \A k \in KnownValues' : k <= refreshes
  BY <1>1 DEF FreshTokens
<1>3. ASSUME NEW g \in Handlers, NEW v \in Values,
             ops'[g] = <<Set(Refresh, v)>>
      PROVE  /\ v # 0 /\ v <= refreshes /\ v \notin KnownValues'
             /\ \A k \in Handlers : ops'[k] = ops'[g] => k = g
  <2>1. ops'[g] \in Storing
    BY <1>3 DEF Storing
  <2>2. ops[g] = <<Set(Refresh, v)>>
    BY <1>3, <2>1
  <2>3. v # 0 /\ v <= refreshes /\ v \notin KnownValues
        /\ \A k \in Handlers : ops[k] = ops[g] => k = g
    BY <2>2 DEF FreshTokens
  <2>4. v \notin new
    <3> SUFFICES ASSUME v \in new PROVE FALSE
      OBVIOUS
    <3>1. ops[h] = <<Set(Refresh, v)>>
      BY <2>3
    <3>2. h = g
      BY <3>1, <2>2, <2>3
    <3> QED
      BY <3>1, <3>2, <1>3, <2>3
  <2>5. \A k \in Handlers : ops'[k] = ops'[g] => ops[k] = ops[g]
    BY <2>1, <2>2, <1>3
  <2> QED
    BY <2>3, <2>4, <2>5
<1> QED
  BY <1>2, <1>3 DEF FreshTokens

\* The same when nothing new becomes known.
LEMMA FreshQuiet ==
  ASSUME GoogleTypeOK, FreshTokens, refreshes' = refreshes,
         NEW h \in Handlers,
         KnownValues' \subseteq KnownValues \cup {0},
         \A g \in Handlers : ops'[g] = ops[g]
                             \/ (g = h /\ ops'[g] \notin Storing)
  PROVE  FreshTokens'
<1> DEFINE new == {0}
<1>1. /\ \A v \in new : v = 0
      /\ new \subseteq {0}
      /\ KnownValues' \subseteq KnownValues \cup new
  OBVIOUS
<1> HIDE DEF new
<1> QED
  BY <1>1, FreshFrame

\* The lists that store a token, told apart from the others.
LEMMA StoringFacts ==
  /\ <<>> \notin Storing /\ <<Set("client", 1)>> \notin Storing
  /\ \A list \in Dropping : list \notin Storing
  /\ \A v \in Values : <<Set(Refresh, v)>> \in Storing
BY OpListsDiffer DEF Storing

\* What has been excused stays so.
LEMMA ExcusedStays ==
  ASSUME [GoogleNext]_googleVars, excused
  PROVE  excused'
<1> USE DEF history
<1>1. ASSUME NEW f \in Flows, NEW h \in Handlers,
             Launch(f) \/ Expire(f) \/ Callback(h, f)
      PROVE  excused'
  BY <1>1 DEF Launch, Expire, Callback
<1>0. ASSUME NEW f \in Flows, Launch(f) \/ Expire(f)
      PROVE  excused'
  BY <1>0 DEF Launch, Expire
<1>2. ASSUME NEW h \in Handlers, HandleGoogle(h)
      PROVE  excused'
  BY <1>2 DEF HandleGoogle, Exchanged, RevokeRead, RevokePosted, PostSettings,
              ClearSettings, SetKeyring, ReadStore, SkipStore, OpenTemp,
              FillTemp, ReplaceStore, StoreFails, Note
<1>3. ASSUME NEW other \in BOOLEAN, StartProcess(other)
      PROVE  excused'
  BY <1>3 DEF StartProcess
<1>4. CASE UNCHANGED googleVars
  BY <1>4 DEF googleVars
<1> QED
  BY <1>0, <1>1, <1>2, <1>3, <1>4 DEF GoogleNext

\* A step keeps the temporary file to one handler, or is excused.
LEMMA TempKept ==
  ASSUME GoogleTypeOK, HandlerInv, TempInv, [GoogleNext]_googleVars
  PROVE  TempInv'
<1> SUFFICES ASSUME ~excused'
             PROVE  TempInv'
  BY DEF TempInv
<1>x. ~excused
  BY ExcusedStays
<1>a. ASSUME NEW h \in Handlers, NEW rest, Continue(h, rest),
             \A g \in Handlers : writing'[g] = IF g = h THEN "none"
                                                ELSE writing[g],
             \A g \in Handlers : g # h /\ writing[g] = "written" =>
                                    temp' = temp
      PROVE  TempInv'
  <2>1. \A g \in Handlers : g # h => ops'[g] = ops[g] /\ read'[g] = read[g]
    BY <1>a DEF Continue, HandlerInv, GoogleTypeOK
  <2> QED
    BY <1>a, <1>x, <2>1 DEF TempInv
<1>b. ASSUME NEW h \in Handlers, doing[h] # "store" \/ read[h] = <<>>,
             NEW rest, Continue(h, rest), UNCHANGED <<temp, writing>>
      PROVE  TempInv'
  <2>1. writing[h] = "none"
    BY <1>b DEF HandlerInv
  <2> QED
    BY <1>a, <1>b, <2>1
<1>c. ASSUME UNCHANGED <<temp, ops, read, writing>>
      PROVE  TempInv'
  BY <1>c, <1>x DEF TempInv
<1> USE DEF secretVars, flowVars, handlerVars
<1>1. ASSUME NEW f \in Flows, Launch(f) \/ Expire(f)
      PROVE  TempInv'
  BY <1>1, <1>c DEF Launch, Expire
<1>2. ASSUME NEW f \in Flows, NEW h \in Handlers, Callback(h, f)
      PROVE  TempInv'
  BY <1>2, <1>c DEF Callback
<1>3. ASSUME NEW h \in Handlers, Exchanged(h)
      PROVE  TempInv'
  <2>1. /\ doing[h] = "exchange" /\ UNCHANGED <<temp, writing>>
        /\ \E rest : Continue(h, rest)
    BY <1>3 DEF Exchanged
  <2> QED
    BY <2>1, <1>b
<1>4. ASSUME NEW h \in Handlers, RevokeRead(h)
      PROVE  TempInv'
  BY <1>4, <1>c DEF RevokeRead
<1>5. ASSUME NEW h \in Handlers,
             RevokePosted(h) \/ PostSettings(h) \/ ClearSettings(h)
      PROVE  TempInv'
  <2>1. /\ doing[h] # "store" /\ UNCHANGED <<temp, writing>>
        /\ \E rest : Continue(h, rest)
    BY <1>5 DEF RevokePosted, PostSettings, ClearSettings
  <2> QED
    BY <2>1, <1>b
<1>6. ASSUME NEW h \in Handlers, SetKeyring(h)
      PROVE  TempInv'
  <2>1. /\ read[h] = <<>> /\ UNCHANGED <<temp, writing>>
        /\ Continue(h, Tail(ops[h]))
    BY <1>6 DEF SetKeyring
  <2> QED
    BY <2>1, <1>b
<1>7. ASSUME NEW h \in Handlers, ReadStore(h)
      PROVE  TempInv'
  <2>1. /\ UNCHANGED <<temp, writing, ops>> /\ read[h] = <<>>
        /\ \A g \in Handlers : g # h => read'[g] = read[g]
    BY <1>7 DEF ReadStore, GoogleTypeOK
  <2>2. writing[h] = "none"
    BY <2>1 DEF HandlerInv
  <2> QED
    BY <2>1, <2>2, <1>x DEF TempInv
<1>8. ASSUME NEW h \in Handlers, SkipStore(h)
      PROVE  TempInv'
  <2>1. /\ UNCHANGED <<temp, writing>> /\ Continue(h, Tail(ops[h]))
        /\ NothingToSave(h)
    BY <1>8 DEF SkipStore
  <2>2. writing[h] = "none"
    BY <2>1 DEF HandlerInv
  <2> QED
    BY <2>1, <2>2, <1>a
<1>9. ASSUME NEW h \in Handlers, OpenTemp(h)
      PROVE  TempInv'
  <2>1. /\ UNCHANGED <<ops, read>>
        /\ writing' = [writing EXCEPT ![h] = "temp"]
        /\ \A g \in Handlers \ {h} : writing[g] = "none"
    BY <1>9 DEF OpenTemp
  <2>2. \A g \in Handlers :
          writing'[g] = IF g = h THEN "temp" ELSE "none"
    BY <2>1 DEF GoogleTypeOK
  <2> QED
    BY <2>2 DEF TempInv
<1>10. ASSUME NEW h \in Handlers, FillTemp(h)
       PROVE  TempInv'
  <2>1. /\ writing[h] = "temp"
        /\ \A g \in Handlers : writing[g] # "none" => g = h
    BY <1>10, <1>x DEF FillTemp, TempInv
  <2>2. /\ UNCHANGED <<ops, read>>
        /\ temp' = FileWith(read[h], Head(ops[h]))
        /\ writing' = [writing EXCEPT ![h] = "written"]
    BY <1>10, <2>1 DEF FillTemp
  <2>3. \A g \in Handlers :
          writing'[g] = IF g = h THEN "written" ELSE "none"
    BY <2>1, <2>2 DEF GoogleTypeOK
  <2> QED
    BY <2>2, <2>3 DEF TempInv, FileWith
<1>11. ASSUME NEW h \in Handlers, ReplaceStore(h)
       PROVE  TempInv'
  <2>1. writing[h] = "written" /\ Continue(h, Tail(ops[h]))
    BY <1>11 DEF ReplaceStore
  <2>2. \A g \in Handlers : g # h => writing[g] = "none"
    BY <2>1, <1>x DEF TempInv
  <2>3. \A g \in Handlers : writing'[g] = "none"
    BY <1>11, <2>2 DEF ReplaceStore
  <2> QED
    BY <2>3 DEF TempInv
<1>12. ASSUME NEW h \in Handlers, StoreFails(h)
       PROVE  TempInv'
  BY <1>12 DEF StoreFails
<1>13. ASSUME NEW other \in BOOLEAN, StartProcess(other)
       PROVE  TempInv'
  <2>1. CASE other
    BY <1>13, <2>1, <1>c DEF StartProcess
  <2>2. CASE ~other
    BY <1>13, <2>2 DEF StartProcess, TempInv
  <2> QED
    BY <2>1, <2>2
<1>14. CASE UNCHANGED googleVars
  BY <1>14, <1>c DEF googleVars
<1> QED
  BY <1>1, <1>2, <1>3, <1>4, <1>5, <1>6, <1>7, <1>8, <1>9, <1>10, <1>11,
     <1>12, <1>13, <1>14 DEF GoogleNext, HandleGoogle

\* A step keeps a token new until it is stored.
LEMMA FreshKept ==
  ASSUME GoogleTypeOK, HandlerInv, TempInv, FreshInv,
         [GoogleNext]_googleVars
  PROVE  FreshInv'
<1> SUFFICES ASSUME ~excused'
             PROVE  FreshTokens'
  BY DEF FreshInv
<1>x. ~excused
  BY ExcusedStays
<1>y. FreshTokens
  BY <1>x DEF FreshInv
<1> USE <1>y DEF secretVars, flowVars, handlerVars, history
<1>a. refreshes \in Nat
  BY OpFacts DEF GoogleTypeOK
<1>b. ASSUME UNCHANGED <<secretVars, refreshes, handlerVars, removed>>
      PROVE  FreshTokens'
  <2>1. KnownValues' = KnownValues
    BY <1>b DEF KnownValues
  <2> QED
    BY <1>b, <2>1 DEF FreshTokens
<1>c. ASSUME NEW h \in Handlers, NEW rest \in OpLists \ Storing,
             Continue(h, rest),
             UNCHANGED <<secretVars, refreshes, seen, removed>>
      PROVE  FreshTokens'
  <2>1. KnownValues' \subseteq KnownValues \cup {0}
    <3>1. \A g \in Handlers : read'[g] # <<>> => read'[g] = read[g]
      BY <1>c DEF Continue, GoogleTypeOK
    <3> QED
      BY <1>c, <3>1, KnownHas, KnownFrom
  <2>2. \A g \in Handlers :
          ops'[g] = ops[g] \/ (g = h /\ ops'[g] \notin Storing)
    BY <1>c DEF Continue, HandlerInv
  <2> QED
    BY <1>c, <2>1, <2>2, FreshQuiet
<1>1. ASSUME NEW f \in Flows, Launch(f) \/ Expire(f)
      PROVE  FreshTokens'
  BY <1>1, <1>b DEF Launch, Expire
<1>2. ASSUME NEW f \in Flows, NEW h \in Handlers, Callback(h, f)
      PROVE  FreshTokens'
  <2>1. KnownValues' = KnownValues
    BY <1>2 DEF KnownValues, Callback
  <2> QED
    BY <1>2, <2>1 DEF FreshTokens, Callback
<1>3. ASSUME NEW h \in Handlers, Exchanged(h)
      PROVE  FreshTokens'
  <2>1. CASE Continue(h, <<>>) /\ UNCHANGED refreshes
    <3>1. <<>> \in OpLists \ Storing
      BY OpListsDiffer, StoringFacts
    <3>2. UNCHANGED <<secretVars, refreshes, seen, removed>>
      BY <1>3, <2>1 DEF Exchanged
    <3> QED
      BY <2>1, <3>1, <3>2, <1>c
  <2>2. CASE /\ refreshes < MaxRefresh /\ refreshes' = refreshes + 1
             /\ Continue(h, <<Set("oauth_refresh", refreshes + 1)>>)
    <3>1. UNCHANGED <<secretVars, seen, removed>>
      BY <1>3 DEF Exchanged
    <3>2. \A g \in Handlers : read'[g] # <<>> => read'[g] = read[g]
      BY <2>2 DEF Continue, GoogleTypeOK
    <3>3. KnownValues' \subseteq KnownValues \cup {0}
      BY <3>1, <3>2, KnownHas, KnownFrom
    <3>4. /\ ops'[h] = <<Set(Refresh, refreshes + 1)>>
          /\ \A g \in Handlers : g # h => ops'[g] = ops[g]
      BY <2>2 DEF Continue, HandlerInv, Refresh
    <3>5. \A k \in KnownValues : k <= refreshes
      BY DEF FreshTokens
    <3>6. KnownValues \subseteq Nat
      <4>1. \A g \in Handlers : read[g] # <<>> => read[g][Refresh] \in Values
        BY OpFacts DEF GoogleTypeOK
      <4>2. /\ {keyring[Refresh], store[Refresh]} \subseteq Values
            /\ removed \subseteq Values
            /\ \A g \in Handlers : seen[g] \in Values
        BY OpFacts DEF GoogleTypeOK
      <4>3. KnownValues \subseteq Values
        BY <4>1, <4>2 DEF KnownValues
      <4> QED
        BY <4>3, OpFacts
    <3>7. \A k \in KnownValues' : k <= refreshes' /\ k # refreshes + 1
      BY <2>2, <3>3, <3>5, <3>6, <1>a
    <3>8. ASSUME NEW g \in Handlers, NEW v \in Values,
                 ops'[g] = <<Set(Refresh, v)>>
          PROVE  /\ v # 0 /\ v <= refreshes' /\ v \notin KnownValues'
                 /\ \A k \in Handlers : ops'[k] = ops'[g] => k = g
      <4>1. \A k \in Handlers, w \in Values :
              k # h /\ ops'[k] = <<Set(Refresh, w)>> => w <= refreshes
        BY <3>4 DEF FreshTokens
      <4>2. CASE g = h
        <5>1. v = refreshes + 1
          BY <4>2, <3>4, <3>8, OpListsDiffer
        <5> QED
          BY <5>1, <4>1, <4>2, <3>7, <3>8, <2>2, <1>a
      <4>3. CASE g # h
        <5>1. v # 0 /\ v <= refreshes /\ v \notin KnownValues
              /\ \A k \in Handlers : ops[k] = ops[g] => k = g
          BY <4>3, <3>4, <3>8 DEF FreshTokens
        <5>2. v # refreshes + 1 /\ v <= refreshes'
          BY <5>1, <2>2, <1>a, OpFacts
        <5>3. ops'[h] # ops'[g]
          BY <5>2, <3>4, <3>8, OpListsDiffer
        <5> QED
          BY <5>1, <5>2, <5>3, <3>3, <3>4, <4>3
      <4> QED
        BY <4>2, <4>3
    <3> QED
      BY <3>7, <3>8 DEF FreshTokens
  <2> QED
    BY <1>3, <2>1, <2>2 DEF Exchanged
<1>4. ASSUME NEW h \in Handlers, RevokeRead(h)
      PROVE  FreshTokens'
  <2>1. Visible(Refresh) \in KnownValues
    BY KnownHas DEF Visible
  <2>2. seen' = [seen EXCEPT ![h] = Visible(Refresh)]
        /\ UNCHANGED <<secretVars, refreshes, ops, read, removed>>
    BY <1>4 DEF RevokeRead, Refresh
  <2>3. \A g \in Handlers : seen'[g] \in KnownValues
    BY <2>1, <2>2, KnownHas DEF GoogleTypeOK
  <2>4. KnownValues' \subseteq KnownValues \cup {0}
    BY <2>2, <2>3, KnownHas, KnownFrom
  <2> QED
    BY <1>4, <2>2, <2>4, FreshQuiet
<1>5. ASSUME NEW h \in Handlers,
             RevokePosted(h) \/ PostSettings(h) \/ ClearSettings(h)
      PROVE  FreshTokens'
  <2>1. PICK rest \in OpLists \ Storing : Continue(h, rest)
    BY <1>5, OpListsDiffer, StoringFacts
    DEF RevokePosted, PostSettings, ClearSettings, Refresh
  <2>2. UNCHANGED <<secretVars, refreshes, seen, removed>>
    BY <1>5 DEF RevokePosted, PostSettings, ClearSettings
  <2> QED
    BY <2>1, <2>2, <1>c
\* An operation is done, and o.value is what it has put into the keyring or
\* the file.
<1>d. ASSUME NEW h \in Handlers, doing[h] = "store",
             NEW lost, Note(h, Head(ops[h]), lost),
             Continue(h, Tail(ops[h])), refreshes' = refreshes,
             NEW o, o = Head(ops[h]),
             \A s \in {keyring', store'} :
               s[Refresh] \in KnownValues \cup {0}
                 \cup {v \in {o.value} : o = Set(Refresh, v)}
      PROVE  FreshTokens'
  <2> DEFINE new == {0} \cup {v \in {o.value} : o = Set(Refresh, v)}
  <2>1. \A g \in Handlers : read'[g] # <<>> => read'[g] = read[g]
    BY <1>d DEF Continue, GoogleTypeOK
  <2>2. \A g \in Handlers : seen'[g] \in KnownValues \cup new
    BY <1>d, KnownHas DEF Note, GoogleTypeOK
  <2>3. removed' \subseteq KnownValues \cup new
    BY <1>d, KnownHas DEF Note
  <2>4. /\ keyring'[Refresh] \in KnownValues \cup new
        /\ store'[Refresh] \in KnownValues \cup new
    BY <1>d
  <2>5. \A g \in Handlers :
          read'[g] # <<>> => read'[g][Refresh] \in KnownValues \cup new
    BY <2>1, KnownHas
  <2>6. KnownValues' \subseteq KnownValues \cup new
    <3> HIDE DEF new
    <3> QED
      BY <2>2, <2>3, <2>4, <2>5, KnownFrom
  <2>7. ops'[h] = Tail(ops[h])
        /\ \A g \in Handlers : g # h => ops'[g] = ops[g]
    BY <1>d DEF Continue, HandlerInv
  <2>8. ops[h] \in OpLists /\ ops[h] # <<>>
    BY <1>d, HeadTyped
  <2>9. /\ Tail(ops[h]) \notin Storing /\ Tail(ops[h]) # ops[h]
        /\ \A v \in new :
             v = 0 \/ (v \in Values /\ ops[h] = <<Set(Refresh, v)>>)
    <3>1. CASE \E v \in Values : /\ ops[h] = <<Set(Refresh, v)>>
                                 /\ Head(ops[h]) = Set(Refresh, v)
                                 /\ Tail(ops[h]) = <<>>
      BY <3>1, <1>d, <2>8, StoringFacts, OpFacts
    <3>2. CASE /\ ops[h] = <<Set("client", 1)>>
               /\ Head(ops[h]) = Set("client", 1) /\ Tail(ops[h]) = <<>>
      BY <3>2, <1>d, <2>8, StoringFacts, OpFacts
    <3>3. CASE /\ ops[h] = <<Delete(Refresh)>>
               /\ Head(ops[h]) = Delete(Refresh) /\ Tail(ops[h]) = <<>>
      BY <3>3, <1>d, <2>8, StoringFacts, OpFacts
    <3>4. CASE /\ ops[h] = <<Delete("client"), Delete(Refresh)>>
               /\ Head(ops[h]) = Delete("client")
               /\ Tail(ops[h]) = <<Delete(Refresh)>>
      <4>1. Tail(ops[h]) # ops[h] /\ Tail(ops[h]) \notin Storing
        BY <3>4, StoringFacts, OpListsDiffer
      <4>2. \A v : o # Set(Refresh, v)
        BY <3>4, <1>d, OpFacts
      <4> QED
        BY <4>1, <4>2
    <3> QED
      BY <2>8, <3>1, <3>2, <3>3, <3>4, OpShapes
  <2> HIDE DEF new
  <2> QED
    BY <1>d, <2>6, <2>7, <2>9, FreshFrame
<1>6. ASSUME NEW h \in Handlers, SetKeyring(h)
      PROVE  FreshTokens'
  <2> DEFINE o == Head(ops[h])
  <2>1. /\ doing[h] = "store" /\ Note(h, o, FALSE)
        /\ Continue(h, Tail(ops[h])) /\ UNCHANGED <<store, refreshes>>
        /\ keyring' = [keyring EXCEPT ![o.secret] = o.value]
    BY <1>6 DEF SetKeyring
  <2>2. o.secret = Refresh => o = Set(Refresh, o.value)
    <3>1. o.op = "set" /\ ops[h] \in OpLists /\ ops[h] # <<>>
      BY <1>6, <2>1, HeadTyped DEF SetKeyring
    <3> QED
      BY <3>1, OpShapes, OpFacts
  <2>3. keyring'[Refresh] = keyring[Refresh]
        \/ (o.secret = Refresh /\ keyring'[Refresh] = o.value)
    BY <2>1, OpFacts DEF GoogleTypeOK
  <2>4. \A s \in {keyring', store'} :
               s[Refresh] \in KnownValues \cup {0}
                 \cup {v \in {o.value} : o = Set(Refresh, v)}
    BY <2>1, <2>2, <2>3, KnownHas
  <2> HIDE DEF o
  <2> QED
    BY <2>1, <2>4, <1>d DEF o
<1>7. ASSUME NEW h \in Handlers, ReadStore(h)
      PROVE  FreshTokens'
  <2>1. /\ UNCHANGED <<store, refreshes, ops, seen, removed>>
        /\ read' = [read EXCEPT ![h] = store]
    BY <1>7 DEF ReadStore
  <2>2. keyring'[Refresh] \in KnownValues \cup {0}
    BY <1>7, KnownHas, OpFacts DEF ReadStore, GoogleTypeOK
  <2>3. \A g \in Handlers :
          read'[g] # <<>> => read'[g][Refresh] \in KnownValues
    BY <2>1, KnownHas DEF GoogleTypeOK
  <2>4. KnownValues' \subseteq KnownValues \cup {0}
    BY <2>1, <2>2, <2>3, KnownHas, KnownFrom
  <2> QED
    BY <2>1, <2>4, FreshQuiet
<1>8. ASSUME NEW h \in Handlers, SkipStore(h) \/ ReplaceStore(h)
      PROVE  FreshTokens'
  <2> DEFINE o == Head(ops[h])
  <2>1. PICK lost : Note(h, o, lost)
    BY <1>8 DEF SkipStore, ReplaceStore
  <2>2. /\ doing[h] = "store" /\ read[h] # <<>>
        /\ Continue(h, Tail(ops[h])) /\ UNCHANGED <<keyring, refreshes>>
        /\ store' = store \/ store' = [read[h] EXCEPT ![o.secret] = o.value]
    <3>1. CASE SkipStore(h)
      BY <3>1 DEF SkipStore
    <3>2. CASE ReplaceStore(h)
      <4>1. writing[h] = "written" /\ store' = temp
            /\ Continue(h, Tail(ops[h])) /\ UNCHANGED <<keyring, refreshes>>
        BY <3>2 DEF ReplaceStore
      <4>2. temp = [read[h] EXCEPT ![o.secret] = o.value]
        BY <4>1, <1>x DEF TempInv, FileWith
      <4>3. read[h] # <<>> /\ doing[h] = "store"
        BY <4>1 DEF HandlerInv
      <4> QED
        BY <4>1, <4>2, <4>3
    <3> QED
      BY <1>8, <3>1, <3>2
  <2>3. o.secret = Refresh => o = Set(Refresh, o.value) \/ o.value = 0
    <3>1. ops[h] \in OpLists /\ ops[h] # <<>>
      BY <2>2, HeadTyped DEF SetKeyring
    <3> QED
      BY <3>1, OpShapes, OpFacts
  <2>4. read[h] \in [Secrets -> Values] /\ read[h][Refresh] \in KnownValues
    BY <2>2, KnownHas DEF GoogleTypeOK
  <2>5. store'[Refresh] \in {store[Refresh], read[h][Refresh]}
        \/ (o.secret = Refresh /\ store'[Refresh] = o.value)
    BY <2>2, <2>4, OpFacts
  <2>6. \A s \in {keyring', store'} :
               s[Refresh] \in KnownValues \cup {0}
                 \cup {v \in {o.value} : o = Set(Refresh, v)}
    BY <2>2, <2>3, <2>4, <2>5, KnownHas
  <2> HIDE DEF o
  <2> QED
    BY <2>1, <2>2, <2>6, <1>d DEF o
<1>o. ASSUME NEW h \in Handlers, OpenTemp(h)
      PROVE  FreshTokens'
  <2>1. /\ UNCHANGED <<keyring, store, refreshes, ops, read, seen, removed>>
    BY <1>o DEF OpenTemp
  <2>2. KnownValues' = KnownValues
    BY <2>1 DEF KnownValues
  <2> QED
    BY <2>1, <2>2 DEF FreshTokens
<1>i. ASSUME NEW h \in Handlers, FillTemp(h)
      PROVE  FreshTokens'
  <2>1. writing[h] = "temp"
    BY <1>i, <1>x DEF FillTemp, TempInv
  <2>2. /\ UNCHANGED <<keyring, store, refreshes, ops, read, seen, removed>>
    BY <1>i, <2>1 DEF FillTemp
  <2>3. KnownValues' = KnownValues
    BY <2>2 DEF KnownValues
  <2> QED
    BY <2>2, <2>3 DEF FreshTokens
<1>9. ASSUME NEW h \in Handlers, StoreFails(h)
      PROVE  FreshTokens'
  <2>1. /\ doing[h] = "store"
        /\ UNCHANGED <<secretVars, refreshes, seen, removed>>
    BY <1>9 DEF StoreFails
  <2>2. PICK rest \in {<<>>, Tail(ops[h])} : Continue(h, rest)
    BY <1>9 DEF StoreFails
  <2>3. rest \in OpLists \ Storing
    <3>1. ops[h] \in OpLists /\ ops[h] # <<>>
      BY <2>1, HeadTyped
    <3>2. Tail(ops[h]) = <<>> \/ Tail(ops[h]) = <<Delete(Refresh)>>
      BY <3>1, OpShapes
    <3> QED
      BY <3>2, StoringFacts, OpListsDiffer
  <2> QED
    BY <2>1, <2>2, <2>3, <1>c
<1>10. ASSUME NEW other \in BOOLEAN, StartProcess(other)
       PROVE  FreshTokens'
  <2>1. CASE other
    BY <1>10, <2>1, <1>b DEF StartProcess
  <2>2. CASE ~other
    <3>1. /\ UNCHANGED <<secretVars, refreshes, removed>>
          /\ \A h \in Handlers : ops'[h] = <<>> /\ read'[h] = <<>>
                                 /\ seen'[h] = 0
      BY <1>10, <2>2 DEF StartProcess
    <3>2. KnownValues' \subseteq KnownValues \cup {0}
      BY <3>1, KnownHas, KnownFrom
    <3>3. \A v : \A h \in Handlers : ops'[h] # <<Set(Refresh, v)>>
      BY <3>1, OpListsDiffer
    <3> QED
      BY <3>1, <3>2, <3>3, <1>a DEF FreshTokens
  <2> QED
    BY <2>1, <2>2
<1>11. CASE UNCHANGED googleVars
  BY <1>11, <1>b DEF googleVars
<1> QED
  BY <1>1, <1>2, <1>3, <1>4, <1>5, <1>6, <1>7, <1>8, <1>o, <1>i, <1>9,
     <1>10, <1>11
  DEF GoogleNext, HandleGoogle
-----------------------------------------------------------------------------
(* The token in use *)

\* A step that leaves the places of secrets alone, and whose handlers go on
\* to delete only if the token stored last need not be kept any more.
LEMMA TokenFrame ==
  ASSUME TokenInv, UNCHANGED <<available, keyring, store, removed>>,
         excused => excused',
         latest' \in {0, latest},
         \A h \in Handlers :
           /\ read'[h] # <<>> => read'[h] = read[h] /\ ops'[h] = ops[h]
           /\ doing'[h] = "revoke" \/ ops'[h] \in Dropping =>
                \/ latest' = 0
                \/ doing[h] = "revoke" \/ ops[h] \in Dropping
  PROVE  TokenInv'
<1>1. Visible(Refresh)' = Visible(Refresh)
  BY DEF Visible
<1>2. \A h \in Handlers : Dropped(h)' => Dropped(h)
  BY DEF Dropped
<1> QED
  BY <1>1, <1>2 DEF TokenInv

\* A step keeps every place of the token in agreement, or is excused.
LEMMA TokenInvKept ==
  ASSUME GoogleTypeOK, HandlerInv, TempInv, FreshInv, TokenInv,
         [GoogleNext]_googleVars
  PROVE  TokenInv'
<1> USE DEF secretVars, flowVars, handlerVars, history
<1>1. ASSUME NEW f \in Flows, Launch(f) \/ Expire(f)
      PROVE  TokenInv'
  BY <1>1, TokenFrame DEF Launch, Expire
<1>2. ASSUME NEW f \in Flows, NEW h \in Handlers, Callback(h, f)
      PROVE  TokenInv'
  <2>1. \A g \in Handlers : doing'[g] = "revoke" => doing[g] = "revoke"
    BY <1>2 DEF Callback, GoogleTypeOK
  <2> QED
    BY <1>2, <2>1, TokenFrame DEF Callback
<1>a. ASSUME NEW h \in Handlers, NEW rest, Continue(h, rest),
             UNCHANGED <<available, keyring, store, removed>>,
             excused => excused',
             latest' \in {0, latest},
             rest \in Dropping =>
               latest' = 0 \/ doing[h] = "revoke" \/ ops[h] \in Dropping
      PROVE  TokenInv'
  <2>1. \A g \in Handlers : g # h =>
          doing'[g] = doing[g] /\ ops'[g] = ops[g] /\ read'[g] = read[g]
    BY <1>a DEF Continue, HandlerInv, GoogleTypeOK
  <2>2. doing'[h] # "revoke" /\ ops'[h] = rest /\ read'[h] = <<>>
    BY <1>a DEF Continue, HandlerInv, GoogleTypeOK
  <2>3. \A g \in Handlers :
          /\ read'[g] # <<>> => read'[g] = read[g] /\ ops'[g] = ops[g]
          /\ doing'[g] = "revoke" \/ ops'[g] \in Dropping =>
                \/ latest' = 0
                \/ doing[g] = "revoke" \/ ops[g] \in Dropping
    BY <1>a, <2>1, <2>2
  <2> QED
    BY <1>a, <2>3, TokenFrame
<1>3. ASSUME NEW h \in Handlers, Exchanged(h)
      PROVE  TokenInv'
  <2>1. PICK rest : Continue(h, rest) /\ rest \notin Dropping
    BY <1>3, OpListsDiffer DEF Exchanged, Refresh
  <2> QED
    BY <1>3, <2>1, <1>a DEF Exchanged
<1>4. ASSUME NEW h \in Handlers, RevokeRead(h)
      PROVE  TokenInv'
  BY <1>4, TokenFrame DEF RevokeRead
<1>5. ASSUME NEW h \in Handlers, RevokePosted(h)
      PROVE  TokenInv'
  BY <1>5, <1>a DEF RevokePosted
<1>6. ASSUME NEW h \in Handlers, PostSettings(h)
      PROVE  TokenInv'
  BY <1>6, <1>a, OpListsDiffer DEF PostSettings
<1>7. ASSUME NEW h \in Handlers, ClearSettings(h)
      PROVE  TokenInv'
  BY <1>7, <1>a DEF ClearSettings
<1>8. ASSUME NEW h \in Handlers, StoreFails(h)
      PROVE  TokenInv'
  <2>1. doing[h] = "store" /\ excused' = TRUE
        /\ UNCHANGED <<secretVars, removed, latest>>
    BY <1>8 DEF StoreFails
  <2> QED
    BY <2>1 DEF TokenInv, secretVars
<1>9. ASSUME NEW other \in BOOLEAN, StartProcess(other)
      PROVE  TokenInv'
  <2>1. UNCHANGED <<secretVars, removed, latest, excused>>
    BY <1>9 DEF StartProcess
  <2>2. CASE other
    BY <1>9, <2>1, <2>2, TokenFrame DEF StartProcess
  <2>3. CASE ~other
    <3>1. \A h \in Handlers : doing'[h] = "idle" /\ ops'[h] = <<>>
                              /\ read'[h] = <<>>
      BY <1>9, <2>3 DEF StartProcess
    <3> QED
      BY <2>1, <3>1, TokenFrame, OpListsDiffer
  <2> QED
    BY <2>2, <2>3
\* What an operation of h that is done leaves to the others.
<1>b. ASSUME NEW h \in Handlers, doing[h] = "store",
             Continue(h, Tail(ops[h]))
      PROVE  /\ \A g \in Handlers : g # h =>
                  doing'[g] = doing[g] /\ ops'[g] = ops[g]
                  /\ read'[g] = read[g]
             /\ doing'[h] # "revoke" /\ ops'[h] = Tail(ops[h])
             /\ read'[h] = <<>>
  BY <1>b DEF Continue, HandlerInv, GoogleTypeOK
\* A token is stored.
<1>c. ASSUME NEW h \in Handlers, NEW v \in Values, NEW lost,
             doing[h] = "store", ops[h] = <<Set(Refresh, v)>>,
             Continue(h, <<>>), Note(h, Set(Refresh, v), lost),
             UNCHANGED available,
             ~excused' => Visible(Refresh)' = v,
             ~excused' /\ available => UNCHANGED store,
             ~available => UNCHANGED keyring
      PROVE  TokenInv'
  <2>1. /\ latest' = v /\ removed' = removed
        /\ excused' = (excused \/ lost \/ Deleting(h))
    <3>1. Set(Refresh, v).op = "set" /\ Set(Refresh, v).secret = Refresh
          /\ Set(Refresh, v).value = v
      BY OpFacts
    <3> QED
      BY <1>c, <3>1 DEF Note, Refresh
  <2>2. \A g \in Handlers : g # h =>
          doing'[g] = doing[g] /\ ops'[g] = ops[g] /\ read'[g] = read[g]
    BY <1>c DEF Continue, HandlerInv, GoogleTypeOK
  <2>3. doing'[h] # "revoke" /\ ops'[h] = <<>> /\ read'[h] = <<>>
    BY <1>c DEF Continue, HandlerInv, GoogleTypeOK
  <2>4. ~available' => keyring' = NoSecrets
    BY <1>c DEF TokenInv
  <2> SUFFICES ASSUME ~excused'
               PROVE  TokenInv'
    BY <2>4 DEF TokenInv
  <2>5. ~excused /\ \A g \in Handlers \ {h} :
                      doing[g] # "revoke" /\ ops[g] \notin Dropping
    BY <2>1, DeletingLists
  <2>6. \A g \in Handlers : doing'[g] # "revoke" /\ ops'[g] \notin Dropping
    BY <2>2, <2>3, <2>5, OpListsDiffer
  <2>7. \A g \in Handlers : ~Dropped(g)'
    <3> SUFFICES ASSUME NEW g \in Handlers, Dropped(g)'
                 PROVE  FALSE
      OBVIOUS
    <3>1. g # h /\ read[g] # <<>> /\ Head(ops[g]) = Delete(Refresh)
      BY <2>2, <2>3 DEF Dropped
    <3>2. ops[g] \in OpLists /\ ops[g] # <<>> /\ ops[g] \notin Dropping
      BY <3>1, <2>5 DEF HandlerInv
    <3> QED
      BY <3>1, <3>2, OpShapes, OpFacts, OpListsDiffer
  <2>8. v \notin removed
    BY <1>c, <2>5, KnownHas DEF FreshInv, FreshTokens
  <2>9. available' => /\ store' = NoSecrets
                      /\ \A g \in Handlers : read'[g] # <<>> =>
                           read'[g] = NoSecrets /\ Head(ops'[g]).op = "delete"
    BY <1>c, <2>2, <2>3, <2>5 DEF TokenInv
  <2> QED
    BY <1>c, <2>1, <2>4, <2>6, <2>7, <2>8, <2>9 DEF TokenInv
\* Another operation is done; it has left the token alone, or taken it away.
<1>d. ASSUME NEW h \in Handlers, NEW o, NEW lost,
             doing[h] = "store", o = Head(ops[h]),
             \A v : o # Set(Refresh, v),
             Continue(h, Tail(ops[h])), Note(h, o, lost),
             UNCHANGED available,
             ~excused' => Visible(Refresh)' = IF o = Delete(Refresh) THEN 0
                                              ELSE Visible(Refresh),
             ~excused' /\ available => UNCHANGED store,
             ~available => UNCHANGED keyring
      PROVE  TokenInv'
  <2>0. ops[h] \in OpLists /\ ops[h] # <<>>
    BY <1>d, HeadTyped
  <2>1. \/ o = Set("client", 1) /\ Tail(ops[h]) = <<>>
        \/ o = Delete(Refresh) /\ Tail(ops[h]) = <<>>
        \/ /\ o = Delete("client") /\ Tail(ops[h]) = <<Delete(Refresh)>>
           /\ ops[h] \in Dropping
    BY <1>d, <2>0, OpShapes, OpListsDiffer
  <2>2. o = Delete(Refresh) => ops[h] \in Dropping
    BY <1>d, <2>0, OpShapes, OpListsDiffer, OpFacts
  <2>3. o.op = "set" => o.secret # Refresh
    BY <2>1, OpFacts
  <2>4. latest' = latest /\ (~excused' => ~excused)
        /\ (removed' = removed
            \/ (/\ o = Delete(Refresh) /\ 0 \notin removed'
                /\ removed' \subseteq removed \cup {seen[h]}))
    BY <1>d, <2>1, <2>3, OpFacts DEF Note, Refresh
  <2>5. ~available' => keyring' = NoSecrets
    BY <1>d DEF TokenInv
  <2> SUFFICES ASSUME ~excused'
               PROVE  TokenInv'
    BY <2>5 DEF TokenInv
  <2>6. \A g \in Handlers : g # h =>
          doing'[g] = doing[g] /\ ops'[g] = ops[g] /\ read'[g] = read[g]
    BY <1>b, <1>d
  <2>7. doing'[h] # "revoke" /\ ops'[h] = Tail(ops[h]) /\ read'[h] = <<>>
    BY <1>b, <1>d
  <2>8. available' => /\ store' = NoSecrets
                      /\ \A g \in Handlers : read'[g] # <<>> =>
                           read'[g] = NoSecrets /\ Head(ops'[g]).op = "delete"
    BY <1>d, <2>4, <2>6, <2>7 DEF TokenInv
  <2>9. \A g \in Handlers : Dropped(g)' => Visible(Refresh)' = 0
    <3> SUFFICES ASSUME NEW g \in Handlers, Dropped(g)'
                 PROVE  Visible(Refresh)' = 0
      OBVIOUS
    <3>1. g # h
      BY <2>7 DEF Dropped
    <3>2. Dropped(g)
      BY <3>1, <2>6, <1>d DEF Dropped
    <3> QED
      BY <3>2, <1>d, <2>4 DEF TokenInv
  <2>10. Visible(Refresh)' \notin removed'
    <3>1. 0 \notin removed'
      BY <2>4 DEF GoogleTypeOK
    <3> QED
      BY <3>1, <1>d, <2>4 DEF TokenInv
  <2>11. ASSUME latest' # 0
         PROVE  /\ Visible(Refresh)' = latest'
                /\ \A g \in Handlers : doing'[g] # "revoke"
                                       /\ ops'[g] \notin Dropping
    <3>1. /\ Visible(Refresh) = latest
          /\ \A g \in Handlers : doing[g] # "revoke" /\ ops[g] \notin Dropping
      BY <2>11, <2>4 DEF TokenInv
    <3>2. o = Set("client", 1) /\ Tail(ops[h]) = <<>>
      BY <3>1, <2>1, <2>2
    <3>3. Visible(Refresh)' = Visible(Refresh)
      BY <1>d, <3>2, OpFacts
    <3> QED
      BY <3>1, <3>2, <3>3, <2>4, <2>6, <2>7, OpListsDiffer
  <2> QED
    BY <2>5, <2>8, <2>9, <2>10, <2>11 DEF TokenInv
<1>10. ASSUME NEW h \in Handlers, SetKeyring(h)
       PROVE  TokenInv'
  <2> DEFINE o == Head(ops[h])
  <2>1. /\ doing[h] = "store" /\ read[h] = <<>> /\ available /\ o.op = "set"
        /\ keyring' = [keyring EXCEPT ![o.secret] = o.value]
        /\ Continue(h, Tail(ops[h])) /\ Note(h, o, FALSE)
        /\ UNCHANGED <<available, store>>
    BY <1>10 DEF SetKeyring
  <2>2. ops[h] \in OpLists /\ ops[h] # <<>>
    BY <2>1, HeadTyped
  <2>3. CASE \E v \in Values : /\ ops[h] = <<Set(Refresh, v)>>
                               /\ Head(ops[h]) = Set(Refresh, v)
                               /\ Tail(ops[h]) = <<>>
    <3>1. PICK v \in Values : /\ ops[h] = <<Set(Refresh, v)>>
                             /\ Head(ops[h]) = Set(Refresh, v)
                             /\ Tail(ops[h]) = <<>>
      BY <2>3
    <3>2. ~excused' => v # 0
      BY <3>1, ExcusedStays DEF FreshInv, FreshTokens
    <3>3. keyring'[Refresh] = v
      BY <2>1, <3>1, OpFacts DEF GoogleTypeOK
    <3>4. ~excused' => Visible(Refresh)' = v
      BY <2>1, <3>2, <3>3 DEF Visible
    <3> QED
      BY <2>1, <3>1, <3>4, <1>c
  <2>4. CASE /\ ops[h] = <<Set("client", 1)>>
             /\ Head(ops[h]) = Set("client", 1) /\ Tail(ops[h]) = <<>>
    <3>1. keyring'[Refresh] = keyring[Refresh]
      BY <2>1, <2>4, OpFacts DEF GoogleTypeOK
    <3>2. Visible(Refresh)' = Visible(Refresh)
      BY <2>1, <3>1 DEF Visible
    <3>3. o # Delete(Refresh) /\ \A v : o # Set(Refresh, v)
      BY <2>4, OpFacts
    <3> QED
      BY <2>1, <3>2, <3>3, <1>d
  <2> QED
    BY <2>1, <2>2, <2>3, <2>4, OpShapes, OpFacts
<1>11. ASSUME NEW h \in Handlers, ReadStore(h)
       PROVE  TokenInv'
  <2> DEFINE o == Head(ops[h])
  <2>1. /\ doing[h] = "store" /\ read[h] = <<>>
        /\ read' = [read EXCEPT ![h] = store]
        /\ UNCHANGED <<available, store, doing, ops, removed, latest>>
        /\ \/ /\ available /\ o.op = "delete"
              /\ keyring' = [keyring EXCEPT ![o.secret] = 0]
              /\ UNCHANGED excused
           \/ UNCHANGED keyring /\ excused' = (excused \/ available)
    BY <1>11 DEF ReadStore
  <2>2. ops[h] \in OpLists /\ ops[h] # <<>> /\ o.secret \in Secrets
    BY <2>1, HeadTyped
  <2>3. ~available' => keyring' = NoSecrets
    BY <2>1 DEF TokenInv
  <2> SUFFICES ASSUME ~excused'
               PROVE  TokenInv'
    BY <2>3 DEF TokenInv
  <2>4. ~excused
    BY <2>1
  <2>5. \/ /\ available /\ o.op = "delete" /\ store = NoSecrets
           /\ keyring' = [keyring EXCEPT ![o.secret] = 0]
        \/ ~available /\ UNCHANGED keyring /\ keyring = NoSecrets
    BY <2>1, <2>4 DEF TokenInv
  <2>6. \A g \in Handlers : read'[g] = IF g = h THEN store ELSE read[g]
    BY <2>1 DEF GoogleTypeOK
  <2>7. \A list \in OpLists : list # <<>> /\ Head(list) = Delete(Refresh)
                                => list \in Dropping
    BY OpShapes, OpFacts, OpListsDiffer
  <2>8. /\ o = Delete(Refresh) /\ available => Visible(Refresh)' = 0
        /\ o # Delete(Refresh) \/ ~available
             => Visible(Refresh)' = Visible(Refresh)
    <3>1. CASE ~available
      BY <2>1, <2>5, <3>1 DEF Visible
    <3>2. CASE available /\ o = Delete(Refresh)
      <4>1. o.secret = Refresh /\ keyring \in [Secrets -> Values]
        BY <3>2, OpFacts DEF GoogleTypeOK
      <4>2. /\ keyring' = [keyring EXCEPT ![Refresh] = 0]
            /\ store' = NoSecrets
        BY <2>1, <2>5, <3>2, <4>1
      <4>3. keyring'[Refresh] = 0 /\ store'[Refresh] = 0
        BY <4>1, <4>2, OpFacts
      <4> QED
        BY <4>3, <3>2 DEF Visible
    <3>3. CASE available /\ o # Delete(Refresh)
      <4>1. o.secret # Refresh
        BY <2>2, <2>5, <3>3, OpShapes, OpFacts
      <4>2. keyring'[Refresh] = keyring[Refresh]
        BY <2>5, <3>3, <4>1, OpFacts DEF GoogleTypeOK
      <4> QED
        BY <2>1, <3>3, <4>2 DEF Visible
    <3> QED
      BY <3>1, <3>2, <3>3
  <2>9. available' => /\ store' = NoSecrets
                      /\ \A g \in Handlers : read'[g] # <<>> =>
                           read'[g] = NoSecrets /\ Head(ops'[g]).op = "delete"
    BY <2>1, <2>4, <2>5, <2>6 DEF TokenInv
  <2>10. \A g \in Handlers : Dropped(g)' => Visible(Refresh)' = 0
    <3> SUFFICES ASSUME NEW g \in Handlers, Dropped(g)'
                 PROVE  Visible(Refresh)' = 0
      OBVIOUS
    <3>1. CASE g # h
      <4>1. Dropped(g)
        BY <2>1, <2>6, <3>1 DEF Dropped
      <4>2. Visible(Refresh) = 0
        BY <4>1, <2>4 DEF TokenInv
      <4> QED
        BY <4>2, <2>8
    <3>2. CASE g = h /\ available
      <4>1. o = Delete(Refresh)
        BY <3>2, <2>1 DEF Dropped
      <4> QED
        BY <4>1, <3>2, <2>8
    <3>3. CASE g = h /\ ~available
      <4>1. store[Refresh] = 0
        BY <3>3, <2>1, <2>6 DEF Dropped
      <4>2. Visible(Refresh) = 0
        BY <4>1, <3>3 DEF Visible
      <4> QED
        BY <4>2, <3>3, <2>8
    <3> QED
      BY <3>1, <3>2, <3>3
  <2>11. Visible(Refresh)' \notin removed'
    BY <2>1, <2>4, <2>8 DEF TokenInv, GoogleTypeOK
  <2>12. ASSUME latest' # 0
         PROVE  /\ Visible(Refresh)' = latest'
                /\ \A g \in Handlers : doing'[g] # "revoke"
                                       /\ ops'[g] \notin Dropping
    <3>1. /\ Visible(Refresh) = latest
          /\ \A g \in Handlers : doing[g] # "revoke" /\ ops[g] \notin Dropping
      BY <2>12, <2>1, <2>4 DEF TokenInv
    <3>2. o # Delete(Refresh)
      BY <3>1, <2>2, <2>7
    <3> QED
      BY <3>1, <3>2, <2>1, <2>8
  <2> HIDE DEF o
  <2> QED
    BY <2>3, <2>9, <2>10, <2>11, <2>12 DEF TokenInv
<1>12. ASSUME NEW h \in Handlers, SkipStore(h) \/ ReplaceStore(h)
       PROVE  TokenInv'
  <2> DEFINE o == Head(ops[h])
             f == [read[h] EXCEPT ![o.secret] = o.value]
             lost == store' # store /\ read[h] # store
  <2>1. /\ doing[h] = "store" /\ read[h] # <<>>
        /\ ~excused' => store' = IF o.op = "delete" /\ read[h][o.secret] = 0
                                  THEN store ELSE f
        /\ Continue(h, Tail(ops[h]))
        /\ Note(h, o, lost)
        /\ UNCHANGED <<available, keyring>>
    <3>1. CASE SkipStore(h)
      BY <3>1 DEF SkipStore, NothingToSave, Note
    <3>2. CASE ReplaceStore(h)
      <4>1. writing[h] = "written" /\ store' = temp
            /\ Continue(h, Tail(ops[h])) /\ Note(h, o, lost)
            /\ UNCHANGED <<available, keyring>>
        BY <3>2 DEF ReplaceStore
      <4>2. ~excused' => temp = f
        BY <4>1, ExcusedStays DEF TempInv, FileWith
      <4>3. read[h] # <<>> /\ doing[h] = "store" /\ ~NothingToSave(h)
        BY <4>1 DEF HandlerInv
      <4> QED
        BY <4>1, <4>2, <4>3 DEF NothingToSave
    <3> QED
      BY <1>12, <3>1, <3>2
  <2>2. ops[h] \in OpLists /\ ops[h] # <<>> /\ o.secret \in Secrets
    BY <2>1, HeadTyped
  <2>3. read[h] \in [Secrets -> Values] /\ store \in [Secrets -> Values]
    BY <2>1 DEF GoogleTypeOK
  <2>4. ~excused' => ~excused /\ (store' = store \/ read[h] = store)
    BY <2>1 DEF Note
  <2>5. ~excused' /\ available =>
          store' = store /\ o.op = "delete" /\ store = NoSecrets
    <3> SUFFICES ASSUME ~excused', available
                 PROVE  store' = store /\ o.op = "delete" /\ store = NoSecrets
      OBVIOUS
    <3>1. store = NoSecrets /\ read[h] = NoSecrets /\ o.op = "delete"
      BY <2>1, <2>4 DEF TokenInv
    <3>2. read[h][o.secret] = 0
      BY <3>1, <2>2, OpFacts
    <3> QED
      BY <2>1, <3>1, <3>2
  <2>6. ~available => keyring[Refresh] = 0 /\ keyring'[Refresh] = 0
    BY <2>1, OpFacts DEF TokenInv
  <2>7. CASE \E v \in Values : /\ ops[h] = <<Set(Refresh, v)>>
                               /\ Head(ops[h]) = Set(Refresh, v)
                               /\ Tail(ops[h]) = <<>>
    <3>1. PICK v \in Values : /\ ops[h] = <<Set(Refresh, v)>>
                             /\ Head(ops[h]) = Set(Refresh, v)
                             /\ Tail(ops[h]) = <<>>
      BY <2>7
    <3>2. ~excused' => store'[Refresh] = v
      BY <2>1, <2>3, <3>1, OpFacts
    <3>3. ~excused' => ~available
      BY <2>5, <3>1, OpFacts
    <3>4. ~excused' => Visible(Refresh)' = v
      BY <2>1, <3>2, <3>3 DEF Visible
    <3> QED
      BY <2>1, <2>5, <3>1, <3>4, <1>c
  <2>8. CASE \/ /\ ops[h] = <<Set("client", 1)>>
                /\ Head(ops[h]) = Set("client", 1) /\ Tail(ops[h]) = <<>>
             \/ /\ ops[h] = <<Delete("client"), Delete(Refresh)>>
                /\ Head(ops[h]) = Delete("client")
                /\ Tail(ops[h]) = <<Delete(Refresh)>>
    <3>1. /\ o.secret # Refresh /\ o # Delete(Refresh)
          /\ \A v : o # Set(Refresh, v)
      BY <2>8, OpFacts
    <3>2. f[Refresh] = read[h][Refresh]
      BY <2>3, <3>1, OpFacts
    <3>3. ~excused' => store'[Refresh] = store[Refresh]
      BY <2>1, <2>4, <3>2
    <3>4. ~excused' => Visible(Refresh)' = Visible(Refresh)
      BY <2>1, <3>3 DEF Visible
    <3> HIDE DEF o, f, lost
    <3> QED
      BY <2>1, <2>5, <3>1, <3>4, <1>d DEF o
  <2>9. CASE /\ ops[h] = <<Delete(Refresh)>>
             /\ Head(ops[h]) = Delete(Refresh) /\ Tail(ops[h]) = <<>>
    <3>1. o = Delete(Refresh) /\ \A v : o # Set(Refresh, v)
      BY <2>9, OpFacts
    <3>2. ASSUME ~excused' PROVE Visible(Refresh)' = 0
      <4>1. CASE available \/ read[h][Refresh] = 0
        <5>1. Dropped(h)
          BY <2>1, <3>1, <4>1 DEF Dropped
        <5>2. Visible(Refresh) = 0
          BY <5>1, <3>2, <2>4 DEF TokenInv
        <5>3. store' = store
          BY <2>1, <2>5, <3>1, <3>2, <4>1, OpFacts
        <5> QED
          BY <5>2, <5>3, <2>1 DEF Visible
      <4>2. CASE ~available /\ read[h][Refresh] # 0
        <5>1. store'[Refresh] = 0
          BY <2>1, <2>3, <3>1, <3>2, <4>2, OpFacts
        <5>2. ~available'
          BY <4>2, <2>1
        <5> QED
          BY <5>1, <5>2 DEF Visible
      <4> QED
        BY <4>1, <4>2
    <3> HIDE DEF o, f, lost
    <3> QED
      BY <2>1, <2>5, <3>1, <3>2, <1>d DEF o
  <2> QED
    BY <2>2, <2>7, <2>8, <2>9, OpShapes
<1>o. ASSUME NEW h \in Handlers, OpenTemp(h)
      PROVE  TokenInv'
  BY <1>o, TokenFrame DEF OpenTemp
<1>i. ASSUME NEW h \in Handlers, FillTemp(h)
      PROVE  TokenInv'
  <2>1. CASE excused
    BY <1>i, <2>1 DEF FillTemp, TokenInv
  <2>2. CASE ~excused
    <3>1. writing[h] = "temp"
      BY <1>i, <2>2 DEF FillTemp, TempInv
    <3> QED
      BY <1>i, <3>1, TokenFrame DEF FillTemp
  <2> QED
    BY <2>1, <2>2
<1>13. CASE UNCHANGED googleVars
  BY <1>13, TokenFrame DEF googleVars
<1> QED
  BY <1>1, <1>2, <1>3, <1>4, <1>5, <1>6, <1>7, <1>8, <1>9, <1>10, <1>11,
     <1>12, <1>o, <1>i, <1>13 DEF GoogleNext, HandleGoogle

\* The invariants hold together of every reachable state.
LEMMA GoogleSafe ==
  GoogleSpec =>
    [](GoogleTypeOK /\ HandlerInv /\ TempInv /\ FreshInv /\ TokenInv)
<1>1. GoogleTypeOK /\ HandlerInv /\ TempInv /\ FreshInv /\ TokenInv
        /\ [GoogleNext]_googleVars
        => (GoogleTypeOK /\ HandlerInv /\ TempInv /\ FreshInv /\ TokenInv)'
  BY GoogleTyped, TempKept, FreshKept, TokenInvKept
<1> QED
  BY GoogleAtFirst, <1>1, PTL DEF GoogleSpec

\* What a revoke has removed is not in use again.
THEOREM RevokedStaysGoneSafe == GoogleSpec => []RevokedStaysGone
<1>1. TokenInv => RevokedStaysGone
  BY DEF TokenInv, RevokedStaysGone, Refresh
<1> QED
  BY GoogleSafe, <1>1, PTL

\* The token stored last is the one in use until it is to be removed.
THEOREM TokenKeptSafe == GoogleSpec => []TokenKept
<1>1. TokenInv => TokenKept
  BY DEF TokenInv, TokenKept, Refresh
<1> QED
  BY GoogleSafe, <1>1, PTL

\* Each code is exchanged once, and unless the keyring or the file failed or
\* requests wrote over each other, the token in use is the one stored last,
\* and not one that was revoked.
THEOREM TokenFollowsSafe == GoogleSpec => []TokenFollowsRequests
BY CodeExchangedOnceSafe, RevokedStaysGoneSafe, TokenKeptSafe, PTL
   DEF TokenFollowsRequests
-----------------------------------------------------------------------------
(* The upgrade of the tables *)

\* A server that has not looked at the columns knows none, and one that looked
\* since the file was last replaced knows only columns that are there.  Past
\* the patch the columns of the patch are there and every contact agrees that
\* no PUT has stored over a row that had changed; when it is up the rest of
\* ServedUpToDate holds.
UpToDateInv ==
  /\ \A s \in Servers :
       boot[s] \in {"down", "copy", "tables", "create", "look"} =>
         known[s] = {}
  /\ \A s \in Servers \ behind :
       /\ known[s] \subseteq columns
       /\ boot[s] \in {"check", "alter", "up"} =>
            /\ PatchColumns \subseteq columns
            /\ \A i \in People \ blended : Agrees(people[i])
       /\ boot[s] = "up" =>
            UpgradeColumns \subseteq columns /\ "index" \notin unique

\* The column that a server adds next is one of those it has to know and does
\* not know yet.
LEMMA NextIsMissing ==
  ASSUME NEW order, NEW k, DOMAIN order = 1 .. 6,
         \E i \in 1 .. 6 : order[i] \notin k
  PROVE  NextOf(order, k) \in {order[i] : i \in 1 .. 6} \ k
<1> DEFINE Misses(i) == /\ i \in DOMAIN order /\ order[i] \notin k
                        /\ \A j \in 1 .. (i - 1) : order[j] \in k
<1>1. \E i \in 1 .. 6 : Misses(i)
  <2> SUFFICES ASSUME \A i \in 1 .. 6 : ~Misses(i)
               PROVE  FALSE
    OBVIOUS
  <2>1. order[1] \in k
    OBVIOUS
  <2>2. order[2] \in k
    BY <2>1
  <2>3. order[3] \in k
    BY <2>1, <2>2
  <2>4. order[4] \in k
    BY <2>1, <2>2, <2>3
  <2>5. order[5] \in k
    BY <2>1, <2>2, <2>3, <2>4
  <2>6. order[6] \in k
    BY <2>1, <2>2, <2>3, <2>4, <2>5
  <2> QED
    BY <2>1, <2>2, <2>3, <2>4, <2>5, <2>6
<1> QED
  BY <1>1 DEF NextOf

LEMMA NextColumn ==
  ASSUME NEW k
  PROVE  /\ ~(PatchColumns \subseteq k) =>
              NextOf(PatchOrder, k) \in PatchColumns
         /\ ~(UpgradeColumns \subseteq k) =>
              NextOf(UpgradeOrder, k) \in UpgradeColumns
<1>1. DOMAIN PatchOrder = 1 .. 6 /\ DOMAIN UpgradeOrder = 1 .. 6
  BY DEF PatchOrder, UpgradeOrder
<1>2. \A c \in PatchColumns : \E i \in 1 .. 6 : PatchOrder[i] = c
  BY DEF PatchOrder, PatchColumns
<1>3. \A i \in 1 .. 6 : PatchOrder[i] \in PatchColumns
  BY DEF PatchOrder, PatchColumns
<1>4. \A c \in UpgradeColumns : \E i \in 1 .. 6 : UpgradeOrder[i] = c
  BY DEF UpgradeOrder, UpgradeColumns
<1>5. \A i \in 1 .. 6 : UpgradeOrder[i] \in UpgradeColumns
  BY DEF UpgradeOrder, UpgradeColumns
<1>6. ASSUME ~(PatchColumns \subseteq k)
      PROVE  NextOf(PatchOrder, k) \in PatchColumns
  <2>1. \E i \in 1 .. 6 : PatchOrder[i] \notin k
    BY <1>6, <1>2
  <2>2. NextOf(PatchOrder, k) \in {PatchOrder[i] : i \in 1 .. 6} \ k
    BY <2>1, <1>1, NextIsMissing
  <2> QED
    BY <2>2, <1>3
<1>7. ASSUME ~(UpgradeColumns \subseteq k)
      PROVE  NextOf(UpgradeOrder, k) \in UpgradeColumns
  <2>1. \E i \in 1 .. 6 : UpgradeOrder[i] \notin k
    BY <1>7, <1>4
  <2>2. NextOf(UpgradeOrder, k) \in {UpgradeOrder[i] : i \in 1 .. 6} \ k
    BY <2>1, <1>1, NextIsMissing
  <2> QED
    BY <2>2, <1>5
<1> QED
  BY <1>6, <1>7

\* Columns that are added, flags that are aligned and values that are filled in
\* leave a row a row, and an agreeing one in agreement.
LEMMA RowsStay ==
  ASSUME NEW r \in Person \cup {NoPerson}, NEW c, NEW k,
         NEW role \in {"contact", "vendor"}
  PROVE  /\ Gains(r, c, role) \in Person \cup {NoPerson}
         /\ Aligned(r, k) \in Person \cup {NoPerson}
         /\ Backfilled(r) \in Person \cup {NoPerson}
         /\ Agrees(Aligned(r, k))
         /\ Agrees(r) /\ c \notin PatchColumns => Agrees(Gains(r, c, role))
         /\ Agrees(r) => Agrees(Backfilled(r))
<1> USE SchemaAssumption DEF Person
<1>1. CASE r = NoPerson
  BY <1>1 DEF Gains, Aligned, Backfilled, Agrees
<1>2. CASE r # NoPerson
  <2>1. Gains(r, c, role) \in Person /\ Aligned(r, k) \in Person
        /\ Backfilled(r) \in Person
    BY <1>2 DEF Gains, Aligned, Backfilled
  <2>2. Agrees(Aligned(r, k))
    BY <1>2 DEF Aligned, Agrees
  <2>3. Agrees(r) /\ c \notin PatchColumns => Agrees(Gains(r, c, role))
    BY <1>2 DEF Gains, Agrees, PatchColumns
  <2>4. Agrees(r) => Agrees(Backfilled(r))
    BY <1>2 DEF Backfilled, Agrees
  <2> QED
    BY <2>1, <2>2, <2>3, <2>4
<1> QED
  BY <1>1, <1>2

\* A server starts with its types.
LEMMA SchemaStarts == SchemaInit => SchemaTypeOK /\ UpToDateInv
<1> SUFFICES ASSUME SchemaInit PROVE SchemaTypeOK /\ UpToDateInv
  OBVIOUS
<1> USE SchemaAssumption DEF SchemaInit
<1>1. /\ columns \subseteq PatchColumns \cup UpgradeColumns
      /\ unique \subseteq {"constraint", "index"}
      /\ people \in [People -> Person \cup {NoPerson}]
  BY DEF DatabaseFile
<1>2. nLaunches \in 0 .. MaxLaunches
  OBVIOUS
<1> QED
  BY <1>1, <1>2 DEF SchemaTypeOK, UpToDateInv

\* A step keeps the types of the tables and the servers.
LEMMA SchemaTyped ==
  ASSUME SchemaTypeOK, [SchemaNext]_schemaVars
  PROVE  SchemaTypeOK'
<1> USE SchemaAssumption DEF SchemaTypeOK, tables, servers, inFlight, schemaVars
<1> DEFINE Columns == PatchColumns \cup UpgradeColumns
<1>1. ASSUME NEW f \in OlderFiles, NEW late \in SUBSET Servers,
             Becomes(f, late)
      PROVE  /\ columns' \subseteq Columns /\ unique' \subseteq
                {"constraint", "index"}
             /\ people' \in [People -> Person \cup {NoPerson}]
             /\ behind' \subseteq Servers /\ given' \subseteq People
             /\ blended' \subseteq People
  BY <1>1 DEF Becomes, DatabaseFile
<1>2. ASSUME NEW c \in Columns, NEW role \in {"contact", "vendor"},
             AddColumn(c, role)
      PROVE  /\ columns' \subseteq Columns
             /\ people' \in [People -> Person \cup {NoPerson}]
  BY <1>2, RowsStay DEF AddColumn
<1>3. Running \subseteq Servers
  BY DEF Running
<1>4. ASSUME NEW s \in Servers, Starting(s)
      PROVE  SchemaTypeOK'
  <2>1. CASE LaunchServer(s)
    BY <2>1 DEF LaunchServer, Goes
  <2>2. CASE CopyRepoFile(s)
    <3>1. Running \ {s} \in SUBSET Servers /\ repoFile \in OlderFiles
      BY <2>2, <1>3 DEF CopyRepoFile
    <3> QED
      BY <2>2, <3>1, <1>1 DEF CopyRepoFile, Goes
  <2>3. CASE LookForTables(s) \/ CreateTables(s) \/ LookAtColumns(s)
    BY <2>3 DEF LookForTables, CreateTables, LookAtColumns, Goes, Declared
  <2>4. CASE PatchColumn(s)
    <3>1. NextOf(PatchOrder, known[s]) \in Columns
      BY <2>4, NextColumn DEF PatchColumn
    <3>2. /\ columns' \subseteq Columns
          /\ people' \in [People -> Person \cup {NoPerson}]
      BY <2>4, <3>1, <1>2 DEF PatchColumn
    <3>3. known' \in [Servers -> SUBSET Columns]
      BY <2>4, <3>1 DEF PatchColumn
    <3> QED
      BY <2>4, <3>2, <3>3 DEF PatchColumn, Goes
  <2>5. CASE AlignFlags(s)
    <3>1. people' \in [People -> Person \cup {NoPerson}]
      BY <2>5, RowsStay DEF AlignFlags
    <3> QED
      BY <2>5, <3>1 DEF AlignFlags, Goes
  <2>6. CASE CheckColumn(s)
    <3>1. NextOf(UpgradeOrder, known[s]) \in Columns
      BY <2>6, NextColumn DEF CheckColumn
    <3> QED
      BY <2>6, <3>1 DEF CheckColumn, Goes
  <2>7. CASE UpgradeColumn(s)
    <3>1. NextOf(UpgradeOrder, known[s]) \in Columns
      BY <2>7, NextColumn DEF UpgradeColumn
    <3>2. /\ columns' \subseteq Columns
          /\ people' \in [People -> Person \cup {NoPerson}]
      BY <2>7, <3>1, <1>2 DEF UpgradeColumn
    <3>3. known' \in [Servers -> SUBSET Columns]
      BY <2>7, <3>1 DEF UpgradeColumn
    <3> QED
      BY <2>7, <3>2, <3>3 DEF UpgradeColumn, Goes
  <2>8. CASE Backfill(s)
    <3>1. people' \in [People -> Person \cup {NoPerson}]
      BY <2>8, RowsStay DEF Backfill
    <3> QED
      BY <2>8, <3>1 DEF Backfill, Goes
  <2>9. CASE Stops(s)
    BY <2>9 DEF Stops
  <2> QED
    BY <1>4, <2>1, <2>2, <2>3, <2>4, <2>5, <2>6, <2>7, <2>8, <2>9 DEF Starting
<1>5. ASSUME NEW s \in Servers, Serving(s)
      PROVE  SchemaTypeOK'
  <2>1. ASSUME NEW i \in People, NEW vendor \in BOOLEAN, NEW org \in OrgGiven,
               PostPerson(s, i, vendor, org)
        PROVE  SchemaTypeOK'
    <3>1. people'[i] \in Person
      BY <2>1 DEF PostPerson, Person, RoleOf
    <3>2. people' \in [People -> Person \cup {NoPerson}]
      BY <2>1, <3>1 DEF PostPerson
    <3> QED
      BY <2>1, <3>2 DEF PostPerson
  <2>2. ASSUME NEW i \in People, DeletePerson(s, i)
        PROVE  SchemaTypeOK'
    BY <2>2 DEF DeletePerson
  <2>3. ASSUME NEW f \in OlderFiles, PutsBack(s, f)
        PROVE  SchemaTypeOK'
    BY <2>3, <1>1, <1>3 DEF PutsBack
  <2> QED
    BY <1>5, <2>1, <2>2, <2>3 DEF Serving
<1>6. ASSUME NEW e \in Editors, Putting(e)
      PROVE  SchemaTypeOK'
  <2>1. ASSUME NEW i \in People, PutLoad(e, i)
        PROVE  SchemaTypeOK'
    <3>1. [id |-> i, seen |-> people[i]] \in Edit
      BY <2>1 DEF PutLoad, Edit
    <3> QED
      BY <2>1, <3>1 DEF PutLoad
  <2>2. ASSUME NEW vendor \in BOOLEAN, NEW org \in OrgGiven,
               PutCommit(e, vendor, org)
        PROVE  SchemaTypeOK'
    <3> DEFINE i    == put[e].id
               was  == put[e].seen
               now  == people[i]
    <3>1. i \in People /\ was \in Person /\ now \in Person
      BY <2>2 DEF PutCommit, Edit
    <3>2. PICK o \in {org, now.is_org} :
            /\ people' = [people EXCEPT ![i] =
                 [role      |-> Written(RoleOf(vendor), was.role, now.role),
                  is_vendor |->
                    Written(vendor, was.is_vendor, now.is_vendor),
                  is_org    |-> o, kind |-> now.kind]]
            /\ given' = IF o = org THEN given \cup {i} ELSE given
      BY <2>2 DEF PutCommit
    <3>3. o \in BOOLEAN
      BY <3>1, <3>2 DEF Person
    <3>4. /\ Written(RoleOf(vendor), was.role, now.role)
                \in {Null, "contact", "vendor", "both"}
          /\ Written(vendor, was.is_vendor, now.is_vendor) \in BOOLEAN
      BY <3>1 DEF Written, RoleOf, Person
    <3>5. people' \in [People -> Person \cup {NoPerson}]
      BY <3>1, <3>2, <3>3, <3>4 DEF Person
    <3>6. given' \subseteq People /\ blended' \subseteq People
      BY <2>2, <3>1, <3>2 DEF PutCommit
    <3> QED
      BY <2>2, <3>5, <3>6 DEF PutCommit
  <2>3. CASE PutFails(e)
    BY <2>3 DEF PutFails
  <2> QED
    BY <1>6, <2>1, <2>2, <2>3 DEF Putting
<1>7. CASE UNCHANGED schemaVars
  BY <1>7
<1> QED
  BY <1>4, <1>5, <1>6, <1>7 DEF SchemaNext

\* A step keeps what a server has found or added, as long as the file stays.
LEMMA SchemaKept ==
  ASSUME SchemaTypeOK, UpToDateInv, [SchemaNext]_schemaVars
  PROVE  UpToDateInv'
<1> USE SchemaAssumption DEF UpToDateInv, tables, servers, inFlight, schemaVars
<1> DEFINE Columns == PatchColumns \cup UpgradeColumns
<1>t. /\ boot \in [Servers -> {"down", "copy", "tables", "create", "look",
                              "patch", "check", "alter", "up"}]
      /\ known \in [Servers -> SUBSET Columns]
      /\ people \in [People -> Person \cup {NoPerson}]
      /\ behind \subseteq Servers
      /\ put \in [Editors -> Edit \cup {NoEdit}]
  BY DEF SchemaTypeOK
<1>a. ASSUME NEW s \in Servers, NEW c, NEW role \in {"contact", "vendor"},
             AddColumn(c, role), NEW t \in Servers \ behind,
             boot[t] \in {"check", "alter", "up"}
      PROVE  \A i \in People \ blended : Agrees(people'[i])
  <2>1. c \notin PatchColumns
    BY <1>a DEF AddColumn
  <2> QED
    BY <1>a, <1>t, <2>1, RowsStay DEF AddColumn
<1>1. ASSUME NEW s \in Servers, Starting(s)
      PROVE  UpToDateInv'
  <2>1. CASE LaunchServer(s)
    BY <2>1, <1>t DEF LaunchServer, Goes
  <2>2. CASE CopyRepoFile(s)
    BY <2>2, <1>t DEF CopyRepoFile, Becomes, Running, Goes
  <2>3. CASE LookForTables(s)
    BY <2>3, <1>t DEF LookForTables, Goes
  <2>4. CASE CreateTables(s)
    <3>1. PatchColumns # {}
      BY DEF PatchColumns
    <3>2. \A t \in Servers \ behind : boot[t] \notin {"check", "alter", "up"}
      BY <2>4, <3>1 DEF CreateTables
    <3> QED
      BY <2>4, <1>t, <3>2 DEF CreateTables, Goes
  <2>5. CASE LookAtColumns(s)
    BY <2>5, <1>t DEF LookAtColumns, Goes
  <2>6. CASE PatchColumn(s)
    <3>1. PICK c : /\ AddColumn(c, "contact")
                   /\ known' = [known EXCEPT ![s] = @ \cup {c}]
      BY <2>6 DEF PatchColumn
    <3>2. /\ boot' = boot /\ behind' = behind /\ unique' = unique
          /\ blended' = blended /\ boot[s] = "patch" /\ columns' = columns \cup {c}
      BY <2>6, <3>1, <1>t DEF PatchColumn, Goes, AddColumn
    <3>3. \A t \in Servers \ behind : boot[t] \in {"check", "alter", "up"} =>
            \A i \in People \ blended : Agrees(people'[i])
      BY <3>1, <1>a
    <3> QED
      BY <1>t, <3>1, <3>2, <3>3
  <2>7. CASE AlignFlags(s)
    <3>1. \A i \in People : Agrees(people'[i])
      BY <2>7, <1>t, RowsStay DEF AlignFlags
    <3> QED
      BY <2>7, <1>t, <3>1 DEF AlignFlags, Goes
  <2>8. CASE CheckColumn(s)
    BY <2>8, <1>t DEF CheckColumn, Goes
  <2>9. CASE UpgradeColumn(s)
    <3>1. PICK c : /\ AddColumn(c, "vendor")
                   /\ known' = [known EXCEPT ![s] = @ \cup {c}]
      BY <2>9 DEF UpgradeColumn
    <3>2. /\ behind' = behind /\ unique' = unique /\ boot[s] = "alter"
          /\ blended' = blended
          /\ boot' = [boot EXCEPT ![s] = "check"]
          /\ columns' = columns \cup {c}
      BY <2>9, <3>1 DEF UpgradeColumn, Goes, AddColumn
    <3>3. \A t \in Servers \ behind : boot[t] \in {"check", "alter", "up"} =>
            \A i \in People \ blended : Agrees(people'[i])
      BY <3>1, <1>a
    <3> QED
      BY <1>t, <3>1, <3>2, <3>3
  <2>10. CASE Backfill(s)
    <3>1. \A t \in Servers \ behind : boot[t] \in {"check", "alter", "up"} =>
            \A i \in People \ blended : Agrees(people'[i])
      BY <2>10, <1>t, RowsStay DEF Backfill
    <3> QED
      BY <2>10, <1>t, <3>1 DEF Backfill, Goes
  <2>11. CASE Stops(s)
    BY <2>11, <1>t DEF Stops
  <2> QED
    BY <1>1, <2>1, <2>2, <2>3, <2>4, <2>5, <2>6, <2>7, <2>8, <2>9, <2>10,
       <2>11 DEF Starting
<1>2. ASSUME NEW s \in Servers, Serving(s)
      PROVE  UpToDateInv'
  <2>1. ASSUME NEW i \in People, NEW vendor \in BOOLEAN, NEW org \in OrgGiven,
               PostPerson(s, i, vendor, org)
        PROVE  UpToDateInv'
    <3>1. Agrees(people'[i]) /\ \A j \in People \ {i} : people'[j] = people[j]
      BY <2>1, <1>t DEF PostPerson, RoleOf, Agrees
    <3> QED
      BY <2>1, <1>t, <3>1 DEF PostPerson
  <2>2. ASSUME NEW i \in People, DeletePerson(s, i)
        PROVE  UpToDateInv'
    <3>1. Agrees(people'[i]) /\ \A j \in People \ {i} : people'[j] = people[j]
      BY <2>2, <1>t DEF DeletePerson, Agrees
    <3> QED
      BY <2>2, <1>t, <3>1 DEF DeletePerson
  <2>3. ASSUME NEW f \in OlderFiles, PutsBack(s, f)
        PROVE  UpToDateInv'
    BY <2>3, <1>t DEF PutsBack, Becomes, Running
  <2> QED
    BY <1>2, <2>1, <2>2, <2>3 DEF Serving
<1>3. ASSUME NEW e \in Editors, Putting(e)
      PROVE  UpToDateInv'
  <2>1. ASSUME NEW i \in People, PutLoad(e, i)
        PROVE  UpToDateInv'
    BY <2>1, <1>t DEF PutLoad
  <2>2. ASSUME NEW vendor \in BOOLEAN, NEW org \in OrgGiven,
               PutCommit(e, vendor, org)
        PROVE  UpToDateInv'
    <3> DEFINE i    == put[e].id
               was  == put[e].seen
               now  == people[i]
    <3>1. i \in People /\ was \in Person /\ now \in Person
      BY <2>2, <1>t DEF PutCommit, Edit
    <3>2. PICK o :
            people' = [people EXCEPT ![i] =
              [role      |-> Written(RoleOf(vendor), was.role, now.role),
               is_vendor |-> Written(vendor, was.is_vendor, now.is_vendor),
               is_org    |-> o, kind |-> now.kind]]
      BY <2>2 DEF PutCommit
    <3>3. i \notin blended' => Agrees(people'[i])
      <4> SUFFICES ASSUME i \notin blended'
                   PROVE  Agrees(people'[i])
        OBVIOUS
      <4>1. now.role = was.role /\ now.is_vendor = was.is_vendor
        BY <2>2 DEF PutCommit
      <4>2. people'[i].role = RoleOf(vendor) /\ people'[i].is_vendor = vendor
        BY <3>1, <3>2, <4>1, <1>t DEF Written
      <4> QED
        BY <4>2 DEF Agrees, RoleOf
    <3>4. \A j \in People \ {i} : people'[j] = people[j]
      BY <3>2, <1>t
    <3>5. \A j \in People \ {i} : j \notin blended' => j \notin blended
      BY <2>2 DEF PutCommit
    <3>6. /\ boot' = boot /\ known' = known /\ columns' = columns
          /\ behind' = behind /\ unique' = unique
      BY <2>2 DEF PutCommit
    <3> QED
      BY <3>3, <3>4, <3>5, <3>6
  <2>3. CASE PutFails(e)
    BY <2>3, <1>t DEF PutFails
  <2> QED
    BY <1>3, <2>1, <2>2, <2>3 DEF Putting
<1>4. CASE UNCHANGED schemaVars
  BY <1>4
<1> QED
  BY <1>1, <1>2, <1>3, <1>4 DEF SchemaNext

\* The tables and the servers are well formed.
THEOREM SchemaTypes == SchemaSpec => []SchemaTypeOK
BY SchemaStarts, SchemaTyped, PTL DEF SchemaSpec

\* A server that is up serves a database in the layout that its statements
\* name, with contacts whose role and flags agree unless two requests have
\* changed one at a time.
THEOREM ServedSafe == SchemaSpec => []ServedUpToDate
<1>1. SchemaTypeOK /\ UpToDateInv => ServedUpToDate
  BY DEF UpToDateInv, ServedUpToDate
<1> QED
  BY <1>1, SchemaStarts, SchemaTyped, SchemaKept, PTL DEF SchemaSpec
-----------------------------------------------------------------------------
(* A stream over the folders of a provider *)

\* Pages that some call has, or that are written.
Gathered == delivered \cup UNION {caller[c].got : c \in Callers}

OneCalls ==
  /\ \A c \in Callers : caller[c].at = "idle" => caller[c].got = {}
  /\ \A c \in Callers :
       caller[c].at = "listing" =>
         caller[c].entry # NoEntry /\ caller[c].page >= 1
  /\ ~jostled => \A c, d \in Callers :
       caller[c].at # "idle" /\ caller[d].at # "idle" => c = d

UnreadAreZero == \A i \in 1 .. MaxQueued : i > nQueued => pageToken[i] = 0

NotOpened ==
  stream = "none" =>
    /\ queue = <<>> /\ nQueued = 0 /\ delivered = {} /\ ~finished
    /\ \A c \in Callers : caller[c].at = "idle"

IdsDistinct ==
  \A i, j \in 1 .. Len(queue) : queue[i].id = queue[j].id => i = j

QueuedReadSoFar ==
  \A i \in 1 .. Len(queue) :
    /\ pageToken[queue[i].id] < NumPages(queue[i].of)
    /\ \A n \in 1 .. pageToken[queue[i].id] : <<queue[i].of, n>> \in Gathered

ListingIsNext(c) ==
  LET e == caller[c].entry
      n == caller[c].page
  IN  /\ n = pageToken[e.id] + 1 /\ n <= NumPages(e.of)
      /\ \A k \in 1 .. (n - 1) : <<e.of, k>> \in Gathered
      /\ provider = "drive" => queue # <<>> /\ Head(queue) = e
      /\ provider = "local" => \A i \in 1 .. Len(queue) : queue[i].id # e.id

InQueue(f) == \E i \in 1 .. Len(queue) : queue[i].of = f
BeingListed(f) ==
  \E c \in Callers : caller[c].at = "listing" /\ caller[c].entry.of = f

NothingForgotten ==
  stream # "none" =>
    \A f \in Dirs : OnLastPage(f, Gathered) =>
      AllIn(f, Gathered) \/ InQueue(f) \/ BeingListed(f)

DoneIsDone ==
  finished =>
    queue = <<>> /\ \A c \in Callers : caller[c].at # "listing" /\ caller[c].got = {}

Tracked ==
  /\ IdsDistinct /\ QueuedReadSoFar
  /\ \A c \in Callers : caller[c].at = "listing" => ListingIsNext(c)
  /\ NothingForgotten /\ DoneIsDone

WalkInv ==
  /\ StreamTypeOK /\ OneCalls /\ UnreadAreZero /\ NotOpened
  /\ ~jostled /\ ~skipped => Tracked

LEMMA PagesOf ==
  ASSUME NEW p \in Providers, NEW f \in Dirs
  PROVE  /\ Len(Pages[p][f]) \in Nat \ {0}
         /\ Pages[p][f][Len(Pages[p][f])] \in Seq(Dirs)
         /\ p = "local" => Len(Pages[p][f]) = 1
<1> DEFINE P == Pages[p][f]
<1>1. P \in Seq(Seq(Dirs)) /\ P # <<>> /\ (p = "local" => Len(P) = 1)
  BY StreamAssumption DEF Providers
<1>2. Len(P) \in Nat \ {0}
  BY <1>1
<1>3. P[Len(P)] \in Seq(Dirs)
  BY <1>1, <1>2
<1> QED
  BY <1>1, <1>2, <1>3

LEMMA PagesKnown ==
  ASSUME StreamTypeOK, NEW f \in Dirs
  PROVE  /\ NumPages(f) \in Nat \ {0}
         /\ Found(f) \in Seq(Dirs)
         /\ provider = "local" => NumPages(f) = 1
<1>1. provider \in Providers
  BY DEF StreamTypeOK
<1>2. <<>> \in Seq(Dirs)
  OBVIOUS
<1> QED
  BY <1>1, <1>2, PagesOf DEF NumPages, Found

EntryType(n) == [of : Dirs, id : 1 .. n]
GotType      == SUBSET (Dirs \X (Nat \ {0}))
CallerType(n) ==
  [at : {"idle", "walking", "listing"}, entry : EntryType(n) \cup {NoEntry},
   page : Nat, got : GotType]

\* The sets of StreamTypeOK by their names.
TypesByName ==
  /\ provider \in Providers /\ recursive \in BOOLEAN
  /\ stream \in {"none", "open", "closed"}
  /\ nQueued \in 0 .. MaxQueued
  /\ queue \in Seq(EntryType(nQueued))
  /\ pageToken \in [1 .. MaxQueued -> Nat]
  /\ caller \in [Callers -> CallerType(nQueued)]
  /\ delivered \in GotType
  /\ finished \in BOOLEAN /\ jostled \in BOOLEAN /\ skipped \in BOOLEAN

LEMMA TypesNamed == (StreamTypeOK <=> TypesByName) /\ (StreamTypeOK <=> TypesByName)'
<1>1. delivered \in GotType <=> delivered \subseteq Dirs \X (Nat \ {0})
  BY DEF GotType
<1>2. delivered' \in GotType <=> delivered' \subseteq Dirs \X (Nat \ {0})
  BY DEF GotType
<1>3. StreamTypeOK <=> TypesByName
  BY <1>1, Zenon DEF StreamTypeOK, TypesByName, EntryType, CallerType, GotType
<1>4. StreamTypeOK' <=> TypesByName'
  BY <1>2, Zenon DEF StreamTypeOK, TypesByName, EntryType, CallerType, GotType
<1> QED
  BY <1>3, <1>4

LEMMA EntriesTyped ==
  ASSUME NEW fs \in Seq(Dirs), NEW n \in Nat
  PROVE  /\ Entries(fs, n) \in Seq(EntryType(n + Len(fs)))
         /\ Len(Entries(fs, n)) = Len(fs)
         /\ \A i \in 1 .. Len(fs) :
              Entries(fs, n)[i].of = fs[i] /\ Entries(fs, n)[i].id = n + i
<1>1. Len(fs) \in Nat /\ \A i \in 1 .. Len(fs) : fs[i] \in Dirs
  OBVIOUS
<1>2. \A i \in 1 .. Len(fs) :
        [of |-> fs[i], id |-> n + i] \in EntryType(n + Len(fs))
  BY <1>1 DEF EntryType
<1> QED
  BY <1>1, <1>2 DEF Entries

LEMMA CallersTyped ==
  ASSUME NEW n \in Nat, NEW got \in GotType
  PROVE  Resting \in CallerType(n) /\ Walking(got) \in CallerType(n)
BY DEF Resting, Walking, CallerType, GotType, NoEntry

LEMMA SeqsGrow ==
  ASSUME NEW S, NEW T, S \subseteq T
  PROVE  Seq(S) \subseteq Seq(T)
OBVIOUS

\* An entry stays one when there are more of them.
LEMMA MoreEntries ==
  ASSUME NEW n \in Nat, NEW m \in Nat, n <= m
  PROVE  /\ EntryType(n) \subseteq EntryType(m)
         /\ Seq(EntryType(n)) \subseteq Seq(EntryType(m))
         /\ [Callers -> CallerType(n)] \subseteq [Callers -> CallerType(m)]
<1>1. EntryType(n) \subseteq EntryType(m)
  BY DEF EntryType
<1>2. Seq(EntryType(n)) \subseteq Seq(EntryType(m))
  BY <1>1
<1>3. CallerType(n) \subseteq CallerType(m)
  BY <1>1 DEF CallerType
<1> QED
  BY <1>1, <1>2, <1>3

LEMMA EntryFields ==
  ASSUME StreamTypeOK, NEW x \in EntryType(nQueued)
  PROVE  x.of \in Dirs /\ x.id \in Nat /\ x.id <= nQueued /\ x.id \in 1 .. MaxQueued
<1>1. nQueued \in Nat /\ nQueued <= MaxQueued /\ MaxQueued \in Nat
  BY StreamAssumption DEF StreamTypeOK
<1> QED
  BY <1>1 DEF EntryType

LEMMA StreamStarts == StreamInit => WalkInv
<1> SUFFICES ASSUME StreamInit PROVE WalkInv
  OBVIOUS
<1>1. StreamTypeOK
  <2>1. {} \in GotType
    BY DEF GotType
  <2>2. Resting \in CallerType(0) /\ 0 \in 0 .. MaxQueued
    BY <2>1, CallersTyped, StreamAssumption
  <2>3. caller \in [Callers -> CallerType(nQueued)]
    BY <2>2 DEF StreamInit
  <2>4. pageToken \in [1 .. MaxQueued -> Nat]
    BY DEF StreamInit
  <2>5. queue \in Seq(EntryType(nQueued))
    BY DEF StreamInit
  <2> QED
    BY <2>1, <2>2, <2>3, <2>4, <2>5, TypesNamed DEF TypesByName, StreamInit
<1>2. OneCalls /\ UnreadAreZero /\ NotOpened
  BY DEF StreamInit, OneCalls, UnreadAreZero, NotOpened, Resting
<1>3. Tracked
  BY DEF StreamInit, Tracked, IdsDistinct, QueuedReadSoFar, NothingForgotten,
     DoneIsDone, Resting
<1> QED
  BY <1>1, <1>2, <1>3 DEF WalkInv

LEMMA FirstTyped ==
  ASSUME NEW S, NEW q \in Seq(S), q # <<>>
  PROVE  /\ Head(q) \in S /\ Tail(q) \in Seq(S) /\ Len(q) \in Nat \ {0}
         /\ Head(q) = q[1] /\ Len(Tail(q)) = Len(q) - 1
         /\ \A i \in 1 .. (Len(q) - 1) : Tail(q)[i] = q[i + 1]
OBVIOUS

\* The queue without its first entry, if there is one to drop.
LEMMA PoppedTyped ==
  ASSUME StreamTypeOK, provider = "drive" => queue # <<>>
  PROVE  Popped \in Seq(EntryType(nQueued))
BY FirstTyped, TypesNamed DEF TypesByName, Popped

LEMMA ListedTyped ==
  ASSUME StreamTypeOK, OneCalls, NEW c \in Callers, caller[c].at = "listing",
         caller[c].page >= 1
  PROVE  /\ caller[c].entry \in EntryType(nQueued)
         /\ caller[c].entry.of \in Dirs
         /\ caller[c].got \cup {<<caller[c].entry.of, caller[c].page>>} \in GotType
<1>1. caller[c] \in CallerType(nQueued)
  BY TypesNamed DEF TypesByName
<1>2. caller[c].entry \in EntryType(nQueued) /\ caller[c].page \in Nat
  BY <1>1 DEF OneCalls, CallerType
<1>3. caller[c].entry.of \in Dirs /\ caller[c].got \in GotType
  BY <1>1, <1>2 DEF CallerType, EntryType
<1>4. <<caller[c].entry.of, caller[c].page>> \in Dirs \X (Nat \ {0})
  BY <1>2, <1>3
<1> QED
  BY <1>2, <1>3, <1>4 DEF GotType

LEMMA StreamTyped == WalkInv /\ [StreamNext]_streamVars => StreamTypeOK'
<1> SUFFICES ASSUME WalkInv, [StreamNext]_streamVars PROVE StreamTypeOK'
  OBVIOUS
<1>t. StreamTypeOK /\ OneCalls
  BY DEF WalkInv
<1>m. /\ MaxQueued \in Nat /\ nQueued \in 0 .. MaxQueued /\ nQueued \in Nat
      /\ queue \in Seq(EntryType(nQueued))
      /\ pageToken \in [1 .. MaxQueued -> Nat]
      /\ caller \in [Callers -> CallerType(nQueued)] /\ delivered \in GotType
      /\ {} \in GotType
      /\ provider \in Providers /\ recursive \in BOOLEAN
      /\ stream \in {"none", "open", "closed"}
      /\ finished \in BOOLEAN /\ jostled \in BOOLEAN /\ skipped \in BOOLEAN
  BY <1>t, StreamAssumption, TypesNamed DEF TypesByName, GotType
<1>g. \A c \in Callers : caller[c].got \in GotType /\ caller[c].page \in Nat
  BY <1>m DEF CallerType
<1>w. ASSUME NEW c \in Callers, NEW got \in GotType
      PROVE  /\ [caller EXCEPT ![c] = Resting] \in [Callers -> CallerType(nQueued)]
             /\ [caller EXCEPT ![c] = Walking(got)] \in [Callers -> CallerType(nQueued)]
  BY <1>m, CallersTyped
<1>1. ASSUME NEW p \in Providers, NEW r \in BOOLEAN, OpenStream(p, r)
      PROVE  StreamTypeOK'
  <2>1. nQueued' = Len(StartDirs) /\ nQueued' \in Nat /\ nQueued' \in 0 .. MaxQueued
    BY <1>1, StreamAssumption DEF OpenStream
  <2>2. queue' \in Seq(EntryType(nQueued'))
    <3>1. Entries(StartDirs, 0) \in Seq(EntryType(0 + Len(StartDirs)))
      BY EntriesTyped, StreamAssumption
    <3>2. 0 + Len(StartDirs) = nQueued'
      BY <2>1
    <3> QED
      BY <1>1, <3>1, <3>2 DEF OpenStream
  <2>3. nQueued = 0
    BY <1>1 DEF OpenStream, WalkInv, NotOpened
  <2>4. caller \in [Callers -> CallerType(nQueued')]
    <3>1. nQueued' \in Nat /\ nQueued <= nQueued'
      BY <1>m, <2>1, <2>3
    <3> QED
      BY <1>m, <3>1, MoreEntries
  <2> QED
    BY <1>1, <1>m, <2>1, <2>2, <2>4, TypesNamed DEF TypesByName, OpenStream
<1>2. CASE CloseStream
  BY <1>2, <1>m, TypesNamed DEF TypesByName, CloseStream, cursor
<1>3. ASSUME NEW c \in Callers, CallNext(c) PROVE StreamTypeOK'
  BY <1>3, <1>m, <1>w, TypesNamed DEF TypesByName, CallNext, cursor
<1>4. ASSUME NEW c \in Callers, ListFirst(c) PROVE StreamTypeOK'
  <2>1. Head(queue) \in EntryType(nQueued) /\ Tail(queue) \in Seq(EntryType(nQueued))
    BY <1>4, <1>m, FirstTyped DEF ListFirst
  <2>2. Head(queue).id \in 1 .. MaxQueued
    BY <2>1, <1>m DEF EntryType
  <2>3. pageToken[Head(queue).id] + 1 \in Nat
    BY <2>2, <1>m
  <2>4. [at |-> "listing", entry |-> Head(queue),
         page |-> pageToken[Head(queue).id] + 1, got |-> caller[c].got]
          \in CallerType(nQueued)
    BY <2>1, <2>3, <1>g DEF CallerType
  <2>5. caller' \in [Callers -> CallerType(nQueued)]
    BY <1>4, <2>4, <1>m DEF ListFirst
  <2> QED
    BY <1>4, <1>m, <2>1, <2>5, TypesNamed DEF TypesByName, ListFirst
<1>5. ASSUME NEW c \in Callers, PageComes(c) PROVE StreamTypeOK'
  <2>1. caller[c].got \cup {<<caller[c].entry.of, caller[c].page>>} \in GotType
    BY <1>5, <1>t, ListedTyped DEF PageComes, OneCalls
  <2>2. caller' \in [Callers -> CallerType(nQueued)]
    BY <1>5, <2>1, <1>w DEF PageComes
  <2>3. pageToken' \in [1 .. MaxQueued -> Nat]
    BY <1>5, <1>m, <1>g DEF PageComes
  <2> QED
    BY <1>5, <1>m, <2>2, <2>3, TypesNamed DEF TypesByName, PageComes
<1>6. ASSUME NEW c \in Callers, LastPageComes(c) PROVE StreamTypeOK'
  <2> DEFINE fs == Found(caller[c].entry.of)
             got == caller[c].got \cup {<<caller[c].entry.of, caller[c].page>>}
  <2>1. got \in GotType /\ caller[c].entry.of \in Dirs
    BY <1>6, <1>t, ListedTyped DEF LastPageComes, OneCalls
  <2>2. fs \in Seq(Dirs) /\ Len(fs) \in Nat
    BY <2>1, <1>t, PagesKnown
  <2>3. /\ nQueued' = nQueued + Len(fs) /\ nQueued' \in 0 .. MaxQueued
        /\ nQueued' \in Nat /\ nQueued <= nQueued'
    BY <1>6, <1>m, <2>2 DEF LastPageComes
  <2>6. Entries(fs, nQueued) \in Seq(EntryType(nQueued'))
    BY <1>m, <2>2, <2>3, EntriesTyped
  <2>7. Popped \in Seq(EntryType(nQueued'))
    BY <1>6, <1>t, <1>m, <2>3, PoppedTyped, MoreEntries DEF LastPageComes
  <2>8. queue' \in Seq(EntryType(nQueued'))
    <3>1. queue' = Popped \o Entries(fs, nQueued)
      BY <1>6 DEF LastPageComes
    <3> QED
      BY <2>6, <2>7, <3>1
  <2>9. caller' \in [Callers -> CallerType(nQueued')]
    <3>1. caller' \in [Callers -> CallerType(nQueued)]
      BY <1>6, <2>1, <1>w DEF LastPageComes
    <3> QED
      BY <3>1, <1>m, <2>3, MoreEntries
  <2> QED
    BY <1>6, <1>m, <2>3, <2>8, <2>9, TypesNamed DEF TypesByName, LastPageComes
<1>7. ASSUME NEW c \in Callers, ListingRefused(c) PROVE StreamTypeOK'
  <2>1. Popped \in Seq(EntryType(nQueued))
    BY <1>7, <1>t, PoppedTyped DEF ListingRefused
  <2>2. caller' \in [Callers -> CallerType(nQueued)]
    BY <1>7, <1>g, <1>w DEF ListingRefused
  <2> QED
    BY <1>7, <1>m, <2>1, <2>2, TypesNamed DEF TypesByName, ListingRefused
<1>8. ASSUME NEW c \in Callers, Deliver(c) PROVE StreamTypeOK'
  <2>1. caller' \in [Callers -> CallerType(nQueued)]
    BY <1>8, <1>m, <1>w DEF Deliver
  <2>2. delivered' \in GotType
    BY <1>8, <1>m, <1>g DEF Deliver, GotType
  <2> QED
    BY <1>8, <1>m, <2>1, <2>2, TypesNamed DEF TypesByName, Deliver, cursor
<1>9. ASSUME NEW c \in Callers, Raises(c) PROVE StreamTypeOK'
  <2>1. caller' \in [Callers -> CallerType(nQueued)]
    BY <1>9, <1>m, <1>w DEF Raises
  <2>2. skipped' \in BOOLEAN
    BY <1>9, <1>m DEF Raises
  <2> QED
    BY <1>9, <1>m, <2>1, <2>2, TypesNamed DEF TypesByName, Raises, cursor
<1>10. CASE UNCHANGED streamVars
  BY <1>10, <1>m, TypesNamed DEF TypesByName, streamVars, cursor
<1> QED
  BY <1>1, <1>2, <1>3, <1>4, <1>5, <1>6, <1>7, <1>8, <1>9, <1>10 DEF StreamNext

LEMMA RestingFields ==
  /\ Resting.at = "idle" /\ Resting.got = {}
  /\ \A got : Walking(got).at = "walking" /\ Walking(got).got = got
BY DEF Resting, Walking

LEMMA CallsKept ==
  ASSUME WalkInv, [StreamNext]_streamVars
  PROVE  OneCalls' /\ UnreadAreZero' /\ NotOpened'
<1> USE RestingFields
<1>t. /\ StreamTypeOK /\ OneCalls /\ UnreadAreZero /\ NotOpened
      /\ nQueued \in Nat /\ MaxQueued \in Nat
      /\ pageToken \in [1 .. MaxQueued -> Nat]
      /\ queue \in Seq(EntryType(nQueued))
      /\ caller \in [Callers -> CallerType(nQueued)]
      /\ \A c \in Callers : caller[c].page \in Nat
  BY StreamAssumption, TypesNamed DEF WalkInv, TypesByName, CallerType
<1>1. ASSUME NEW p \in Providers, NEW r \in BOOLEAN, OpenStream(p, r)
      PROVE  OneCalls' /\ UnreadAreZero' /\ NotOpened'
  <2>1. OneCalls'
    BY <1>1, <1>t DEF OpenStream, OneCalls
  <2>2. UnreadAreZero'
    <3>1. nQueued = 0
      BY <1>1, <1>t DEF OpenStream, NotOpened
    <3>2. \A i \in 1 .. MaxQueued : pageToken[i] = 0
      BY <3>1, <1>t DEF UnreadAreZero
    <3> QED
      BY <1>1, <3>2 DEF OpenStream, UnreadAreZero
  <2>3. NotOpened'
    BY <1>1 DEF OpenStream, NotOpened
  <2> QED
    BY <2>1, <2>2, <2>3
<1>2. CASE CloseStream
  BY <1>2, <1>t DEF CloseStream, cursor, OneCalls, UnreadAreZero, NotOpened
<1>3. ASSUME NEW c \in Callers, CallNext(c)
      PROVE  OneCalls' /\ UnreadAreZero' /\ NotOpened'
  <2>1. OneCalls'
    BY <1>3, <1>t DEF CallNext, OneCalls
  <2>2. UnreadAreZero' /\ NotOpened'
    BY <1>3, <1>t DEF CallNext, cursor, UnreadAreZero, NotOpened
  <2> QED
    BY <2>1, <2>2
<1>4. ASSUME NEW c \in Callers, ListFirst(c)
      PROVE  OneCalls' /\ UnreadAreZero' /\ NotOpened'
  <2>1. Head(queue) \in EntryType(nQueued)
    BY <1>4, <1>t, FirstTyped DEF ListFirst
  <2>2. Head(queue).of \in Dirs /\ Head(queue).id \in 1 .. MaxQueued
    BY <2>1, <1>t DEF EntryType, StreamTypeOK
  <2>3. Head(queue) # NoEntry /\ pageToken[Head(queue).id] + 1 >= 1
    BY <2>2, <1>t, StreamAssumption DEF NoEntry
  <2>4. OneCalls'
    BY <1>4, <1>t, <2>3 DEF ListFirst, OneCalls
  <2>5. UnreadAreZero' /\ NotOpened'
    BY <1>4, <1>t DEF ListFirst, UnreadAreZero, NotOpened
  <2> QED
    BY <2>4, <2>5
<1>5. ASSUME NEW c \in Callers, PageComes(c)
      PROVE  OneCalls' /\ UnreadAreZero' /\ NotOpened'
  <2>1. OneCalls'
    BY <1>5, <1>t DEF PageComes, OneCalls
  <2>2. caller[c].entry \in EntryType(nQueued)
    BY <1>5, <1>t, ListedTyped DEF PageComes, OneCalls
  <2>3. caller[c].entry.id \in Nat /\ caller[c].entry.id <= nQueued
    BY <2>2, <1>t DEF EntryType
  <2>4. UnreadAreZero'
    BY <1>5, <1>t, <2>3 DEF PageComes, UnreadAreZero
  <2>5. NotOpened'
    BY <1>5, <1>t DEF PageComes, NotOpened
  <2> QED
    BY <2>1, <2>4, <2>5
<1>6. ASSUME NEW c \in Callers, LastPageComes(c)
      PROVE  OneCalls' /\ UnreadAreZero' /\ NotOpened'
  <2>1. OneCalls'
    BY <1>6, <1>t DEF LastPageComes, OneCalls
  <2>2. caller[c].entry.of \in Dirs
    BY <1>6, <1>t, ListedTyped DEF LastPageComes, OneCalls
  <2>3. Len(Found(caller[c].entry.of)) \in Nat
    BY <2>2, <1>t, PagesKnown
  <2>4. UnreadAreZero'
    BY <1>6, <1>t, <2>3 DEF LastPageComes, UnreadAreZero
  <2>5. NotOpened'
    BY <1>6, <1>t DEF LastPageComes, NotOpened
  <2> QED
    BY <2>1, <2>4, <2>5
<1>7. ASSUME NEW c \in Callers, ListingRefused(c)
      PROVE  OneCalls' /\ UnreadAreZero' /\ NotOpened'
  <2>1. OneCalls'
    BY <1>7, <1>t DEF ListingRefused, OneCalls
  <2>2. UnreadAreZero' /\ NotOpened'
    BY <1>7, <1>t DEF ListingRefused, UnreadAreZero, NotOpened
  <2> QED
    BY <2>1, <2>2
<1>8. ASSUME NEW c \in Callers, Deliver(c)
      PROVE  OneCalls' /\ UnreadAreZero' /\ NotOpened'
  <2>1. OneCalls'
    BY <1>8, <1>t DEF Deliver, OneCalls
  <2>2. UnreadAreZero' /\ NotOpened'
    BY <1>8, <1>t DEF Deliver, cursor, UnreadAreZero, NotOpened
  <2> QED
    BY <2>1, <2>2
<1>9. ASSUME NEW c \in Callers, Raises(c)
      PROVE  OneCalls' /\ UnreadAreZero' /\ NotOpened'
  <2>1. OneCalls'
    BY <1>9, <1>t DEF Raises, OneCalls
  <2>2. UnreadAreZero' /\ NotOpened'
    BY <1>9, <1>t DEF Raises, cursor, UnreadAreZero, NotOpened
  <2> QED
    BY <2>1, <2>2
<1>10. CASE UNCHANGED streamVars
  BY <1>10, <1>t DEF streamVars, cursor, OneCalls, UnreadAreZero, NotOpened
<1> QED
  BY <1>1, <1>2, <1>3, <1>4, <1>5, <1>6, <1>7, <1>8, <1>9, <1>10 DEF StreamNext

LEMMA SameProvider ==
  ASSUME UNCHANGED <<provider, recursive>>, NEW f
  PROVE  NumPages(f)' = NumPages(f) /\ Found(f)' = Found(f)
BY DEF NumPages, Found

LEMMA OpenTracks ==
  ASSUME WalkInv, StreamTypeOK', NEW p \in Providers, NEW r \in BOOLEAN,
         OpenStream(p, r)
  PROVE  Tracked'
<1>t. /\ StreamTypeOK /\ UnreadAreZero /\ NotOpened /\ OneCalls
      /\ nQueued = 0 /\ delivered = {} /\ ~finished
      /\ \A c \in Callers : caller[c].at = "idle" /\ caller[c].got = {}
      /\ MaxQueued \in Nat
  BY StreamAssumption DEF WalkInv, OpenStream, NotOpened, OneCalls
<1>1. /\ queue' = Entries(StartDirs, 0) /\ nQueued' = Len(StartDirs)
      /\ Len(queue') = Len(StartDirs) /\ Len(StartDirs) \in 0 .. MaxQueued
      /\ \A i \in 1 .. Len(StartDirs) :
           /\ queue'[i].of = StartDirs[i] /\ queue'[i].id = i
           /\ StartDirs[i] \in Dirs
  <2>1. /\ queue' = Entries(StartDirs, 0) /\ nQueued' = Len(StartDirs)
        /\ StartDirs \in Seq(Dirs) /\ Len(StartDirs) \in 0 .. MaxQueued
    BY StreamAssumption DEF OpenStream
  <2>2. /\ Len(queue') = Len(StartDirs)
        /\ \A i \in 1 .. Len(StartDirs) :
             queue'[i].of = StartDirs[i] /\ queue'[i].id = 0 + i
    BY <2>1, EntriesTyped
  <2> QED
    BY <2>1, <2>2
<1>2. Gathered' = {}
  BY <1>t DEF OpenStream, Gathered
<1>3. IdsDistinct'
  BY <1>1 DEF IdsDistinct
<1>4. QueuedReadSoFar'
  <2> SUFFICES ASSUME NEW i \in 1 .. Len(StartDirs)
               PROVE  /\ pageToken[i] = 0
                      /\ NumPages(StartDirs[i])' \in Nat \ {0}
    BY <1>1 DEF QueuedReadSoFar, OpenStream
  <2>1. pageToken[i] = 0
    BY <1>t, <1>1 DEF UnreadAreZero
  <2>2. Len(Pages[p][StartDirs[i]]) \in Nat \ {0}
    BY <1>1, PagesOf
  <2> QED
    BY <2>1, <2>2 DEF OpenStream, NumPages
<1>5. NothingForgotten'
  <2> SUFFICES ASSUME NEW f \in Dirs, OnLastPage(f, Gathered)'
               PROVE  InQueue(f)'
    BY DEF NothingForgotten
  <2>1. Named(StartDirs, f)
    BY <1>2 DEF OnLastPage
  <2> QED
    BY <1>1, <2>1 DEF Named, InQueue
<1>6. DoneIsDone'
  BY <1>t DEF OpenStream, DoneIsDone
<1>7. \A c \in Callers : caller'[c].at # "listing"
  BY <1>t DEF OpenStream
<1> QED
  BY <1>3, <1>4, <1>5, <1>6, <1>7 DEF Tracked

\* Steps that leave the cursor and the listings as they are, and no page is
\* lost by.
LEMMA QuietTracks ==
  ASSUME Tracked, UNCHANGED <<provider, recursive, cursor, stream>>,
         Gathered' = Gathered,
         \A c \in Callers :
           caller[c].at = "listing" \/ caller'[c].at = "listing" =>
             caller'[c] = caller[c],
         DoneIsDone'
  PROVE  Tracked'
<1>1. \A f : NumPages(f)' = NumPages(f) /\ Found(f)' = Found(f)
  BY SameProvider
<1>2. IdsDistinct' /\ QueuedReadSoFar'
  BY <1>1 DEF Tracked, IdsDistinct, QueuedReadSoFar, cursor
<1>3. \A c \in Callers : caller'[c].at = "listing" => ListingIsNext(c)'
  BY <1>1 DEF Tracked, ListingIsNext, cursor
<1>4. NothingForgotten'
  <2> SUFFICES ASSUME stream # "none", NEW f \in Dirs, OnLastPage(f, Gathered)'
               PROVE  AllIn(f, Gathered)' \/ InQueue(f)' \/ BeingListed(f)'
    BY DEF NothingForgotten
  <2>1. OnLastPage(f, Gathered)
    BY <1>1 DEF OnLastPage
  <2>2. AllIn(f, Gathered) \/ InQueue(f) \/ BeingListed(f)
    BY <2>1 DEF Tracked, NothingForgotten
  <2> QED
    BY <1>1, <2>2 DEF AllIn, InQueue, BeingListed, cursor
<1> QED
  BY <1>2, <1>3, <1>4 DEF Tracked

LEMMA SameGot ==
  ASSUME delivered' = delivered, \A d \in Callers : caller'[d].got = caller[d].got
  PROVE  Gathered' = Gathered
<1>1. {caller'[d].got : d \in Callers} = {caller[d].got : d \in Callers}
  OBVIOUS
<1> QED
  BY <1>1 DEF Gathered

\* What is known of a call that does not overlap another.
LEMMA AloneIs ==
  ASSUME WalkInv, ~jostled, NEW c \in Callers, caller[c].at # "idle"
  PROVE  /\ \A d \in Callers \ {c} : caller[d].at = "idle" /\ caller[d].got = {}
         /\ \A x : x \in Gathered <=> x \in delivered \/ x \in caller[c].got
<1>1. \A d \in Callers \ {c} : caller[d].at = "idle" /\ caller[d].got = {}
  BY DEF WalkInv, OneCalls
<1> QED
  BY <1>1 DEF Gathered

LEMMA ListTracks ==
  ASSUME WalkInv, ~jostled, ~skipped, NEW c \in Callers, ListFirst(c)
  PROVE  Tracked'
<1> DEFINE e == Head(queue)
<1>t. /\ StreamTypeOK /\ Tracked /\ nQueued \in Nat
      /\ queue \in Seq(EntryType(nQueued)) /\ queue # <<>>
      /\ pageToken \in [1 .. MaxQueued -> Nat]
      /\ caller \in [Callers -> CallerType(nQueued)]
      /\ provider \in {"drive", "local"} /\ caller[c].at = "walking"
      /\ UNCHANGED <<provider, recursive, stream, pageToken, delivered, finished>>
  BY TypesNamed DEF WalkInv, TypesByName, ListFirst, Providers
<1>h. /\ e = queue[1] /\ e \in EntryType(nQueued) /\ Len(queue) \in Nat \ {0}
      /\ Len(Tail(queue)) = Len(queue) - 1
      /\ \A i \in 1 .. (Len(queue) - 1) : Tail(queue)[i] = queue[i + 1]
  BY <1>t, FirstTyped
<1>q. PICK off \in {0, 1} :
        /\ provider = "local" => off = 1
        /\ Len(queue') = Len(queue) - off
        /\ \A i \in 1 .. Len(queue') : queue'[i] = queue[i + off]
  <2>1. CASE provider = "local"
    BY <1>t, <1>h, <2>1 DEF ListFirst
  <2>2. CASE provider = "drive"
    <3>1. queue' = queue
      BY <1>t, <2>2 DEF ListFirst
    <3>2. \A i \in 1 .. Len(queue') : i + 0 = i
      BY <3>1, <1>h
    <3>3. \A i \in 1 .. Len(queue') : queue'[i] = queue[i + 0]
      BY <3>1, <3>2
    <3>4. Len(queue') = Len(queue) - 0
      BY <3>1, <1>h
    <3>5. provider # "local"
      BY <2>2
    <3> QED
      BY <3>3, <3>4, <3>5
  <2> QED
    BY <2>1, <2>2, <1>t
<1>n. \A f : NumPages(f)' = NumPages(f) /\ Found(f)' = Found(f)
  BY <1>t, SameProvider
<1>a. \A d \in Callers \ {c} : caller[d].at = "idle" /\ caller[d].got = {}
  BY <1>t, AloneIs
<1>c. /\ caller'[c].at = "listing" /\ caller'[c].entry = e
      /\ caller'[c].page = pageToken[e.id] + 1 /\ caller'[c].got = caller[c].got
      /\ \A d \in Callers \ {c} : caller'[d] = caller[d]
  BY <1>t DEF ListFirst
<1>g. Gathered' = Gathered
  BY <1>t, <1>c, SameGot
<1>1. IdsDistinct'
  <2> SUFFICES ASSUME NEW i \in 1 .. Len(queue'), NEW j \in 1 .. Len(queue'),
                      queue'[i].id = queue'[j].id
               PROVE  i = j
    BY DEF IdsDistinct
  <2>1. i + off \in 1 .. Len(queue) /\ j + off \in 1 .. Len(queue)
    BY <1>q, <1>h
  <2>2. i + off = j + off
    BY <1>q, <1>t, <2>1 DEF Tracked, IdsDistinct
  <2> QED
    BY <2>2, <1>q
<1>2. QueuedReadSoFar'
  <2> SUFFICES ASSUME NEW i \in 1 .. Len(queue')
               PROVE  /\ pageToken[queue'[i].id] < NumPages(queue'[i].of)
                      /\ \A n \in 1 .. pageToken[queue'[i].id] :
                           <<queue'[i].of, n>> \in Gathered
    BY <1>t, <1>n, <1>g DEF QueuedReadSoFar
  <2>1. i + off \in 1 .. Len(queue)
    BY <1>q, <1>h
  <2> QED
    BY <1>q, <1>t, <2>1 DEF Tracked, QueuedReadSoFar
<1>3. \A d \in Callers : caller'[d].at = "listing" => ListingIsNext(d)'
  <2> SUFFICES ListingIsNext(c)'
    BY <1>a, <1>c
  <2>1. /\ pageToken[e.id] < NumPages(e.of)
        /\ \A n \in 1 .. pageToken[e.id] : <<e.of, n>> \in Gathered
    BY <1>t, <1>h DEF Tracked, QueuedReadSoFar
  <2>2. e.of \in Dirs /\ e.id \in 1 .. MaxQueued /\ pageToken[e.id] \in Nat
    BY <1>h, <1>t, EntryFields
  <2>3. NumPages(e.of) \in Nat
    BY <2>2, <1>t, PagesKnown
  <2>4. (pageToken[e.id] + 1) - 1 = pageToken[e.id] /\ pageToken[e.id] + 1 <= NumPages(e.of)
    BY <2>1, <2>2, <2>3
  <2>5. provider = "local" => \A i \in 1 .. Len(queue') : queue'[i].id # e.id
    <3> SUFFICES ASSUME provider = "local", NEW i \in 1 .. Len(queue')
                 PROVE  queue'[i].id # e.id
      OBVIOUS
    <3>1. queue'[i] = queue[i + 1] /\ i + 1 \in 1 .. Len(queue) /\ i + 1 # 1
      BY <1>q, <1>h
    <3> QED
      BY <3>1, <1>h, <1>t DEF Tracked, IdsDistinct
  <2>6. provider = "drive" => queue' = queue
    BY <1>t DEF ListFirst
  <2> QED
    BY <1>c, <1>t, <1>n, <1>g, <2>1, <2>4, <2>5, <2>6 DEF ListingIsNext
<1>4. NothingForgotten'
  <2> SUFFICES ASSUME stream # "none", NEW f \in Dirs, OnLastPage(f, Gathered)'
               PROVE  AllIn(f, Gathered)' \/ InQueue(f)' \/ BeingListed(f)'
    BY <1>t DEF NothingForgotten
  <2>1. OnLastPage(f, Gathered)
    BY <1>n, <1>g DEF OnLastPage
  <2>2. AllIn(f, Gathered) \/ InQueue(f)
    BY <2>1, <1>t, <1>a DEF Tracked, NothingForgotten, BeingListed
  <2>3. CASE AllIn(f, Gathered)
    BY <2>3, <1>n, <1>g DEF AllIn
  <2>4. CASE InQueue(f)
    <3>1. PICK i \in 1 .. Len(queue) : queue[i].of = f
      BY <2>4 DEF InQueue
    <3>2. CASE i = 1
      BY <3>1, <3>2, <1>h, <1>c DEF BeingListed
    <3>3. CASE i # 1
      <4>1. i - off \in 1 .. Len(queue') /\ (i - off) + off = i
        BY <3>3, <1>q, <1>h
      <4> QED
        BY <4>1, <3>1, <1>q DEF InQueue
    <3> QED
      BY <3>2, <3>3
  <2> QED
    BY <2>2, <2>3, <2>4
<1>5. DoneIsDone'
  BY <1>t DEF Tracked, DoneIsDone
<1> QED
  BY <1>1, <1>2, <1>3, <1>4, <1>5 DEF Tracked

LEMMA PageTracks ==
  ASSUME WalkInv, ~jostled, ~skipped, NEW c \in Callers, PageComes(c)
  PROVE  Tracked'
<1> DEFINE e == caller[c].entry
           n == caller[c].page
<1>t. /\ StreamTypeOK /\ OneCalls /\ Tracked /\ nQueued \in Nat
      /\ queue \in Seq(EntryType(nQueued))
      /\ pageToken \in [1 .. MaxQueued -> Nat]
      /\ caller \in [Callers -> CallerType(nQueued)]
      /\ provider \in {"drive", "local"} /\ caller[c].at = "listing"
      /\ UNCHANGED <<provider, recursive, stream, queue, delivered, finished>>
      /\ n < NumPages(e.of) /\ n \in Nat /\ n >= 1
  BY TypesNamed DEF WalkInv, TypesByName, PageComes, Providers, CallerType, OneCalls
<1>e. e.of \in Dirs /\ e.id \in 1 .. MaxQueued /\ NumPages(e.of) \in Nat
  <2>1. e \in EntryType(nQueued)
    BY <1>t, ListedTyped
  <2> QED
    BY <2>1, <1>t, PagesKnown, EntryFields
<1>l. ListingIsNext(c)
  BY <1>t DEF Tracked
<1>p. provider = "drive"
  BY <1>t, <1>e, PagesKnown
<1>h. queue # <<>> /\ e = queue[1] /\ Len(queue) \in Nat \ {0}
  BY <1>t, <1>l, <1>p, FirstTyped DEF ListingIsNext
<1>n. \A f : NumPages(f)' = NumPages(f) /\ Found(f)' = Found(f)
  BY <1>t, SameProvider
<1>a. /\ \A d \in Callers \ {c} : caller[d].at = "idle" /\ caller[d].got = {}
      /\ \A x : x \in Gathered <=> x \in delivered \/ x \in caller[c].got
  BY <1>t, AloneIs
<1>c. /\ caller'[c].at = "walking"
      /\ caller'[c].got = caller[c].got \cup {<<e.of, n>>}
      /\ \A d \in Callers \ {c} : caller'[d] = caller[d]
  BY <1>t, RestingFields DEF PageComes
<1>g. \A x : x \in Gathered' <=> x \in Gathered \/ x = <<e.of, n>>
  BY <1>t, <1>c, <1>a DEF Gathered
<1>1. IdsDistinct'
  BY <1>t DEF Tracked, IdsDistinct
<1>2. QueuedReadSoFar'
  <2> SUFFICES ASSUME NEW i \in 1 .. Len(queue)
               PROVE  /\ pageToken'[queue[i].id] < NumPages(queue[i].of)
                      /\ \A k \in 1 .. pageToken'[queue[i].id] :
                           <<queue[i].of, k>> \in Gathered'
    BY <1>t, <1>n DEF QueuedReadSoFar
  <2>1. queue[i] \in EntryType(nQueued)
    BY <1>t
  <2>2. queue[i].id \in 1 .. MaxQueued
    BY <2>1, <1>t, EntryFields
  <2>3. CASE i = 1
    <3>1. queue[i] = e /\ pageToken'[queue[i].id] = n
      BY <2>3, <1>h, <1>e, <1>t DEF PageComes
    <3>2. ASSUME NEW k \in 1 .. n PROVE <<e.of, k>> \in Gathered'
      <4>1. k \in 1 .. (n - 1) \/ k = n
        BY <1>t
      <4> QED
        BY <4>1, <1>l, <1>g DEF ListingIsNext
    <3> QED
      BY <3>1, <3>2, <1>t
  <2>4. CASE i # 1
    <3>1. queue[i].id # e.id
      BY <2>4, <1>h, <1>t DEF Tracked, IdsDistinct
    <3>2. pageToken'[queue[i].id] = pageToken[queue[i].id]
      BY <3>1, <2>2, <1>t DEF PageComes
    <3> QED
      BY <3>2, <1>t, <1>g DEF Tracked, QueuedReadSoFar
  <2> QED
    BY <2>3, <2>4
<1>3. \A d \in Callers : caller'[d].at # "listing"
  BY <1>a, <1>c
<1>4. NothingForgotten'
  <2> SUFFICES ASSUME stream # "none", NEW f \in Dirs, OnLastPage(f, Gathered)'
               PROVE  AllIn(f, Gathered)' \/ InQueue(f)' \/ BeingListed(f)'
    BY <1>t DEF NothingForgotten
  <2>1. \A g \in Dirs : <<g, NumPages(g)>> \in Gathered' => <<g, NumPages(g)>> \in Gathered
    BY <1>g, <1>t, <1>e
  <2>2. OnLastPage(f, Gathered)
    BY <1>n, <2>1 DEF OnLastPage
  <2>3. AllIn(f, Gathered) \/ InQueue(f) \/ BeingListed(f)
    BY <2>2, <1>t DEF Tracked, NothingForgotten
  <2>4. BeingListed(f) => InQueue(f)
    BY <1>a, <1>h DEF BeingListed, InQueue
  <2> QED
    BY <2>3, <2>4, <1>n, <1>g, <1>t DEF AllIn, InQueue
<1>5. DoneIsDone'
  BY <1>t DEF Tracked, DoneIsDone
<1> QED
  BY <1>1, <1>2, <1>3, <1>4, <1>5 DEF Tracked

LEMMA Joined ==
  ASSUME NEW S, NEW T, NEW P \in Seq(S), NEW E \in Seq(T)
  PROVE  /\ Len(P \o E) = Len(P) + Len(E) /\ Len(P) \in Nat /\ Len(E) \in Nat
         /\ \A i \in 1 .. Len(P) : i \in 1 .. Len(P \o E) /\ (P \o E)[i] = P[i]
         /\ \A i \in 1 .. Len(E) :
              Len(P) + i \in 1 .. Len(P \o E) /\ (P \o E)[Len(P) + i] = E[i]
         /\ \A j \in 1 .. Len(P \o E) :
              j \in 1 .. Len(P) \/ \E i \in 1 .. Len(E) : j = Len(P) + i
<1>1. Len(P \o E) = Len(P) + Len(E) /\ Len(P) \in Nat /\ Len(E) \in Nat
  OBVIOUS
<1>2. \A i \in 1 .. Len(P) : i \in 1 .. Len(P \o E) /\ (P \o E)[i] = P[i]
  BY <1>1
<1>3. \A i \in 1 .. Len(E) :
        Len(P) + i \in 1 .. Len(P \o E) /\ (P \o E)[Len(P) + i] = E[i]
  BY <1>1
<1>4. ASSUME NEW j \in 1 .. Len(P \o E), j \notin 1 .. Len(P)
      PROVE  \E i \in 1 .. Len(E) : j = Len(P) + i
  <2>1. j - Len(P) \in 1 .. Len(E) /\ j = Len(P) + (j - Len(P))
    BY <1>1, <1>4
  <2> QED
    BY <2>1
<1> QED
  BY <1>1, <1>2, <1>3, <1>4

LEMMA LastPageTracks ==
  ASSUME WalkInv, StreamTypeOK', ~jostled, ~skipped, NEW c \in Callers,
         LastPageComes(c)
  PROVE  Tracked'
<1> DEFINE e == caller[c].entry
           n == caller[c].page
           fs == Found(e.of)
<1>t. /\ StreamTypeOK /\ OneCalls /\ UnreadAreZero /\ Tracked
      /\ nQueued \in Nat /\ MaxQueued \in Nat
      /\ queue \in Seq(EntryType(nQueued))
      /\ pageToken \in [1 .. MaxQueued -> Nat]
      /\ caller \in [Callers -> CallerType(nQueued)]
      /\ provider \in {"drive", "local"} /\ caller[c].at = "listing"
      /\ UNCHANGED <<provider, recursive, stream, pageToken, delivered, finished>>
      /\ n >= NumPages(e.of) /\ n \in Nat /\ n >= 1
      /\ nQueued' = nQueued + Len(fs) /\ nQueued' <= MaxQueued
  BY TypesNamed, StreamAssumption
     DEF WalkInv, TypesByName, LastPageComes, Providers, CallerType, OneCalls
<1>e. /\ e.of \in Dirs /\ e.id \in Nat /\ e.id <= nQueued
      /\ NumPages(e.of) \in Nat /\ fs \in Seq(Dirs) /\ Len(fs) \in Nat
  <2>1. e \in EntryType(nQueued)
    BY <1>t, ListedTyped
  <2> QED
    BY <2>1, <1>t, PagesKnown, EntryFields
<1>l. ListingIsNext(c) /\ n = NumPages(e.of)
  BY <1>t, <1>e DEF Tracked, ListingIsNext
<1>n. \A f : NumPages(f)' = NumPages(f) /\ Found(f)' = Found(f)
  BY <1>t, SameProvider
<1>a. /\ \A d \in Callers \ {c} : caller[d].at = "idle" /\ caller[d].got = {}
      /\ \A x : x \in Gathered <=> x \in delivered \/ x \in caller[c].got
  BY <1>t, AloneIs
<1>c. /\ caller'[c].at = "walking"
      /\ caller'[c].got = caller[c].got \cup {<<e.of, n>>}
      /\ \A d \in Callers \ {c} : caller'[d] = caller[d]
  BY <1>t, RestingFields DEF LastPageComes
<1>g. \A x : x \in Gathered' <=> x \in Gathered \/ x = <<e.of, n>>
  <2>1. delivered' = delivered
    BY <1>t
  <2> QED
    BY <2>1, <1>c, <1>a DEF Gathered
\* What is left of the queue: all of it, or all but the entry listed.
<1>p. PICK off \in {0, 1} :
        /\ Popped \in Seq(EntryType(nQueued)) /\ Len(Popped) \in Nat
        /\ Len(queue) = Len(Popped) + off
        /\ \A i \in 1 .. Len(Popped) : Popped[i] = queue[i + off]
        /\ off = 1 => queue[1] = e
  <2>1. CASE provider = "local"
    <3>1. Popped = queue
      BY <2>1 DEF Popped
    <3>2. Len(queue) \in Nat /\ Len(queue) + 0 = Len(queue)
          /\ \A i \in 1 .. Len(queue) : i + 0 = i
      BY <1>t
    <3>3. /\ Popped \in Seq(EntryType(nQueued)) /\ Len(Popped) \in Nat
          /\ Len(queue) = Len(Popped) + 0
          /\ \A i \in 1 .. Len(Popped) : Popped[i] = queue[i + 0]
      BY <3>1, <3>2, <1>t
    <3> QED
      BY <3>3
  <2>2. CASE provider = "drive"
    <3>1. queue # <<>> /\ Head(queue) = e
      BY <2>2, <1>l DEF ListingIsNext
    <3> QED
      BY <2>2, <3>1, <1>t, FirstTyped DEF Popped
  <2> QED
    BY <2>1, <2>2, <1>t
<1> DEFINE k == Len(Popped)
<1>q. /\ Len(queue') = k + Len(fs)
      /\ \A i \in 1 .. k : i \in 1 .. Len(queue') /\ queue'[i] = Popped[i]
      /\ \A i \in 1 .. Len(fs) :
           /\ k + i \in 1 .. Len(queue')
           /\ queue'[k + i].of = fs[i] /\ queue'[k + i].id = nQueued + i
      /\ \A j \in 1 .. Len(queue') :
           j \in 1 .. k \/ \E i \in 1 .. Len(fs) : j = k + i
  <2>1. PICK E \in Seq(EntryType(nQueued + Len(fs))) :
          /\ queue' = Popped \o E /\ Len(E) = Len(fs)
          /\ \A i \in 1 .. Len(fs) : E[i].of = fs[i] /\ E[i].id = nQueued + i
    <3>1. /\ Entries(fs, nQueued) \in Seq(EntryType(nQueued + Len(fs)))
          /\ Len(Entries(fs, nQueued)) = Len(fs)
          /\ \A i \in 1 .. Len(fs) : /\ Entries(fs, nQueued)[i].of = fs[i]
                                     /\ Entries(fs, nQueued)[i].id = nQueued + i
      <4>1. fs \in Seq(Dirs) /\ nQueued \in Nat
        BY <1>e, <1>t
      <4> QED
        BY <4>1, EntriesTyped
    <3>2. queue' = Popped \o Entries(fs, nQueued)
      BY DEF LastPageComes
    <3> QED
      BY <3>1, <3>2
  <2>2. Popped \in Seq(EntryType(nQueued))
    BY <1>p
  <2>3. /\ Len(Popped \o E) = Len(Popped) + Len(E)
        /\ \A i \in 1 .. Len(Popped) :
             i \in 1 .. Len(Popped \o E) /\ (Popped \o E)[i] = Popped[i]
        /\ \A i \in 1 .. Len(E) : /\ Len(Popped) + i \in 1 .. Len(Popped \o E)
                                  /\ (Popped \o E)[Len(Popped) + i] = E[i]
        /\ \A j \in 1 .. Len(Popped \o E) :
             j \in 1 .. Len(Popped) \/ \E i \in 1 .. Len(E) : j = Len(Popped) + i
    <3> DEFINE T == EntryType(nQueued + Len(fs))
               S == EntryType(nQueued)
    <3>1. E \in Seq(T) /\ Popped \in Seq(S)
      BY <2>1, <2>2
    <3> HIDE DEF T, S
    <3> QED
      BY <3>1, Joined
  <2> QED
    BY <2>1, <2>3
<1>d. \A i, j \in 1 .. Len(queue) : queue[i].id = queue[j].id => i = j
  BY <1>t DEF Tracked, IdsDistinct
<1>r. \A i \in 1 .. Len(queue) :
        /\ pageToken[queue[i].id] < NumPages(queue[i].of)
        /\ \A m \in 1 .. pageToken[queue[i].id] : <<queue[i].of, m>> \in Gathered
  BY <1>t DEF Tracked, QueuedReadSoFar
<1>i. \A i \in 1 .. k :
        /\ i + off \in 1 .. Len(queue) /\ Popped[i] = queue[i + off]
        /\ Popped[i].id \in Nat /\ Popped[i].id <= nQueued
  <2> SUFFICES ASSUME NEW i \in 1 .. k
               PROVE  /\ i + off \in 1 .. Len(queue) /\ Popped[i] = queue[i + off]
                      /\ Popped[i].id \in Nat /\ Popped[i].id <= nQueued
    OBVIOUS
  <2>1. Popped[i] \in EntryType(nQueued)
    BY <1>p
  <2>2. Popped[i].id \in Nat /\ Popped[i].id <= nQueued
    BY <2>1, <1>t, EntryFields
  <2> QED
    BY <2>2, <1>p, <1>t
<1>1. IdsDistinct'
  <2> SUFFICES ASSUME NEW i \in 1 .. Len(queue'), NEW j \in 1 .. Len(queue'),
                      queue'[i].id = queue'[j].id
               PROVE  i = j
    BY DEF IdsDistinct
  <2>1. CASE i \in 1 .. k /\ j \in 1 .. k
    <3>1. queue[i + off].id = queue[j + off].id
      BY <2>1, <1>i, <1>q
    <3>2. i + off = j + off
      BY <3>1, <2>1, <1>i, <1>d
    <3> QED
      BY <3>2, <2>1, <1>p
  <2>2. CASE i \in 1 .. k /\ j \notin 1 .. k
    <3>1. PICK y \in 1 .. Len(fs) : j = k + y
      BY <2>2, <1>q
    <3>2. queue'[i].id <= nQueued /\ queue'[i].id \in Nat
      BY <2>2, <1>i, <1>q
    <3>3. queue'[k + y].id = nQueued + y
      BY <1>q
    <3>4. y \in Nat /\ y >= 1 /\ nQueued \in Nat
      BY <1>e, <1>t
    <3> QED
      BY <3>1, <3>2, <3>3, <3>4
  <2>3. CASE i \notin 1 .. k /\ j \in 1 .. k
    <3>1. PICK x \in 1 .. Len(fs) : i = k + x
      BY <2>3, <1>q
    <3>2. queue'[j].id <= nQueued /\ queue'[j].id \in Nat
      BY <2>3, <1>i, <1>q
    <3>3. queue'[k + x].id = nQueued + x
      BY <1>q
    <3>4. x \in Nat /\ x >= 1 /\ nQueued \in Nat
      BY <1>e, <1>t
    <3> QED
      BY <3>1, <3>2, <3>3, <3>4
  <2>4. CASE i \notin 1 .. k /\ j \notin 1 .. k
    <3>1. PICK x \in 1 .. Len(fs) : i = k + x
      BY <2>4, <1>q
    <3>2. PICK y \in 1 .. Len(fs) : j = k + y
      BY <2>4, <1>q
    <3>3. nQueued + x = nQueued + y
      BY <3>1, <3>2, <1>q
    <3> QED
      BY <3>1, <3>2, <3>3, <1>t, <1>e
  <2> QED
    BY <2>1, <2>2, <2>3, <2>4
<1>2. QueuedReadSoFar'
  <2> SUFFICES ASSUME NEW j \in 1 .. Len(queue')
               PROVE  /\ pageToken[queue'[j].id] < NumPages(queue'[j].of)
                      /\ \A m \in 1 .. pageToken[queue'[j].id] :
                           <<queue'[j].of, m>> \in Gathered'
    BY <1>t, <1>n DEF QueuedReadSoFar
  <2>1. CASE j \in 1 .. k
    <3>1. queue'[j] = queue[j + off] /\ j + off \in 1 .. Len(queue)
      BY <2>1, <1>i, <1>q
    <3> QED
      BY <3>1, <1>r, <1>g
  <2>2. CASE j \notin 1 .. k
    <3>1. PICK i \in 1 .. Len(fs) : j = k + i
      BY <2>2, <1>q
    <3>2. queue'[j].of = fs[i] /\ queue'[j].id = nQueued + i /\ fs[i] \in Dirs
      BY <3>1, <1>q, <1>e
    <3>3. nQueued + i \in 1 .. MaxQueued /\ nQueued + i > nQueued
      BY <1>t, <1>e
    <3>4. pageToken[nQueued + i] = 0
      BY <3>3, <1>t DEF UnreadAreZero
    <3>5. NumPages(fs[i]) \in Nat \ {0}
      BY <3>2, <1>t, PagesKnown
    <3> QED
      BY <3>2, <3>4, <3>5
  <2> QED
    BY <2>1, <2>2
<1>3. \A d \in Callers : caller'[d].at # "listing"
  BY <1>a, <1>c
<1>4. NothingForgotten'
  <2> SUFFICES ASSUME stream # "none", NEW f \in Dirs, OnLastPage(f, Gathered)'
               PROVE  AllIn(f, Gathered)' \/ InQueue(f)' \/ BeingListed(f)'
    BY <1>t DEF NothingForgotten
  <2>1. OnLastPage(f, Gathered) \/ Named(fs, f)
    BY <1>n, <1>g DEF OnLastPage
  <2>2. CASE Named(fs, f)
    BY <2>2, <1>q DEF Named, InQueue
  <2>3. CASE OnLastPage(f, Gathered)
    <3>1. AllIn(f, Gathered) \/ InQueue(f) \/ BeingListed(f)
      BY <2>3, <1>t DEF Tracked, NothingForgotten
    <3>2. f = e.of => AllIn(f, Gathered)'
      <4> SUFFICES ASSUME f = e.of, NEW m \in 1 .. n PROVE <<e.of, m>> \in Gathered'
        BY <1>n, <1>l DEF AllIn
      <4>1. m \in 1 .. (n - 1) \/ m = n
        BY <1>t
      <4> QED
        BY <4>1, <1>l, <1>g DEF ListingIsNext
    <3>3. CASE AllIn(f, Gathered)
      BY <3>3, <1>n, <1>g DEF AllIn
    <3>4. CASE BeingListed(f)
      <4>1. f = e.of
        BY <3>4, <1>a DEF BeingListed
      <4> QED
        BY <4>1, <3>2
    <3>5. CASE InQueue(f)
      <4>1. PICK i \in 1 .. Len(queue) : queue[i].of = f
        BY <3>5 DEF InQueue
      <4>2. CASE off = 1 /\ i = 1
        <5>1. f = e.of
          BY <4>1, <4>2, <1>p
        <5> QED
          BY <5>1, <3>2
      <4>3. CASE ~(off = 1 /\ i = 1)
        <5>1. i - off \in 1 .. k /\ (i - off) + off = i
          BY <4>3, <1>p
        <5>2. queue'[i - off] = queue[i] /\ i - off \in 1 .. Len(queue')
          BY <5>1, <1>i, <1>q
        <5> QED
          BY <5>2, <4>1 DEF InQueue
      <4> QED
        BY <4>2, <4>3
    <3> QED
      BY <3>1, <3>3, <3>4, <3>5
  <2> QED
    BY <2>1, <2>2, <2>3
<1>5. DoneIsDone'
  BY <1>t DEF Tracked, DoneIsDone
<1> QED
  BY <1>1, <1>2, <1>3, <1>4, <1>5 DEF Tracked

\* Calling next, closing, delivering and failing with nothing in hand.
LEMMA CallTracks ==
  ASSUME WalkInv, ~jostled', ~skipped', NEW c \in Callers,
         CallNext(c) \/ Deliver(c) \/ Raises(c)
  PROVE  Tracked'
<1>t. /\ StreamTypeOK /\ OneCalls /\ caller \in [Callers -> CallerType(nQueued)]
      /\ ~jostled /\ ~skipped /\ Tracked
      /\ jostled \in BOOLEAN /\ skipped \in BOOLEAN
      /\ UNCHANGED <<provider, recursive, cursor, stream>>
  BY TypesNamed DEF WalkInv, TypesByName, CallNext, Deliver, Raises
<1>1. CASE CallNext(c)
  <2>1. /\ caller'[c].at = "walking" /\ caller'[c].got = {} /\ caller[c].got = {}
        /\ caller[c].at = "idle"
        /\ \A d \in Callers \ {c} : caller'[d] = caller[d]
        /\ delivered' = delivered /\ finished' = finished
    BY <1>1, <1>t, RestingFields DEF CallNext, OneCalls
  <2>2. Gathered' = Gathered
    BY <2>1, SameGot
  <2>3. DoneIsDone'
    BY <2>1, <1>t DEF Tracked, DoneIsDone, cursor
  <2> QED
    BY <2>1, <2>2, <2>3, <1>t, QuietTracks
<1>2. CASE Deliver(c)
  <2>1. /\ caller[c].at = "walking" /\ caller'[c].at # "listing"
        /\ caller'[c].got = {}
        /\ \A d \in Callers \ {c} : caller'[d] = caller[d]
        /\ delivered' = delivered \cup caller[c].got
        /\ finished' = (finished \/ queue = <<>>)
    BY <1>2, <1>t, RestingFields DEF Deliver
  <2>2. /\ \A d \in Callers \ {c} : caller[d].at = "idle" /\ caller[d].got = {}
        /\ \A x : x \in Gathered <=> x \in delivered \/ x \in caller[c].got
    BY <1>t, <2>1, AloneIs
  <2>3. \A x : x \in Gathered' <=> x \in delivered'
    BY <2>1, <2>2 DEF Gathered
  <2>4. Gathered' = Gathered
    BY <2>1, <2>2, <2>3
  <2>5. DoneIsDone'
    BY <2>1, <2>2, <1>t DEF Tracked, DoneIsDone, cursor
  <2> QED
    BY <2>1, <2>4, <2>5, <1>t, QuietTracks
<1>3. CASE Raises(c)
  <2>1. /\ caller[c].at = "listing" /\ caller[c].got = {}
        /\ caller'[c].at = "idle" /\ caller'[c].got = {}
        /\ \A d \in Callers \ {c} : caller'[d] = caller[d]
        /\ delivered' = delivered /\ finished' = finished /\ provider = "drive"
    BY <1>3, <1>t, RestingFields DEF Raises
  <2>2. Gathered' = Gathered
    BY <2>1, SameGot
  <2>3. DoneIsDone' /\ ~finished
    BY <2>1, <1>t DEF Tracked, DoneIsDone, cursor
  <2>n. \A f : NumPages(f)' = NumPages(f) /\ Found(f)' = Found(f)
    BY <1>t, SameProvider
  <2>4. IdsDistinct' /\ QueuedReadSoFar'
    BY <2>2, <2>n, <1>t DEF Tracked, IdsDistinct, QueuedReadSoFar, cursor
  <2>5. \A d \in Callers \ {c} : caller[d].at = "idle"
    BY <1>t, <2>1, AloneIs
  <2>6. \A d \in Callers : caller'[d].at # "listing"
    BY <2>1, <2>5
  <2>7. queue # <<>> /\ Head(queue) = caller[c].entry
    BY <1>t, <2>1 DEF Tracked, ListingIsNext
  <2>8. 1 \in 1 .. Len(queue) /\ queue[1] = caller[c].entry
    <3>1. queue \in Seq(EntryType(nQueued))
      BY <1>t, TypesNamed DEF TypesByName
    <3> QED
      BY <2>7, <3>1, FirstTyped
  <2>9. NothingForgotten'
    <3> SUFFICES ASSUME stream # "none", NEW f \in Dirs, OnLastPage(f, Gathered)'
                 PROVE  AllIn(f, Gathered)' \/ InQueue(f)' \/ BeingListed(f)'
      BY <1>t DEF NothingForgotten
    <3>1. OnLastPage(f, Gathered)
      BY <2>n, <2>2 DEF OnLastPage
    <3>2. AllIn(f, Gathered) \/ InQueue(f) \/ BeingListed(f)
      BY <3>1, <1>t DEF Tracked, NothingForgotten
    <3>3. BeingListed(f) => InQueue(f)
      BY <2>5, <2>8 DEF BeingListed, InQueue
    <3> QED
      BY <3>2, <3>3, <2>n, <2>2, <1>t DEF AllIn, InQueue, cursor
  <2> QED
    BY <2>3, <2>4, <2>6, <2>9 DEF Tracked
<1> QED
  BY <1>1, <1>2, <1>3

LEMMA StreamKept == WalkInv /\ [StreamNext]_streamVars => WalkInv'
<1> SUFFICES ASSUME WalkInv, [StreamNext]_streamVars PROVE WalkInv'
  OBVIOUS
<1>1. StreamTypeOK' /\ OneCalls' /\ UnreadAreZero' /\ NotOpened'
  BY StreamTyped, CallsKept
<1>2. ASSUME ~jostled', ~skipped' PROVE Tracked'
  <2>0. jostled \in BOOLEAN /\ skipped \in BOOLEAN /\ (~jostled /\ ~skipped => Tracked)
    BY DEF WalkInv, StreamTypeOK
  <2>1. ASSUME NEW p \in Providers, NEW r \in BOOLEAN, OpenStream(p, r)
        PROVE  Tracked'
    BY <2>1, <1>1, OpenTracks
  <2>2. CASE CloseStream
    <3>1. Tracked /\ stream # "none"
      BY <2>0, <2>2, <1>2 DEF CloseStream
    <3> QED
      BY <2>2, <3>1 DEF CloseStream, cursor, Tracked, IdsDistinct,
         QueuedReadSoFar, ListingIsNext, NothingForgotten, DoneIsDone, Gathered,
         OnLastPage, AllIn, InQueue, BeingListed, NumPages, Found
  <2>3. ASSUME NEW c \in Callers, CallNext(c) \/ Deliver(c) \/ Raises(c)
        PROVE  Tracked'
    BY <2>3, <1>2, CallTracks
  <2>4. ASSUME NEW c \in Callers, ListFirst(c) PROVE Tracked'
    BY <2>4, <2>0, <1>2, ListTracks DEF ListFirst
  <2>5. ASSUME NEW c \in Callers, PageComes(c) PROVE Tracked'
    BY <2>5, <2>0, <1>2, PageTracks DEF PageComes
  <2>6. ASSUME NEW c \in Callers, LastPageComes(c) PROVE Tracked'
    BY <2>6, <2>0, <1>1, <1>2, LastPageTracks DEF LastPageComes
  <2>7. ASSUME NEW c \in Callers, ListingRefused(c) PROVE Tracked'
    BY <2>7, <1>2 DEF ListingRefused
  <2>8. CASE UNCHANGED streamVars
    <3>1. Tracked
      BY <2>0, <2>8, <1>2 DEF streamVars
    <3> QED
      BY <2>8, <3>1 DEF streamVars, cursor, Tracked, IdsDistinct,
         QueuedReadSoFar, ListingIsNext, NothingForgotten, DoneIsDone, Gathered,
         OnLastPage, AllIn, InQueue, BeingListed, NumPages, Found
  <2> QED
    BY <2>1, <2>2, <2>3, <2>4, <2>5, <2>6, <2>7, <2>8 DEF StreamNext
<1> QED
  BY <1>1, <1>2 DEF WalkInv

\* The cursor, its entries and the calls under way have their types.
THEOREM StreamTypes == StreamSpec => []StreamTypeOK
<1>1. WalkInv => StreamTypeOK
  BY DEF WalkInv
<1> QED
  BY <1>1, StreamStarts, StreamKept, PTL DEF StreamSpec

LEMMA WalkInvComplete == WalkInv => WalkComplete
<1> SUFFICES ASSUME WalkInv, finished, ~jostled, ~skipped,
                    NEW f \in Dirs, Due(f, delivered)
             PROVE  \/ AllIn(f, delivered)
                    \/ provider = "drive" /\ ~OnLastPage(f, delivered)
  BY DEF WalkComplete
<1>1. Tracked /\ stream # "none"
  BY DEF WalkInv, NotOpened
<1>2. queue = <<>> /\ \A c \in Callers : caller[c].at # "listing" /\ caller[c].got = {}
  BY <1>1 DEF Tracked, DoneIsDone
<1>3. Gathered = delivered
  BY <1>2 DEF Gathered
<1>4. ~InQueue(f) /\ ~BeingListed(f)
  BY <1>2 DEF InQueue, BeingListed
<1>5. OnLastPage(f, delivered) => AllIn(f, delivered)
  BY <1>1, <1>3, <1>4 DEF Tracked, NothingForgotten
<1>6. ASSUME provider # "drive"
      PROVE  OnLastPage(f, delivered)
  <2>1. StreamTypeOK /\ provider = "local"
    BY <1>6 DEF WalkInv, StreamTypeOK, Providers
  <2>2. \A g \in Dirs : NumPages(g) = 1
    BY <2>1, PagesKnown
  <2>3. ASSUME NEW g \in Dirs, NEW n \in 1 .. NumPages(g), recursive
        PROVE  n = NumPages(g) /\ Pages[provider][g][n] = Found(g)
    <3>1. n = NumPages(g)
      BY <2>2, <2>3
    <3> QED
      BY <2>3, <3>1 DEF Found
  <2> QED
    BY <2>3 DEF Due, OnLastPage
<1> QED
  BY <1>5, <1>6

\* Whatever folders there are and however their pages are cut, and in however
\* many calls: a walk that nothing disturbed and that is said to be done has
\* written every page of every folder that it came to, but for those of Drive
\* that only earlier pages of a parent name.
THEOREM WalkSafe == StreamSpec => []WalkComplete
BY StreamStarts, StreamKept, WalkInvComplete, PTL DEF StreamSpec
-----------------------------------------------------------------------------
(* The access token of Drive *)

\* A call has read a refresh token.
Asking == {"look", "hit", "post", "store_token", "store_refresh",
         "store_expiry", "has"}

\* Unless calls were mixed, all that are under way have read one refresh
\* token, and the cache is of one token: between the writes of its two parts
\* it is of that of the call that writes them, and so it is while a call
\* that has found it good has not taken it yet.
CacheInv ==
  /\ \A u \in Users : user[u].at \in Asking <=> user[u].rt # 0
  /\ ~mixed =>
       /\ \A u, v \in Users :
            user[u].rt # 0 /\ user[v].rt # 0 => user[u].rt = user[v].rt
       /\ (\A u \in Users : user[u].at # "store_refresh") =>
            cachedToken = 0 \/ cachedRefresh \in {0, cachedToken}
       /\ \A u \in Users :
            user[u].at \in {"store_refresh", "hit"} =>
              cachedToken \in {0, user[u].rt}
       /\ AsksForTheAccount

DriveTokenInv == TokenTypeOK /\ CacheInv

LEMMA TokenStarts == TokenInit => DriveTokenInv
<1> SUFFICES ASSUME TokenInit PROVE TokenTypeOK /\ CacheInv
  BY DEF DriveTokenInv
<1>1. 0 \in LinkOrNo
  BY TokenAssumption DEF LinkOrNo
<1>2. AtRest \in [at : UserPlaces, rt : LinkOrNo, tok : LinkOrNo,
                  more : {0, 1}]
  BY <1>1 DEF AtRest, UserPlaces
<1>3. TokenTypeOK
  BY <1>1, <1>2 DEF TokenInit, TokenTypeOK
<1>4. CacheInv
  BY DEF TokenInit, CacheInv, AtRest, Asking, AsksForTheAccount
<1> QED
  BY <1>3, <1>4

\* Every call keeps its types.
LEMMA TokenTyped == TokenTypeOK /\ [TokenNext]_tokenVars => TokenTypeOK'
<1> SUFFICES ASSUME TokenTypeOK, [TokenNext]_tokenVars PROVE TokenTypeOK'
  OBVIOUS
<1>0. AtRest \in [at : UserPlaces, rt : LinkOrNo, tok : LinkOrNo,
                  more : {0, 1}]
  BY TokenAssumption DEF AtRest, UserPlaces, LinkOrNo
<1> USE TokenAssumption DEF TokenTypeOK, LinkOrNo, UserPlaces, tokenCache
<1>1. CASE Link \/ Unlink \/ TokenExpires
  <2>1. CASE Link
    <3>1. nLinks + 1 \in 0 .. MaxLinks
      BY <2>1 DEF Link
    <3> QED
      BY <2>1, <3>1 DEF Link
  <2>2. CASE Unlink
    BY <2>2 DEF Unlink
  <2>3. CASE TokenExpires
    BY <2>3 DEF TokenExpires
  <2> QED
    BY <1>1, <2>1, <2>2, <2>3
<1>2. ASSUME NEW u \in Users, NEW more \in {0, 1}, ReadSecrets(u, more)
      PROVE  TokenTypeOK'
  BY <1>2 DEF ReadSecrets, AtRest
<1>3. ASSUME NEW u \in Users, CallDrive(u) \/ UseToken(u)
      PROVE  TokenTypeOK'
  <2>1. CASE CallDrive(u)
    BY <1>2, <2>1 DEF CallDrive
  <2>2. CASE UseToken(u)
    <3>1. CASE user[u].more = 0
      BY <2>2, <3>1 DEF UseToken, AtRest
    <3>2. CASE user[u].more # 0
      <4>1. user[u].more - 1 \in {0, 1}
        BY <3>2
      <4> QED
        BY <1>2, <2>2, <3>2, <4>1 DEF UseToken
    <3> QED
      BY <3>1, <3>2
  <2> QED
    BY <1>3, <2>1, <2>2
<1>4. ASSUME NEW u \in Users, RevokeLink(u) \/ LookInCache(u) PROVE TokenTypeOK'
  BY <1>4 DEF RevokeLink, LookInCache, GoesTo
<1>5. ASSUME NEW u \in Users, NEW t \in LinkOrNo, Has(u, t)
      PROVE  user' \in [Users -> [at : UserPlaces, rt : LinkOrNo,
                                  tok : LinkOrNo, more : {0, 1}]]
  <2>1. [[user[u] EXCEPT !.at = "has"] EXCEPT !.tok = t]
          \in [at : UserPlaces, rt : LinkOrNo, tok : LinkOrNo, more : {0, 1}]
    OBVIOUS
  <2> QED
    BY <1>0, <1>5, <2>1 DEF Has
<1>6. ASSUME NEW u \in Users,
             TakeCached(u) \/ TokenGranted(u)
      PROVE  TokenTypeOK'
  <2>1. CASE TakeCached(u)
    BY <1>5, <2>1 DEF TakeCached
  <2>2. CASE TokenGranted(u)
    BY <1>0, <2>2 DEF TokenGranted, GoesTo
  <2> QED
    BY <1>6, <2>1, <2>2
<1>7. ASSUME NEW u \in Users,
             StoreToken(u) \/ StoreRefresh(u) \/ StoreExpiry(u)
      PROVE  TokenTypeOK'
  <2>1. CASE StoreToken(u)
    BY <2>1 DEF StoreToken, GoesTo
  <2>2. CASE StoreRefresh(u)
    BY <2>2 DEF StoreRefresh, GoesTo
  <2>3. CASE StoreExpiry(u)
    BY <1>5, <2>3 DEF StoreExpiry
  <2> QED
    BY <1>7, <2>1, <2>2, <2>3
<1>8. ASSUME NEW u \in Users,
             ForgetToken(u) \/ ForgetRefresh(u) \/ ForgetExpiry(u)
      PROVE  TokenTypeOK'
  <2>1. CASE ForgetToken(u)
    BY <2>1 DEF ForgetToken, GoesTo
  <2>2. CASE ForgetRefresh(u)
    BY <2>2 DEF ForgetRefresh, GoesTo
  <2>3. CASE ForgetExpiry(u)
    BY <1>0, <2>3 DEF ForgetExpiry
  <2> QED
    BY <1>8, <2>1, <2>2, <2>3
<1>9. CASE UNCHANGED tokenVars
  BY <1>9 DEF tokenVars
<1> QED
  BY <1>1, <1>3, <1>4, <1>6, <1>7, <1>8, <1>9 DEF TokenNext

\* A call that reads the secrets again has one refresh token, or mixes.
LEMMA SecretsRead ==
  ASSUME DriveTokenInv, NEW u \in Users, NEW more \in {0, 1}, ReadSecrets(u, more),
         user[u].at \in {"idle", "has"}
  PROVE  CacheInv'
<1> USE DEF DriveTokenInv, CacheInv, TokenTypeOK, AsksForTheAccount, Asking, LinkOrNo
<1>1. user'[u].at = IF linked = 0 THEN "forget" ELSE "look"
  BY DEF ReadSecrets, AtRest
<1>2. user'[u].rt = linked
  BY DEF ReadSecrets, AtRest
<1>3. \A v \in Users \ {u} : user'[v] = user[v]
  BY DEF ReadSecrets
<1>4. cachedToken' = cachedToken /\ cachedRefresh' = cachedRefresh
  BY DEF ReadSecrets, tokenCache
<1>5. ~mixed' => ~mixed /\ (linked # 0 => \A v \in Users \ {u} :
                                            user[v].rt \in {0, linked})
  BY DEF ReadSecrets
<1>6. user[u].at # "store_refresh" /\ user'[u].at # "store_refresh"
  BY <1>1
<1> QED
  BY <1>1, <1>2, <1>3, <1>4, <1>5, <1>6

\* Every step leaves the cache and the calls in order.
LEMMA TokenCached == DriveTokenInv /\ [TokenNext]_tokenVars => CacheInv'
<1> SUFFICES ASSUME DriveTokenInv, [TokenNext]_tokenVars PROVE CacheInv'
  OBVIOUS
<1> USE DEF DriveTokenInv, CacheInv, TokenTypeOK, AsksForTheAccount, Asking,
            LinkOrNo, tokenCache
<1>1. CASE Link \/ Unlink \/ TokenExpires
  BY <1>1 DEF Link, Unlink, TokenExpires
<1>2. ASSUME NEW u \in Users, CallDrive(u) PROVE CacheInv'
  BY <1>2, SecretsRead DEF CallDrive
<1>3. ASSUME NEW u \in Users, UseToken(u) PROVE CacheInv'
  <2>1. CASE user[u].more = 0
    BY <1>3, <2>1 DEF UseToken, AtRest
  <2>2. CASE user[u].more # 0
    <3>1. user[u].more - 1 \in {0, 1}
      BY <2>2
    <3> QED
      BY <1>3, <2>2, <3>1, SecretsRead DEF UseToken
  <2> QED
    BY <2>1, <2>2
<1>4. ASSUME NEW u \in Users, RevokeLink(u) PROVE CacheInv'
  BY <1>4 DEF RevokeLink, GoesTo
<1>5. ASSUME NEW u \in Users, LookInCache(u) PROVE CacheInv'
  BY <1>5 DEF LookInCache, GoesTo, Hits
<1>6. ASSUME NEW u \in Users, TakeCached(u) PROVE CacheInv'
  BY <1>6 DEF TakeCached, Has, AtRest
<1>7. ASSUME NEW u \in Users, TokenGranted(u) PROVE CacheInv'
  BY <1>7 DEF TokenGranted, GoesTo, AtRest
<1>8. ASSUME NEW u \in Users, StoreToken(u) PROVE CacheInv'
  BY <1>8 DEF StoreToken, GoesTo
<1>9. ASSUME NEW u \in Users, StoreRefresh(u) PROVE CacheInv'
  BY <1>9 DEF StoreRefresh, GoesTo
<1>10. ASSUME NEW u \in Users, StoreExpiry(u) PROVE CacheInv'
  BY <1>10 DEF StoreExpiry, Has, AtRest
<1>11. ASSUME NEW u \in Users, ForgetToken(u) PROVE CacheInv'
  BY <1>11 DEF ForgetToken, GoesTo
<1>12. ASSUME NEW u \in Users, ForgetRefresh(u) PROVE CacheInv'
  BY <1>12 DEF ForgetRefresh, GoesTo
<1>13. ASSUME NEW u \in Users, ForgetExpiry(u) PROVE CacheInv'
  BY <1>13 DEF ForgetExpiry, AtRest
<1>14. CASE UNCHANGED tokenVars
  BY <1>14 DEF tokenVars
<1> QED
  BY <1>1, <1>2, <1>3, <1>4, <1>5, <1>6, <1>7, <1>8, <1>9, <1>10, <1>11,
     <1>12, <1>13, <1>14 DEF TokenNext

LEMMA DriveTokenInvHolds == TokenSpec => []DriveTokenInv
<1>1. DriveTokenInv /\ [TokenNext]_tokenVars => DriveTokenInv'
  BY TokenTyped, TokenCached DEF DriveTokenInv
<1> QED
  BY <1>1, TokenStarts, PTL DEF TokenSpec

\* The secret, the cache and every call keep their types.
THEOREM DriveTokenTypes == TokenSpec => []TokenTypeOK
<1>1. DriveTokenInv => TokenTypeOK
  BY DEF DriveTokenInv
<1> QED
  BY <1>1, DriveTokenInvHolds, PTL

\* However many threads share the provider and however often an account is
\* connected: Drive is asked with a token of the account that was connected
\* when the call looked, unless calls for two accounts were mixed.
THEOREM AsksForTheAccountSafe == TokenSpec => []AsksForTheAccount
<1>1. DriveTokenInv => AsksForTheAccount
  BY DEF DriveTokenInv, CacheInv, AsksForTheAccount
<1> QED
  BY <1>1, DriveTokenInvHolds, PTL
=============================================================================
