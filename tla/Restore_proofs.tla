-------------------------- MODULE Restore_proofs --------------------------
(***************************************************************************)
(* Proofs about backup and restore: types, the interlock, the journals,    *)
(* and that the detailed steps implement DatabaseSpec.                     *)
(***************************************************************************)
EXTENDS Restore, TLAPS

\* Closing a connection never changes what a query sees.
LEMMA FilesAfterFacts ==
  ASSUME NEW m, NEW l, NEW open, FilesAfter(m, l, open)
  PROVE  /\ conns' = open
         /\ main' \cup wal' = m \cup l
         /\ main' \subseteq m \cup l /\ wal' \subseteq m \cup l
         /\ open = {} => wal' = {}
  BY DEF FilesAfter

\* A commit adds its change to what a query sees, in WAL mode or not.
LEMMA CommitFacts ==
  ASSUME TypeOK, NEW w \in Workers, Commit(w)
  PROVE  /\ req[w] \in Requests
         /\ main' \cup wal' = main \cup wal \cup {req[w]}
         /\ main' \subseteq Requests /\ wal' \subseteq Requests
         /\ conns' = IF kind[w] \in OrmKinds THEN conns \ {w} ELSE conns
         /\ conns' = {} => wal' = {}
<1> DEFINE open == IF kind[w] \in OrmKinds THEN conns \ {w} ELSE conns
<1>1. req[w] \in Requests /\ main \subseteq Requests /\ wal \subseteq Requests
  BY DEF Commit, TypeOK, ProcessType, FilesType
<1>2. \/ FilesAfter(main, wal \cup {req[w]}, open)
      \/ FilesAfter(main \cup {req[w]}, wal, open)
  BY DEF Commit
<1> HIDE DEF open
<1>3. /\ conns' = open
      /\ main' \cup wal' = main \cup wal \cup {req[w]}
      /\ open = {} => wal' = {}
  BY <1>2, FilesAfterFacts
<1>4. QED
  BY <1>1, <1>3 DEF open

\* A handler that returns or goes on keeps the types of its worker.
LEMMA ReturnTypes ==
  ASSUME ProcessType, NEW S, Return(S),
         UNCHANGED <<maintenance, lock, nRequests, nRestores>>
  PROVE  ProcessType'
<1>1. pc' \in [Workers -> WorkerPCs]
  BY DEF ProcessType, Return, WorkerPCs
<1>2. kind' \in [Workers -> AllKinds \cup {"none"}]
  BY DEF ProcessType, Return
<1>3. req' \in [Workers -> 0 .. MaxRequests]
  BY RestoreAssumption DEF ProcessType, Return
<1>4. \A w \in Workers :
         pc'[w] # "idle" => req'[w] \in Requests /\ kind'[w] \in AllKinds
  BY DEF ProcessType, Return
<1>5. QED
  BY <1>1, <1>2, <1>3, <1>4 DEF ProcessType

\* ... nor does one that goes on.
LEMMA StepTypes ==
  ASSUME ProcessType, NEW w \in Workers, NEW s \in WorkerPCs, Step(w, s),
         pc[w] # "idle", UNCHANGED <<maintenance, lock, nRequests, nRestores>>
  PROVE  ProcessType'
<1>1. pc' \in [Workers -> WorkerPCs]
  BY DEF ProcessType, Step
<1>2. \A v \in Workers :
         pc'[v] # "idle" => req'[v] \in Requests /\ kind'[v] \in AllKinds
  BY DEF ProcessType, Step
<1>3. QED
  BY <1>1, <1>2 DEF ProcessType, Step

\* Closing the connections of SQLAlchemy sessions leaves the others open.
LEMMA CloseHandlesTypes ==
  ASSUME TypeOK, CloseHandles,
         UNCHANGED <<exports, journal, maintenance, lock, nRequests,
                     nRestores>>
  PROVE  /\ FilesType' /\ ProcessType'
         /\ main' \cup wal' = main \cup wal
         /\ conns' = {} => wal' = {} \/ (conns = {} /\ wal' = wal)
         /\ conns' \subseteq {v \in Workers : pc'[v] \in {"open", "append"}}
<1> DEFINE swept == {w \in conns : kind[w] \in OrmKinds}
<1>1. /\ IF swept = {} THEN UNCHANGED <<main, wal, conns>>
                       ELSE FilesAfter(main, wal, conns \ swept)
      /\ Return(swept)
      /\ main \subseteq Requests /\ wal \subseteq Requests
  BY DEF TypeOK, FilesType, CloseHandles
<1> HIDE DEF swept
<1>2. /\ conns' = conns \ swept
      /\ main' \cup wal' = main \cup wal
      /\ conns' = {} => wal' = {} \/ (conns = {} /\ wal' = wal)
  BY <1>1, FilesAfterFacts
<1>3. FilesType'
  BY <1>1, <1>2 DEF TypeOK, FilesType
<1>4. ProcessType'
  BY <1>1, ReturnTypes DEF TypeOK
<1>5. conns' \subseteq {v \in Workers : pc'[v] \in {"open", "append"}}
  BY <1>1, <1>2 DEF TypeOK, Return
<1>6. QED
  BY <1>2, <1>3, <1>4, <1>5

\* The initial state is well typed.
LEMMA TypeInit == Init => TypeOK
<1> SUFFICES ASSUME Init PROVE TypeOK
  OBVIOUS
<1>1. FilesType /\ RestoreType
  BY DEF Init, FilesType, RestoreType, RestorePCs, Requests
<1>2. ProcessType
  <2>1. pc \in [Workers -> WorkerPCs] /\ kind \in [Workers -> AllKinds \cup {"none"}]
    BY DEF Init, WorkerPCs
  <2>2. req \in [Workers -> 0 .. MaxRequests] /\ \A w \in Workers : pc[w] = "idle"
    BY RestoreAssumption DEF Init
  <2>3. nRequests \in 0 .. MaxRequests /\ nRestores \in 0 .. MaxRestores
    BY RestoreAssumption DEF Init
  <2>4. maintenance \in BOOLEAN /\ lock \in Restorers \cup {Nobody}
    BY DEF Init
  <2>5. QED
    BY <2>1, <2>2, <2>3, <2>4 DEF ProcessType
<1>3. QED
  BY <1>1, <1>2 DEF Init, TypeOK

\* Every step keeps the types.
LEMMA TypeStep == TypeOK /\ [Next]_vars => TypeOK'
<1> SUFFICES ASSUME TypeOK, [Next]_vars PROVE TypeOK'
  OBVIOUS
<1>1. ASSUME NEW w \in Workers, Serve(w)
      PROVE  TypeOK'
  <2>1. ASSUME NEW k \in Kinds, Admit(w, k)
        PROVE  TypeOK'
    BY <2>1, RestoreAssumption DEF TypeOK, FilesType, ProcessType, RestoreType,
         WorkerPCs, RestorePCs, Requests, AllKinds, Admit, files, restore,
         history
  <2>2. CASE CreateSession(w)
    <3>1. ProcessType'
      <4>1. CASE Return({w})
        BY <2>2, <4>1, ReturnTypes DEF TypeOK, CreateSession, process
      <4>2. CASE Step(w, "session")
        BY <2>2, <4>2, StepTypes DEF TypeOK, CreateSession, process, WorkerPCs
      <4>3. QED
        BY <2>2, <4>1, <4>2 DEF CreateSession
    <3>2. conns' \subseteq {v \in Workers : pc'[v] \in {"open", "append"}}
      BY <2>2 DEF TypeOK, ProcessType, CreateSession, Step, Return, process
    <3>3. QED
      BY <2>2, <3>1, <3>2 DEF TypeOK, FilesType, RestoreType, CreateSession,
                              files, restore, history
  <2>3. CASE Connect(w)
    BY <2>3, RestoreAssumption DEF TypeOK, FilesType, ProcessType, RestoreType,
         WorkerPCs, RestorePCs, Requests, AllKinds, Connect, Step, files,
         restore, history
  <2>4. CASE Commit(w)
    <3>1. /\ req[w] \in Requests
          /\ main' \subseteq Requests /\ wal' \subseteq Requests
          /\ conns' = IF kind[w] \in OrmKinds THEN conns \ {w} ELSE conns
      BY <2>4, CommitFacts
    <3>2. FilesType' /\ RestoreType'
      BY <2>4, <3>1 DEF TypeOK, FilesType, RestoreType, Commit, restore
    <3>3. ProcessType'
      <4>1. CASE Return({w})
        BY <2>4, <4>1, ReturnTypes DEF TypeOK, Commit
      <4>2. CASE Step(w, "append")
        BY <2>4, <4>2, StepTypes DEF TypeOK, Commit, WorkerPCs
      <4>3. QED
        BY <2>4, <4>1, <4>2 DEF Commit
    <3>4. /\ since' \subseteq Requests /\ crossed' \subseteq Requests
          /\ unarchived' \in BOOLEAN
      BY <2>4, <3>1 DEF TypeOK, Commit
    <3>5. conns' \subseteq {v \in Workers : pc'[v] \in {"open", "append"}}
      <4>1. CASE w \in conns'
        <5>1. kind[w] \in JournalKinds
          BY <2>4, <3>1, <4>1 DEF TypeOK, ProcessType, AllKinds, OrmKinds,
                                  JournalKinds, Commit
        <5>2. QED
          BY <2>4, <3>1, <5>1 DEF TypeOK, ProcessType, Commit, Step
      <4>2. CASE w \notin conns'
        BY <2>4, <3>1, <4>2 DEF TypeOK, ProcessType, Commit, Step, Return
      <4>3. QED
        BY <4>1, <4>2
    <3>6. QED
      BY <3>2, <3>3, <3>4, <3>5 DEF TypeOK
  <2>5. CASE Append(w)
    <3>1. /\ FilesAfter(main, wal, conns \ {w}) /\ Return({w})
          /\ UNCHANGED <<maintenance, lock, nRequests, nRestores, restore, history>>
      BY <2>5 DEF Append
    <3>2. /\ main' \subseteq Requests /\ wal' \subseteq Requests
          /\ conns' = conns \ {w}
      BY <3>1, FilesAfterFacts DEF TypeOK, FilesType
    <3>3. FilesType'
      BY <2>5, <3>2 DEF TypeOK, FilesType, ProcessType, Append, Visible
    <3>4. ProcessType'
      BY <3>1, ReturnTypes DEF TypeOK
    <3>5. conns' \subseteq {v \in Workers : pc'[v] \in {"open", "append"}}
      BY <3>1, <3>2 DEF TypeOK, Return
    <3>6. QED
      BY <3>1, <3>3, <3>4, <3>5 DEF TypeOK, RestoreType, restore, history
  <2>6. CASE Backup(w)
    <3>1. /\ FilesAfter(main, wal, conns \ {w}) /\ Return({w})
          /\ UNCHANGED <<maintenance, lock, nRequests, nRestores, restore, history>>
      BY <2>6 DEF Backup
    <3>2. /\ main' \subseteq Requests /\ wal' \subseteq Requests
          /\ conns' = conns \ {w}
      BY <3>1, FilesAfterFacts DEF TypeOK, FilesType
    <3>3. FilesType'
      BY <2>6, <3>2 DEF TypeOK, FilesType, ProcessType, Backup, Visible
    <3>4. ProcessType'
      BY <3>1, ReturnTypes DEF TypeOK
    <3>5. conns' \subseteq {v \in Workers : pc'[v] \in {"open", "append"}}
      BY <3>1, <3>2 DEF TypeOK, Return
    <3>6. QED
      BY <3>1, <3>3, <3>4, <3>5 DEF TypeOK, RestoreType, restore, history
  <2>7. QED
    BY <1>1, <2>1, <2>2, <2>3, <2>4, <2>5, <2>6 DEF Serve
<1>2. ASSUME NEW r \in Restorers, Begin(r) \/ Continue(r)
      PROVE  TypeOK'
  <2>1. CASE Begin(r)
    BY <2>1, RestoreAssumption DEF TypeOK, FilesType, ProcessType, RestoreType,
         WorkerPCs, RestorePCs, Requests, AllKinds, Begin, Goto, files,
         process, serving, restore, history
  <2>2. CASE Load(r)
    <3>1. UNCHANGED <<files, process, serving, history>>
      BY <2>2 DEF Load
    <3>2. /\ rpc \in [Restorers -> RestorePCs]
          /\ temp \in [Restorers -> SUBSET Requests]
          /\ exports \subseteq SUBSET Requests
          /\ result \in [Restorers -> {"none", "ok", "failed", "refused"}]
          /\ {"sweep", "finally"} \subseteq RestorePCs
      BY DEF TypeOK, FilesType, RestoreType, RestorePCs
    <3>3. RestoreType'
      BY <2>2, <3>2 DEF Load, Goto, Answer, RestoreType
    <3>4. FilesType' /\ ProcessType'
      BY <3>1 DEF TypeOK, FilesType, ProcessType, files, process, serving
    <3>5. QED
      BY <3>1, <3>3, <3>4 DEF TypeOK, files, process, serving, history
  <2>3. CASE Sweep(r)
    <3>1. /\ FilesType' /\ ProcessType'
          /\ conns' \subseteq {v \in Workers : pc'[v] \in {"open", "append"}}
      BY <2>3, CloseHandlesTypes DEF Sweep
    <3>2. RestoreType'
      BY <2>3 DEF TypeOK, RestoreType, RestorePCs, Sweep, Goto
    <3>3. QED
      BY <2>3, <3>1, <3>2 DEF TypeOK, Sweep, history
  <2>4. CASE Checkpoint(r)
    BY <2>4, RestoreAssumption DEF TypeOK, FilesType, ProcessType, RestoreType,
         WorkerPCs, RestorePCs, Requests, AllKinds, Checkpoint, FilesAfter,
         Goto, files, process, serving, restore, history
  <2>5. CASE SweepAgain(r)
    <3>1. /\ FilesType' /\ ProcessType'
          /\ conns' \subseteq {v \in Workers : pc'[v] \in {"open", "append"}}
      BY <2>5, CloseHandlesTypes DEF SweepAgain
    <3>2. RestoreType'
      BY <2>5 DEF TypeOK, RestoreType, RestorePCs, SweepAgain, Goto
    <3>3. QED
      BY <2>5, <3>1, <3>2 DEF TypeOK, SweepAgain, history
  <2>6. CASE Cleanup(r)
    BY <2>6, RestoreAssumption DEF TypeOK, FilesType, ProcessType, RestoreType,
         WorkerPCs, RestorePCs, Requests, AllKinds, Cleanup, Goto, files,
         process, serving, restore, history
  <2>7. CASE Wait(r)
    BY <2>7, RestoreAssumption DEF TypeOK, FilesType, ProcessType, RestoreType,
         WorkerPCs, RestorePCs, Requests, AllKinds, Wait, Goto, Answer, files,
         process, serving, restore, history
  <2>8. CASE Replace(r)
    <3>1. crossed' \subseteq Requests
      BY <2>8 DEF TypeOK, ProcessType, Replace, Install, history
    <3>2. FilesType' /\ since' \subseteq Requests /\ unarchived' \in BOOLEAN
      BY <2>8 DEF TypeOK, FilesType, RestoreType, Replace, Install, history
    <3>3. RestoreType'
      BY <2>8 DEF TypeOK, RestoreType, RestorePCs, Replace, Install, Goto,
           Answer
    <3>4. QED
      BY <2>8, <3>1, <3>2, <3>3 DEF TypeOK, ProcessType, Replace, process,
           serving
  <2>9. CASE Archive(r)
    BY <2>9, RestoreAssumption DEF TypeOK, FilesType, ProcessType, RestoreType,
         WorkerPCs, RestorePCs, Requests, AllKinds, Archive, Goto, files,
         process, serving, restore, history
  <2>10. CASE Audit(r)
    BY <2>10, RestoreAssumption DEF TypeOK, FilesType, ProcessType,
         RestoreType, WorkerPCs, RestorePCs, Requests, AllKinds, Audit, Goto,
         Answer, files, process, serving, restore, history
  <2>11. CASE Finally(r)
    BY <2>11, RestoreAssumption DEF TypeOK, FilesType, ProcessType,
         RestoreType, WorkerPCs, RestorePCs, Requests, AllKinds, Finally, Goto,
         files, process, serving, restore, history
  <2>12. CASE Release(r)
    BY <2>12, RestoreAssumption DEF TypeOK, FilesType, ProcessType,
         RestoreType, WorkerPCs, RestorePCs, Requests, AllKinds, Release, Goto,
         files, process, serving, restore, history
  <2>13. QED
    BY <1>2, <2>1, <2>2, <2>3, <2>4, <2>5, <2>6, <2>7, <2>8, <2>9, <2>10,
         <2>11, <2>12 DEF Continue
<1>3. CASE Crash
  <2>1. ProcessType'
    <3>1. /\ pc' \in [Workers -> WorkerPCs]
          /\ kind' \in [Workers -> AllKinds \cup {"none"}]
      BY <1>3 DEF TypeOK, ProcessType, Crash, Return, WorkerPCs
    <3>2. req' \in [Workers -> 0 .. MaxRequests]
      BY <1>3, RestoreAssumption DEF TypeOK, ProcessType, Crash, Return
    <3>3. \A w \in Workers : pc'[w] = "idle"
      BY <1>3 DEF Crash, Return
    <3>4. /\ maintenance' \in BOOLEAN /\ lock' \in Restorers \cup {Nobody}
          /\ nRequests' \in 0 .. MaxRequests /\ nRestores' \in 0 .. MaxRestores
      BY <1>3 DEF TypeOK, ProcessType, Crash
    <3>5. QED
      BY <3>1, <3>2, <3>3, <3>4 DEF ProcessType
  <2>2. FilesType'
    BY <1>3 DEF TypeOK, FilesType, Crash, files
  <2>3. RestoreType'
    BY <1>3 DEF TypeOK, RestoreType, RestorePCs, Crash
  <2>4. QED
    BY <1>3, <2>1, <2>2, <2>3 DEF TypeOK, Crash, history
<1>4. CASE UNCHANGED vars
  BY <1>4 DEF TypeOK, FilesType, ProcessType, RestoreType, WorkerPCs,
       RestorePCs, Requests, AllKinds, vars, files, process, serving, restore,
       history
<1>5. QED
  BY <1>1, <1>2, <1>3, <1>4 DEF Next


-----------------------------------------------------------------------------
(* What a step does to the data a query sees *)

SameData == UNCHANGED <<Visible, exports, since, crossed>>

Copied ==
  exports' = exports \cup {Visible} /\ UNCHANGED <<Visible, since, crossed>>

Committed ==
  \E w \in Workers :
     /\ req[w] \in Requests
     /\ pc[w] # "append"
     /\ Visible' = Visible \cup {req[w]}
     /\ since' = since \cup {req[w]}
     /\ UNCHANGED <<exports, crossed>>

Installed ==
  \E r \in Restorers :
     /\ rpc[r] = "replace"
     /\ Visible' = temp[r]
     /\ since' = {} /\ unarchived' = TRUE
     /\ \A w \in Workers : pc[w] = "append" => req[w] \in crossed'
     /\ crossed \subseteq crossed'
     /\ exports' = exports

DataStep == SameData \/ Copied \/ Committed \/ Installed

\* Only a commit and a replacement of the file change what a query sees; a
\* replacement leaves nothing of the old database.
LEMMA DataSteps ==
  ASSUME TypeOK, WalInv, [Next]_vars
  PROVE  DataStep
<1>1. ASSUME NEW w \in Workers, Serve(w)
      PROVE  DataStep
  <2>1. ASSUME NEW k \in Kinds, Admit(w, k)
        PROVE  DataStep
    BY <2>1 DEF Admit, DataStep, SameData, Visible, files, history
  <2>2. CASE CreateSession(w)
    BY <2>2 DEF CreateSession, DataStep, SameData, Visible, files, history
  <2>3. CASE Connect(w)
    BY <2>3 DEF Connect, DataStep, SameData, Visible, files, history
  <2>4. CASE Commit(w)
    <3>1. req[w] \in Requests /\ Visible' = Visible \cup {req[w]}
      BY <2>4, CommitFacts DEF Visible
    <3>2. QED
      BY <2>4, <3>1 DEF Commit, DataStep, Committed
  <2>5. CASE Append(w)
    <3>1. FilesAfter(main, wal, conns \ {w}) /\ UNCHANGED <<exports, history>>
      BY <2>5 DEF Append
    <3>2. QED
      BY <3>1, FilesAfterFacts DEF DataStep, SameData, Visible, history
  <2>6. CASE Backup(w)
    <3>1. /\ FilesAfter(main, wal, conns \ {w}) /\ UNCHANGED history
          /\ exports' = exports \cup {Visible}
      BY <2>6 DEF Backup
    <3>2. QED
      BY <3>1, FilesAfterFacts DEF DataStep, Copied, Visible, history
  <2>7. QED
    BY <1>1, <2>1, <2>2, <2>3, <2>4, <2>5, <2>6 DEF Serve
<1>2. ASSUME NEW r \in Restorers, Begin(r) \/ Continue(r)
      PROVE  DataStep
  <2>1. CASE Begin(r)
    BY <2>1 DEF Begin, DataStep, SameData, Visible, files, history
  <2>2. CASE Load(r)
    BY <2>2 DEF Load, DataStep, SameData, Visible, files, history
  <2>3. CASE Sweep(r)
    <3>1. CloseHandles /\ UNCHANGED history
          /\ UNCHANGED <<exports, journal, maintenance, lock, nRequests, nRestores>>
      BY <2>3 DEF Sweep
    <3>2. QED
      BY <3>1, CloseHandlesTypes DEF DataStep, SameData, Visible, history
  <2>4. CASE Checkpoint(r)
    <3>1. UNCHANGED <<exports, history>>
      BY <2>4 DEF Checkpoint
    <3>2. main' \cup wal' = main \cup wal
      BY <2>4, FilesAfterFacts DEF Checkpoint
    <3>3. QED
      BY <3>1, <3>2 DEF DataStep, SameData, Visible, history
  <2>5. CASE SweepAgain(r)
    <3>1. CloseHandles /\ UNCHANGED history
          /\ UNCHANGED <<exports, journal, maintenance, lock, nRequests, nRestores>>
      BY <2>5 DEF SweepAgain
    <3>2. QED
      BY <3>1, CloseHandlesTypes DEF DataStep, SameData, Visible, history
  <2>6. CASE Cleanup(r)
    <3>1. wal' = wal
      BY <2>6 DEF Cleanup, WalInv
    <3>2. QED
      BY <2>6, <3>1 DEF Cleanup, DataStep, SameData, Visible, history
  <2>7. CASE Wait(r)
    BY <2>7 DEF Wait, DataStep, SameData, Visible, files, history
  <2>8. CASE Replace(r)
    <3>1. CASE conns = {} /\ Install(r)
      <4>1. wal' = {} /\ main' = temp[r]
        BY <2>8, <3>1 DEF Replace, Install, WalInv
      <4>2. \A w \in Workers : pc[w] = "append" => req[w] \in crossed'
        BY <3>1 DEF Install
      <4>3. QED
        BY <2>8, <3>1, <4>1, <4>2 DEF Replace, Install, DataStep, Installed,
             Visible
    <3>2. CASE UNCHANGED <<main, history>>
      BY <2>8, <3>2 DEF Replace, DataStep, SameData, Visible, history
    <3>3. QED
      BY <2>8, <3>1, <3>2 DEF Replace
  <2>9. CASE Archive(r)
    BY <2>9 DEF Archive, DataStep, SameData, Visible, history
  <2>10. CASE Audit(r)
    BY <2>10 DEF Audit, DataStep, SameData, Visible, files, history
  <2>11. CASE Finally(r)
    BY <2>11 DEF Finally, DataStep, SameData, Visible, files, history
  <2>12. CASE Release(r)
    BY <2>12 DEF Release, DataStep, SameData, Visible, files, history
  <2>13. QED
    BY <1>2, <2>1, <2>2, <2>3, <2>4, <2>5, <2>6, <2>7, <2>8, <2>9, <2>10,
         <2>11, <2>12 DEF Continue
<1>3. CASE Crash
  BY <1>3 DEF Crash, DataStep, SameData, Visible, files, history
<1>4. CASE UNCHANGED vars
  BY <1>4 DEF DataStep, SameData, Visible, vars, files, history
<1>5. QED
  BY <1>1, <1>2, <1>3, <1>4 DEF Next


-----------------------------------------------------------------------------
(* Who takes part in a step *)

\* A request touches nothing of a restore.
LEMMA ServeFrame ==
  ASSUME NEW w \in Workers, Serve(w)
  PROVE  UNCHANGED <<maintenance, lock, restore, unarchived>>
  BY DEF Serve, Admit, CreateSession, Connect, Commit, Append, Backup,
         process, restore, history

\* A restore has the lock until its last step, and is the only one to move.
LEMMA ContinueFrame ==
  ASSUME TypeOK, NEW r \in Restorers, Continue(r)
  PROVE  /\ Restoring(r)
         /\ \A s \in Restorers \ {r} :
               rpc'[s] = rpc[s] /\ temp'[s] = temp[s] /\ result'[s] = result[s]
         /\ rpc'[r] = "idle" \/ lock' = lock
<1> USE DEF TypeOK, RestoreType, Restoring
<1>1. CASE Load(r)
  BY <1>1 DEF process, Load, Goto, Answer
<1>2. CASE Sweep(r)
  BY <1>2 DEF process, Sweep, Goto
<1>3. CASE Checkpoint(r)
  BY <1>3 DEF process, Checkpoint, Goto
<1>4. CASE SweepAgain(r)
  BY <1>4 DEF process, SweepAgain, Goto
<1>5. CASE Cleanup(r)
  BY <1>5 DEF process, Cleanup, Goto
<1>6. CASE Wait(r)
  BY <1>6 DEF process, Wait, Goto, Answer
<1>7. CASE Replace(r)
  BY <1>7 DEF process, Replace, Goto, Answer, Install
<1>8. CASE Archive(r)
  BY <1>8 DEF process, Archive, Goto
<1>9. CASE Audit(r)
  BY <1>9 DEF process, Audit, Goto, Answer
<1>10. CASE Finally(r)
  BY <1>10 DEF process, Finally, Goto
<1>11. CASE Release(r)
  BY <1>11 DEF process, Release, Goto
<1>12. QED
  BY <1>1, <1>2, <1>3, <1>4, <1>5, <1>6, <1>7, <1>8, <1>9, <1>10, <1>11
       DEF Continue

\* The flag is cleared in the last but one step of a restore.
LEMMA ContinueFlag ==
  ASSUME TypeOK, NEW r \in Restorers, Continue(r)
  PROVE  IF rpc[r] = "release"
           THEN maintenance' = maintenance /\ rpc'[r] = "idle"
         ELSE IF rpc'[r] = "release"
           THEN maintenance' = FALSE
         ELSE maintenance' = maintenance /\ rpc'[r] # "idle"
<1> USE DEF TypeOK, RestoreType
<1>1. CASE Load(r)
  BY <1>1 DEF process, Load, Goto, Answer
<1>2. CASE Sweep(r)
  BY <1>2 DEF process, Sweep, Goto
<1>3. CASE Checkpoint(r)
  BY <1>3 DEF process, Checkpoint, Goto
<1>4. CASE SweepAgain(r)
  BY <1>4 DEF process, SweepAgain, Goto
<1>5. CASE Cleanup(r)
  BY <1>5 DEF process, Cleanup, Goto
<1>6. CASE Wait(r)
  BY <1>6 DEF process, Wait, Goto, Answer
<1>7. CASE Replace(r)
  BY <1>7 DEF process, Replace, Goto, Answer, Install
<1>8. CASE Archive(r)
  BY <1>8 DEF process, Archive, Goto
<1>9. CASE Audit(r)
  BY <1>9 DEF process, Audit, Goto, Answer
<1>10. CASE Finally(r)
  BY <1>10 DEF process, Finally, Goto
<1>11. CASE Release(r)
  BY <1>11 DEF process, Release, Goto
<1>12. QED
  BY <1>1, <1>2, <1>3, <1>4, <1>5, <1>6, <1>7, <1>8, <1>9, <1>10, <1>11
       DEF Continue

-----------------------------------------------------------------------------
(* The interlock *)

\* Every step keeps the lock with the one restore at work.
LEMMA LockStep ==
  ASSUME TypeOK, LockInv, [Next]_vars
  PROVE  LockInv'
<1>1. ASSUME NEW w \in Workers, Serve(w)
      PROVE  LockInv'
  BY <1>1, ServeFrame DEF LockInv, Restoring, restore
<1>2. ASSUME NEW r \in Restorers, Begin(r)
      PROVE  LockInv'
  <2>1. \A s \in Restorers : rpc[s] = "idle"
    BY <1>2, RestoreAssumption DEF Begin, LockInv, Restoring
  <2>2. QED
    BY <1>2, <2>1 DEF Begin, Goto, LockInv, Restoring, TypeOK, RestoreType
<1>3. ASSUME NEW r \in Restorers, Continue(r)
      PROVE  LockInv'
  <2>1. lock = r /\ (rpc'[r] = "idle" \/ lock' = lock)
    BY <1>3, ContinueFrame DEF LockInv
  <2>2. \A s \in Restorers \ {r} : rpc'[s] = "idle"
    BY <1>3, <2>1, ContinueFrame DEF LockInv, Restoring
  <2>3. QED
    BY <2>1, <2>2 DEF LockInv, Restoring
<1>4. CASE Crash
  BY <1>4 DEF Crash, LockInv, Restoring
<1>5. CASE UNCHANGED vars
  BY <1>5 DEF LockInv, Restoring, vars, process, restore
<1>6. QED
  BY <1>1, <1>2, <1>3, <1>4, <1>5 DEF Next

\* Two restores never run at once: app_import_commit takes the lock before it
\* does anything and releases it last.
THEOREM RestoresExclusive == Spec => []RestoreExclusive
<1>1. Init => TypeOK /\ LockInv
  BY TypeInit DEF Init, LockInv, Restoring
<1>2. TypeOK /\ LockInv /\ [Next]_vars => TypeOK' /\ LockInv'
  BY TypeStep, LockStep
<1>3. LockInv => RestoreExclusive
  BY DEF LockInv, RestoreExclusive
<1>4. QED
  BY <1>1, <1>2, <1>3, PTL DEF Spec

\* Every variable keeps its type, and only a handler at work has the database
\* open: the handles that would block a restore are all owned by somebody.
THEOREM RestoreTypeCorrect == Spec => []TypeOK
  BY TypeInit, TypeStep, PTL DEF Spec

\* A step with its log line written keeps the flag and the window together.
LEMMA MaintenanceStep ==
  ASSUME TypeOK, LockInv, MaintenanceWindow, "log" \notin Faults, [Next]_vars
  PROVE  MaintenanceWindow'
<1>1. ASSUME NEW w \in Workers, Serve(w)
      PROVE  MaintenanceWindow'
  BY <1>1, ServeFrame DEF MaintenanceWindow, Restoring, restore
<1>2. ASSUME NEW r \in Restorers, Begin(r)
      PROVE  MaintenanceWindow'
  <2>1. maintenance' = TRUE /\ rpc'[r] = "load"
    BY <1>2 DEF Begin, Goto, TypeOK, RestoreType
  <2>2. QED
    BY <2>1 DEF MaintenanceWindow, Restoring
<1>3. ASSUME NEW r \in Restorers, Continue(r)
      PROVE  MaintenanceWindow'
  <2>1. lock = r /\ Restoring(r)
    BY <1>3, ContinueFrame DEF LockInv
  <2>2. \A s \in Restorers \ {r} : rpc[s] = "idle" /\ rpc'[s] = "idle"
    BY <1>3, <2>1, ContinueFrame DEF LockInv, Restoring
  <2>3. maintenance = (rpc[r] # "release")
    BY <2>1, <2>2 DEF MaintenanceWindow, Restoring, TypeOK, ProcessType
  <2>4. maintenance' = (rpc'[r] \notin {"idle", "release"})
    <3>1. CASE rpc[r] = "release"
      BY <1>3, <2>3, <3>1, ContinueFlag
    <3>2. CASE rpc[r] # "release" /\ rpc'[r] = "release"
      BY <1>3, <3>2, ContinueFlag
    <3>3. CASE rpc[r] # "release" /\ rpc'[r] # "release"
      BY <1>3, <2>3, <3>3, ContinueFlag
    <3>4. QED
      BY <3>1, <3>2, <3>3
  <2>5. QED
    BY <2>2, <2>4 DEF MaintenanceWindow, Restoring
<1>4. CASE Crash
  BY <1>4 DEF Crash, MaintenanceWindow, Restoring
<1>5. CASE UNCHANGED vars
  BY <1>5 DEF MaintenanceWindow, Restoring, vars, process, restore
<1>6. QED
  BY <1>1, <1>2, <1>3, <1>4, <1>5 DEF Next

\* Requests are refused from the moment a restore has the lock until its
\* finally clause, whatever fails in between; only the first log line, which
\* is written before the try, must not fail.
THEOREM MaintenanceHolds ==
  ASSUME "log" \notin Faults
  PROVE  Spec => []MaintenanceWindow
<1>1. Init => TypeOK /\ LockInv /\ MaintenanceWindow
  BY TypeInit DEF Init, LockInv, MaintenanceWindow, Restoring
<1>2. TypeOK /\ LockInv /\ MaintenanceWindow /\ [Next]_vars
        => TypeOK' /\ LockInv' /\ MaintenanceWindow'
  BY TypeStep, LockStep, MaintenanceStep
<1>3. QED
  BY <1>1, <1>2, PTL DEF Spec

-----------------------------------------------------------------------------
(* The write-ahead log *)

CopyPCs == {"sweep2", "cleanup", "wait", "replace"}

\* A step that leaves no connection open leaves no log, or was taken with no
\* connection open and left the log as it was.
LogGone == conns' = {} => wal' = {} \/ (conns = {} /\ wal' = wal)

\* Requests leave a log behind only with a connection open.
LEMMA ServeLog ==
  ASSUME TypeOK, NEW w \in Workers, Serve(w)
  PROVE  LogGone
<1>1. ASSUME NEW k \in Kinds, Admit(w, k)
      PROVE  LogGone
  BY <1>1 DEF Admit, LogGone, files
<1>2. CASE CreateSession(w)
  BY <1>2 DEF CreateSession, LogGone, files, process
<1>3. CASE Connect(w)
  BY <1>3 DEF Connect, LogGone
<1>4. CASE Commit(w)
  BY <1>4, CommitFacts DEF LogGone
<1>5. CASE Append(w)
  BY <1>5, FilesAfterFacts DEF Append, LogGone, FilesAfter
<1>6. CASE Backup(w)
  BY <1>6 DEF Backup, LogGone, FilesAfter
<1>7. QED
  BY <1>1, <1>2, <1>3, <1>4, <1>5, <1>6 DEF Serve

\* The checkpoint is what brings a restore to the steps that need an empty log.
LEMMA ContinueLog ==
  ASSUME TypeOK, NEW r \in Restorers, Continue(r), "checkpoint" \notin Faults
  PROVE  /\ LogGone
         /\ rpc'[r] \in CopyPCs =>
              rpc[r] \in CopyPCs \/ (conns' = {} => wal' = {})
<1>1. CASE Load(r)
  BY <1>1 DEF Load, Goto, Answer, LogGone, CopyPCs, TypeOK, RestoreType, files, process
<1>2. CASE Sweep(r)
  <2>1. LogGone
    BY <1>2, CloseHandlesTypes DEF Sweep, LogGone
  <2>2. rpc'[r] \in CopyPCs => rpc[r] \in CopyPCs
    BY <1>2 DEF Sweep, Goto, CopyPCs, TypeOK, RestoreType
  <2>3. QED
    BY <2>1, <2>2
<1>3. CASE Checkpoint(r)
  <2>1. conns' = {} => wal' = {}
    BY <1>3 DEF Checkpoint, FilesAfter
  <2>2. QED
    BY <2>1 DEF LogGone
<1>4. CASE SweepAgain(r)
  <2>1. LogGone
    BY <1>4, CloseHandlesTypes DEF SweepAgain, LogGone
  <2>2. rpc'[r] \in CopyPCs => rpc[r] \in CopyPCs
    BY <1>4 DEF SweepAgain, Goto, CopyPCs, TypeOK, RestoreType
  <2>3. QED
    BY <2>1, <2>2
<1>5. CASE Cleanup(r)
  <2>1. conns' = {} => wal' = {}
    BY <1>5 DEF Cleanup, process
  <2>2. QED
    BY <2>1 DEF LogGone
<1>6. CASE Wait(r)
  BY <1>6 DEF Wait, Goto, Answer, LogGone, CopyPCs, TypeOK, RestoreType, files, process
<1>7. CASE Replace(r)
  BY <1>7 DEF Replace, Goto, Answer, Install, LogGone, CopyPCs, TypeOK,
       RestoreType, files, process
<1>8. CASE Archive(r)
  BY <1>8 DEF Archive, Goto, LogGone, CopyPCs, TypeOK, RestoreType, files, process
<1>9. CASE Audit(r)
  BY <1>9 DEF Audit, Goto, Answer, LogGone, CopyPCs, TypeOK, RestoreType,
       files, process
<1>10. CASE Finally(r)
  BY <1>10 DEF Finally, Goto, LogGone, CopyPCs, TypeOK, RestoreType, files, process
<1>11. CASE Release(r)
  BY <1>11 DEF Release, Goto, LogGone, CopyPCs, TypeOK, RestoreType, files, process
<1>12. QED
  BY <1>1, <1>2, <1>3, <1>4, <1>5, <1>6, <1>7, <1>8, <1>9, <1>10, <1>11
       DEF Continue

\* From the checkpoint to the replacement a log has an open connection.
LEMMA WalStep ==
  ASSUME TypeOK, WalInv, "checkpoint" \notin Faults, [Next]_vars
  PROVE  WalInv'
<1>1. ASSUME NEW w \in Workers, Serve(w)
      PROVE  WalInv'
  BY <1>1, ServeFrame, ServeLog DEF WalInv, LogGone, restore
<1>2. ASSUME NEW r \in Restorers, Begin(r)
      PROVE  WalInv'
  <2>1. /\ \A s \in Restorers : rpc'[s] = rpc[s] \/ rpc'[s] = "load"
        /\ UNCHANGED <<wal, conns>>
    BY <1>2 DEF Begin, Goto, TypeOK, RestoreType, files
  <2>2. QED
    BY <2>1 DEF WalInv
<1>3. ASSUME NEW r \in Restorers, Continue(r)
      PROVE  WalInv'
  <2>1. CASE rpc'[r] \in CopyPCs /\ rpc[r] \notin CopyPCs
    BY <1>3, <2>1, ContinueLog DEF WalInv
  <2>2. CASE rpc'[r] \in CopyPCs => rpc[r] \in CopyPCs
    <3>1. \A s \in Restorers : rpc'[s] \in CopyPCs => rpc[s] \in CopyPCs
      BY <1>3, <2>2, ContinueFrame
    <3>2. LogGone
      BY <1>3, ContinueLog
    <3>3. QED
      BY <3>1, <3>2 DEF WalInv, CopyPCs, LogGone
  <2>3. QED
    BY <2>1, <2>2
<1>4. CASE Crash
  BY <1>4 DEF Crash, WalInv
<1>5. CASE UNCHANGED vars
  BY <1>5 DEF WalInv, vars, files, process, restore
<1>6. QED
  BY <1>1, <1>2, <1>3, <1>4, <1>5 DEF Next
-----------------------------------------------------------------------------
(* The backup that is put in place *)

HoldPCs == {"sweep", "checkpoint"} \cup CopyPCs

\* The decrypted backup is kept until it is put in place.
LEMMA ContinueTemp ==
  ASSUME TypeOK, NEW r \in Restorers, Continue(r)
  PROVE  rpc'[r] \in HoldPCs =>
           \/ temp'[r] \in exports
           \/ rpc[r] \in HoldPCs /\ temp'[r] = temp[r]
<1> USE DEF TypeOK, RestoreType, HoldPCs, CopyPCs
<1>1. CASE Load(r)
  BY <1>1 DEF Load, Goto, Answer
<1>2. CASE Sweep(r)
  BY <1>2 DEF Sweep, Goto
<1>3. CASE Checkpoint(r)
  BY <1>3 DEF Checkpoint, Goto
<1>4. CASE SweepAgain(r)
  BY <1>4 DEF SweepAgain, Goto
<1>5. CASE Cleanup(r)
  BY <1>5 DEF Cleanup, Goto
<1>6. CASE Wait(r)
  BY <1>6 DEF Wait, Goto, Answer
<1>7. CASE Replace(r)
  BY <1>7 DEF Replace, Goto, Answer, Install
<1>8. CASE Archive(r)
  BY <1>8 DEF Archive, Goto
<1>9. CASE Audit(r)
  BY <1>9 DEF Audit, Goto, Answer
<1>10. CASE Finally(r)
  BY <1>10 DEF Finally, Goto
<1>11. CASE Release(r)
  BY <1>11 DEF Release, Goto
<1>12. QED
  BY <1>1, <1>2, <1>3, <1>4, <1>5, <1>6, <1>7, <1>8, <1>9, <1>10, <1>11
       DEF Continue

\* What a restore holds stays a backup that was taken.
LEMMA TempStep ==
  ASSUME TypeOK, WalInv, TempInv, [Next]_vars
  PROVE  TempInv'
<1>1. exports \subseteq exports'
  BY DataSteps DEF DataStep, SameData, Copied, Committed, Installed
<1>2. ASSUME NEW w \in Workers, Serve(w)
      PROVE  TempInv'
  BY <1>1, <1>2, ServeFrame DEF TempInv, restore
<1>3. ASSUME NEW r \in Restorers, Begin(r)
      PROVE  TempInv'
  <2>1. /\ \A s \in Restorers : rpc'[s] = rpc[s] \/ rpc'[s] = "load"
        /\ temp' = temp
    BY <1>3 DEF Begin, Goto, TypeOK, RestoreType
  <2>2. QED
    BY <1>1, <2>1 DEF TempInv
<1>4. ASSUME NEW r \in Restorers, Continue(r)
      PROVE  TempInv'
  <2>1. \A s \in Restorers \ {r} : rpc'[s] = rpc[s] /\ temp'[s] = temp[s]
    BY <1>4, ContinueFrame
  <2>2. rpc'[r] \in HoldPCs => temp'[r] \in exports
    BY <1>4, ContinueTemp DEF TempInv, HoldPCs, CopyPCs
  <2>3. QED
    BY <1>1, <2>1, <2>2 DEF TempInv, HoldPCs, CopyPCs
<1>5. CASE Crash
  BY <1>5 DEF Crash, TempInv
<1>6. CASE UNCHANGED vars
  BY <1>6 DEF TempInv, vars, files, restore
<1>7. QED
  BY <1>2, <1>3, <1>4, <1>5, <1>6 DEF Next

\* Backup and restore implement DatabaseSpec: through crashes, closed handles
\* and failures at every step the database changes by whole commits and whole
\* restores.  The checkpoint must not fail silently: cleanup_sidecars would
\* then delete changes that are only in the log.
THEOREM ImplementsDatabase ==
  ASSUME "checkpoint" \notin Faults
  PROVE  Spec => DatabaseAtomic
<1> DEFINE Inv == TypeOK /\ WalInv /\ TempInv
<1>1. Init => Inv
  BY TypeInit DEF Init, WalInv, TempInv
<1>2. Inv /\ [Next]_vars => Inv'
  BY TypeStep, WalStep, TempStep
<1>3. Init => Database!Init
  BY DEF Init, Database!Init, Visible
<1>4. Inv /\ [Next]_vars => [Database!Next]_<<Visible, exports>>
  <2> SUFFICES ASSUME Inv, [Next]_vars
               PROVE  [Database!Next]_<<Visible, exports>>
    OBVIOUS
  <2>1. DataStep
    BY DataSteps
  <2>2. CASE SameData
    BY <2>2 DEF SameData
  <2>3. CASE Copied
    BY <2>3 DEF Copied, Database!Next, Database!Backup
  <2>4. CASE Committed
    BY <2>4 DEF Committed, Database!Next, Database!Write
  <2>5. CASE Installed
    <3>1. PICK r \in Restorers : rpc[r] = "replace" /\ Visible' = temp[r]
      BY <2>5 DEF Installed
    <3>2. temp[r] \in exports /\ exports' = exports
      BY <2>5, <3>1 DEF TempInv, Installed
    <3>3. QED
      BY <3>1, <3>2 DEF Database!Next, Database!Install
  <2>6. QED
    BY <2>1, <2>2, <2>3, <2>4, <2>5 DEF DataStep
<1>5. QED
  BY <1>1, <1>2, <1>3, <1>4, PTL DEF Spec, DatabaseAtomic, Database!Spec

-----------------------------------------------------------------------------
(* What a restore answers *)

\* The database of restore r has been replaced and r has not failed since.
Done(r) == \/ rpc[r] \in {"archive", "audit"}
           \/ rpc[r] = "finally" /\ result[r] = "ok"

\* A restore gets past the replacement by replacing the file, never by failing.
LEMMA ContinueDone ==
  ASSUME TypeOK, NEW r \in Restorers, Continue(r), Done(r)'
  PROVE  temp'[r] = temp[r] /\ (Done(r) \/ (conns = {} /\ Install(r)))
<1> USE DEF TypeOK, RestoreType, Done
<1>1. CASE Load(r)
  BY <1>1 DEF Load, Goto, Answer
<1>2. CASE Sweep(r)
  BY <1>2 DEF Sweep, Goto
<1>3. CASE Checkpoint(r)
  BY <1>3 DEF Checkpoint, Goto
<1>4. CASE SweepAgain(r)
  BY <1>4 DEF SweepAgain, Goto
<1>5. CASE Cleanup(r)
  BY <1>5 DEF Cleanup, Goto
<1>6. CASE Wait(r)
  BY <1>6 DEF Wait, Goto, Answer
<1>7. CASE Replace(r)
  BY <1>7 DEF Replace, Goto, Answer
<1>8. CASE Archive(r)
  BY <1>8 DEF Archive, Goto
<1>9. CASE Audit(r)
  BY <1>9 DEF Audit, Goto, Answer
<1>10. CASE Finally(r)
  BY <1>10 DEF Finally, Goto
<1>11. CASE Release(r)
  BY <1>11 DEF Release, Goto
<1>12. QED
  BY <1>1, <1>2, <1>3, <1>4, <1>5, <1>6, <1>7, <1>8, <1>9, <1>10, <1>11
       DEF Continue

\* The step to the archiving is the replacement.
LEMMA ContinueToArchive ==
  ASSUME TypeOK, NEW r \in Restorers, Continue(r),
         rpc[r] # "archive", rpc'[r] = "archive"
  PROVE  rpc[r] = "replace" /\ wal' = wal
<1> USE DEF TypeOK, RestoreType
<1>1. CASE Load(r)
  BY <1>1 DEF Load, Goto, Answer
<1>2. CASE Sweep(r)
  BY <1>2 DEF Sweep, Goto
<1>3. CASE Checkpoint(r)
  BY <1>3 DEF Checkpoint, Goto
<1>4. CASE SweepAgain(r)
  BY <1>4 DEF SweepAgain, Goto
<1>5. CASE Cleanup(r)
  BY <1>5 DEF Cleanup, Goto
<1>6. CASE Wait(r)
  BY <1>6 DEF Wait, Goto, Answer
<1>7. CASE Replace(r)
  BY <1>7 DEF Replace, Goto, Answer, Install
<1>8. CASE Archive(r)
  BY <1>8 DEF Archive, Goto
<1>9. CASE Audit(r)
  BY <1>9 DEF Audit, Goto, Answer
<1>10. CASE Finally(r)
  BY <1>10 DEF Finally, Goto
<1>11. CASE Release(r)
  BY <1>11 DEF Release, Goto
<1>12. QED
  BY <1>1, <1>2, <1>3, <1>4, <1>5, <1>6, <1>7, <1>8, <1>9, <1>10, <1>11
       DEF Continue

\* While a database is being replaced or has been, no other restore is there.
LEMMA InstalledStep ==
  ASSUME TypeOK, LockInv, WalInv, InstalledInv, [Next]_vars
  PROVE  InstalledInv'
<1>1. \A r \in Restorers : Done(r) => Visible = temp[r] \cup since
  BY DEF InstalledInv, Done
<1>2. ASSUME NEW r \in Restorers, Done(r), Done(r)', temp'[r] = temp[r]
      PROVE  Visible' = temp'[r] \cup since'
  <2>1. DataStep
    BY DataSteps
  <2>2. CASE SameData \/ Copied \/ Committed
    BY <1>1, <1>2, <2>2 DEF SameData, Copied, Committed
  <2>3. CASE Installed
    <3>1. PICK s \in Restorers : rpc[s] = "replace"
      BY <2>3 DEF Installed
    <3>2. s = r
      BY <1>2, <3>1 DEF Done, LockInv, Restoring
    <3>3. QED
      BY <1>2, <3>1, <3>2 DEF Done
  <2>4. QED
    BY <2>1, <2>2, <2>3 DEF DataStep
<1>3. ASSUME NEW s \in Restorers, Done(s)'
      PROVE  Visible' = temp'[s] \cup since'
  <2>1. ASSUME NEW w \in Workers, Serve(w)
        PROVE  Visible' = temp'[s] \cup since'
    BY <1>2, <1>3, <2>1, ServeFrame DEF Done, restore
  <2>2. ASSUME NEW r \in Restorers, Begin(r)
        PROVE  Visible' = temp'[s] \cup since'
    <3>1. Done(s) /\ temp' = temp
      BY <1>3, <2>2 DEF Begin, Goto, Done, TypeOK, RestoreType
    <3>2. QED
      BY <1>2, <1>3, <3>1
  <2>3. ASSUME NEW r \in Restorers, Continue(r)
        PROVE  Visible' = temp'[s] \cup since'
    <3>1. CASE s # r
      <4>1. Done(s) /\ temp'[s] = temp[s]
        BY <1>3, <2>3, <3>1, ContinueFrame DEF Done
      <4>2. QED
        BY <1>2, <1>3, <4>1
    <3>2. CASE s = r /\ Done(s)
      BY <1>2, <1>3, <2>3, <3>2, ContinueDone
    <3>3. CASE s = r /\ ~Done(s)
      <4>1. temp'[r] = temp[r] /\ conns = {} /\ Install(r)
        BY <1>3, <2>3, <3>3, ContinueDone
      <4>2. rpc'[r] = "archive" /\ rpc[r] # "archive" /\ main' = temp[r] /\ since' = {}
        BY <3>3, <4>1 DEF Install, Goto, Done, TypeOK, RestoreType
      <4>3. wal' = {}
        BY <2>3, <4>1, <4>2, ContinueToArchive DEF WalInv
      <4>4. QED
        BY <3>3, <4>1, <4>2, <4>3 DEF Visible
    <3>4. QED
      BY <3>1, <3>2, <3>3
  <2>4. CASE Crash
    BY <1>3, <2>4 DEF Crash, Done
  <2>5. CASE UNCHANGED vars
    <3>1. Done(s) /\ temp'[s] = temp[s]
      BY <1>3, <2>5 DEF Done, vars, restore
    <3>2. QED
      BY <1>2, <1>3, <3>1
  <2>6. QED
    BY <2>1, <2>2, <2>3, <2>4, <2>5 DEF Next
<1>4. QED
  BY <1>3 DEF InstalledInv, Done

\* "ok" is answered only over the backup and what was committed on top of it:
\* a restore that cannot have the file to itself fails and says so.
THEOREM AnswersTruthful ==
  ASSUME "checkpoint" \notin Faults
  PROVE  Spec => []AnswerTruthful
<1> DEFINE Inv == TypeOK /\ LockInv /\ WalInv /\ InstalledInv
<1>1. Init => Inv
  BY TypeInit DEF Init, LockInv, Restoring, WalInv, InstalledInv
<1>2. Inv /\ [Next]_vars => Inv'
  BY TypeStep, LockStep, WalStep, InstalledStep
<1>3. Inv => AnswerTruthful
  BY DEF InstalledInv, AnswerTruthful
<1>4. QED
  BY <1>1, <1>2, <1>3, PTL DEF Spec
-----------------------------------------------------------------------------
(* The journals *)

\* A line about to be appended is of a commit its request made.
LEMMA Appenders ==
  ASSUME TypeOK, [Next]_vars
  PROVE  \A v \in Workers : pc'[v] = "append" =>
           /\ req'[v] = req[v]
           /\ pc[v] = "append" \/ Commit(v)
<1>1. ASSUME NEW w \in Workers, Serve(w), NEW v \in Workers, pc'[v] = "append"
      PROVE  req'[v] = req[v] /\ (pc[v] = "append" \/ Commit(v))
  <2> USE DEF TypeOK, ProcessType
  <2>1. ASSUME NEW k \in Kinds, Admit(w, k)
        PROVE  req'[v] = req[v] /\ pc[v] = "append"
    BY <1>1, <2>1 DEF Admit
  <2>2. CASE CreateSession(w)
    BY <1>1, <2>2 DEF CreateSession, Step, Return
  <2>3. CASE Connect(w)
    BY <1>1, <2>3 DEF Connect, Step
  <2>4. CASE Commit(w)
    BY <1>1, <2>4 DEF Commit, Step, Return
  <2>5. CASE Append(w)
    BY <1>1, <2>5 DEF Append, Return
  <2>6. CASE Backup(w)
    BY <1>1, <2>6 DEF Backup, Return
  <2>7. QED
    BY <1>1, <2>1, <2>2, <2>3, <2>4, <2>5, <2>6 DEF Serve
<1>2. ASSUME NEW r \in Restorers, Begin(r), NEW v \in Workers, pc'[v] = "append"
      PROVE  req'[v] = req[v] /\ pc[v] = "append"
  BY <1>2 DEF Begin, serving
<1>3. ASSUME NEW r \in Restorers, Continue(r), NEW v \in Workers, pc'[v] = "append"
      PROVE  req'[v] = req[v] /\ pc[v] = "append"
  BY <1>3 DEF Continue, Load, Sweep, Checkpoint, SweepAgain, Cleanup, Wait,
       Replace, Archive, Audit, Finally, Release, CloseHandles, Return, serving
<1>4. CASE Crash
  BY <1>4 DEF Crash, Return
<1>5. CASE UNCHANGED vars
  BY <1>5 DEF vars, serving
<1>6. QED
  BY <1>1, <1>2, <1>3, <1>4, <1>5 DEF Next

\* A line about to be appended stays a line of a change that was committed.
LEMMA AppendStep ==
  ASSUME TypeOK, WalInv, AppendInv, [Next]_vars
  PROVE  AppendInv'
<1> SUFFICES ASSUME NEW v \in Workers, pc'[v] = "append"
             PROVE  req'[v] \in Visible' \cup crossed'
  BY DEF AppendInv
<1>1. req'[v] = req[v] /\ (pc[v] = "append" \/ Commit(v))
  BY Appenders
<1>2. CASE Commit(v)
  BY <1>1, <1>2, CommitFacts DEF Visible
<1>3. CASE pc[v] = "append"
  <2>1. req[v] \in Visible \cup crossed
    BY <1>3 DEF AppendInv
  <2>2. DataStep
    BY DataSteps
  <2>3. QED
    BY <1>1, <1>3, <2>1, <2>2 DEF DataStep, SameData, Copied, Committed,
         Installed
<1>4. QED
  BY <1>1, <1>2, <1>3

\* The journal grows by the line of a request about to append, or is emptied
\* by the archiving that the flag waits for.
LEMMA JournalSteps ==
  ASSUME TypeOK, [Next]_vars
  PROVE  \/ /\ unarchived => unarchived'
            /\ \/ journal' = journal
               \/ \E w \in Workers :
                    pc[w] = "append" /\ journal' = journal \cup {req[w]}
         \/ journal' = {}
<1>1. ASSUME NEW w \in Workers, Serve(w)
      PROVE  /\ unarchived' = unarchived
             /\ \/ journal' = journal
                \/ pc[w] = "append" /\ journal' = journal \cup {req[w]}
  BY <1>1, ServeFrame DEF Serve, Admit, CreateSession, Connect, Commit, Append,
       Backup, files
<1>2. ASSUME NEW r \in Restorers, Begin(r)
      PROVE  journal' = journal /\ unarchived' = unarchived
  BY <1>2 DEF Begin, files, history
<1>3. ASSUME NEW r \in Restorers, Continue(r)
      PROVE  journal' = {} \/ (journal' = journal /\ (unarchived => unarchived'))
  BY <1>3 DEF Continue, Load, Sweep, Checkpoint, SweepAgain, Cleanup, Wait,
       Replace, Install, Archive, Audit, Finally, Release, files, history
<1>4. CASE Crash
  BY <1>4 DEF Crash, files, history
<1>5. CASE UNCHANGED vars
  BY <1>5 DEF vars, files, history
<1>6. QED
  BY <1>1, <1>2, <1>3, <1>4, <1>5 DEF Next

\* A step keeps the archived journals in line with the database.
LEMMA JournalStep ==
  ASSUME TypeOK, WalInv, AppendInv, JournalsFollowDb, [Next]_vars
  PROVE  JournalsFollowDb'
<1> SUFFICES ASSUME ~unarchived', journal' # {}
             PROVE  journal' \subseteq Visible' \cup crossed'
  BY DEF JournalsFollowDb
<1>1. /\ ~unarchived
      /\ \/ journal' = journal
         \/ \E w \in Workers :
              pc[w] = "append" /\ journal' = journal \cup {req[w]}
  BY JournalSteps
<1>2. journal' \subseteq Visible \cup crossed
  BY <1>1 DEF JournalsFollowDb, AppendInv
<1>3. SameData \/ Copied \/ Committed
  BY DataSteps DEF DataStep, Installed
<1>4. QED
  BY <1>2, <1>3 DEF SameData, Copied, Committed

\* Once the journals were archived, a line in the current journal is of the
\* current database, but for the requests that were between their commit and
\* their line when the file was replaced.
THEOREM JournalsFollow ==
  ASSUME "checkpoint" \notin Faults
  PROVE  Spec => []JournalsFollowDb
<1> DEFINE Inv == TypeOK /\ WalInv /\ AppendInv /\ JournalsFollowDb
<1>1. Init => Inv
  BY TypeInit DEF Init, WalInv, AppendInv, JournalsFollowDb
<1>2. Inv /\ [Next]_vars => Inv'
  BY TypeStep, WalStep, AppendStep, JournalStep
<1>3. QED
  BY <1>1, <1>2, PTL DEF Spec
=============================================================================
