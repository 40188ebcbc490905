----------------------- MODULE RuntimeJournal_proofs -----------------------
(***************************************************************************)
(* Theorems about the runtime journal: its types, and, as long as one      *)
(* process runs at a time, that its files are chains that only grow, that  *)
(* recovery closes what is open, and what idempotency keys rest on: two    *)
(* entries with one key are both committed only if the second was prepared *)
(* before the first was committed, or after a rollback of an entry with    *)
(* the key.                                                                *)
(*                                                                         *)
(* A thread that appends has the lock of its process from the read to the  *)
(* replacement, and a process that recovers has no threads at work yet:    *)
(* the file is still what was read when the line is added (AloneInv).      *)
(* Lines are numbered in the order they are written (OrderInv), so what a  *)
(* process remembers of a key tells whether a rollback came after every    *)
(* commit of it (StatusInv): also when the status comes from the files.    *)
(***************************************************************************)
EXTENDS RuntimeJournal, WellFoundedInduction, TLAPS

-----------------------------------------------------------------------------
(* Invariants *)

\* A request is served by a process that is up, with a key and, from its
\* entry on, with that entry; what has been read is lines of the right file.
WorkInv ==
  /\ \A t \in Threads :
       /\ pc[t] # "idle" => state[Home[t]] = "up" /\ key[t] \in Keys
       /\ pc[t] \in {"prepare", "record"} => held[Home[t]] = t
       /\ pc[t] \in {"commit", "record"} => entry[t] \in JournalLine
       /\ pc[t] = "prepare" => snap[Home[t]] \in Seq(JournalLine)
       /\ pc[t] = "record" => snap[Home[t]] \in Seq(AuditLine)
  /\ \A p \in Instances : state[p] = "rolling" => snap[p] \in Seq(AuditLine)

\* One process at a time: what was read is what the file is, and the process
\* has the hashes of the last lines.
AloneInv ==
  ~overlapped =>
    /\ \A p, q \in Instances :
         state[p] # "down" /\ state[q] # "down" => p = q
    /\ \A t \in Threads : /\ pc[t] = "prepare" => snap[Home[t]] = journal
                          /\ pc[t] = "record" => snap[Home[t]] = audit
    /\ \A p \in Instances : /\ state[p] = "rolling" => snap[p] = audit
                            /\ state[p] # "down" => last[p] = LoadedHashes

\* A process that recovers has yet to roll back every entry that is open.
RecoveryInv ==
  ~overlapped => \A p \in Instances :
    state[p] \in {"recovering", "rolling"} => Pending \subseteq todo[p]

TypeInv == JournalTypeOK /\ WorkInv
-----------------------------------------------------------------------------
(* Types *)

\* The status a key comes back with is a status.
LEMMA LoadedStatusType == \A k \in Keys : LoadedStatus(k) \in Statuses
  BY DEF LoadedStatus, Statuses

\* The hash of the last line of a file is a number.
LEMMA LastHashType ==
  ASSUME NEW f, f \in Seq(JournalLine) \/ f \in Seq(AuditLine)
  PROVE  LastHash(f) \in Nat
  <1>1. \A l \in JournalLine \cup AuditLine : l.id \in Nat
    BY RuntimeJournalAssumption DEF JournalLine, AuditLine, Ids
  <1>2. f # <<>> => Len(f) \in DOMAIN f
    OBVIOUS
  <1>. QED  BY <1>1, <1>2 DEF LastHash

\* The lines that are open are lines.
LEMMA PendingType ==
  ASSUME journal \in Seq(JournalLine)
  PROVE  Pending \subseteq JournalLine
  BY DEF Pending, Lines

\* The invariant holds at first.
LEMMA TypeInit == JournalInit => TypeInv
  <1>. SUFFICES ASSUME JournalInit PROVE TypeInv
    OBVIOUS
  <1>. USE RuntimeJournalAssumption DEF JournalInit
  <1>1. JournalTypeOK
    <2>1. /\ journal \in Seq(JournalLine) /\ audit \in Seq(AuditLine)
          /\ snap \in [Instances -> Seq(JournalLine) \cup Seq(AuditLine)]
      OBVIOUS
    <2>2. nIds \in 0 .. MaxIds /\ nBoots \in 0 .. MaxBoots
      OBVIOUS
    <2>3. /\ idem \in [Instances -> [Keys -> Statuses]]
          /\ last \in [Instances -> [journal : Nat, audit : Nat]]
      BY DEF NoHashes, Statuses
    <2>4. /\ state \in [Instances -> {"down", "recovering", "rolling", "up"}]
          /\ todo \in [Instances -> SUBSET JournalLine]
          /\ mine \in [Instances -> SUBSET Ids]
          /\ held \in [Instances -> Threads \cup {Nobody}]
      OBVIOUS
    <2>. QED  BY <2>1, <2>2, <2>3, <2>4 DEF JournalTypeOK
  <1>2. WorkInv
    BY DEF WorkInv
  <1>. QED  BY <1>1, <1>2 DEF TypeInv

\* A step of thread t, which waits for nobody's lock, keeps the others' work.
LEMMA WorkStep ==
  ASSUME NEW t \in Threads, TypeInv, state' = state, pc[t] # "idle",
         held[Home[t]] \in {t, Nobody},
         \A u \in Threads : u # t => /\ pc'[u] = pc[u] /\ key'[u] = key[u]
                                    /\ entry'[u] = entry[u],
         \A q \in Instances : q # Home[t] =>
                                 snap'[q] = snap[q] /\ held'[q] = held[q],
         pc'[t] # "idle" => key'[t] = key[t],
         pc'[t] \in {"prepare", "record"} => held'[Home[t]] = t,
         pc'[t] \in {"commit", "record"} => entry'[t] \in JournalLine,
         pc'[t] = "prepare" => snap'[Home[t]] \in Seq(JournalLine),
         pc'[t] = "record" => snap'[Home[t]] \in Seq(AuditLine)
  PROVE  WorkInv'
  <1>. USE RuntimeJournalAssumption DEF TypeInv
  <1>. DEFINE p == Home[t]
  <1>1. p \in Instances /\ state[p] = "up" /\ key[t] \in Keys
    BY DEF WorkInv
  <1>2. ASSUME NEW u \in Threads
        PROVE  /\ pc'[u] # "idle" => state'[Home[u]] = "up" /\ key'[u] \in Keys
               /\ pc'[u] \in {"prepare", "record"} => held'[Home[u]] = u
               /\ pc'[u] \in {"commit", "record"} => entry'[u] \in JournalLine
               /\ pc'[u] = "prepare" => snap'[Home[u]] \in Seq(JournalLine)
               /\ pc'[u] = "record" => snap'[Home[u]] \in Seq(AuditLine)
    <2>1. CASE u = t
      BY <1>1, <2>1
    <2>2. CASE u # t
      <3>1. pc[u] \in {"prepare", "record"} => Home[u] # p
        BY <2>2 DEF WorkInv
      <3>2. Home[u] \in Instances
        OBVIOUS
      <3>. QED  BY <2>2, <3>1, <3>2 DEF WorkInv
    <2>. QED  BY <2>1, <2>2
  <1>3. ASSUME NEW q \in Instances, state'[q] = "rolling"
        PROVE  snap'[q] \in Seq(AuditLine)
    BY <1>1, <1>3 DEF WorkInv
  <1>. QED  BY <1>2, <1>3 DEF WorkInv

\* A process starts.
LEMMA TypeBoot ==
  ASSUME NEW p \in Instances, TypeInv, Boot(p)
  PROVE  TypeInv'
  <1>. USE DEF TypeInv
  <1>1. JournalTypeOK'
    <2>1. LoadedHashes \in [journal : Nat, audit : Nat]
      BY LastHashType DEF LoadedHashes, JournalTypeOK
    <2>2. Unfinished \in SUBSET JournalLine
      BY PendingType DEF Unfinished, JournalTypeOK
    <2>3. idem' \in [Instances -> [Keys -> Statuses]]
      BY LoadedStatusType DEF Boot, JournalTypeOK
    <2>4. nBoots' \in 0 .. MaxBoots
      BY RuntimeJournalAssumption DEF Boot, JournalTypeOK
    <2>. QED  BY <2>1, <2>2, <2>3, <2>4
              DEF Boot, JournalTypeOK, files, locking, requests
  <1>2. WorkInv'
    BY RuntimeJournalAssumption
    DEF Boot, WorkInv, JournalTypeOK, files, locking, requests
  <1>. QED  BY <1>1, <1>2

\* An audit record is added by process p, which has read the audit log.
LEMMA TypeRecord ==
  ASSUME NEW p \in Instances, NEW l \in JournalLine,
         NEW result \in {"commit", "rollback"}, JournalTypeOK,
         snap[p] \in Seq(AuditLine), Record(p, l, result)
  PROVE  /\ audit' \in Seq(AuditLine) /\ nIds' \in 0 .. MaxIds
         /\ last' \in [Instances -> [journal : Nat, audit : Nat]]
         /\ idem' \in [Instances -> [Keys -> Statuses]]
         /\ snap' \in [Instances -> Seq(JournalLine) \cup Seq(AuditLine)]
  <1>. USE RuntimeJournalAssumption DEF JournalTypeOK
  <1>1. nIds + 1 \in Ids
    BY DEF Record, Ids
  <1>2. nIds' \in 0 .. MaxIds
    BY DEF Record
  <1>3. /\ [id |-> nIds + 1, entry |-> l.id, result |-> result,
            prev |-> last[p].audit] \in AuditLine
        /\ l.key \in Keys
    BY <1>1 DEF AuditLine, JournalLine
  <1>4. audit' \in Seq(AuditLine)
    BY <1>3 DEF Record, AppendLine
  <1>5. last' \in [Instances -> [journal : Nat, audit : Nat]]
    <2>1. /\ last' = [last EXCEPT ![p].audit = nIds + 1]
          /\ nIds + 1 \in Nat
      BY DEF Record
    <2>. QED  BY <2>1
  <1>6. idem' \in [Instances -> [Keys -> Statuses]]
    BY <1>3 DEF Record, Statuses
  <1>7. snap' \in [Instances -> Seq(JournalLine) \cup Seq(AuditLine)]
    BY DEF Record
  <1>. QED  BY <1>2, <1>4, <1>5, <1>6, <1>7

\* Recovery reads the audit log.
LEMMA TypeRecoverRead ==
  ASSUME NEW p \in Instances, TypeInv, RecoverRead(p)
  PROVE  TypeInv'
  <1>. USE RuntimeJournalAssumption DEF TypeInv
  <1>1. JournalTypeOK'
    <2>1. snap' \in [Instances -> Seq(JournalLine) \cup Seq(AuditLine)]
      BY DEF RecoverRead, JournalTypeOK
    <2>. QED  BY <2>1 DEF RecoverRead, JournalTypeOK, files, memory, requests
  <1>2. WorkInv'
    BY DEF RecoverRead, WorkInv, JournalTypeOK, memory, requests
  <1>. QED  BY <1>1, <1>2

\* Recovery appends a rollback.
LEMMA TypeRollBack ==
  ASSUME NEW p \in Instances, TypeInv, RollBack(p)
  PROVE  TypeInv'
  <1>. USE RuntimeJournalAssumption DEF TypeInv
  <1>1. snap[p] \in Seq(AuditLine)
    BY DEF RollBack, WorkInv
  <1>2. PICK l \in todo[p] : /\ Record(p, l, "rollback")
                             /\ todo' = [todo EXCEPT ![p] = @ \ {l}]
    BY DEF RollBack
  <1>3. l \in JournalLine
    BY DEF JournalTypeOK
  <1>4. JournalTypeOK'
    BY <1>1, <1>2, <1>3, TypeRecord
    DEF RollBack, JournalTypeOK, requests
  <1>5. \A q \in Instances : q # p => snap'[q] = snap[q]
    BY <1>2 DEF Record, JournalTypeOK
  <1>6. \A t \in Threads : Home[t] = p => pc[t] = "idle"
    BY DEF RollBack, WorkInv
  <1>7. WorkInv'
    BY <1>5, <1>6 DEF RollBack, WorkInv, JournalTypeOK, requests
  <1>. QED  BY <1>4, <1>7

\* Recovery is over.
LEMMA TypeReady ==
  ASSUME NEW p \in Instances, TypeInv, Ready(p)
  PROVE  TypeInv'
  <1>. USE RuntimeJournalAssumption DEF TypeInv
  <1>1. JournalTypeOK'
    BY DEF Ready, JournalTypeOK, files, memory, locking, requests
  <1>2. WorkInv'
    BY DEF Ready, WorkInv, JournalTypeOK, files, memory, locking, requests
  <1>. QED  BY <1>1, <1>2

\* A request arrives.
LEMMA TypeRequest ==
  ASSUME NEW t \in Threads, NEW i \in Intents,
         NEW k \in Keys, TypeInv, Request(t, i, k)
  PROVE  TypeInv'
  <1>. USE RuntimeJournalAssumption DEF TypeInv
  <1>1. JournalTypeOK'
    BY DEF Request, JournalTypeOK, files, memory, locking
  <1>2. WorkInv'
    BY DEF Request, WorkInv, JournalTypeOK, files, memory, locking
  <1>. QED  BY <1>1, <1>2

\* A plugin answers, or fails.
LEMMA TypeSandbox ==
  ASSUME NEW t \in Threads, TypeInv, Sandbox(t)
  PROVE  TypeInv'
  <1>. USE RuntimeJournalAssumption DEF TypeInv
  <1>1. JournalTypeOK'
    BY DEF Sandbox, JournalTypeOK, files, memory, locking, GoTo, Respond
  <1>2. WorkInv'
    BY DEF Sandbox, WorkInv, JournalTypeOK, files, memory, locking, GoTo,
           Respond
  <1>. QED  BY <1>1, <1>2

\* The key is looked up and the journal read, or the request refused.
LEMMA TypePrepareCheck ==
  ASSUME NEW t \in Threads, TypeInv, PrepareCheck(t)
  PROVE  TypeInv'
  <1>. USE RuntimeJournalAssumption DEF TypeInv
  <1>. DEFINE p == Home[t]
  <1>1. JournalTypeOK'
    <2>1. CASE UNCHANGED locking
      <3>1. /\ pc' \in [Threads -> {"idle", "sandbox", "check", "prepare",
                                    "commit", "record"}]
            /\ key' \in [Threads -> Keys \cup {NoKey}]
            /\ intent' \in [Threads -> Intents \cup {"none"}]
            /\ entry' \in [Threads -> JournalLine \cup {NoLine}]
        <4>1. CASE Respond(t)
          BY <4>1 DEF Respond, JournalTypeOK
        <4>2. CASE GoTo(t, "prepare")
          BY <4>2 DEF GoTo, JournalTypeOK
        <4>. QED  BY <4>1, <4>2 DEF PrepareCheck
      <3>. QED  BY <2>1, <3>1 DEF PrepareCheck, JournalTypeOK, files, memory,
                                  locking
    <2>2. CASE /\ GoTo(t, "prepare")
               /\ held' = [held EXCEPT ![p] = t]
               /\ snap' = [snap EXCEPT ![p] = journal]
      <3>1. /\ snap' \in [Instances -> Seq(JournalLine) \cup Seq(AuditLine)]
            /\ held' \in [Instances -> Threads \cup {Nobody}]
        BY <2>2 DEF JournalTypeOK
      <3>2. /\ pc' \in [Threads -> {"idle", "sandbox", "check", "prepare",
                                    "commit", "record"}]
            /\ UNCHANGED <<key, intent, entry>>
        BY <2>2 DEF GoTo, JournalTypeOK
      <3>. QED  BY <3>1, <3>2 DEF PrepareCheck, JournalTypeOK, files, memory
    <2>. QED  BY <2>1, <2>2 DEF PrepareCheck
  <1>2. WorkInv'
    <2>1. \A u \in Threads : u # t => /\ pc'[u] = pc[u] /\ key'[u] = key[u]
                                      /\ entry'[u] = entry[u]
      BY DEF PrepareCheck, GoTo, Respond, JournalTypeOK
    <2>2. \/ pc'[t] = "idle"
          \/ /\ pc'[t] = "prepare" /\ key'[t] = key[t]
             /\ held'[p] = t /\ snap'[p] = journal
      BY DEF PrepareCheck, GoTo, Respond, JournalTypeOK
    <2>3. \A q \in Instances : q # p =>
            snap'[q] = snap[q] /\ held'[q] = held[q]
      BY DEF PrepareCheck, locking, JournalTypeOK
    <2>4. p \in Instances /\ pc[t] = "check" /\ held[p] = Nobody
      BY DEF PrepareCheck
    <2>5. state' = state
      BY DEF PrepareCheck
    <2>. QED  BY <2>1, <2>2, <2>3, <2>4, <2>5, WorkStep DEF JournalTypeOK
  <1>. QED  BY <1>1, <1>2

\* The audit log is read before a commit.
LEMMA TypeCommitRead ==
  ASSUME NEW t \in Threads, TypeInv, CommitRead(t)
  PROVE  TypeInv'
  <1>. USE RuntimeJournalAssumption DEF TypeInv
  <1>1. JournalTypeOK'
    BY DEF CommitRead, JournalTypeOK, files, memory, GoTo
  <1>. DEFINE p == Home[t]
  <1>2. WorkInv'
    <2>1. \A u \in Threads : u # t => /\ pc'[u] = pc[u] /\ key'[u] = key[u]
                                      /\ entry'[u] = entry[u]
      BY DEF CommitRead, GoTo, JournalTypeOK
    <2>2. /\ pc'[t] = "record" /\ key'[t] = key[t] /\ entry'[t] = entry[t]
          /\ held'[p] = t /\ snap'[p] = audit
      BY DEF CommitRead, GoTo, JournalTypeOK
    <2>3. \A q \in Instances : q # p =>
            snap'[q] = snap[q] /\ held'[q] = held[q]
      BY DEF CommitRead, JournalTypeOK
    <2>4. p \in Instances /\ pc[t] = "commit" /\ held[p] = Nobody
      BY DEF CommitRead
    <2>5. state' = state
      BY DEF CommitRead
    <2>6. entry[t] \in JournalLine
      BY <2>4 DEF WorkInv
    <2>. QED  BY <2>1, <2>2, <2>3, <2>4, <2>5, <2>6, WorkStep
              DEF JournalTypeOK
  <1>. QED  BY <1>1, <1>2

\* An append fails.
LEMMA TypeAppendFails ==
  ASSUME NEW t \in Threads, TypeInv, AppendFails(t)
  PROVE  TypeInv'
  <1>. USE RuntimeJournalAssumption DEF TypeInv
  <1>1. JournalTypeOK'
    <2>1. /\ snap' \in [Instances -> Seq(JournalLine) \cup Seq(AuditLine)]
          /\ held' \in [Instances -> Threads \cup {Nobody}]
      BY DEF AppendFails, JournalTypeOK
    <2>2. /\ pc' \in [Threads -> {"idle", "sandbox", "check", "prepare",
                                  "commit", "record"}]
          /\ key' \in [Threads -> Keys \cup {NoKey}]
          /\ intent' \in [Threads -> Intents \cup {"none"}]
          /\ entry' \in [Threads -> JournalLine \cup {NoLine}]
      BY DEF AppendFails, Respond, JournalTypeOK
    <2>. QED  BY <2>1, <2>2 DEF AppendFails, JournalTypeOK, files, memory
  <1>2. WorkInv'
    BY DEF AppendFails, WorkInv, JournalTypeOK, files, memory, Respond
  <1>. QED  BY <1>1, <1>2

\* A process dies.
LEMMA TypeCrash ==
  ASSUME NEW p \in Instances, TypeInv, Crash(p)
  PROVE  TypeInv'
  <1>. USE RuntimeJournalAssumption DEF TypeInv
  <1>1. JournalTypeOK'
    BY DEF Crash, JournalTypeOK, files, NoHashes, Statuses
  <1>2. WorkInv'
    BY DEF Crash, WorkInv, JournalTypeOK, files
  <1>. QED  BY <1>1, <1>2

\* An entry is prepared.
LEMMA TypePrepare ==
  ASSUME NEW t \in Threads, TypeInv, Prepare(t)
  PROVE  TypeInv'
  <1>. USE RuntimeJournalAssumption DEF TypeInv
  <1>. DEFINE p == Home[t]
              l == [id |-> nIds + 1, key |-> key[t], prev |-> last[p].journal]
  <1>1. /\ p \in Instances /\ key[t] \in Keys
        /\ snap[p] \in Seq(JournalLine) /\ held[p] = t
    BY DEF Prepare, WorkInv
  <1>2. nIds + 1 \in Ids /\ nIds + 1 \in 0 .. MaxIds
    BY DEF Prepare, JournalTypeOK, Ids
  <1>3. l \in JournalLine
    BY <1>1, <1>2 DEF JournalLine, JournalTypeOK
  <1>4. journal' \in Seq(JournalLine)
    BY <1>1, <1>3 DEF Prepare, AppendLine
  <1>5. last' \in [Instances -> [journal : Nat, audit : Nat]]
    <2>1. last' = [last EXCEPT ![p].journal = nIds + 1] /\ nIds + 1 \in Nat
      BY DEF Prepare, JournalTypeOK
    <2>. QED  BY <2>1 DEF JournalTypeOK
  <1>6. idem' \in [Instances -> [Keys -> Statuses]]
    BY <1>1 DEF Prepare, JournalTypeOK, Statuses
  <1>7. JournalTypeOK'
    <2>1. /\ pc' \in [Threads -> {"idle", "sandbox", "check", "prepare",
                                  "commit", "record"}]
          /\ key' \in [Threads -> Keys \cup {NoKey}]
          /\ intent' \in [Threads -> Intents \cup {"none"}]
          /\ entry' \in [Threads -> JournalLine \cup {NoLine}]
      <3>1. CASE Respond(t)
        BY <3>1 DEF Respond, JournalTypeOK
      <3>2. CASE /\ pc' = [pc EXCEPT ![t] = "commit"]
                 /\ entry' = [entry EXCEPT ![t] = l]
                 /\ UNCHANGED <<key, intent>>
        <4>. HIDE DEF l
        <4>. QED  BY <1>3, <3>2 DEF JournalTypeOK
      <3>. QED  BY <3>1, <3>2 DEF Prepare
    <2>2. mine' \in [Instances -> SUBSET Ids]
      BY <1>2 DEF Prepare, JournalTypeOK
    <2>3. /\ held' \in [Instances -> Threads \cup {Nobody}]
          /\ snap' \in [Instances -> Seq(JournalLine) \cup Seq(AuditLine)]
      BY DEF Prepare, JournalTypeOK
    <2>. QED  BY <1>2, <1>4, <1>5, <1>6, <2>1, <2>2, <2>3
              DEF Prepare, JournalTypeOK
  <1>8. WorkInv'
    <2>1. /\ pc'[t] \in {"idle", "commit"}
          /\ pc'[t] = "commit" => entry'[t] = l /\ key'[t] = key[t]
          /\ \A u \in Threads : u # t => /\ pc'[u] = pc[u] /\ key'[u] = key[u]
                                        /\ entry'[u] = entry[u]
      BY DEF Prepare, Respond, JournalTypeOK
    <2>2. \A q \in Instances : q # p =>
            snap'[q] = snap[q] /\ held'[q] = held[q]
      BY DEF Prepare, JournalTypeOK
    <2>3. state' = state /\ pc[t] = "prepare"
      BY DEF Prepare
    <2>. HIDE DEF l
    <2>. QED  BY <1>1, <1>3, <2>1, <2>2, <2>3, WorkStep
  <1>. QED  BY <1>7, <1>8

\* An entry is committed.
LEMMA TypeCommit ==
  ASSUME NEW t \in Threads, TypeInv, Commit(t)
  PROVE  TypeInv'
  <1>. USE RuntimeJournalAssumption DEF TypeInv
  <1>. DEFINE p == Home[t]
  <1>1. /\ p \in Instances /\ entry[t] \in JournalLine
        /\ snap[p] \in Seq(AuditLine) /\ held[p] = t
    BY DEF Commit, WorkInv
  <1>2. Record(p, entry[t], "commit")
    BY DEF Commit
  <1>3. JournalTypeOK'
    <2>1. /\ audit' \in Seq(AuditLine) /\ nIds' \in 0 .. MaxIds
          /\ last' \in [Instances -> [journal : Nat, audit : Nat]]
          /\ idem' \in [Instances -> [Keys -> Statuses]]
          /\ snap' \in [Instances -> Seq(JournalLine) \cup Seq(AuditLine)]
      BY <1>1, <1>2, TypeRecord
    <2>. QED  BY <2>1 DEF Commit, Respond, JournalTypeOK
  <1>4. WorkInv'
    <2>1. /\ pc'[t] = "idle"
          /\ \A u \in Threads : u # t => /\ pc'[u] = pc[u] /\ key'[u] = key[u]
                                        /\ entry'[u] = entry[u]
      BY DEF Commit, Respond, JournalTypeOK
    <2>2. \A q \in Instances : q # p =>
            snap'[q] = snap[q] /\ held'[q] = held[q]
      BY <1>2 DEF Commit, Record, JournalTypeOK
    <2>3. state' = state /\ pc[t] = "record"
      BY DEF Commit
    <2>. QED  BY <1>1, <2>1, <2>2, <2>3, WorkStep
  <1>. QED  BY <1>3, <1>4

\* Every step keeps the types.
LEMMA TypeNext == TypeInv /\ [JournalNext]_journalVars => TypeInv'
  <1>. SUFFICES ASSUME TypeInv, [JournalNext]_journalVars PROVE TypeInv'
    OBVIOUS
  <1>1. ASSUME NEW p \in Instances, Process(p) PROVE TypeInv'
    BY <1>1, TypeBoot, TypeRecoverRead, TypeRollBack, TypeReady, TypeCrash
    DEF Process
  <1>2. ASSUME NEW t \in Threads, Handle(t) PROVE TypeInv'
    BY <1>2, TypeSandbox, TypePrepareCheck, TypePrepare, TypeCommitRead,
       TypeCommit, TypeAppendFails
    DEF Handle
  <1>3. ASSUME NEW t \in Threads, NEW i \in Intents, NEW k \in Keys,
               Request(t, i, k)
        PROVE  TypeInv'
    BY <1>3, TypeRequest
  <1>4. CASE UNCHANGED journalVars
    BY <1>4 DEF TypeInv, JournalTypeOK, WorkInv, journalVars, files, memory,
                locking, requests
  <1>. QED  BY <1>1, <1>2, <1>3, <1>4 DEF JournalNext

\* The journal, the processes and their requests have the types they should:
\* whatever requests, failures, crashes and second processes there are, a
\* request at work has a process that is up, a key and an entry.
THEOREM JournalTypes == JournalSpec => []JournalTypeOK
  <1>1. JournalSpec => []TypeInv
    BY TypeInit, TypeNext, PTL DEF JournalSpec
  <1>. QED  BY <1>1, PTL DEF TypeInv
-----------------------------------------------------------------------------
(* The files grow at their ends *)

\* File g is f, or f with a line that names the last line of f.
Grows(f, g, Line) ==
  g = f \/ \E l \in Line : g = Append(f, l) /\ l.prev = LastHash(f)

FilesGrow ==
  /\ Grows(journal, journal', JournalLine)
  /\ Grows(audit, audit', AuditLine)

\* The hash of a file with one more line is that of the line.
LEMMA LastHashAppend ==
  ASSUME NEW S, NEW f \in Seq(S), NEW l \in S
  PROVE  LastHash(Append(f, l)) = l.id
  BY DEF LastHash

\* Process p has the lock and has read the audit log: its record is added at
\* the end, and it knows its hash.
LEMMA AloneRecord ==
  ASSUME NEW p \in Instances, NEW l \in JournalLine,
         NEW result \in {"commit", "rollback"}, JournalTypeOK,
         snap[p] = audit, last[p] = LoadedHashes, journal' = journal,
         Record(p, l, result)
  PROVE  /\ \E a \in AuditLine : /\ audit' = Append(audit, a)
                                /\ a.entry = l.id /\ a.prev = LastHash(audit)
         /\ last'[p] = LoadedHashes'
  <1>. USE RuntimeJournalAssumption
  <1>. DEFINE a == [id |-> nIds + 1, entry |-> l.id, result |-> result,
                    prev |-> last[p].audit]
  <1>1. audit' = Append(audit, a)
    BY DEF Record, AppendLine
  <1>2. a \in AuditLine /\ a.prev = LastHash(audit)
    BY DEF Record, JournalTypeOK, AuditLine, JournalLine, Ids, LoadedHashes
  <1>3. LastHash(audit') = nIds + 1
    BY <1>1, <1>2, LastHashAppend DEF JournalTypeOK
  <1>4. last'[p] = [journal |-> LastHash(journal), audit |-> nIds + 1]
    <2>1. last' = [last EXCEPT ![p].audit = nIds + 1]
      BY DEF Record
    <2>. QED  BY <2>1 DEF JournalTypeOK, LoadedHashes
  <1>5. last'[p] = LoadedHashes'
    BY <1>3, <1>4 DEF LoadedHashes
  <1>6. a.entry = l.id
    OBVIOUS
  <1>. HIDE DEF a
  <1>. QED  BY <1>1, <1>2, <1>5, <1>6

\* The same of the journal and a new entry.
LEMMA AlonePrepare ==
  ASSUME NEW t \in Threads, TypeInv, AloneInv, ~overlapped, Prepare(t)
  PROVE  /\ \E l \in JournalLine :
              /\ journal' = Append(journal, l) /\ l.id = nIds + 1
              /\ l.prev = LastHash(journal)
         /\ last'[Home[t]] = LoadedHashes'
  <1>. USE RuntimeJournalAssumption
  <1>. DEFINE p == Home[t]
              l == [id |-> nIds + 1, key |-> key[t], prev |-> last[p].journal]
  <1>1. /\ p \in Instances /\ state[p] = "up" /\ key[t] \in Keys
        /\ snap[p] = journal /\ last[p] = LoadedHashes
    BY DEF Prepare, TypeInv, WorkInv, AloneInv
  <1>2. journal' = Append(journal, l)
    BY <1>1 DEF Prepare, AppendLine
  <1>3. l \in JournalLine /\ l.prev = LastHash(journal)
    BY <1>1 DEF Prepare, TypeInv, JournalTypeOK, JournalLine, Ids, LoadedHashes
  <1>4. LastHash(journal') = nIds + 1
    BY <1>2, <1>3, LastHashAppend DEF TypeInv, JournalTypeOK
  <1>5. last'[p] = [journal |-> nIds + 1, audit |-> LastHash(audit)]
    <2>1. last' = [last EXCEPT ![p].journal = nIds + 1]
      BY DEF Prepare
    <2>. QED  BY <1>1, <2>1 DEF TypeInv, JournalTypeOK, LoadedHashes
  <1>6. last'[p] = LoadedHashes'
    BY <1>4, <1>5 DEF LoadedHashes, Prepare
  <1>7. l.id = nIds + 1
    OBVIOUS
  <1>. HIDE DEF l
  <1>. QED  BY <1>2, <1>3, <1>6, <1>7

\* The only process has appended a line and nobody is about to.
LEMMA AloneAppended ==
  ASSUME NEW p \in Instances, TypeInv, AloneInv, ~overlapped,
         overlapped' = overlapped, state[p] # "down", state'[p] # "rolling",
         \A q \in Instances : q # p => state'[q] = state[q],
         \A u \in Threads : pc'[u] \notin {"prepare", "record"},
         last'[p] = LoadedHashes'
  PROVE  AloneInv'
  <1>1. \A q \in Instances : q # p => state'[q] = "down"
    BY DEF AloneInv
  <1>. QED  BY <1>1 DEF AloneInv

\* Nobody but thread t is about to append when it has the lock.
LEMMA AloneThread ==
  ASSUME NEW t \in Threads, TypeInv, AloneInv, ~overlapped,
         pc[t] # "idle", held[Home[t]] \in {t, Nobody}
  PROVE  \A u \in Threads : u # t => pc[u] \notin {"prepare", "record"}
  <1>1. ASSUME NEW u \in Threads, pc[u] # "idle" PROVE Home[u] = Home[t]
    BY <1>1, RuntimeJournalAssumption DEF TypeInv, WorkInv, AloneInv
  <1>. QED  BY <1>1, RuntimeJournalAssumption DEF TypeInv, WorkInv

\* What leaves the files and the hashes alone keeps what is read current.
LEMMA AloneQuiet ==
  ASSUME TypeInv, AloneInv, overlapped' = overlapped,
         UNCHANGED <<journal, audit>>,
         \A p \in Instances : state'[p] # "down" =>
                                  state[p] # "down" /\ last'[p] = last[p],
         ~overlapped => \A t \in Threads :
           /\ pc'[t] = "prepare" => snap'[Home[t]] = journal
           /\ pc'[t] = "record" => snap'[Home[t]] = audit,
         ~overlapped => \A p \in Instances :
           state'[p] = "rolling" => snap'[p] = audit
  PROVE  AloneInv'
  <1>1. LoadedHashes' = LoadedHashes
    BY DEF LoadedHashes, LastHash
  <1>. QED  BY <1>1 DEF AloneInv

\* A process starts: alone, or overlapped says so.
LEMMA AloneBoot ==
  ASSUME NEW p \in Instances, TypeInv, AloneInv, Boot(p)
  PROVE  AloneInv' /\ UNCHANGED <<journal, audit>>
  <1>. USE RuntimeJournalAssumption
  <1>1. UNCHANGED <<journal, audit, pc>>
    BY DEF Boot, files, requests
  <1>2. SUFFICES ASSUME ~overlapped' PROVE AloneInv'
    BY <1>1 DEF AloneInv
  <1>3. \A q \in Instances : state[q] = "down"
    BY <1>2 DEF Boot, TypeInv, JournalTypeOK
  <1>4. \A t \in Threads : pc'[t] = "idle"
    BY <1>1, <1>3 DEF TypeInv, WorkInv
  <1>5. /\ \A q \in Instances : q # p => state'[q] = "down"
        /\ state'[p] = "recovering"
    BY <1>3 DEF Boot, TypeInv, JournalTypeOK
  <1>6. last'[p] = LoadedHashes'
    BY <1>1 DEF Boot, LoadedHashes, LastHash, TypeInv, JournalTypeOK
  <1>. QED  BY <1>4, <1>5, <1>6 DEF AloneInv

\* Recovery appends a rollback.
LEMMA AloneRollBack ==
  ASSUME NEW p \in Instances, TypeInv, AloneInv, ~overlapped, RollBack(p)
  PROVE  /\ AloneInv' /\ journal' = journal
         /\ \E l \in todo[p], a \in AuditLine :
              /\ audit' = Append(audit, a)
              /\ a.entry = l.id /\ a.prev = LastHash(audit)
              /\ todo' = [todo EXCEPT ![p] = @ \ {l}]
  <1>1. PICK l \in todo[p] : /\ Record(p, l, "rollback")
                             /\ todo' = [todo EXCEPT ![p] = @ \ {l}]
    BY DEF RollBack
  <1>2. l \in JournalLine
    BY DEF TypeInv, JournalTypeOK
  <1>3. snap[p] = audit /\ last[p] = LoadedHashes /\ journal' = journal
    BY DEF RollBack, AloneInv
  <1>4. /\ \E a \in AuditLine : /\ audit' = Append(audit, a)
                               /\ a.entry = l.id /\ a.prev = LastHash(audit)
        /\ last'[p] = LoadedHashes'
    BY <1>1, <1>2, <1>3, AloneRecord DEF TypeInv
  <1>5. \A u \in Threads : pc'[u] \notin {"prepare", "record"}
    <2>1. \A u \in Threads : pc[u] # "idle" => Home[u] = p
      BY RuntimeJournalAssumption DEF RollBack, TypeInv, WorkInv, AloneInv
    <2>. QED  BY <2>1 DEF RollBack, TypeInv, WorkInv, requests
  <1>6. AloneInv'
    <2>1. /\ overlapped' = overlapped /\ state[p] # "down"
          /\ state'[p] # "rolling"
          /\ \A q \in Instances : q # p => state'[q] = state[q]
      BY DEF RollBack, TypeInv, JournalTypeOK
    <2>. QED  BY <1>4, <1>5, <2>1, AloneAppended
  <1>. QED  BY <1>1, <1>3, <1>4, <1>6

\* An entry is prepared.
LEMMA AlonePrepared ==
  ASSUME NEW t \in Threads, TypeInv, AloneInv, ~overlapped, Prepare(t)
  PROVE  AloneInv'
  <1>1. held[Home[t]] = t /\ pc[t] = "prepare" /\ state[Home[t]] = "up"
    BY DEF Prepare, TypeInv, WorkInv
  <1>2. \A u \in Threads : pc'[u] \notin {"prepare", "record"}
    <2>1. \A u \in Threads : u # t => pc[u] \notin {"prepare", "record"}
      BY <1>1, AloneThread
    <2>2. pc'[t] \in {"idle", "commit"}
      BY DEF Prepare, Respond, TypeInv, JournalTypeOK
    <2>3. \A u \in Threads : u # t => pc'[u] = pc[u]
      BY DEF Prepare, Respond, TypeInv, JournalTypeOK
    <2>. QED  BY <2>1, <2>2, <2>3
  <1>3. last'[Home[t]] = LoadedHashes'
    BY AlonePrepare
  <1>4. Home[t] \in Instances /\ overlapped' = overlapped /\ state' = state
    BY RuntimeJournalAssumption DEF Prepare
  <1>. QED  BY <1>1, <1>2, <1>3, <1>4, AloneAppended

\* An entry is committed.
LEMMA AloneCommit ==
  ASSUME NEW t \in Threads, TypeInv, AloneInv, ~overlapped, Commit(t)
  PROVE  /\ AloneInv' /\ journal' = journal
         /\ \E a \in AuditLine : /\ audit' = Append(audit, a)
                               /\ a.prev = LastHash(audit)
  <1>. DEFINE p == Home[t]
  <1>1. /\ held[p] = t /\ pc[t] = "record" /\ state[p] = "up"
        /\ entry[t] \in JournalLine
    BY DEF Commit, TypeInv, WorkInv
  <1>2. \A u \in Threads : pc'[u] \notin {"prepare", "record"}
    <2>1. \A u \in Threads : u # t => pc[u] \notin {"prepare", "record"}
      BY <1>1, AloneThread
    <2>2. pc'[t] \in {"idle", "commit"}
      BY DEF Commit, Respond, TypeInv, JournalTypeOK
    <2>3. \A u \in Threads : u # t => pc'[u] = pc[u]
      BY DEF Commit, Respond, TypeInv, JournalTypeOK
    <2>. QED  BY <2>1, <2>2, <2>3
  <1>3. p \in Instances /\ overlapped' = overlapped /\ state' = state
    BY RuntimeJournalAssumption DEF Commit
  <1>4. /\ snap[p] = audit /\ last[p] = LoadedHashes /\ journal' = journal
        /\ Record(p, entry[t], "commit")
    BY <1>1, <1>3 DEF Commit, AloneInv
  <1>5. /\ \E a \in AuditLine : /\ audit' = Append(audit, a)
                               /\ a.prev = LastHash(audit)
        /\ last'[p] = LoadedHashes'
    BY <1>1, <1>3, <1>4, AloneRecord DEF TypeInv
  <1>. QED  BY <1>1, <1>2, <1>3, <1>4, <1>5, AloneAppended

\* Once two processes have been alive it is remembered.
LEMMA OverlapStays ==
  ASSUME [JournalNext]_journalVars, overlapped PROVE overlapped'
  BY DEF JournalNext, Process, Handle, Boot, RecoverRead, RollBack, Ready,
         Crash, Sandbox, PrepareCheck, Prepare, CommitRead, Commit,
         AppendFails, Request, journalVars

\* Every step keeps what was read current, and appends at the end of a file.
LEMMA AloneNext ==
  ASSUME TypeInv, AloneInv, [JournalNext]_journalVars
  PROVE  AloneInv' /\ (~overlapped' => FilesGrow)
  <1>. USE RuntimeJournalAssumption
  <1>. SUFFICES ASSUME ~overlapped' PROVE AloneInv' /\ FilesGrow
    BY DEF AloneInv
  <1>0. ~overlapped /\ overlapped \in BOOLEAN
    BY OverlapStays DEF TypeInv, JournalTypeOK
  <1>1. UNCHANGED <<journal, audit>> => FilesGrow
    BY DEF FilesGrow, Grows
  <1>2. ASSUME NEW p \in Instances, Boot(p) PROVE AloneInv' /\ FilesGrow
    BY <1>1, <1>2, AloneBoot
  <1>3. ASSUME NEW p \in Instances, RecoverRead(p)
        PROVE  AloneInv' /\ FilesGrow
    <2>1. \A t \in Threads : pc'[t] = pc[t] /\ (Home[t] = p => pc[t] = "idle")
      BY <1>3 DEF RecoverRead, requests, TypeInv, WorkInv
    <2>2. \A q \in Instances : q # p =>
            snap'[q] = snap[q] /\ state'[q] = state[q]
      BY <1>3 DEF RecoverRead, TypeInv, JournalTypeOK
    <2>3. snap'[p] = audit /\ state[p] # "down"
      BY <1>3 DEF RecoverRead, TypeInv, JournalTypeOK
    <2>4. UNCHANGED <<journal, audit, last, overlapped>>
      BY <1>3 DEF RecoverRead, files, memory
    <2>5. AloneInv'
      <3>1. ASSUME NEW t \in Threads
            PROVE  /\ pc'[t] = "prepare" => snap'[Home[t]] = journal
                   /\ pc'[t] = "record" => snap'[Home[t]] = audit
        BY <1>0, <2>1, <2>2 DEF AloneInv
      <3>2. ASSUME NEW q \in Instances, state'[q] = "rolling"
            PROVE  snap'[q] = audit
        BY <1>0, <2>2, <2>3, <3>2 DEF AloneInv
      <3>. QED  BY <2>2, <2>3, <2>4, <3>1, <3>2, AloneQuiet
    <2>. QED  BY <1>1, <2>4, <2>5
  <1>4. ASSUME NEW p \in Instances, RollBack(p) PROVE AloneInv' /\ FilesGrow
    BY <1>0, <1>4, AloneRollBack DEF FilesGrow, Grows
  <1>5. ASSUME NEW p \in Instances, Ready(p) PROVE AloneInv' /\ FilesGrow
    <2>1. /\ UNCHANGED <<journal, audit, last, snap, pc, overlapped>>
          /\ state' = [state EXCEPT ![p] = "up"] /\ state[p] # "down"
      BY <1>5 DEF Ready, files, memory, locking, requests
    <2>2. \A q \in Instances : /\ state'[q] # "down" => state[q] # "down"
                             /\ state'[q] = "rolling" => state[q] = "rolling"
      BY <2>1 DEF TypeInv, JournalTypeOK
    <2>3. AloneInv'
      BY <1>0, <2>1, <2>2, AloneQuiet DEF AloneInv
    <2>. QED  BY <1>1, <2>1, <2>3
  <1>6. ASSUME NEW p \in Instances, Crash(p) PROVE AloneInv' /\ FilesGrow
    <2>1. /\ UNCHANGED <<journal, audit, overlapped>> /\ state'[p] = "down"
          /\ \A q \in Instances : q # p => /\ state'[q] = state[q]
                                          /\ last'[q] = last[q]
                                          /\ snap'[q] = snap[q]
      BY <1>6 DEF Crash, files, TypeInv, JournalTypeOK
    <2>2. \A t \in Threads : pc'[t] # "idle" => Home[t] # p /\ pc'[t] = pc[t]
      BY <1>6 DEF Crash
    <2>3. AloneInv'
      <3>1. ASSUME NEW t \in Threads
            PROVE  /\ pc'[t] = "prepare" => snap'[Home[t]] = journal
                   /\ pc'[t] = "record" => snap'[Home[t]] = audit
        BY <1>0, <2>1, <2>2 DEF AloneInv
      <3>2. ASSUME NEW q \in Instances, state'[q] = "rolling"
            PROVE  snap'[q] = audit
        BY <1>0, <2>1, <3>2 DEF AloneInv
      <3>. QED  BY <2>1, <3>1, <3>2, AloneQuiet
    <2>. QED  BY <1>1, <2>1, <2>3
  <1>7. ASSUME NEW t \in Threads, NEW i \in Intents, NEW k \in Keys,
               Request(t, i, k)
        PROVE  AloneInv' /\ FilesGrow
    <2>1. /\ UNCHANGED <<journal, audit, last, snap, state, overlapped>>
          /\ pc'[t] \in {"sandbox", "check"}
          /\ \A u \in Threads : u # t => pc'[u] = pc[u]
      BY <1>7 DEF Request, files, memory, locking, TypeInv, JournalTypeOK
    <2>2. AloneInv'
      BY <1>0, <2>1, AloneQuiet DEF AloneInv
    <2>. QED  BY <1>1, <2>1, <2>2
  <1>8. ASSUME NEW t \in Threads, Sandbox(t) PROVE AloneInv' /\ FilesGrow
    <2>1. /\ UNCHANGED <<journal, audit, last, snap, state, overlapped>>
          /\ pc'[t] \in {"idle", "check"}
          /\ \A u \in Threads : u # t => pc'[u] = pc[u]
      BY <1>8 DEF Sandbox, GoTo, Respond, files, memory, locking, TypeInv,
                  JournalTypeOK
    <2>2. AloneInv'
      BY <1>0, <2>1, AloneQuiet DEF AloneInv
    <2>. QED  BY <1>1, <2>1, <2>2
  <1>9. ASSUME NEW t \in Threads, PrepareCheck(t) \/ CommitRead(t)
                                  \/ AppendFails(t)
        PROVE  AloneInv' /\ FilesGrow
    <2>1. UNCHANGED <<journal, audit, last, state, overlapped>>
      BY <1>9 DEF PrepareCheck, CommitRead, AppendFails, files, memory
    <2>2. /\ pc[t] # "idle" /\ held[Home[t]] \in {t, Nobody}
          /\ \A u \in Threads : u # t => pc'[u] = pc[u]
      BY <1>9 DEF PrepareCheck, CommitRead, AppendFails, GoTo, Respond,
                  TypeInv, WorkInv, JournalTypeOK
    <2>3. \A u \in Threads : u # t => pc'[u] \notin {"prepare", "record"}
      BY <1>0, <2>2, AloneThread
    <2>4. /\ pc'[t] = "prepare" => snap'[Home[t]] = journal
          /\ pc'[t] = "record" => snap'[Home[t]] = audit
      BY <1>9 DEF PrepareCheck, CommitRead, AppendFails, GoTo, Respond,
                  TypeInv, JournalTypeOK
    <2>5. state[Home[t]] = "up" /\ Home[t] \in Instances
      BY <2>2 DEF TypeInv, WorkInv
    <2>6. \A q \in Instances : state'[q] # "rolling"
      BY <1>0, <2>1, <2>5 DEF AloneInv
    <2>7. AloneInv'
      BY <2>1, <2>3, <2>4, <2>6, AloneQuiet
    <2>. QED  BY <1>1, <2>1, <2>7
  <1>10. ASSUME NEW t \in Threads, Prepare(t) PROVE AloneInv' /\ FilesGrow
    <2>1. audit' = audit
      BY <1>10 DEF Prepare
    <2>. QED  BY <1>0, <1>10, <2>1, AlonePrepare, AlonePrepared
              DEF FilesGrow, Grows
  <1>11. ASSUME NEW t \in Threads, Commit(t) PROVE AloneInv' /\ FilesGrow
    BY <1>0, <1>11, AloneCommit DEF FilesGrow, Grows
  <1>12. CASE UNCHANGED journalVars
    <2>1. AloneInv'
      BY <1>12 DEF AloneInv, LoadedHashes, LastHash, journalVars, files,
                   memory, locking, requests
    <2>. QED  BY <1>1, <1>12, <2>1 DEF journalVars, files
  <1>. QED  BY <1>2, <1>3, <1>4, <1>5, <1>6, <1>7, <1>8, <1>9, <1>10, <1>11,
               <1>12
            DEF JournalNext, Process, Handle

\* Only the start of a process finds another one alive, and it writes nothing.
LEMMA OverlapWritesNothing ==
  ASSUME TypeInv, [JournalNext]_journalVars, ~overlapped
  PROVE  ~overlapped' \/ UNCHANGED <<journal, audit>>
  BY DEF JournalNext, Process, Handle, Boot, RecoverRead, RollBack, Ready,
         Crash, Sandbox, PrepareCheck, Prepare, CommitRead, Commit,
         AppendFails, Request, journalVars, files

\* Types, and what was read is current, in every state.
LEMMA Invariants == JournalSpec => [](TypeInv /\ AloneInv)
  <1>1. JournalInit => AloneInv
    BY RuntimeJournalAssumption DEF JournalInit, AloneInv
  <1>2. TypeInv /\ AloneInv /\ [JournalNext]_journalVars
          => TypeInv' /\ AloneInv'
    BY TypeNext, AloneNext
  <1>. QED  BY TypeInit, <1>1, <1>2, PTL DEF JournalSpec
-----------------------------------------------------------------------------
(* Chains that only grow *)

\* A chain with a line that names its last one is a chain.
LEMMA GrowsChained ==
  ASSUME NEW Line, NEW f \in Seq(Line), NEW g, Grows(f, g, Line), Chained(f)
  PROVE  Chained(g)
  <1>1. CASE g = f
    BY <1>1
  <1>2. CASE \E l \in Line : g = Append(f, l) /\ l.prev = LastHash(f)
    <2>1. PICK l \in Line : g = Append(f, l) /\ l.prev = LastHash(f)
      BY <1>2
    <2>2. ASSUME NEW i \in DOMAIN g
          PROVE  g[i].prev = IF i = 1 THEN 0 ELSE g[i - 1].id
      <3>1. CASE i = Len(f) + 1
        <4>1. g[i] = l
          BY <2>1, <3>1
        <4>2. CASE f = <<>>
          BY <2>1, <3>1, <4>1, <4>2 DEF LastHash
        <4>3. CASE f # <<>>
          <5>1. i # 1 /\ g[i - 1] = f[Len(f)]
            BY <2>1, <3>1, <4>3
          <5>. QED  BY <2>1, <4>1, <4>3, <5>1 DEF LastHash
        <4>. QED  BY <4>2, <4>3
      <3>2. CASE i # Len(f) + 1
        <4>1. /\ i \in DOMAIN f /\ g[i] = f[i]
              /\ i # 1 => g[i - 1] = f[i - 1]
          BY <2>1, <2>2, <3>2
        <4>. QED  BY <4>1 DEF Chained
      <3>. QED  BY <3>1, <3>2
    <2>. QED  BY <2>2 DEF Chained
  <1>. QED  BY <1>1, <1>2 DEF Grows

\* A file that grows at its end keeps its lines where they are.
LEMMA GrowsExtends ==
  ASSUME NEW Line, NEW f \in Seq(Line), NEW g, Grows(f, g, Line)
  PROVE  Extends(g, f)
  <1>1. CASE g = f
    BY <1>1 DEF Extends
  <1>2. CASE \E l \in Line : g = Append(f, l)
    BY <1>2 DEF Extends
  <1>. QED  BY <1>1, <1>2 DEF Grows

\* While one process runs at a time each line of journal.log and of audit.log
\* names the line before it, across failed appends, crashes and recoveries.
THEOREM Chains == JournalSpec => []ChainsIntact
  <1>1. JournalInit => ChainsIntact
    BY DEF JournalInit, ChainsIntact, Chained
  <1>2. TypeInv /\ AloneInv /\ ChainsIntact /\ [JournalNext]_journalVars
          => ChainsIntact'
    <2>. SUFFICES ASSUME TypeInv, AloneInv, ChainsIntact, ~overlapped',
                         [JournalNext]_journalVars
                  PROVE  Chained(journal)' /\ Chained(audit)'
      BY DEF ChainsIntact
    <2>1. FilesGrow /\ ~overlapped
      BY AloneNext, OverlapStays
    <2>2. journal \in Seq(JournalLine) /\ audit \in Seq(AuditLine)
      BY DEF TypeInv, JournalTypeOK
    <2>3. Chained(journal) /\ Chained(audit)
      BY <2>1 DEF ChainsIntact
    <2>4. Chained(journal')
      BY <2>1, <2>2, <2>3, GrowsChained DEF FilesGrow
    <2>5. Chained(audit')
      BY <2>1, <2>2, <2>3, GrowsChained DEF FilesGrow
    <2>. QED  BY <2>4, <2>5
  <1>. QED  BY Invariants, <1>1, <1>2, PTL DEF JournalSpec

\* While one process runs at a time no line of either file is ever lost or
\* changed.
THEOREM OnlyAppends == JournalSpec => AppendOnly
  <1>1. TypeInv /\ AloneInv /\ [JournalNext]_journalVars
          => overlapped \/ (Extends(journal', journal)
                             /\ Extends(audit', audit))
    <2>. SUFFICES ASSUME TypeInv, AloneInv, ~overlapped,
                         [JournalNext]_journalVars
                  PROVE  Extends(journal', journal) /\ Extends(audit', audit)
      OBVIOUS
    <2>1. FilesGrow
      BY AloneNext, OverlapWritesNothing DEF FilesGrow, Grows
    <2>2. journal \in Seq(JournalLine) /\ audit \in Seq(AuditLine)
      BY DEF TypeInv, JournalTypeOK
    <2>. QED  BY <2>1, <2>2, GrowsExtends DEF FilesGrow
  <1>2. TypeInv /\ AloneInv /\ [JournalNext]_journalVars
          => [overlapped \/ (Extends(journal', journal)
                              /\ Extends(audit', audit))]_journalVars
    BY <1>1
  <1>. QED  BY Invariants, <1>2, PTL DEF JournalSpec, AppendOnly
-----------------------------------------------------------------------------
(* Recovery *)

\* A new entry is the only one that comes to be open.
LEMMA PendingPrepared ==
  ASSUME journal \in Seq(JournalLine), NEW l \in JournalLine,
         journal' = Append(journal, l), audit' = audit
  PROVE  Pending' \subseteq Pending \cup {l}
  <1>1. /\ Lines(journal') = Lines(journal) \cup {l}
        /\ Lines(audit') = Lines(audit)
    BY DEF Lines
  <1>. QED  BY <1>1 DEF Pending

\* A record closes the entry that it names, and opens none.
LEMMA PendingClosed ==
  ASSUME audit \in Seq(AuditLine), NEW a \in AuditLine,
         audit' = Append(audit, a), journal' = journal
  PROVE  Pending' \subseteq {m \in Pending : m.id # a.entry}
  <1>1. /\ Lines(audit') = Lines(audit) \cup {a}
        /\ Lines(journal') = Lines(journal)
    BY DEF Lines
  <1>. QED  BY <1>1 DEF Pending

ClosedInv == RecoveryInv /\ RecoveryClosesJournal

\* What adds no open entry, starts no recovery and forgets nothing keeps what
\* is open accounted for.
LEMMA ClosedQuiet ==
  ASSUME ClosedInv, overlapped' = overlapped, Pending' \subseteq Pending,
         \A p \in Instances :
           /\ state'[p] \in {"recovering", "rolling"} =>
                state[p] \in {"recovering", "rolling"} /\ todo'[p] = todo[p]
           /\ state'[p] = "up" => state[p] = "up" /\ mine'[p] = mine[p]
  PROVE  ClosedInv'
  BY DEF ClosedInv, RecoveryInv, RecoveryClosesJournal

\* Every step keeps the open entries accounted for.
LEMMA ClosedNext ==
  ASSUME TypeInv, AloneInv, ClosedInv, [JournalNext]_journalVars
  PROVE  ClosedInv'
  <1>. USE RuntimeJournalAssumption
  <1>. SUFFICES ASSUME ~overlapped' PROVE ClosedInv'
    BY DEF ClosedInv, RecoveryInv, RecoveryClosesJournal
  <1>0. /\ ~overlapped /\ overlapped \in BOOLEAN
        /\ journal \in Seq(JournalLine) /\ audit \in Seq(AuditLine)
    BY OverlapStays DEF TypeInv, JournalTypeOK
  <1>1. UNCHANGED <<journal, audit>> => Pending' = Pending
    BY DEF Pending, Lines
  <1>2. ASSUME NEW p \in Instances, Boot(p) PROVE ClosedInv'
    <2>1. /\ UNCHANGED <<journal, audit>>
          /\ \A q \in Instances : state[q] = "down"
      BY <1>2 DEF Boot, files, TypeInv, JournalTypeOK
    <2>2. /\ state'[p] = "recovering" /\ todo'[p] = Pending
          /\ \A q \in Instances : q # p => state'[q] = "down"
      BY <1>2, <2>1 DEF Boot, Unfinished, TypeInv, JournalTypeOK
    <2>. QED  BY <1>1, <2>1, <2>2
              DEF ClosedInv, RecoveryInv, RecoveryClosesJournal
  <1>3. ASSUME NEW p \in Instances, RecoverRead(p) PROVE ClosedInv'
    <2>1. /\ UNCHANGED <<journal, audit, todo, mine, overlapped>>
          /\ state' = [state EXCEPT ![p] = "rolling"]
          /\ state[p] = "recovering"
      BY <1>3 DEF RecoverRead, files, memory
    <2>. QED  BY <1>1, <2>1, ClosedQuiet DEF TypeInv, JournalTypeOK
  <1>4. ASSUME NEW p \in Instances, RollBack(p) PROVE ClosedInv'
    <2>1. PICK l \in todo[p], a \in AuditLine :
            /\ audit' = Append(audit, a) /\ a.entry = l.id
            /\ todo' = [todo EXCEPT ![p] = @ \ {l}]
      BY <1>0, <1>4, AloneRollBack
    <2>2. /\ journal' = journal /\ state[p] = "rolling"
          /\ state' = [state EXCEPT ![p] = "recovering"]
      BY <1>4 DEF RollBack
    <2>3. Pending \subseteq todo[p]
      BY <1>0, <2>2 DEF ClosedInv, RecoveryInv
    <2>4. Pending' \subseteq {m \in Pending : m.id # a.entry}
      BY <1>0, <2>1, <2>2, PendingClosed
    <2>5. Pending' \subseteq todo'[p]
      BY <2>1, <2>3, <2>4 DEF TypeInv, JournalTypeOK
    <2>6. \A q \in Instances : q # p => state'[q] = "down"
      BY <1>0, <2>2 DEF AloneInv, TypeInv, JournalTypeOK
    <2>7. state'[p] = "recovering"
      BY <2>2 DEF TypeInv, JournalTypeOK
    <2>. QED  BY <2>5, <2>6, <2>7
              DEF ClosedInv, RecoveryInv, RecoveryClosesJournal
  <1>5. ASSUME NEW p \in Instances, Ready(p) PROVE ClosedInv'
    <2>1. /\ UNCHANGED <<journal, audit, todo, mine>>
          /\ state' = [state EXCEPT ![p] = "up"]
          /\ state[p] = "recovering" /\ todo[p] = {}
      BY <1>5 DEF Ready, files, memory
    <2>2. Pending' = {}
      BY <1>0, <1>1, <2>1 DEF ClosedInv, RecoveryInv
    <2>. QED  BY <2>2 DEF ClosedInv, RecoveryInv, RecoveryClosesJournal
  <1>6. ASSUME NEW p \in Instances, Crash(p) PROVE ClosedInv'
    <2>1. /\ UNCHANGED <<journal, audit, overlapped>> /\ state'[p] = "down"
          /\ \A q \in Instances : q # p => /\ state'[q] = state[q]
                                          /\ todo'[q] = todo[q]
                                          /\ mine'[q] = mine[q]
      BY <1>6 DEF Crash, files, TypeInv, JournalTypeOK
    <2>. QED  BY <1>1, <2>1, ClosedQuiet
  <1>7. ASSUME NEW t \in Threads,
               \/ \E i \in Intents, k \in Keys : Request(t, i, k)
               \/ Sandbox(t) \/ PrepareCheck(t) \/ CommitRead(t)
               \/ AppendFails(t)
        PROVE  ClosedInv'
    <2>1. UNCHANGED <<journal, audit, state, todo, mine, overlapped>>
      BY <1>7 DEF Request, Sandbox, PrepareCheck, CommitRead, AppendFails,
                  files, memory
    <2>. QED  BY <1>1, <2>1, ClosedQuiet
  <1>8. ASSUME NEW t \in Threads, Prepare(t) PROVE ClosedInv'
    <2>1. PICK l \in JournalLine : /\ journal' = Append(journal, l)
                                   /\ l.id = nIds + 1
      BY <1>0, <1>8, AlonePrepare
    <2>2. Pending' \subseteq Pending \cup {l}
      BY <1>0, <1>8, <2>1, PendingPrepared DEF Prepare
    <2>3. state[Home[t]] = "up" /\ Home[t] \in Instances /\ state' = state
      BY <1>8 DEF Prepare, TypeInv, WorkInv
    <2>4. \A q \in Instances : q # Home[t] => state'[q] = "down"
      BY <1>0, <2>3 DEF AloneInv
    <2>5. mine'[Home[t]] = mine[Home[t]] \cup {l.id}
      BY <1>8, <2>1, <2>3 DEF Prepare, TypeInv, JournalTypeOK
    <2>6. {m.id : m \in Pending} \subseteq mine[Home[t]]
      BY <1>0, <2>3 DEF ClosedInv, RecoveryClosesJournal
    <2>7. {m.id : m \in Pending'} \subseteq mine'[Home[t]]
      BY <2>2, <2>5, <2>6
    <2>. QED  BY <2>3, <2>4, <2>7
              DEF ClosedInv, RecoveryInv, RecoveryClosesJournal
  <1>9. ASSUME NEW t \in Threads, Commit(t) PROVE ClosedInv'
    <2>1. PICK a \in AuditLine : audit' = Append(audit, a)
      BY <1>0, <1>9, AloneCommit
    <2>2. UNCHANGED <<journal, state, todo, mine, overlapped>>
      BY <1>9 DEF Commit
    <2>3. Pending' \subseteq Pending
      BY <1>0, <2>1, <2>2, PendingClosed
    <2>. QED  BY <2>2, <2>3, ClosedQuiet
  <1>10. CASE UNCHANGED journalVars
    BY <1>1, <1>10, ClosedQuiet DEF journalVars, files, memory
  <1>. QED  BY <1>2, <1>3, <1>4, <1>5, <1>6, <1>7, <1>8, <1>9, <1>10
            DEF JournalNext, Process, Handle

\* While one process runs at a time, one that serves finds no entry open but
\* those it has prepared itself: recovery has closed what any crash left, also
\* the crash of a recovery.
THEOREM RecoveryCloses == JournalSpec => []RecoveryClosesJournal
  <1>1. JournalInit => ClosedInv
    BY DEF JournalInit, ClosedInv, RecoveryInv, RecoveryClosesJournal
  <1>2. TypeInv /\ AloneInv /\ ClosedInv /\ [JournalNext]_journalVars
          => ClosedInv'
    BY ClosedNext
  <1>. QED  BY Invariants, <1>1, <1>2, PTL DEF JournalSpec, ClosedInv
-----------------------------------------------------------------------------
(* Invariants *)

\* The entries with key k, and the records of them with a result.
EntriesOf(k) == {l.id : l \in {m \in Lines(journal) : m.key = k}}
Records(k, result) ==
  {a \in Lines(audit) : a.result = result /\ a.entry \in EntriesOf(k)}
CommitsOf(k)   == Records(k, "commit")
RollbacksOf(k) == Records(k, "rollback")

\* A line is named by its number, records are in the order of their numbers,
\* and each of them names an entry.
OrderInv ==
  /\ \A l, m \in Lines(journal) : l.id <= nIds /\ (l.id = m.id => l = m)
  /\ \A i, j \in DOMAIN audit : i < j => audit[i].id < audit[j].id
  /\ \A a \in Lines(audit) : a.id <= nIds /\ a.entry <= nIds

\* A request that is about to prepare has not seen its key committed; what is
\* about to be committed or rolled back is in the journal.
KeyInv ==
  /\ \A t \in Threads :
       /\ pc[t] = "prepare" => idem[Home[t]][key[t]] # "committed"
       /\ pc[t] \in {"commit", "record"} => entry[t] \in Lines(journal)
  /\ \A p \in Instances : todo[p] \subseteq Lines(journal)

\* For a process that runs, a key that is not committed has been rolled back
\* after each of its commits.
StatusInv ==
  \A p \in Instances, k \in Keys :
    state[p] # "down" /\ idem[p][k] # "committed" =>
      \A c \in CommitsOf(k) : \E r \in RollbacksOf(k) : c.id < r.id

\* An entry was prepared before any other entry with its key was committed, or
\* after a rollback that followed the commit.
RaceInv ==
  \A m \in Lines(journal) : \A c \in CommitsOf(m.key) :
    c.entry # m.id =>
      \/ m.id < c.id
      \/ \E r \in RollbacksOf(m.key) : c.id < r.id /\ r.id < m.id

CommitsInv ==
  ~overlapped => OrderInv /\ KeyInv /\ StatusInv /\ RaceInv
-----------------------------------------------------------------------------
(* Numbers *)

\* A set of positions has a last one: the status of a key is that of a record.
LEMMA LastPosition ==
  ASSUME NEW n \in Nat, NEW S, S \subseteq 1 .. n, S # {}
  PROVE  \E i \in S : \A j \in S : j <= i
  <1>. DEFINE U == {u \in Nat : \A j \in S : j <= u}
  <1>1. U \subseteq Nat /\ n \in U
    OBVIOUS
  <1>2. \E u \in U : \A v \in U : ~(<<v, u>> \in OpToRel(<, Nat))
    <2>. HIDE DEF U
    <2>. QED  BY <1>1, NatLessThanWellFounded, WFMin
  <1>3. PICK u \in U : \A v \in U : ~(<<v, u>> \in OpToRel(<, Nat))
    BY <1>2
  <1>4. \A v \in U : ~(v < u)
    BY <1>3 DEF OpToRel
  <1>5. u \in S
    <2>. SUFFICES ASSUME u \notin S PROVE FALSE
      OBVIOUS
    <2>1. u - 1 \in Nat /\ \A j \in S : j <= u - 1
      <3>1. u \in Nat /\ \A j \in S : j \in Nat /\ 1 <= j /\ j <= u /\ j # u
        OBVIOUS
      <3>2. PICK j \in S : TRUE
        OBVIOUS
      <3>. HIDE DEF U
      <3>. QED  BY <3>1, <3>2
    <2>2. u - 1 \in U /\ u - 1 < u
      BY <2>1
    <2>. QED  BY <1>4, <2>2
  <1>. QED  BY <1>5

\* The numbers of lines and of the entries of records are numbers.
LEMMA LineNumbers ==
  ASSUME JournalTypeOK
  PROVE  /\ nIds \in Nat
         /\ \A l \in Lines(journal) : l \in JournalLine /\ l.id \in Nat
                                      /\ l.key \in Keys
         /\ \A a \in Lines(audit) : a \in AuditLine /\ a.id \in Nat
                                    /\ a.entry \in Nat
  <1>. USE RuntimeJournalAssumption
  <1>1. /\ nIds \in Nat
        /\ journal \in Seq(JournalLine) /\ audit \in Seq(AuditLine)
    BY DEF JournalTypeOK
  <1>2. /\ \A l \in Lines(journal) : l \in JournalLine
        /\ \A a \in Lines(audit) : a \in AuditLine
    BY <1>1 DEF Lines
  <1>. QED  BY <1>1, <1>2 DEF JournalLine, AuditLine, Ids
-----------------------------------------------------------------------------
(* What a line adds *)

\* An appended line is one more line.
LEMMA LinesAppend ==
  ASSUME NEW S, NEW f \in Seq(S), NEW e \in S
  PROVE  Lines(Append(f, e)) = Lines(f) \cup {e}
  <1>. DEFINE g == Append(f, e)
  <1>1. /\ DOMAIN g = DOMAIN f \cup {Len(f) + 1} /\ g[Len(f) + 1] = e
        /\ \A i \in DOMAIN f : g[i] = f[i]
    OBVIOUS
  <1>. HIDE DEF g
  <1>2. Lines(g) = Lines(f) \cup {e}
    BY <1>1 DEF Lines
  <1>. QED  BY <1>2 DEF g

\* A new entry is an entry with its key, and no record names it.
LEMMA EntryAdded ==
  ASSUME JournalTypeOK, OrderInv, NEW l \in JournalLine, l.id = nIds + 1,
         journal' = Append(journal, l), audit' = audit, nIds' = nIds + 1
  PROVE  /\ Lines(journal') = Lines(journal) \cup {l}
         /\ OrderInv'
         /\ \A k \in Keys : \A result :
              Records(k, result)' = Records(k, result)
  <1>1. /\ Lines(journal') = Lines(journal) \cup {l}
        /\ Lines(audit') = Lines(audit)
    BY LinesAppend DEF JournalTypeOK
  <1>2. OrderInv'
    BY <1>1, LineNumbers DEF OrderInv
  <1>3. ASSUME NEW k \in Keys, NEW result
        PROVE  Records(k, result)' = Records(k, result)
    <2>1. \A a \in Lines(audit) : a.entry # l.id
      BY LineNumbers DEF OrderInv
    <2>2. \A a \in Lines(audit) :
            a.entry \in EntriesOf(k)' <=> a.entry \in EntriesOf(k)
      BY <1>1, <2>1 DEF EntriesOf
    <2>. QED  BY <1>1, <2>2 DEF Records
  <1>. QED  BY <1>1, <1>2, <1>3

\* A new record is a record of the key of its entry, and of no other key.
LEMMA RecordAdded ==
  ASSUME JournalTypeOK, OrderInv, NEW l \in Lines(journal),
         NEW a \in AuditLine, a.id = nIds + 1, a.entry = l.id,
         journal' = journal, audit' = Append(audit, a), nIds' = nIds + 1
  PROVE  /\ OrderInv'
         /\ Records(l.key, a.result)' = Records(l.key, a.result) \cup {a}
         /\ \A k \in Keys : \A result :
              k # l.key \/ result # a.result =>
                Records(k, result)' = Records(k, result)
  <1>1. /\ Lines(journal') = Lines(journal)
        /\ Lines(audit') = Lines(audit) \cup {a}
    BY LinesAppend DEF JournalTypeOK
  <1>2. OrderInv'
    <2>1. /\ audit \in Seq(AuditLine) /\ Len(audit') = Len(audit) + 1
          /\ \A i \in DOMAIN audit : audit'[i] = audit[i]
                                     /\ audit[i] \in Lines(audit)
          /\ audit'[Len(audit) + 1] = a
      BY DEF JournalTypeOK, Lines
    <2>2. \A i, j \in DOMAIN audit' : i < j => audit'[i].id < audit'[j].id
      <3>. SUFFICES ASSUME NEW i \in DOMAIN audit', NEW j \in DOMAIN audit',
                           i < j
                    PROVE  audit'[i].id < audit'[j].id
        OBVIOUS
      <3>1. i \in DOMAIN audit /\ (j \in DOMAIN audit \/ j = Len(audit) + 1)
        BY <2>1
      <3>2. CASE j \in DOMAIN audit
        BY <2>1, <3>1, <3>2 DEF OrderInv
      <3>3. CASE j = Len(audit) + 1
        <4>1. audit[i].id \in Nat /\ audit[i].id <= nIds /\ nIds \in Nat
          BY <2>1, <3>1, LineNumbers DEF OrderInv
        <4>. QED  BY <2>1, <3>1, <3>3, <4>1
      <3>. QED  BY <3>1, <3>2, <3>3
    <2>3. l.id <= nIds /\ nIds \in Nat /\ l.id \in Nat
      BY LineNumbers DEF OrderInv
    <2>. QED  BY <1>1, <2>2, <2>3, LineNumbers DEF OrderInv
  <1>3. \A k \in Keys : EntriesOf(k)' = EntriesOf(k)
    BY <1>1 DEF EntriesOf
  <1>4. l.key \in Keys
    BY LineNumbers
  <1>5. \A k \in Keys : a.entry \in EntriesOf(k) <=> k = l.key
    BY DEF EntriesOf, OrderInv
  <1>6. Records(l.key, a.result)' = Records(l.key, a.result) \cup {a}
    BY <1>1, <1>3, <1>4, <1>5 DEF Records
  <1>7. ASSUME NEW k \in Keys, NEW result, k # l.key \/ result # a.result
        PROVE  Records(k, result)' = Records(k, result)
    BY <1>1, <1>3, <1>5, <1>7 DEF Records
  <1>. QED  BY <1>2, <1>6, <1>7
-----------------------------------------------------------------------------
(* Steps *)

\* A key that starts out as not committed has been rolled back after each of
\* its commits: the last record of the file decides.
LEMMA StatusLoaded ==
  ASSUME JournalTypeOK, OrderInv, NEW k \in Keys,
         LoadedStatus(k) # "committed", NEW c \in CommitsOf(k)
  PROVE  \E r \in RollbacksOf(k) : c.id < r.id
  <1>. DEFINE named == {i \in DOMAIN audit : audit[i].entry \in EntriesOf(k)}
              i == CHOOSE i \in named : \A j \in named : j <= i
  <1>1. audit \in Seq(AuditLine) /\ Len(audit) \in Nat
        /\ DOMAIN audit = 1 .. Len(audit)
    BY DEF JournalTypeOK
  <1>2. PICK j \in named : audit[j] = c
    BY DEF CommitsOf, Records, Lines
  <1>3. i \in named /\ \A n \in named : n <= i
    <2>1. \E n \in named : \A m \in named : m <= n
      BY <1>1, <1>2, LastPosition
    <2>. HIDE DEF named
    <2>. QED  BY <2>1
  <1>4. audit[i].result # "commit"
    BY <1>2 DEF LoadedStatus, EntriesOf
  <1>5. audit[i] \in RollbacksOf(k)
    <2>1. audit[i] \in AuditLine /\ audit[i] \in Lines(audit)
          /\ audit[i].entry \in EntriesOf(k)
      BY <1>1, <1>3 DEF Lines
    <2>. HIDE DEF i
    <2>. QED  BY <1>4, <2>1 DEF RollbacksOf, Records, AuditLine
  <1>6. c.result = "commit"
    BY DEF CommitsOf, Records
  <1>7. j <= i /\ j # i /\ j \in Nat /\ i \in Nat
    <2>1. j <= i /\ j # i
      BY <1>2, <1>3, <1>4, <1>6
    <2>. QED  BY <1>1, <1>2, <1>3, <2>1
  <1>8. c.id < audit[i].id
    <2>1. j < i /\ i \in DOMAIN audit /\ j \in DOMAIN audit
      BY <1>2, <1>3, <1>7
    <2>. HIDE DEF i, named
    <2>. QED  BY <1>2, <2>1 DEF OrderInv
  <1>. QED  BY <1>5, <1>8

\* What leaves the files alone leaves what is said of them alone.
LEMMA FilesUnchanged ==
  ASSUME UNCHANGED files
  PROVE  /\ OrderInv' = OrderInv /\ RaceInv' = RaceInv
         /\ Lines(journal)' = Lines(journal)
         /\ \A k : CommitsOf(k)' = CommitsOf(k)
                   /\ RollbacksOf(k)' = RollbacksOf(k)
  <1>1. journal' = journal /\ audit' = audit /\ nIds' = nIds
    BY DEF files
  <1>2. Lines(journal)' = Lines(journal) /\ Lines(audit)' = Lines(audit)
    BY <1>1 DEF Lines
  <1>3. \A k : CommitsOf(k)' = CommitsOf(k) /\ RollbacksOf(k)' = RollbacksOf(k)
    BY <1>2 DEF CommitsOf, RollbacksOf, Records, EntriesOf
  <1>4. OrderInv' = OrderInv
    BY <1>1, <1>2 DEF OrderInv
  <1>5. RaceInv' = RaceInv
    BY <1>2, <1>3 DEF RaceInv
  <1>. QED  BY <1>2, <1>3, <1>4, <1>5

\* What writes no file, changes no status of a process that goes on, and lets
\* no request near a prepare or commit keeps the invariants.
LEMMA CommitsQuiet ==
  ASSUME OrderInv, KeyInv, StatusInv, RaceInv, UNCHANGED files,
         \A p \in Instances :
           /\ state'[p] # "down" => state[p] # "down" /\ idem'[p] = idem[p]
           /\ todo'[p] \subseteq todo[p],
         \A t \in Threads :
           /\ pc'[t] = "prepare" => idem'[Home[t]][key'[t]] # "committed"
           /\ pc'[t] \in {"commit", "record"} =>
                pc[t] \in {"commit", "record"} /\ entry'[t] = entry[t]
  PROVE  CommitsInv'
  <1>1. OrderInv' /\ RaceInv'
    BY FilesUnchanged
  <1>2. KeyInv'
    BY FilesUnchanged DEF KeyInv
  <1>3. StatusInv'
    BY FilesUnchanged DEF StatusInv
  <1>. QED  BY <1>1, <1>2, <1>3 DEF CommitsInv

\* A record that has been written, in terms of the line it closes.
LEMMA RecordWritten ==
  ASSUME NEW p \in Instances, NEW l \in Lines(journal), NEW result,
         result \in {"commit", "rollback"},
         JournalTypeOK, snap[p] = audit, Record(p, l, result)
  PROVE  \E a \in AuditLine :
           /\ a.id = nIds + 1 /\ a.entry = l.id /\ a.result = result
           /\ audit' = Append(audit, a) /\ nIds' = nIds + 1
  <1>. USE RuntimeJournalAssumption
  <1>. DEFINE a == [id |-> nIds + 1, entry |-> l.id, result |-> result,
                    prev |-> last[p].audit]
  <1>1. audit' = Append(audit, a) /\ nIds' = nIds + 1 /\ nIds < MaxIds
    BY DEF Record, AppendLine
  <1>2. l \in JournalLine
    BY LineNumbers
  <1>3. last[p].audit \in Nat /\ nIds \in 0 .. MaxIds
    BY DEF JournalTypeOK
  <1>4. a \in AuditLine
    BY <1>1, <1>2, <1>3 DEF AuditLine, JournalLine, Ids
  <1>5. a.id = nIds + 1 /\ a.entry = l.id /\ a.result = result
    OBVIOUS
  <1>. HIDE DEF a
  <1>. QED  BY <1>1, <1>4, <1>5

\* A new record keeps the order of the file and the rule about commits: when
\* it is a commit, every entry has been prepared before it.
LEMMA RaceRecord ==
  ASSUME JournalTypeOK, OrderInv, RaceInv, NEW l \in Lines(journal),
         NEW a \in AuditLine, a.id = nIds + 1, a.entry = l.id,
         journal' = journal, audit' = Append(audit, a), nIds' = nIds + 1
  PROVE  RaceInv'
  <1>1. Lines(journal') = Lines(journal)
    BY DEF Lines
  <1>. SUFFICES ASSUME NEW m \in Lines(journal), NEW c \in CommitsOf(m.key)',
                       c.entry # m.id
                PROVE  \/ m.id < c.id
                       \/ \E r \in RollbacksOf(m.key)' :
                            c.id < r.id /\ r.id < m.id
    BY <1>1 DEF RaceInv
  <1>2. /\ CommitsOf(m.key)' \subseteq CommitsOf(m.key) \cup {a}
        /\ RollbacksOf(m.key) \subseteq RollbacksOf(m.key)'
    <2>1. \A result : /\ Records(m.key, result)'
                           \subseteq Records(m.key, result) \cup {a}
                      /\ Records(m.key, result)
                           \subseteq Records(m.key, result)'
      <3>1. m.key \in Keys
        BY LineNumbers
      <3>. SUFFICES ASSUME NEW result
                    PROVE  /\ Records(m.key, result)'
                                \subseteq Records(m.key, result) \cup {a}
                           /\ Records(m.key, result)
                                \subseteq Records(m.key, result)'
        OBVIOUS
      <3>2. CASE m.key = l.key /\ result = a.result
        BY <3>2, RecordAdded
      <3>3. CASE m.key # l.key \/ result # a.result
        BY <3>1, <3>3, RecordAdded
      <3>. QED  BY <3>2, <3>3
    <2>. QED  BY <2>1 DEF CommitsOf, RollbacksOf
  <1>3. CASE c = a
    BY <1>3, LineNumbers DEF OrderInv
  <1>4. CASE c \in CommitsOf(m.key)
    BY <1>2, <1>4 DEF RaceInv
  <1>. QED  BY <1>2, <1>3, <1>4

\* A rollback tells for its key, and a commit makes the key committed.
LEMMA StatusRecord ==
  ASSUME JournalTypeOK, OrderInv, NEW p \in Instances,
         NEW l \in Lines(journal), NEW a \in AuditLine,
         a.id = nIds + 1, a.entry = l.id, journal' = journal,
         audit' = Append(audit, a), nIds' = nIds + 1,
         NEW k \in Keys,
         k = l.key => a.result = "rollback",
         k # l.key => \A c \in CommitsOf(k) : \E r \in RollbacksOf(k) :
                        c.id < r.id,
         NEW c \in CommitsOf(k)'
  PROVE  \E r \in RollbacksOf(k)' : c.id < r.id
  <1>1. CASE k = l.key
    <2>1. c \in CommitsOf(k) /\ a \in RollbacksOf(k)'
      BY <1>1, RecordAdded DEF CommitsOf, RollbacksOf
    <2>2. c.id \in Nat /\ c.id <= nIds /\ nIds \in Nat
      BY <2>1, LineNumbers DEF OrderInv, CommitsOf, Records
    <2>. QED  BY <2>1, <2>2
  <1>2. CASE k # l.key
    BY <1>2, RecordAdded DEF CommitsOf, RollbacksOf
  <1>. QED  BY <1>1, <1>2

\* An entry is prepared: its key was not committed, or rolled back since.
LEMMA CommitsPrepare ==
  ASSUME TypeInv, AloneInv, CommitsInv, ~overlapped,
         NEW t \in Threads, Prepare(t)
  PROVE  CommitsInv'
  <1>. USE RuntimeJournalAssumption
  <1>. DEFINE p == Home[t]
              k == key[t]
              l == [id |-> nIds + 1, key |-> k, prev |-> last[p].journal]
  <1>1. /\ p \in Instances /\ state[p] = "up" /\ k \in Keys
        /\ pc[t] = "prepare" /\ snap[p] = journal /\ JournalTypeOK
        /\ OrderInv /\ KeyInv /\ StatusInv /\ RaceInv
    BY DEF Prepare, TypeInv, WorkInv, AloneInv, CommitsInv
  <1>2. l \in JournalLine /\ l.id = nIds + 1 /\ l.key = k
    <2>1. last[p].journal \in Nat /\ nIds \in 0 .. MaxIds /\ nIds < MaxIds
      BY <1>1 DEF Prepare, JournalTypeOK
    <2>. QED  BY <1>1, <2>1 DEF JournalLine, Ids
  <1>3. /\ journal' = Append(journal, l) /\ audit' = audit
        /\ nIds' = nIds + 1 /\ state' = state /\ todo' = todo
        /\ idem' = [idem EXCEPT ![p][k] = "pending"]
    BY <1>1 DEF Prepare, AppendLine
  <1>4. /\ pc'[t] \in {"idle", "commit"}
        /\ pc'[t] = "commit" => entry'[t] = l
        /\ \A u \in Threads : u # t => pc'[u] = pc[u] /\ key'[u] = key[u]
                                       /\ entry'[u] = entry[u]
    <2>1. CASE Respond(t)
      BY <2>1 DEF Respond, TypeInv, JournalTypeOK
    <2>2. CASE /\ pc' = [pc EXCEPT ![t] = "commit"]
               /\ entry' = [entry EXCEPT ![t] = l]
               /\ UNCHANGED <<key, intent>>
      BY <2>2, <1>1 DEF JournalTypeOK
    <2>. QED  BY <2>1, <2>2 DEF Prepare
  <1>. HIDE DEF l
  <1>5. /\ Lines(journal)' = Lines(journal) \cup {l} /\ OrderInv'
        /\ \A j \in Keys : CommitsOf(j)' = CommitsOf(j)
                           /\ RollbacksOf(j)' = RollbacksOf(j)
    BY <1>1, <1>2, <1>3, EntryAdded DEF CommitsOf, RollbacksOf
  <1>6. idem[p][k] # "committed"
    BY <1>1 DEF KeyInv
  <1>7. \A c \in CommitsOf(k) : \E r \in RollbacksOf(k) : c.id < r.id
    BY <1>1, <1>6 DEF StatusInv
  <1>8. KeyInv'
    <2>1. \A u \in Threads : u # t => pc[u] \notin {"prepare", "record"}
      BY <1>1, AloneThread DEF TypeInv, WorkInv
    <2>2. ASSUME NEW u \in Threads PROVE pc'[u] # "prepare"
      BY <1>4, <2>1
    <2>3. ASSUME NEW u \in Threads, pc'[u] \in {"commit", "record"}
          PROVE  entry'[u] \in Lines(journal)'
      BY <1>1, <1>4, <1>5, <2>3 DEF KeyInv
    <2>4. \A q \in Instances : todo'[q] \subseteq Lines(journal)'
      BY <1>1, <1>3, <1>5 DEF KeyInv
    <2>. QED  BY <2>2, <2>3, <2>4 DEF KeyInv
  <1>9. StatusInv'
    <2>. SUFFICES ASSUME NEW q \in Instances, NEW j \in Keys,
                         state[q] # "down", idem'[q][j] # "committed",
                         NEW c \in CommitsOf(j)
                  PROVE  \E r \in RollbacksOf(j) : c.id < r.id
      BY <1>3, <1>5 DEF StatusInv
    <2>1. j = k \/ idem'[q][j] = idem[q][j]
      BY <1>1, <1>3 DEF JournalTypeOK
    <2>. QED  BY <1>1, <1>7, <2>1 DEF StatusInv
  <1>10. RaceInv'
    <2>. SUFFICES ASSUME NEW m \in Lines(journal) \cup {l},
                         NEW c \in CommitsOf(m.key), c.entry # m.id
                  PROVE  \/ m.id < c.id
                         \/ \E r \in RollbacksOf(m.key) :
                              c.id < r.id /\ r.id < m.id
      <3>1. \A m \in Lines(journal) \cup {l} : m.key \in Keys
        BY <1>1, <1>2, LineNumbers
      <3>. QED  BY <1>5, <3>1 DEF RaceInv
    <2>1. CASE m \in Lines(journal)
      BY <1>1, <2>1 DEF RaceInv
    <2>2. CASE m = l
      <3>1. PICK r \in RollbacksOf(k) : c.id < r.id
        BY <1>2, <1>7, <2>2
      <3>2. r.id \in Nat /\ r.id <= nIds /\ nIds \in Nat
        BY <1>1, LineNumbers DEF OrderInv, RollbacksOf, Records
      <3>. QED  BY <1>2, <2>2, <3>1, <3>2
    <2>. QED  BY <2>1, <2>2
  <1>. QED  BY <1>5, <1>8, <1>9, <1>10 DEF CommitsInv

\* Recovery rolls an entry back.
LEMMA CommitsRollBack ==
  ASSUME TypeInv, AloneInv, CommitsInv, ~overlapped,
         NEW p \in Instances, RollBack(p)
  PROVE  CommitsInv'
  <1>1. /\ JournalTypeOK /\ state[p] = "rolling" /\ snap[p] = audit
        /\ OrderInv /\ KeyInv /\ StatusInv /\ RaceInv
    BY DEF RollBack, TypeInv, AloneInv, CommitsInv
  <1>2. PICK l \in todo[p] : /\ Record(p, l, "rollback")
                             /\ todo' = [todo EXCEPT ![p] = @ \ {l}]
    BY DEF RollBack
  <1>3. l \in Lines(journal) /\ l.key \in Keys
    BY <1>1, LineNumbers DEF KeyInv
  <1>4. PICK a \in AuditLine :
          /\ a.id = nIds + 1 /\ a.entry = l.id /\ a.result = "rollback"
          /\ audit' = Append(audit, a) /\ nIds' = nIds + 1
    BY <1>1, <1>2, <1>3, RecordWritten
  <1>5. /\ journal' = journal /\ Lines(journal)' = Lines(journal)
        /\ UNCHANGED <<pc, key, entry>>
        /\ idem' = [idem EXCEPT ![p][l.key] = "rolled_back"]
        /\ state' = [state EXCEPT ![p] = "recovering"]
    <2>1. journal' = journal /\ UNCHANGED <<pc, key, entry>>
      BY DEF RollBack, requests
    <2>2. state' = [state EXCEPT ![p] = "recovering"]
      BY DEF RollBack
    <2>3. idem' = [idem EXCEPT ![p][l.key] = "rolled_back"]
      BY <1>2 DEF Record
    <2>. QED  BY <2>1, <2>2, <2>3 DEF Lines
  <1>6. OrderInv' /\ RaceInv'
    BY <1>1, <1>3, <1>4, <1>5, RecordAdded, RaceRecord
  <1>7. \A q \in Instances : q # p => state[q] = "down"
    BY <1>1 DEF AloneInv
  <1>8. KeyInv'
    <2>1. \A u \in Threads : pc[u] = "idle"
      BY <1>1, <1>7, RuntimeJournalAssumption DEF TypeInv, WorkInv
    <2>2. \A q \in Instances : todo'[q] \subseteq todo[q]
      BY <1>1, <1>2 DEF JournalTypeOK
    <2>. QED  BY <1>1, <1>5, <2>1, <2>2 DEF KeyInv
  <1>9. StatusInv'
    <2>. SUFFICES ASSUME NEW q \in Instances, NEW k \in Keys,
                         state'[q] # "down", idem'[q][k] # "committed",
                         NEW c \in CommitsOf(k)'
                  PROVE  \E r \in RollbacksOf(k)' : c.id < r.id
      BY DEF StatusInv
    <2>1. q = p
      BY <1>1, <1>5, <1>7 DEF JournalTypeOK
    <2>2. k # l.key => idem[p][k] # "committed"
      BY <1>1, <1>5, <2>1 DEF JournalTypeOK
    <2>3. k # l.key => \A d \in CommitsOf(k) : \E r \in RollbacksOf(k) :
                         d.id < r.id
      BY <1>1, <2>2 DEF StatusInv
    <2>. QED  BY <1>1, <1>3, <1>4, <1>5, <2>3, StatusRecord
  <1>. QED  BY <1>6, <1>8, <1>9 DEF CommitsInv

\* An entry is committed.
LEMMA CommitsCommit ==
  ASSUME TypeInv, AloneInv, CommitsInv, ~overlapped,
         NEW t \in Threads, Commit(t)
  PROVE  CommitsInv'
  <1>. USE RuntimeJournalAssumption
  <1>. DEFINE p == Home[t]
              l == entry[t]
  <1>1. /\ JournalTypeOK /\ p \in Instances /\ state[p] = "up"
        /\ pc[t] = "record" /\ snap[p] = audit /\ held[p] = t
        /\ OrderInv /\ KeyInv /\ StatusInv /\ RaceInv
    BY DEF Commit, TypeInv, WorkInv, AloneInv, CommitsInv
  <1>2. Record(p, l, "commit")
    BY DEF Commit
  <1>3. l \in Lines(journal) /\ l.key \in Keys
    BY <1>1, LineNumbers DEF KeyInv
  <1>4. PICK a \in AuditLine :
          /\ a.id = nIds + 1 /\ a.entry = l.id /\ a.result = "commit"
          /\ audit' = Append(audit, a) /\ nIds' = nIds + 1
    BY <1>1, <1>2, <1>3, RecordWritten
  <1>5. /\ journal' = journal /\ Lines(journal)' = Lines(journal)
        /\ todo' = todo /\ state' = state
        /\ idem' = [idem EXCEPT ![p][l.key] = "committed"]
    BY <1>2 DEF Commit, Record, Lines
  <1>6. OrderInv' /\ RaceInv'
    BY <1>1, <1>3, <1>4, <1>5, RecordAdded, RaceRecord
  <1>7. KeyInv'
    <2>1. \A u \in Threads : u # t => pc[u] \notin {"prepare", "record"}
      BY <1>1, AloneThread
    <2>2. /\ pc'[t] = "idle"
          /\ \A u \in Threads : u # t => pc'[u] = pc[u] /\ entry'[u] = entry[u]
      BY <1>1 DEF Commit, Respond, JournalTypeOK
    <2>3. ASSUME NEW u \in Threads
          PROVE  /\ pc'[u] # "prepare"
                 /\ pc'[u] \in {"commit", "record"} =>
                      entry'[u] \in Lines(journal)'
      BY <1>1, <1>5, <2>1, <2>2 DEF KeyInv
    <2>. QED  BY <1>1, <1>5, <2>3 DEF KeyInv
  <1>8. StatusInv'
    <2>. SUFFICES ASSUME NEW q \in Instances, NEW k \in Keys,
                         state[q] # "down", idem'[q][k] # "committed",
                         NEW c \in CommitsOf(k)'
                  PROVE  \E r \in RollbacksOf(k)' : c.id < r.id
      BY <1>5 DEF StatusInv
    <2>1. q = p
      BY <1>1 DEF AloneInv
    <2>2. k # l.key /\ idem[p][k] # "committed"
      BY <1>1, <1>3, <1>5, <2>1 DEF JournalTypeOK
    <2>3. \A d \in CommitsOf(k) : \E r \in RollbacksOf(k) : d.id < r.id
      BY <1>1, <2>2 DEF StatusInv
    <2>. HIDE DEF l
    <2>. QED  BY <1>1, <1>3, <1>4, <1>5, <2>2, <2>3, StatusRecord
  <1>. QED  BY <1>6, <1>7, <1>8 DEF CommitsInv

\* Every step keeps the order of the files and what is known of the keys.
LEMMA CommitsNext ==
  ASSUME TypeInv, AloneInv, CommitsInv, [JournalNext]_journalVars
  PROVE  CommitsInv'
  <1>. USE RuntimeJournalAssumption
  <1>. SUFFICES ASSUME ~overlapped' PROVE CommitsInv'
    BY DEF CommitsInv
  <1>0. /\ ~overlapped /\ JournalTypeOK
        /\ OrderInv /\ KeyInv /\ StatusInv /\ RaceInv
    BY OverlapStays DEF TypeInv, JournalTypeOK, CommitsInv
  <1>1. ASSUME NEW p \in Instances, Boot(p) PROVE CommitsInv'
    <2>1. UNCHANGED files /\ UNCHANGED <<pc, entry, key>>
          /\ \A q \in Instances : state[q] = "down"
      BY <1>1 DEF Boot, requests, TypeInv, JournalTypeOK
    <2>2. /\ \A q \in Instances : q # p => state'[q] = "down"
                                        /\ todo'[q] = todo[q]
          /\ todo'[p] = Pending
          /\ idem'[p] = [k \in Keys |-> LoadedStatus(k)]
      BY <1>0, <1>1, <2>1 DEF Boot, Unfinished, JournalTypeOK
    <2>3. \A t \in Threads : pc'[t] = "idle"
      BY <2>1 DEF TypeInv, WorkInv
    <2>4. KeyInv'
      <3>1. \A q \in Instances : todo'[q] \subseteq Lines(journal)
        BY <1>0, <2>2 DEF KeyInv, Pending
      <3>. QED  BY <2>1, <2>3, <3>1, FilesUnchanged DEF KeyInv
    <2>5. StatusInv'
      BY <1>0, <2>1, <2>2, FilesUnchanged, StatusLoaded DEF StatusInv
    <2>. QED  BY <1>0, <2>1, <2>4, <2>5, FilesUnchanged DEF CommitsInv
  <1>2. ASSUME NEW p \in Instances, RecoverRead(p) \/ Ready(p)
        PROVE  CommitsInv'
    <2>1. UNCHANGED <<files, idem, todo, pc, key, entry>>
      BY <1>2 DEF RecoverRead, Ready, memory, requests
    <2>2. \A q \in Instances : state'[q] # "down" => state[q] # "down"
      BY <1>0, <1>2 DEF RecoverRead, Ready, JournalTypeOK
    <2>. QED  BY <1>0, <2>1, <2>2, CommitsQuiet DEF KeyInv
  <1>3. ASSUME NEW p \in Instances, RollBack(p) PROVE CommitsInv'
    BY <1>0, <1>3, CommitsRollBack
  <1>4. ASSUME NEW p \in Instances, Crash(p) PROVE CommitsInv'
    <2>1. /\ UNCHANGED files
          /\ \A q \in Instances :
               /\ state'[q] # "down" => state[q] # "down" /\ idem'[q] = idem[q]
               /\ todo'[q] \subseteq todo[q]
      BY <1>0, <1>4 DEF Crash, JournalTypeOK
    <2>2. \A t \in Threads : pc'[t] # "idle" =>
            /\ Home[t] # p /\ pc'[t] = pc[t] /\ key'[t] = key[t]
            /\ entry'[t] = entry[t]
      BY <1>4 DEF Crash
    <2>3. \A q \in Instances : q # p => idem'[q] = idem[q]
      BY <1>0, <1>4 DEF Crash, JournalTypeOK
    <2>. QED  BY <1>0, <2>1, <2>2, <2>3, CommitsQuiet DEF KeyInv
  <1>5. ASSUME NEW t \in Threads,
               \/ \E i \in Intents, k \in Keys : Request(t, i, k)
               \/ Sandbox(t) \/ PrepareCheck(t) \/ CommitRead(t)
               \/ AppendFails(t)
        PROVE  CommitsInv'
    <2>1. UNCHANGED <<files, idem, todo, state>>
      BY <1>5 DEF Request, Sandbox, PrepareCheck, CommitRead, AppendFails,
                  memory
    <2>2. \A u \in Threads : u # t => /\ pc'[u] = pc[u] /\ key'[u] = key[u]
                                      /\ entry'[u] = entry[u]
      BY <1>0, <1>5 DEF Request, Sandbox, PrepareCheck, CommitRead,
                        AppendFails, GoTo, Respond, JournalTypeOK
    <2>3. /\ pc'[t] = "prepare" => key'[t] = key[t]
                                   /\ idem[Home[t]][key[t]] # "committed"
          /\ pc'[t] \in {"commit", "record"} =>
               pc[t] = "commit" /\ entry'[t] = entry[t]
      BY <1>0, <1>5 DEF Request, Sandbox, PrepareCheck, CommitRead,
                        AppendFails, GoTo, Respond, JournalTypeOK
    <2>. QED  BY <1>0, <2>1, <2>2, <2>3, CommitsQuiet DEF KeyInv
  <1>6. ASSUME NEW t \in Threads, Prepare(t) PROVE CommitsInv'
    BY <1>0, <1>6, CommitsPrepare
  <1>7. ASSUME NEW t \in Threads, Commit(t) PROVE CommitsInv'
    BY <1>0, <1>7, CommitsCommit
  <1>8. CASE UNCHANGED journalVars
    <2>1. UNCHANGED <<files, idem, todo, state, pc, key, entry>>
      BY <1>8 DEF journalVars, memory, requests
    <2>. QED  BY <1>0, <2>1, CommitsQuiet DEF KeyInv
  <1>. QED  BY <1>1, <1>2, <1>3, <1>4, <1>5, <1>6, <1>7, <1>8
            DEF JournalNext, Process, Handle
-----------------------------------------------------------------------------
\* While one process runs at a time, over any number of threads, crashes and
\* recoveries, two entries with one idempotency key are both committed only if
\* the second was prepared before the first was committed, or if recovery
\* rolled back an entry with the key in between.
THEOREM CommitsOnce == JournalSpec => []CommitTwiceOnlyByRace
  <1>1. JournalInit => CommitsInv
    <2>. SUFFICES ASSUME JournalInit PROVE CommitsInv
      OBVIOUS
    <2>1. Lines(journal) = {} /\ Lines(audit) = {} /\ DOMAIN audit = {}
      BY DEF JournalInit, Lines
    <2>2. /\ \A t \in Threads : pc[t] = "idle"
          /\ \A p \in Instances : state[p] = "down" /\ todo[p] = {}
      BY DEF JournalInit
    <2>. QED  BY <2>1, <2>2
              DEF CommitsInv, OrderInv, KeyInv, StatusInv, RaceInv
  <1>2. TypeInv /\ AloneInv /\ CommitsInv /\ [JournalNext]_journalVars
          => CommitsInv'
    BY CommitsNext
  <1>3. TypeInv /\ CommitsInv => CommitTwiceOnlyByRace
    <2>. SUFFICES ASSUME TypeInv, OrderInv, RaceInv
                  PROVE  CommitTwiceOnlyByRace
      BY DEF CommitsInv, CommitTwiceOnlyByRace
    <2>. SUFFICES ASSUME NEW c \in Lines(audit), c.result = "commit",
                         NEW l \in Lines(journal), NEW m \in Lines(journal),
                         l.id = c.entry, l.key = m.key, l # m
                  PROVE  \/ m.id < c.id
                         \/ \E n \in Lines(journal), r \in Lines(audit) :
                              /\ r.entry = n.id /\ n.key = l.key
                              /\ r.result = "rollback"
                              /\ c.id < r.id /\ r.id < m.id
      BY DEF CommitTwiceOnlyByRace
    <2>1. c \in CommitsOf(m.key) /\ c.entry # m.id
      BY DEF CommitsOf, Records, EntriesOf, OrderInv
    <2>2. CASE m.id < c.id
      BY <2>2
    <2>3. CASE \E r \in RollbacksOf(m.key) : c.id < r.id /\ r.id < m.id
      BY <2>3 DEF RollbacksOf, Records, EntriesOf
    <2>. QED  BY <2>1, <2>2, <2>3 DEF RaceInv
  <1>. QED  BY Invariants, <1>1, <1>2, <1>3, PTL DEF JournalSpec
=============================================================================
