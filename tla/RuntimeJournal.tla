--------------------------- MODULE RuntimeJournal ---------------------------
(***************************************************************************)
(* The runtime journal (core/runtime/journal.py) and the two operations    *)
(* that write it, transform and write of core/runtime/core_alpha.py.       *)
(*                                                                         *)
(* A request prepares an entry in journal.log and, when it is a write,     *)
(* closes it with a record in audit.log.  Each append reads the file, and  *)
(* replaces it by a copy with one more line.  Both files are hash chains.  *)
(* A process recovers when it starts: it rolls back whatever is still      *)
(* open.  Nothing keeps a second process (the launcher started twice) from *)
(* doing so while the first one serves.                                    *)
(***************************************************************************)
EXTENDS Naturals, Sequences

CONSTANTS Instances,  \* processes that may run
          Threads,    \* their request threads
          Home,       \* the process of each thread
          Nobody,     \* a process whose journal lock is free
          Keys,       \* idempotency keys
          NoKey, NoLine, \* nothing
          Rules,      \* the rules of config/policy.json, in order
          MaxIds,     \* bound on lines written to the two files
          MaxBoots    \* bound on process starts

Intents == {"transform", "write"}

ASSUME RuntimeJournalAssumption ==
  /\ Home \in [Threads -> Instances]
  /\ Nobody \notin Threads
  /\ Rules \in Seq([intent : Intents, decision : {"allow", "deny"}])
  /\ MaxIds \in Nat /\ MaxBoots \in Nat

Ids      == 1 .. MaxIds
Statuses == {"none", "pending", "committed", "rolled_back"}

VARIABLES
  journal, \* journal.log: what was prepared
  audit,   \* audit.log: how entries ended
  nIds,    \* lines written so far; a line is named by its number
  nBoots,
  state,   \* per process: "down", "recovering", "rolling" or "up"
  idem,    \* per process: _idempotency
  last,    \* per process: _last_journal_hash and _last_audit_hash
  todo,    \* per process: pending entries recovery has still to roll back
  held,    \* per process: who holds _lock
  snap,    \* per process: the file as the append under way has read it
  pc, key, intent, entry, \* per thread
  mine,       \* history: entries a process prepared since it started
  overlapped  \* history: two processes were alive at a time

files    == <<journal, audit, nIds>>
memory   == <<idem, last, todo, mine>>
locking  == <<held, snap>>
requests == <<pc, key, intent, entry>>
journalVars == <<files, nBoots, state, memory, locking, requests, overlapped>>

\* The hash of the last line of a file; a line's number stands for its hash.
LastHash(f) == IF f = <<>> THEN 0 ELSE f[Len(f)].id

Lines(f) == {f[i] : i \in DOMAIN f}

\* The entries of the journal that no audit record names.
Pending == {l \in Lines(journal) : \A a \in Lines(audit) : a.entry # l.id}

\* PolicyEngine.evaluate: the first rule for the intent decides; deny if none.
Permits(i) ==
  \E n \in DOMAIN Rules :
    /\ Rules[n].intent = i /\ Rules[n].decision = "allow"
    /\ \A m \in 1 .. n - 1 : Rules[m].intent # i
-----------------------------------------------------------------------------
(* Starting a process *)

\* Mutant: the keys of the journal are applied after those of the audit log.
LoadedJournalLast(k) ==
  IF \E l \in Lines(journal) : l.key = k THEN "pending" ELSE "none"
\* Mutant: the result of an audit record is taken for the status of the key.
LoadedResult(k) ==
  IF \E a \in Lines(audit) : a.result = "commit" THEN "commit" ELSE "none"
\* _recover: an entry makes its key pending, then the audit records of its
\* entries are applied in the order of the file, whatever order they ended in.
LoadedStatus(k) ==
  LET named == {i \in DOMAIN audit : audit[i].entry \in
                  {l.id : l \in {m \in Lines(journal) : m.key = k}}}
  IN  IF named # {}
      THEN IF audit[CHOOSE i \in named : \A j \in named : j <= i].result
              = "commit"
           THEN "committed" ELSE "rolled_back"
      ELSE IF \E l \in Lines(journal) : l.key = k THEN "pending" ELSE "none"

NoHashes == [journal |-> 0, audit |-> 0]
\* Mutant: the chains start anew with the process.
HashesForgotten == NoHashes
LoadedHashes == [journal |-> LastHash(journal), audit |-> LastHash(audit)]

\* Mutant: an entry is pending if its key is.
PendingKeys == {l \in Pending : LoadedStatus(l.key) = "pending"}
Unfinished == Pending

Boot(p) ==
  /\ state[p] = "down" /\ nBoots < MaxBoots
  /\ nBoots' = nBoots + 1
  /\ state' = [state EXCEPT ![p] = "recovering"]
  /\ idem' = [idem EXCEPT ![p] = [k \in Keys |-> LoadedStatus(k)]]
  /\ last' = [last EXCEPT ![p] = LoadedHashes]
  /\ todo' = [todo EXCEPT ![p] = Unfinished]
  /\ mine' = [mine EXCEPT ![p] = {}]
  /\ overlapped' = (overlapped \/ \E q \in Instances : state[q] # "down")
  /\ UNCHANGED <<files, locking, requests>>

\* Mutant: the file is written anew with the new line only.
WrittenAnew(f, line) == <<line>>
\* _atomic_append: the file becomes what was read and one more line.
AppendLine(f, line) == Append(f, line)

\* _record_audit_locked, once the audit log has been read: line l ends.
Record(p, l, result) ==
  /\ nIds < MaxIds
  /\ nIds' = nIds + 1
  /\ audit' = AppendLine(snap[p], [id |-> nIds + 1, entry |-> l.id,
                                   result |-> result, prev |-> last[p].audit])
  /\ last' = [last EXCEPT ![p].audit = nIds + 1]
  /\ idem' = [idem EXCEPT ![p][l.key] =
                IF result = "commit" THEN "committed" ELSE "rolled_back"]
  /\ snap' = [snap EXCEPT ![p] = <<>>]

\* Recovery appends one rollback at a time, oldest entry first.
RecoverRead(p) ==
  /\ state[p] = "recovering" /\ todo[p] # {}
  /\ snap' = [snap EXCEPT ![p] = audit]
  /\ state' = [state EXCEPT ![p] = "rolling"]
  /\ UNCHANGED <<files, nBoots, memory, held, requests, overlapped>>

RollBack(p) ==
  /\ state[p] = "rolling"
  /\ \E l \in todo[p] :
       /\ \A m \in todo[p] : l.id <= m.id
       /\ Record(p, l, "rollback")
       /\ todo' = [todo EXCEPT ![p] = @ \ {l}]
  /\ state' = [state EXCEPT ![p] = "recovering"]
  /\ UNCHANGED <<journal, nBoots, mine, held, requests, overlapped>>

Ready(p) ==
  /\ state[p] = "recovering" /\ todo[p] = {}
  /\ state' = [state EXCEPT ![p] = "up"]
  /\ UNCHANGED <<files, nBoots, memory, locking, requests, overlapped>>
-----------------------------------------------------------------------------
(* Requests *)

\* Thread t goes on at step s with the request it serves.
GoTo(t, s) ==
  /\ pc' = [pc EXCEPT ![t] = s]
  /\ UNCHANGED <<key, intent, entry>>

\* The request of thread t is answered.
Respond(t) ==
  /\ pc' = [pc EXCEPT ![t] = "idle"]
  /\ key' = [key EXCEPT ![t] = NoKey]
  /\ intent' = [intent EXCEPT ![t] = "none"]
  /\ entry' = [entry EXCEPT ![t] = NoLine]

\* POST /execTransform, or write: the policy is asked first.
Request(t, i, k) ==
  /\ state[Home[t]] = "up" /\ pc[t] = "idle"
  /\ Permits(i)
  /\ pc' = [pc EXCEPT ![t] = IF i = "transform" THEN "sandbox" ELSE "check"]
  /\ key' = [key EXCEPT ![t] = k]
  /\ intent' = [intent EXCEPT ![t] = i]
  /\ UNCHANGED <<files, nBoots, state, memory, locking, entry, overlapped>>

\* run_transform: the plugin's proposal, or a SandboxError.
Sandbox(t) ==
  /\ pc[t] = "sandbox"
  /\ GoTo(t, "check") \/ Respond(t)
  /\ UNCHANGED <<files, nBoots, state, memory, locking, overlapped>>

\* prepare takes the lock and refuses a key that is committed.
PrepareCheck(t) ==
  LET p == Home[t]
  IN  /\ pc[t] = "check" /\ held[p] = Nobody
      /\ IF idem[p][key[t]] = "committed"
         THEN Respond(t) /\ UNCHANGED locking
         ELSE /\ GoTo(t, "prepare")
              /\ held' = [held EXCEPT ![p] = t]
              /\ snap' = [snap EXCEPT ![p] = journal]
      /\ UNCHANGED <<files, nBoots, state, memory, overlapped>>

\* The entry is appended and the key is pending.  A transform ends here.
Prepare(t) ==
  LET p == Home[t]
      l == [id |-> nIds + 1, key |-> key[t], prev |-> last[p].journal]
  IN  /\ pc[t] = "prepare" /\ nIds < MaxIds
      /\ nIds' = nIds + 1
      /\ journal' = AppendLine(snap[p], l)
      /\ last' = [last EXCEPT ![p].journal = nIds + 1]
      /\ idem' = [idem EXCEPT ![p][key[t]] = "pending"]
      /\ mine' = [mine EXCEPT ![p] = @ \cup {nIds + 1}]
      /\ held' = [held EXCEPT ![p] = Nobody]
      /\ snap' = [snap EXCEPT ![p] = <<>>]
      /\ IF intent[t] = "transform" THEN Respond(t)
         ELSE /\ pc' = [pc EXCEPT ![t] = "commit"]
              /\ entry' = [entry EXCEPT ![t] = l]
              /\ UNCHANGED <<key, intent>>
      /\ UNCHANGED <<audit, nBoots, state, todo, overlapped>>

\* commit takes the lock again.
CommitRead(t) ==
  LET p == Home[t]
  IN  /\ pc[t] = "commit" /\ held[p] = Nobody
      /\ GoTo(t, "record")
      /\ held' = [held EXCEPT ![p] = t]
      /\ snap' = [snap EXCEPT ![p] = audit]
      /\ UNCHANGED <<files, nBoots, state, memory, overlapped>>

Commit(t) ==
  LET p == Home[t]
  IN  /\ pc[t] = "record"
      /\ Record(p, entry[t], "commit")
      /\ held' = [held EXCEPT ![p] = Nobody]
      /\ Respond(t)
      /\ UNCHANGED <<journal, nBoots, state, todo, mine, overlapped>>

\* The copy cannot be written or put in place: the handler raises, and the
\* file and the memory stay as they were.
AppendFails(t) ==
  LET p == Home[t]
  IN  /\ pc[t] \in {"prepare", "record"}
      /\ held' = [held EXCEPT ![p] = Nobody]
      /\ snap' = [snap EXCEPT ![p] = <<>>]
      /\ Respond(t)
      /\ UNCHANGED <<files, nBoots, state, memory, overlapped>>

\* Process p dies: its memory and its requests are gone, the files remain.
Crash(p) ==
  LET own == {t \in Threads : Home[t] = p}
  IN  /\ state[p] # "down"
      /\ state' = [state EXCEPT ![p] = "down"]
      /\ idem' = [idem EXCEPT ![p] = [k \in Keys |-> "none"]]
      /\ last' = [last EXCEPT ![p] = NoHashes]
      /\ todo' = [todo EXCEPT ![p] = {}]
      /\ mine' = [mine EXCEPT ![p] = {}]
      /\ held' = [held EXCEPT ![p] = Nobody]
      /\ snap' = [snap EXCEPT ![p] = <<>>]
      /\ pc' = [t \in Threads |-> IF t \in own THEN "idle" ELSE pc[t]]
      /\ key' = [t \in Threads |-> IF t \in own THEN NoKey ELSE key[t]]
      /\ intent' = [t \in Threads |->
                      IF t \in own THEN "none" ELSE intent[t]]
      /\ entry' = [t \in Threads |-> IF t \in own THEN NoLine ELSE entry[t]]
      /\ UNCHANGED <<files, nBoots, overlapped>>
-----------------------------------------------------------------------------
JournalInit ==
  /\ journal = <<>> /\ audit = <<>> /\ nIds = 0 /\ nBoots = 0
  /\ state = [p \in Instances |-> "down"]
  /\ idem = [p \in Instances |-> [k \in Keys |-> "none"]]
  /\ last = [p \in Instances |-> NoHashes]
  /\ todo = [p \in Instances |-> {}]
  /\ mine = [p \in Instances |-> {}]
  /\ held = [p \in Instances |-> Nobody]
  /\ snap = [p \in Instances |-> <<>>]
  /\ pc = [t \in Threads |-> "idle"]
  /\ key = [t \in Threads |-> NoKey]
  /\ intent = [t \in Threads |-> "none"]
  /\ entry = [t \in Threads |-> NoLine]
  /\ overlapped = FALSE

Process(p) ==
  Boot(p) \/ RecoverRead(p) \/ RollBack(p) \/ Ready(p) \/ Crash(p)

Handle(t) ==
  \/ Sandbox(t) \/ PrepareCheck(t) \/ Prepare(t)
  \/ CommitRead(t) \/ Commit(t) \/ AppendFails(t)

JournalNext ==
  \/ \E p \in Instances : Process(p)
  \/ \E t \in Threads :
       Handle(t) \/ \E i \in Intents, k \in Keys : Request(t, i, k)

JournalSpec == JournalInit /\ [][JournalNext]_journalVars
-----------------------------------------------------------------------------
(* Properties *)

JournalLine == [id : Ids, key : Keys, prev : Nat]
AuditLine   == [id : Ids, entry : Ids, result : {"commit", "rollback"},
                prev : Nat]

\* Type invariant of the journal, of the processes and of their requests.
JournalTypeOK ==
  /\ journal \in Seq(JournalLine) /\ audit \in Seq(AuditLine)
  /\ nIds \in 0 .. MaxIds /\ nBoots \in 0 .. MaxBoots
  /\ state \in [Instances -> {"down", "recovering", "rolling", "up"}]
  /\ idem \in [Instances -> [Keys -> Statuses]]
  /\ last \in [Instances -> [journal : Nat, audit : Nat]]
  /\ todo \in [Instances -> SUBSET JournalLine]
  /\ mine \in [Instances -> SUBSET Ids]
  /\ held \in [Instances -> Threads \cup {Nobody}]
  /\ snap \in [Instances -> Seq(JournalLine) \cup Seq(AuditLine)]
  /\ pc \in [Threads -> {"idle", "sandbox", "check", "prepare", "commit",
                         "record"}]
  /\ key \in [Threads -> Keys \cup {NoKey}]
  /\ intent \in [Threads -> Intents \cup {"none"}]
  /\ entry \in [Threads -> JournalLine \cup {NoLine}]
  /\ overlapped \in BOOLEAN

Chained(f) ==
  \A i \in DOMAIN f : f[i].prev = IF i = 1 THEN 0 ELSE f[i - 1].id

\* Each line of journal.log and of audit.log names the line before it, across
\* failed appends and restarts, as long as one process runs at a time.
ChainsIntact == overlapped \/ (Chained(journal) /\ Chained(audit))

\* A process that serves finds no entry open but those it has prepared itself:
\* recovery has closed whatever a crash left, also a crash of a recovery.
RecoveryClosesJournal ==
  \A p \in Instances :
    state[p] = "up" /\ ~overlapped => {l.id : l \in Pending} \subseteq mine[p]

\* Two entries with one key are both committed only if the second one was
\* prepared before the first was committed, or if in between recovery rolled
\* back another entry with this key, which frees the key.
CommitTwiceOnlyByRace ==
  ~overlapped =>
    \A c, d \in {a \in Lines(audit) : a.result = "commit"} :
      \A l, m \in Lines(journal) :
        (l.id = c.entry /\ m.id = d.entry /\ l.key = m.key /\ c.id < d.id
           /\ l # m)
        => \/ m.id < c.id
           \/ \E n \in Lines(journal), r \in Lines(audit) :
                /\ r.entry = n.id /\ n.key = l.key /\ r.result = "rollback"
                /\ c.id < r.id /\ r.id < m.id

Extends(g, f) == Len(f) <= Len(g) /\ \A i \in DOMAIN f : g[i] = f[i]

\* Neither file ever loses or changes a line while one process runs at a time.
AppendOnly ==
  [][overlapped \/ (Extends(journal', journal) /\ Extends(audit', audit))]_
    journalVars
=============================================================================
