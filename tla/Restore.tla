------------------------------ MODULE Restore ------------------------------
(***************************************************************************)
(* Backup and restore (core/utils/export.py, core/backup/restore_commit.py *)
(* and the interlock in core/api/http.py): a restore replaces the database *)
(* file and archives the journals while requests that were admitted before *)
(* it are still at work in their threads.                                  *)
(*                                                                         *)
(* The database file is a set of committed changes, with a second set for  *)
(* its write-ahead log: a change is in the log until the last connection   *)
(* closes, which moves the log into the file.  The platform is Windows, on *)
(* which a file that is open can be neither deleted nor replaced.          *)
(***************************************************************************)
EXTENDS Naturals

CONSTANTS Workers,     \* threads that serve requests
          Restorers,   \* threads that serve POST /app/db/import/commit
          Nobody,      \* the restore lock is free
          MaxRequests, \* bound on requests
          MaxRestores, \* bound on restores
          Kinds,       \* kinds of requests that arrive
          WalMode,     \* the database is in WAL mode
          Faults       \* which of "crash", "checkpoint", "archive", "audit",
                       \* "append" and "log" may happen

AllKinds == {"ledger", "vendor", "raw", "export"}

\* Sessions of SQLAlchemy; the raw requests and the export open their own
\* sqlite3 connection, which only its own thread may close.
OrmKinds == {"ledger", "vendor"}

\* What appends to inventory.jsonl.
JournalKinds == {"ledger", "raw"}

ASSUME RestoreAssumption ==
  /\ Nobody \notin Restorers
  /\ MaxRequests \in Nat /\ MaxRestores \in Nat
  /\ Kinds \subseteq AllKinds
  /\ WalMode \in BOOLEAN

Requests == 1 .. MaxRequests

VARIABLES
  \* files
  main,        \* changes in the database file
  wal,         \* changes in the -wal file beside it
  exports,     \* the backups, each the set of changes it holds
  journal,     \* requests with a line in the current inventory.jsonl
  \* the process
  maintenance, \* app.state.maintenance
  lock,        \* app.state.restore_lock
  conns,       \* workers with an open connection
  nRequests, nRestores,
  \* per worker
  pc, kind, req,
  \* per restorer
  rpc, temp, result,
  \* history
  since,       \* changes committed since the file was last replaced
  crossed,     \* requests that committed before a replacement of the file
               \* and appended after the journals were archived
  unarchived   \* the file was replaced, the journals were not archived

files   == <<main, wal, exports, journal>>
process == <<maintenance, lock, conns, nRequests, nRestores>>
serving == <<pc, kind, req>>
restore == <<rpc, temp, result>>
history == <<since, crossed, unarchived>>
vars    == <<files, process, serving, restore, history>>

\* What a query of the database sees.
Visible == main \cup wal

\* Closing the last connection moves the log into the file.
FilesAfter(m, l, open) ==
  /\ conns' = open
  /\ main' = IF open = {} THEN m \cup l ELSE m
  /\ wal' = IF open = {} THEN {} ELSE l

\* The handlers of the workers in S return.
Return(S) ==
  /\ pc' = [w \in Workers |-> IF w \in S THEN "idle" ELSE pc[w]]
  /\ kind' = [w \in Workers |-> IF w \in S THEN "none" ELSE kind[w]]
  /\ req' = [w \in Workers |-> IF w \in S THEN 0 ELSE req[w]]

\* Worker w goes on at step s with the request it serves.
Step(w, s) ==
  /\ pc' = [pc EXCEPT ![w] = s]
  /\ UNCHANGED <<kind, req>>
-----------------------------------------------------------------------------
(* Requests *)

\* maintenance_guard lets the request through; it will run in a thread.
Admit(w, k) ==
  /\ pc[w] = "idle"
  /\ ~maintenance
  /\ nRequests < MaxRequests
  /\ nRequests' = nRequests + 1
  /\ pc' = [pc EXCEPT ![w] = "admitted"]
  /\ kind' = [kind EXCEPT ![w] = k]
  /\ req' = [req EXCEPT ![w] = nRequests + 1]
  /\ UNCHANGED <<files, maintenance, lock, conns, nRestores, restore, history>>

\* The session dependency is resolved.  get_db of the vendor routes looks at
\* the flag again; get_session, which the other routes use, does not.
CreateSession(w) ==
  /\ pc[w] = "admitted"
  /\ IF kind[w] = "vendor" /\ maintenance THEN Return({w})
                                           ELSE Step(w, "session")
  /\ UNCHANGED <<files, process, restore, history>>

\* The first statement opens the connection.
Connect(w) ==
  /\ pc[w] = "session"
  /\ Step(w, "open")
  /\ conns' = conns \cup {w}
  /\ UNCHANGED <<files, maintenance, lock, nRequests, nRestores, restore,
                 history>>

\* A commit; the pool of SQLAlchemy then closes the connection, a raw handler
\* keeps it until it returns.
Commit(w) ==
  LET r    == req[w]
      open == IF kind[w] \in OrmKinds THEN conns \ {w} ELSE conns
  IN  /\ pc[w] = "open"
      /\ kind[w] # "export"
      /\ IF WalMode THEN FilesAfter(main, wal \cup {r}, open)
                    ELSE FilesAfter(main \cup {r}, wal, open)
      /\ IF kind[w] \in JournalKinds THEN Step(w, "append") ELSE Return({w})
      /\ since' = since \cup {r}
      /\ UNCHANGED <<exports, journal, maintenance, lock, nRequests,
                     nRestores, restore, crossed, unarchived>>

\* The line is appended to whichever inventory.jsonl is there by now.
Append(w) ==
  /\ pc[w] = "append"
  /\ \/ journal' = journal \cup {req[w]}
     \/ "append" \in Faults /\ UNCHANGED journal
  /\ FilesAfter(main, wal, conns \ {w})
  /\ Return({w})
  /\ UNCHANGED <<exports, maintenance, lock, nRequests, nRestores,
                 restore, history>>

\* Mutant: leaving the with block of a connection is taken to close it.
BackupKeepsHandle(w) ==
  /\ pc[w] = "open"
  /\ kind[w] = "export"
  /\ exports' = exports \cup {Visible}
  /\ Return({w})
  /\ UNCHANGED <<main, wal, journal, process, restore, history>>

\* export_db: SQLite copies the database as it is at one moment.
Backup(w) ==
  /\ pc[w] = "open"
  /\ kind[w] = "export"
  /\ exports' = exports \cup {Visible}
  /\ FilesAfter(main, wal, conns \ {w})
  /\ Return({w})
  /\ UNCHANGED <<journal, maintenance, lock, nRequests, nRestores,
                 restore, history>>
-----------------------------------------------------------------------------
(* A restore *)

\* Restorer r goes on at step s.
Goto(r, s) == rpc' = [rpc EXCEPT ![r] = s]

\* ... or ends its import_commit with an answer.
Answer(r, a) ==
  /\ result' = [result EXCEPT ![r] = a]
  /\ Goto(r, "finally")

\* app_import_commit takes the lock (409 when it is taken) and sets the flag.
\* Its first log line is written before the try that would undo both.
Begin(r) ==
  /\ rpc[r] = "idle"
  /\ lock = Nobody
  /\ nRestores < MaxRestores
  /\ nRestores' = nRestores + 1
  /\ lock' = r
  /\ maintenance' = TRUE
  /\ \/ Goto(r, "load")
     \/ "log" \in Faults /\ UNCHANGED rpc
  /\ UNCHANGED <<files, conns, nRequests, serving, temp, result, history>>

\* The backup is decrypted into a file beside the database, and opened once;
\* a wrong password, path, container or version ends the restore here.
Load(r) ==
  /\ rpc[r] = "load"
  /\ \/ /\ \E b \in exports : temp' = [temp EXCEPT ![r] = b]
        /\ Goto(r, "sweep")
        /\ UNCHANGED result
     \/ Answer(r, "refused") /\ UNCHANGED temp
  /\ UNCHANGED <<files, process, serving, history>>

\* close_all_db_handles: the connections of SQLAlchemy sessions are closed
\* under them, so their requests fail; the others cannot be closed.
CloseHandles ==
  LET swept == {w \in conns : kind[w] \in OrmKinds}
  IN  /\ IF swept = {} THEN UNCHANGED <<main, wal, conns>>
                       ELSE FilesAfter(main, wal, conns \ swept)
      /\ Return(swept)

Sweep(r) ==
  /\ rpc[r] = "sweep"
  /\ CloseHandles
  /\ Goto(r, "checkpoint")
  /\ UNCHANGED <<exports, journal, maintenance, lock, nRequests,
                 nRestores, temp, result, history>>

\* wal_checkpoint opens and closes a connection; whatever fails is ignored.
Checkpoint(r) ==
  /\ rpc[r] = "checkpoint"
  /\ \/ FilesAfter(main, wal, conns)
     \/ "checkpoint" \in Faults /\ UNCHANGED <<main, wal, conns>>
  /\ Goto(r, "sweep2")
  /\ UNCHANGED <<exports, journal, maintenance, lock, nRequests,
                 nRestores, serving, temp, result, history>>

SweepAgain(r) ==
  /\ rpc[r] = "sweep2"
  /\ CloseHandles
  /\ Goto(r, "cleanup")
  /\ UNCHANGED <<exports, journal, maintenance, lock, nRequests,
                 nRestores, temp, result, history>>

\* cleanup_sidecars deletes the log, unless a connection has it open.
Cleanup(r) ==
  /\ rpc[r] = "cleanup"
  /\ wal' = IF conns = {} THEN {} ELSE wal
  /\ Goto(r, "wait")
  /\ UNCHANGED <<main, exports, journal, process, serving, temp,
                 result, history>>

\* Mutant: the wait for the exclusive handle has no last attempt.
WaitForever(r) ==
  /\ rpc[r] = "wait"
  /\ conns = {}
  /\ Goto(r, "replace")
  /\ UNCHANGED <<files, process, serving, temp, result, history>>

\* wait_for_exclusive, which gives up after a number of attempts.
Wait(r) ==
  /\ rpc[r] = "wait"
  /\ \/ conns = {} /\ Goto(r, "replace") /\ UNCHANGED result
     \/ conns # {} /\ Answer(r, "failed")
  /\ UNCHANGED <<files, process, serving, temp, history>>

\* The file becomes the backup.  Requests that committed and have not yet
\* appended their line belong to the database that is gone.
Install(r) ==
  /\ main' = temp[r]
  /\ since' = {}
  /\ crossed' = crossed \cup {req[w] : w \in {v \in Workers : pc[v] = "append"}}
  /\ unarchived' = TRUE
  /\ Goto(r, "archive")
  /\ UNCHANGED result

\* Mutant: the file is replaced under the connections that have it open.
ReplaceAnyway(r) ==
  /\ rpc[r] = "replace"
  /\ Install(r)
  /\ UNCHANGED <<wal, exports, journal, process, serving, temp>>

\* Mutant: robust_replace fails, and its answer is not looked at.
ReplaceUnchecked(r) ==
  /\ rpc[r] = "replace"
  /\ \/ conns = {} /\ Install(r)
     \/ Goto(r, "archive") /\ UNCHANGED <<main, result, history>>
  /\ UNCHANGED <<wal, exports, journal, process, serving, temp>>

\* robust_replace, which fails when a connection stays open too long.
Replace(r) ==
  /\ rpc[r] = "replace"
  /\ \/ conns = {} /\ Install(r)
     \/ conns # {} /\ Answer(r, "failed") /\ UNCHANGED <<main, history>>
  /\ UNCHANGED <<wal, exports, journal, process, serving, temp>>

\* Mutant: fresh journals are touched but the old ones are not renamed.
TouchOnly(r) ==
  /\ rpc[r] = "archive"
  /\ unarchived' = FALSE
  /\ Goto(r, "audit")
  /\ UNCHANGED <<files, process, serving, temp, result, since, crossed>>

\* archive_journals renames them; a rename that fails is only counted.
Archive(r) ==
  /\ rpc[r] = "archive"
  /\ \/ /\ journal' = {}
        /\ unarchived' = FALSE
     \/ "archive" \in Faults /\ UNCHANGED <<journal, unarchived>>
  /\ Goto(r, "audit")
  /\ UNCHANGED <<main, wal, exports, process, serving, temp, result,
                 since, crossed>>

\* The audit line; an error here makes the answer "commit_failed".
Audit(r) ==
  /\ rpc[r] = "audit"
  /\ \/ Answer(r, "ok")
     \/ "audit" \in Faults /\ Answer(r, "failed")
  /\ UNCHANGED <<files, process, serving, temp, history>>

\* Mutant: the flag is cleared only on the way of success.
FinallyIfOk(r) ==
  /\ rpc[r] = "finally"
  /\ maintenance' = (result[r] # "ok")
  /\ Goto(r, "release")
  /\ UNCHANGED <<files, lock, conns, nRequests, nRestores, serving, temp,
                 result, history>>

\* The finally clause: requests are admitted again, the indexer restarts ...
Finally(r) ==
  /\ rpc[r] = "finally"
  /\ maintenance' = FALSE
  /\ Goto(r, "release")
  /\ UNCHANGED <<files, lock, conns, nRequests, nRestores, serving, temp,
                 result, history>>

\* ... and the lock is released.
Release(r) ==
  /\ rpc[r] = "release"
  /\ lock' = Nobody
  /\ Goto(r, "idle")
  /\ temp' = [temp EXCEPT ![r] = {}]
  /\ result' = [result EXCEPT ![r] = "none"]
  /\ UNCHANGED <<files, maintenance, conns, nRequests, nRestores, serving,
                 history>>

\* The process dies and starts again; the files stay as they are.
Crash ==
  /\ "crash" \in Faults
  /\ \/ \E w \in Workers : pc[w] # "idle"
     \/ lock # Nobody
  /\ maintenance' = FALSE
  /\ lock' = Nobody
  /\ conns' = {}
  /\ Return(Workers)
  /\ rpc' = [r \in Restorers |-> "idle"]
  /\ temp' = [r \in Restorers |-> {}]
  /\ result' = [r \in Restorers |-> "none"]
  /\ UNCHANGED <<files, nRequests, nRestores, history>>
-----------------------------------------------------------------------------
Init ==
  /\ main = {} /\ wal = {} /\ exports = {{}} /\ journal = {}
  /\ maintenance = FALSE /\ lock = Nobody /\ conns = {}
  /\ nRequests = 0 /\ nRestores = 0
  /\ pc = [w \in Workers |-> "idle"]
  /\ kind = [w \in Workers |-> "none"]
  /\ req = [w \in Workers |-> 0]
  /\ rpc = [r \in Restorers |-> "idle"]
  /\ temp = [r \in Restorers |-> {}]
  /\ result = [r \in Restorers |-> "none"]
  /\ since = {} /\ crossed = {} /\ unarchived = FALSE

Serve(w) ==
  \/ \E k \in Kinds : Admit(w, k)
  \/ CreateSession(w) \/ Connect(w) \/ Commit(w) \/ Append(w) \/ Backup(w)

\* The steps of a restore after its beginning.
Continue(r) ==
  \/ Load(r) \/ Sweep(r) \/ Checkpoint(r) \/ SweepAgain(r) \/ Cleanup(r)
  \/ Wait(r) \/ Replace(r) \/ Archive(r) \/ Audit(r) \/ Finally(r) \/ Release(r)

Next == \/ \E w \in Workers : Serve(w)
        \/ \E r \in Restorers : Begin(r) \/ Continue(r)
        \/ Crash

Spec == Init /\ [][Next]_vars

\* The thread of a restore runs on; nothing is assumed of the requests, which
\* may hold the database for as long as they like.
FairSpec == Spec /\ \A r \in Restorers : WF_vars(Continue(r))
-----------------------------------------------------------------------------
(* What the properties rest on *)

Restoring(r) == rpc[r] # "idle"

\* A restore at work has the lock.
LockInv == \A r \in Restorers : Restoring(r) => lock = r

\* From the checkpoint to the replacement a log is there only while some
\* connection is open, and then the file cannot be replaced.
WalInv ==
  (\E r \in Restorers : rpc[r] \in {"sweep2", "cleanup", "wait", "replace"})
     /\ conns = {} => wal = {}

\* What a restore puts in place is a backup.
TempInv ==
  \A r \in Restorers :
     rpc[r] \in {"sweep", "checkpoint", "sweep2", "cleanup", "wait", "replace"}
       => temp[r] \in exports

\* After the replacement the database is the backup and what was committed since.
InstalledInv ==
  \A r \in Restorers :
     \/ rpc[r] \in {"archive", "audit"}
     \/ rpc[r] = "finally" /\ result[r] = "ok"
     => Visible = temp[r] \cup since

\* A line about to be appended is of a change the database holds, or held
\* before it was replaced.
AppendInv ==
  \A w \in Workers : pc[w] = "append" => req[w] \in Visible \cup crossed
-----------------------------------------------------------------------------
(* Properties *)

WorkerPCs == {"idle", "admitted", "session", "open", "append"}

RestorePCs == {"idle", "load", "sweep", "checkpoint", "sweep2", "cleanup",
               "wait", "replace", "archive", "audit", "finally", "release"}

FilesType ==
  /\ main \subseteq Requests /\ wal \subseteq Requests
  /\ exports \subseteq SUBSET Requests
  /\ journal \subseteq Requests

ProcessType ==
  /\ maintenance \in BOOLEAN
  /\ lock \in Restorers \cup {Nobody}
  /\ nRequests \in 0 .. MaxRequests /\ nRestores \in 0 .. MaxRestores
  /\ pc \in [Workers -> WorkerPCs]
  /\ kind \in [Workers -> AllKinds \cup {"none"}]
  /\ req \in [Workers -> 0 .. MaxRequests]
  /\ \A w \in Workers :
        pc[w] # "idle" => req[w] \in Requests /\ kind[w] \in AllKinds

RestoreType ==
  /\ rpc \in [Restorers -> RestorePCs]
  /\ temp \in [Restorers -> SUBSET Requests]
  /\ result \in [Restorers -> {"none", "ok", "failed", "refused"}]

\* Every variable keeps its type, and only a handler at work has the database
\* open: one that returned with a handle would block every later restore.
TypeOK ==
  /\ FilesType
  /\ ProcessType
  /\ RestoreType
  /\ since \subseteq Requests /\ crossed \subseteq Requests
  /\ unarchived \in BOOLEAN
  /\ conns \subseteq {w \in Workers : pc[w] \in {"open", "append"}}

\* Two restores never run at once, although a second may start as soon as the
\* flag is cleared: the lock is released last.
RestoreExclusive ==
  \A r, s \in Restorers : Restoring(r) /\ Restoring(s) => r = s

\* The maintenance window: requests are refused from the moment a restore has
\* the lock until it is over, and at no other time.
MaintenanceWindow ==
  maintenance <=> \E r \in Restorers : Restoring(r) /\ rpc[r] # "release"

\* When a restore answers ok the database is the backup and what requests
\* admitted before it have committed on top, and nothing of the old database.
AnswerTruthful ==
  \A r \in Restorers :
     rpc[r] = "finally" /\ result[r] = "ok" => Visible = temp[r] \cup since

\* A line of the current journal is of a change the database holds, unless
\* its request crossed the replacement or the journals were not archived.
JournalsFollowDb ==
  ~unarchived => journal \subseteq Visible \cup crossed

\* When nothing is at work the current journal is about the current database
\* ("This prevents confusion between logs and DB state", docs/SOT.md 11.4).
JournalDescribesDb ==
  (\A w \in Workers : pc[w] = "idle") /\ lock = Nobody /\ ~unarchived =>
     journal \subseteq Visible

\* A restore ends, however long requests keep the database open.
RestoreEnds ==
  \A r \in Restorers : Restoring(r) ~> ~Restoring(r)

\* The database is changed by commits and whole restores only, through
\* crashes, closed handles and timeouts at every step: the specification of
\* DatabaseSpec.
Database == INSTANCE DatabaseSpec WITH data <- Visible, backups <- exports

DatabaseAtomic == Database!Spec
=============================================================================
