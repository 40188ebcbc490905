------------------------------ MODULE Indexer ------------------------------
(***************************************************************************)
(* The background indexer of core/api/http.py: a task on the event loop    *)
(* that hands a worker to a thread, two flags that ask the worker to stop, *)
(* and an event that says no worker is at work.  A restore stops the       *)
(* indexer before it replaces the database and starts it again after.      *)
(*                                                                         *)
(* The event loop is a queue of callbacks.  Cancelling a task never stops  *)
(* a worker that runs; one that still waits for a thread is dropped.  The  *)
(* broker of this commit has no catalog_open, so that a scan takes its     *)
(* time and fails: the part of the worker after a scan that succeeded is   *)
(* not reached, nor is the check for tokens that are up to date.           *)
(***************************************************************************)
EXTENDS Naturals, Sequences

CONSTANTS MaxTasks,    \* bound on tasks created
          MaxRestores  \* bound on restores

ASSUME IndexerAssumption == MaxTasks \in Nat /\ MaxRestores \in Nat

Tasks == 1 .. MaxTasks

VARIABLES
  stopping,  \* INDEX_STOP_EVENT and INDEX_PAUSE_EVENT, always set together
  quiet,     \* INDEX_IDLE_EVENT
  current,   \* BACKGROUND_INDEX_TASK, or 0
  ready,     \* the callbacks the event loop will run, in order
  nTasks,
  task,      \* per task: "none", "created", "waiting" or "done"
  doomed,    \* per task: it was cancelled before its first step
  worker,    \* per task: its worker: "none", "queued", "begun", "broker",
             \* "scanning", "leaving" or "ended"
  restore,   \* the request that holds the restore lock: "none", "stopping",
             \* "stopped", "replacing" or "starting"
  cancelled, \* the task its stop_indexer has read, or 0
  nRestores,
  forced,    \* history: a stop has set the event while it was clear
  crowded,   \* history: the event was set or cleared for one task while the
             \* worker of another one was at work
  resumed    \* history: a worker came to scan since the last restore ended

flags     == <<stopping, quiet>>
loop      == <<current, ready, nTasks, task, doomed>>
restoring == <<restore, cancelled, nRestores>>
indexHistory == <<forced, crowded, resumed>>
indexVars == <<flags, loop, worker, restoring, indexHistory>>

AtWork == {i \in Tasks : worker[i] \in {"begun", "broker", "scanning",
                                        "leaving"}}

\* asyncio.create_task, with the callbacks rest still to run.
Create(rest) ==
  /\ nTasks < MaxTasks
  /\ nTasks' = nTasks + 1
  /\ current' = nTasks + 1
  /\ task' = [task EXCEPT ![nTasks + 1] = "created"]
  /\ ready' = Append(rest, [call |-> "step", of |-> nTasks + 1])
  /\ UNCHANGED doomed
-----------------------------------------------------------------------------
(* The event loop *)

\* _auto_index_if_stale, after which start_indexer finds a task.
Startup ==
  /\ nTasks = 0 /\ ready = <<>>
  /\ Create(<<>>)
  /\ UNCHANGED <<flags, worker, restoring, indexHistory>>

\* _spawn
Spawn ==
  /\ ready # <<>> /\ Head(ready).call = "spawn"
  /\ Create(Tail(ready))
  /\ UNCHANGED <<flags, worker, restoring, indexHistory>>

\* _run_background_index up to its await: the worker waits for a thread,
\* unless a stop is asked for or the task was cancelled.
FirstStep(i) ==
  /\ ready # <<>> /\ Head(ready) = [call |-> "step", of |-> i]
  /\ ready' = Tail(ready)
  /\ IF doomed[i] \/ stopping
     THEN /\ task' = [task EXCEPT ![i] = "done"]
          /\ quiet' = (quiet \/ ~doomed[i])
          /\ crowded' = (crowded \/ (~doomed[i] /\ AtWork # {}))
          /\ UNCHANGED worker
     ELSE /\ task' = [task EXCEPT ![i] = "waiting"]
          /\ worker' = [worker EXCEPT ![i] = "queued"]
          /\ UNCHANGED <<quiet, crowded>>
  /\ UNCHANGED <<stopping, current, nTasks, doomed, restoring, forced,
                 resumed>>

\* task.cancel
CancelTask(i) ==
  /\ ready # <<>> /\ Head(ready) = [call |-> "cancel", of |-> i]
  /\ doomed' = [doomed EXCEPT ![i] = @ \/ task[i] = "created"]
  /\ worker' = [worker EXCEPT ![i] = IF @ = "queued" THEN "ended" ELSE @]
  /\ ready' = IF task[i] = "waiting"
              THEN Append(Tail(ready), [call |-> "wake", of |-> i])
              ELSE Tail(ready)
  /\ UNCHANGED <<flags, current, nTasks, task, restoring, indexHistory>>

Wake(i) ==
  /\ ready # <<>> /\ Head(ready) = [call |-> "wake", of |-> i]
  /\ ready' = Tail(ready)
  /\ task' = [task EXCEPT ![i] = "done"]
  /\ UNCHANGED <<flags, current, nTasks, doomed, worker, restoring,
                 indexHistory>>
-----------------------------------------------------------------------------
(* The worker, on a thread of its own *)

WorkerBegins(i) ==
  /\ worker[i] = "queued"
  /\ worker' = [worker EXCEPT ![i] = "begun"]
  /\ quiet' = FALSE
  /\ crowded' = (crowded \/ AtWork # {})
  /\ UNCHANGED <<stopping, loop, restoring, forced, resumed>>

\* Mutant: the flags are not looked at again.
ObeyNever(i, next) == worker' = [worker EXCEPT ![i] = next]
\* The flags decide whether the worker goes on to next or leaves.
Obey(i, next) ==
  worker' = [worker EXCEPT ![i] = IF stopping THEN "leaving" ELSE next]

\* The checks before and after the broker has been fetched.
WorkerChecks(i) ==
  /\ \/ worker[i] = "begun" /\ Obey(i, "broker")
     \/ worker[i] = "broker" /\ Obey(i, "scanning")
  /\ resumed' = (resumed \/ worker'[i] = "scanning")
  /\ UNCHANGED <<flags, loop, restoring, forced, crowded>>

\* Both scans, which fail in catalog_open.
WorkerScans(i) ==
  /\ worker[i] = "scanning"
  /\ worker' = [worker EXCEPT ![i] = "leaving"]
  /\ UNCHANGED <<flags, loop, restoring, indexHistory>>

\* The finally clause; the loop is told that the thread is done.
WorkerLeaves(i) ==
  /\ worker[i] = "leaving"
  /\ worker' = [worker EXCEPT ![i] = "ended"]
  /\ quiet' = TRUE
  /\ ready' = IF task[i] = "waiting"
              THEN Append(ready, [call |-> "wake", of |-> i]) ELSE ready
  /\ UNCHANGED <<stopping, current, nTasks, task, doomed, restoring,
                 indexHistory>>
-----------------------------------------------------------------------------
(* The restore, on a thread of its own; its lock admits one at a time *)

\* stop_indexer sets the flags and has the loop cancel the task.
StopSignals ==
  /\ restore = "none" /\ nRestores < MaxRestores
  /\ nRestores' = nRestores + 1
  /\ restore' = "stopping"
  /\ stopping' = TRUE
  /\ cancelled' = current
  /\ ready' = IF current # 0 /\ task[current] # "done"
              THEN Append(ready, [call |-> "cancel", of |-> current])
              ELSE ready
  /\ UNCHANGED <<quiet, current, nTasks, task, doomed, worker, indexHistory>>

\* It waits for the event, at most ten seconds ...
WaitEnds ==
  /\ restore = "stopping"
  /\ restore' = "stopped"
  /\ UNCHANGED <<flags, loop, worker, cancelled, nRestores, indexHistory>>

\* ... and sets it, whether the wait has seen it set or given up: a worker
\* that waited for its thread may have cleared it again meanwhile.
StopReturns ==
  /\ restore = "stopped"
  /\ restore' = "replacing"
  /\ quiet' = TRUE
  /\ forced' = (forced \/ ~quiet)
  /\ current' = IF cancelled # 0 /\ task[cancelled] = "done" THEN 0
                ELSE current
  /\ UNCHANGED <<stopping, ready, nTasks, task, doomed, worker, cancelled,
                 nRestores, crowded, resumed>>

\* The database is replaced, and start_indexer clears the flags.
StartClears ==
  /\ restore = "replacing"
  /\ restore' = "starting"
  /\ stopping' = FALSE
  /\ resumed' = FALSE
  /\ UNCHANGED <<quiet, loop, worker, cancelled, nRestores, forced, crowded>>

\* A task that is not done yet, cancelled or not, is left to run.
StartReturns ==
  /\ restore = "starting"
  /\ restore' = "none"
  /\ cancelled' = 0
  /\ IF current # 0 /\ task[current] # "done"
     THEN UNCHANGED <<current, ready>>
     ELSE /\ current' = 0
          /\ ready' = Append(ready, [call |-> "spawn", of |-> 0])
  /\ UNCHANGED <<flags, nTasks, task, doomed, worker, nRestores,
                 indexHistory>>
-----------------------------------------------------------------------------
IndexerInit ==
  /\ stopping = FALSE /\ quiet = TRUE
  /\ current = 0 /\ ready = <<>> /\ nTasks = 0
  /\ task = [i \in Tasks |-> "none"]
  /\ doomed = [i \in Tasks |-> FALSE]
  /\ worker = [i \in Tasks |-> "none"]
  /\ restore = "none" /\ cancelled = 0 /\ nRestores = 0
  /\ forced = FALSE /\ crowded = FALSE /\ resumed = FALSE

EventLoop ==
  Startup \/ Spawn \/ \E i \in Tasks : FirstStep(i) \/ CancelTask(i) \/ Wake(i)

Work(i) ==
  WorkerBegins(i) \/ WorkerChecks(i) \/ WorkerScans(i) \/ WorkerLeaves(i)

RestoreStep ==
  StopSignals \/ WaitEnds \/ StopReturns \/ StartClears \/ StartReturns

IndexerNext == EventLoop \/ (\E i \in Tasks : Work(i)) \/ RestoreStep

IndexerSpec == IndexerInit /\ [][IndexerNext]_indexVars

\* The event loop and the threads go on; nobody has to ask for a restore.
IndexerFairSpec ==
  /\ IndexerSpec
  /\ WF_indexVars(EventLoop)
  /\ \A i \in Tasks : WF_indexVars(Work(i))
  /\ WF_indexVars(WaitEnds \/ StopReturns \/ StartClears \/ StartReturns)
-----------------------------------------------------------------------------
(* Properties *)

\* Type invariant of the flags, the loop, the workers and the restore.
IndexerTypeOK ==
  /\ {stopping, quiet, forced, crowded, resumed} \subseteq BOOLEAN
  /\ {current, cancelled, nTasks} \subseteq 0 .. MaxTasks
  /\ ready \in Seq([call : {"spawn", "step", "cancel", "wake"},
                    of : 0 .. MaxTasks])
  /\ task \in [Tasks -> {"none", "created", "waiting", "done"}]
  /\ doomed \in [Tasks -> BOOLEAN]
  /\ worker \in [Tasks -> {"none", "queued", "begun", "broker", "scanning",
                           "leaving", "ended"}]
  /\ restore \in {"none", "stopping", "stopped", "replacing", "starting"}
  /\ nRestores \in 0 .. MaxRestores

\* While a restore replaces the database no worker scans.  Two exceptions,
\* after which the event says no more what it means: a stop has set it while
\* a worker at work had it cleared (it gave up after ten seconds, or the
\* worker began between the end of the wait and the set), or it was set or
\* cleared for one task while the worker of another was at work.
QuietWhileReplacing ==
  restore = "replacing" /\ ~forced /\ ~crowded
    => \A i \in Tasks : worker[i] # "scanning"

\* "Indexer is resumed after commit or failure" (docs/SOT.md): once a restore
\* has ended a worker comes to scan, or another restore begins.
IndexerResumed ==
  (restore = "starting") ~> (resumed \/ restore = "stopping")
=============================================================================
