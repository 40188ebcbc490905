------------------------------ MODULE Retention ------------------------------
(***************************************************************************)
(* Pruning the directories of old runs and cutting the log short           *)
(* (core/retention.py, with core/unilog.py, which appends to that log).    *)
(* At this commit only tests/test_retention.py calls it.                   *)
(*                                                                         *)
(* A run leaves a directory, and perhaps an index directory.  When it      *)
(* prunes, it lists one kind and then the other, plans to delete all but   *)
(* the newest few of each kind and its own, deletes what is still there,   *)
(* and cuts the log to its last lines: it reads the file, and then writes  *)
(* it anew, while other runs may append.  Nothing keeps two runs from      *)
(* doing so at once, and each may have its own idea of "few".              *)
(*                                                                         *)
(* The four log files are treated alike: this is the one that unilog, and  *)
(* so the pruning itself, writes.  Its lines are known by their number.    *)
(***************************************************************************)
EXTENDS Integers, FiniteSets

CONSTANTS NRuns,     \* runs, numbered in the order of their names
          MaxStamp,  \* seconds a directory can be named after
          Window,    \* an index this close to a run's start is its own
          KeepCounts, \* keep_count, or LOG_RETENTION_RUNS
          MaxLines,  \* UNIFIED_MAX_LINES
          MaxLogged  \* bound: lines others append

ASSUME RetentionAssumption ==
  /\ NRuns \in Nat /\ MaxStamp \in Nat /\ Window \in Nat
  /\ KeepCounts \subseteq Nat
  /\ MaxLines \in Nat \ {0}
  /\ MaxLogged \in Nat

Runs   == 1 .. NRuns
Stamps == 1 .. MaxStamp

\* A directory of either kind; the name of an index is its stamp alone.
RunDirs   == [kind : {"run"}, stamp : Stamps, by : Runs]
IndexDirs == [kind : {"index"}, stamp : Stamps, by : {0}]
AllDirs   == RunDirs \cup IndexDirs

VARIABLES
  everMade,  \* history: every directory there has been
  deleted,   \* history: those that have been deleted
  ownLost,   \* history: a run has deleted what it protects
  pruner,    \* per run: where it is, when it began, how it prunes, what it
             \* has planned to delete, the lines it has read, and how many
             \* had been logged by then
  logged,    \* lines ever appended to the log
  logFile,   \* the lines in it
  lostLines  \* history: lines appended between a run's reading and its
             \* writing, and those an unfinished writing has lost

storedDirs    == <<everMade, deleted, ownLost>>
storedLines   == <<logged, logFile, lostLines>>
retentionVars == <<storedDirs, storedLines, pruner>>

Present == everMade \ deleted

Pruner(at) == [at |-> at, start |-> 1, keep |-> 0, dry |-> FALSE,
               knows |-> FALSE, plan |-> {}, tail |-> {}, readAt |-> 0]

\* candidate.path sorted by (timestamp, name), within a kind.
NewerDir(e, d) ==
  /\ e.kind = d.kind
  /\ e.stamp > d.stamp \/ (e.stamp = d.stamp /\ e.by > d.by)

NewerIn(S, d) == {e \in S : NewerDir(e, d)}

\* What a run that began at s protects if it is told its id: its directory, and
\* any index named after a second near its start.
Own(r, s, d) ==
  IF d.kind = "run" THEN d.by = r /\ d.stamp = s
  ELSE d.stamp - s < Window /\ s - d.stamp < Window

\* Mutant: one too few is kept.
PlannedShort(r, kind, k, knows) ==
  {d \in Present : /\ d.kind = kind /\ ~(knows /\ Own(r, pruner[r].start, d))
                   /\ Cardinality(NewerIn(Present, d)) >= k - 1}
Planned(r, kind, k, knows) ==
  {d \in Present : /\ d.kind = kind /\ ~(knows /\ Own(r, pruner[r].start, d))
                   /\ Cardinality(NewerIn(Present, d)) >= k}

\* Mutant: the first lines, not the last.
HeadLines(S) ==
  {n \in S : Cardinality({m \in S : m < n}) < MaxLines}
TailLines(S) ==
  {n \in S : Cardinality({m \in S : m > n}) < MaxLines}

Append1 == /\ logged' = logged + 1
           /\ logFile' = logFile \cup {logged + 1}
           /\ UNCHANGED lostLines
-----------------------------------------------------------------------------
(* Runs and what they leave *)

BeginRun(r) ==
  /\ pruner[r].at = "out"
  /\ \E s \in Stamps :
       /\ pruner' = [pruner EXCEPT ![r].at = "running", ![r].start = s]
       /\ everMade' = everMade \cup {[kind |-> "run", stamp |-> s, by |-> r]}
  /\ UNCHANGED <<deleted, ownLost, storedLines>>

\* No name is used twice.
WriteIndex(r) ==
  /\ pruner[r].at = "running"
  /\ \E s \in Stamps :
       LET d == [kind |-> "index", stamp |-> s, by |-> 0]
       IN d \notin everMade /\ everMade' = everMade \cup {d}
  /\ UNCHANGED <<deleted, ownLost, pruner, storedLines>>

\* Anything that logs an event.
LogEvent ==
  /\ logged < MaxLogged
  /\ Append1
  /\ UNCHANGED <<storedDirs, pruner>>
-----------------------------------------------------------------------------
(* prune_old_runs *)

\* The runs are listed first.  A negative count is none.
ListRuns(r) ==
  /\ pruner[r].at = "running"
  /\ \E k \in KeepCounts, dry, knows \in BOOLEAN :
       pruner' = [pruner EXCEPT ![r].at = "listed", ![r].keep = k,
                                ![r].dry = dry, ![r].knows = knows,
                                ![r].plan = Planned(r, "run", k, knows)]
  /\ UNCHANGED <<storedDirs, storedLines>>

\* A dry run deletes nothing of its plan.
ListIndexes(r) ==
  /\ pruner[r].at = "listed"
  /\ pruner' = [pruner EXCEPT ![r].at = "pruning",
        ![r].plan =
          IF pruner[r].dry THEN {}
          ELSE @ \cup Planned(r, "index", pruner[r].keep, pruner[r].knows)]
  /\ Append1
  /\ UNCHANGED storedDirs

\* Another run was faster.
AlreadyGone(r) ==
  /\ pruner[r].at = "pruning"
  /\ pruner' = [pruner EXCEPT ![r].plan = @ \cap Present]
  /\ UNCHANGED <<storedDirs, storedLines>>

\* In any order: the planned one matters to none of the properties.
DeleteDir(r) ==
  /\ pruner[r].at = "pruning"
  /\ \E d \in pruner[r].plan \cap Present :
       /\ deleted' = deleted \cup {d}
       /\ ownLost' = (ownLost \/ (pruner[r].knows
                                    /\ Own(r, pruner[r].start, d)))
       /\ pruner' = [pruner EXCEPT ![r].plan = @ \ {d}]
  /\ Append1
  /\ UNCHANGED everMade

DeleteFails(r) ==
  /\ pruner[r].at = "pruning"
  /\ \E d \in pruner[r].plan : pruner' = [pruner EXCEPT ![r].plan = @ \ {d}]
  /\ Append1
  /\ UNCHANGED storedDirs

\* _tail_lines.  There is nothing to do for a short log or in a dry run.
ReadLog(r) ==
  /\ pruner[r].at = "pruning" /\ pruner[r].plan = {}
  /\ pruner' = [pruner EXCEPT ![r] =
       IF Cardinality(logFile) > MaxLines /\ ~pruner[r].dry
       THEN [Pruner("read") EXCEPT !.tail = TailLines(logFile),
                                   !.readAt = logged]
       ELSE Pruner("cut")]
  /\ UNCHANGED <<storedDirs, storedLines>>

\* The file cannot be read: the event says so, and it is left alone.
ReadFails(r) ==
  /\ pruner[r].at = "pruning" /\ pruner[r].plan = {}
  /\ Append1
  /\ pruner' = [pruner EXCEPT ![r] = Pruner("cut")]
  /\ UNCHANGED storedDirs

\* The file holds what was read, and then the event that says so.
WriteTail(r) ==
  /\ pruner[r].at = "read"
  /\ logged' = logged + 1
  /\ logFile' = pruner[r].tail \cup {logged + 1}
  /\ lostLines' = lostLines \cup (pruner[r].readAt + 1 .. logged)
  /\ pruner' = [pruner EXCEPT ![r] = Pruner("cut")]
  /\ UNCHANGED storedDirs

\* The file could not be opened, or was emptied and then not written.
WriteFails(r) ==
  /\ pruner[r].at = "read"
  /\ logged' = logged + 1
  /\ \/ logFile' = logFile \cup {logged + 1} /\ UNCHANGED lostLines
     \/ logFile' = {logged + 1} /\ lostLines' = lostLines \cup 1 .. logged
  /\ pruner' = [pruner EXCEPT ![r] = Pruner("cut")]
  /\ UNCHANGED storedDirs

\* retention.summary
SumUp(r) ==
  /\ pruner[r].at = "cut"
  /\ Append1
  /\ pruner' = [pruner EXCEPT ![r] = Pruner("over")]
  /\ UNCHANGED storedDirs
-----------------------------------------------------------------------------
RetentionInit ==
  /\ everMade = {} /\ deleted = {} /\ ownLost = FALSE
  /\ pruner = [r \in Runs |-> Pruner("out")]
  /\ logged = 0 /\ logFile = {} /\ lostLines = {}

RetentionNext ==
  \/ LogEvent
  \/ \E r \in Runs :
       \/ BeginRun(r) \/ WriteIndex(r) \/ ListRuns(r) \/ ListIndexes(r)
       \/ AlreadyGone(r) \/ DeleteDir(r) \/ DeleteFails(r)
       \/ ReadLog(r) \/ ReadFails(r) \/ WriteTail(r) \/ WriteFails(r)
       \/ SumUp(r)

RetentionSpec == RetentionInit /\ [][RetentionNext]_retentionVars
-----------------------------------------------------------------------------
(* Properties *)

\* Type invariant of the directories, the runs that prune and the log.
RetentionTypeOK ==
  /\ everMade \subseteq AllDirs
  /\ deleted \subseteq everMade /\ ownLost \in BOOLEAN
  /\ pruner \in [Runs ->
       [at : {"out", "running", "listed", "pruning", "read", "cut", "over"},
        start : 1 .. MaxStamp + 1, keep : Nat, dry : BOOLEAN, knows : BOOLEAN,
        plan : SUBSET AllDirs, tail : SUBSET (1 .. logged),
        readAt : 0 .. logged]]
  /\ logged \in Nat
  /\ logFile \subseteq 1 .. logged
  /\ lostLines \subseteq 1 .. logged

\* However runs overlap, list at different moments and differ in what they
\* keep: a directory that is among the newest of its kind by everyone's count
\* is there, whichever were deleted by whom; and no run that was told its id
\* deletes its own directory or an index made near its start.
NewestStay ==
  /\ \A d \in everMade :
       (\A k \in KeepCounts : Cardinality(NewerIn(everMade, d)) < k)
         => d \in Present
  /\ ~ownLost

\* Of the last lines logged none is missing from the file, unless it was
\* appended after a run had read the file and before that run wrote it, or the
\* writing failed half-way.
LastLinesStay ==
  \A n \in 1 .. logged :
    n > logged - MaxLines => n \in logFile \/ n \in lostLines

\* What a prune promises to keep, it keeps: the newest directories, and the
\* last lines of the log but for those that LastLinesStay excepts.
PruneKeeps == NewestStay /\ LastLinesStay
=============================================================================
