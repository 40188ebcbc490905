------------------------------ MODULE LogPage -------------------------------
(***************************************************************************)
(* The page of stock movements (core/ui/js/logs.js) and the route that     *)
(* serves it (core/api/routes/logs_api.py): the newest movements first,    *)
(* and older ones as the user scrolls, each page from below the last id of *)
(* the one before, while movements are recorded.                           *)
(*                                                                         *)
(* One load is under way at a time.  Opening the page again empties it and *)
(* forgets where it was, but not that a load is under way.                 *)
(***************************************************************************)
EXTENDS Naturals, Sequences

CONSTANTS PageSize,    \* rows of a page, limit
          MaxMovements \* bound on movements

ASSUME LogPageAssumption == PageSize \in Nat \ {0} /\ MaxMovements \in Nat

\* Ids start from 1 and no movement is ever deleted.
NoId == 0

VARIABLES
  nMovements, \* the ids that have been given
  shown,      \* ids in the body of the page, from the top
  logCursor,  \* _cursor
  moreShown,  \* "Load older" is on screen
  load,       \* what is under way: where it is, the cursor it was sent with,
              \* and the ids it has brought
  newestThen, \* history: the newest id when the first page was read for it
  reopened    \* history: the page was opened while a load was under way

logVars == <<nMovements, shown, logCursor, moreShown, load, newestThen,
             reopened>>

NoLoad == [at |-> "idle", below |-> NoId, ids |-> <<>>]

Lesser(m, n) == IF m < n THEN m ELSE n

\* The newest ids from m down, a page at most.
PageFrom(m) == [i \in 1 .. Lesser(PageSize, m) |-> m + 1 - i]

\* Mutant: the movement at the cursor comes once more.
PageUpTo(below) ==
  IF below = NoId THEN PageFrom(nMovements) ELSE PageFrom(below)
\* The movements below the cursor, or the newest if there is none.
PageBelow(below) ==
  IF below = NoId THEN PageFrom(nMovements) ELSE PageFrom(below - 1)

\* next_cursor_id: none if the page is not full.
NextCursor(ids) == IF Len(ids) = PageSize THEN ids[Len(ids)] ELSE NoId

Sent(below) == [NoLoad EXCEPT !.at = "sent", !.below = below]
-----------------------------------------------------------------------------
RecordMovement ==
  /\ nMovements < MaxMovements
  /\ nMovements' = nMovements + 1
  /\ UNCHANGED <<shown, logCursor, moreShown, load, newestThen, reopened>>

\* mountLogsPage, and its fetchMore unless one is under way.
OpenLogs ==
  /\ shown' = <<>> /\ logCursor' = NoId /\ moreShown' = TRUE
  /\ newestThen' = NoId
  /\ reopened' = (load.at # "idle")
  /\ load' = IF load.at = "idle" THEN Sent(NoId) ELSE load
  /\ UNCHANGED nMovements

\* fetchMore, by a click or by scrolling.
FetchMore ==
  /\ load.at = "idle" /\ (moreShown \/ logCursor # NoId)
  /\ load' = Sent(logCursor)
  /\ UNCHANGED <<nMovements, shown, logCursor, moreShown, newestThen, reopened>>

\* The route reads a page.
ReadLogs ==
  /\ load.at = "sent"
  /\ load' = [load EXCEPT !.at = "read", !.ids = PageBelow(load.below)]
  /\ newestThen' = IF load.below = NoId THEN nMovements ELSE newestThen
  /\ UNCHANGED <<nMovements, shown, logCursor, moreShown, reopened>>

PageArrives ==
  /\ load.at = "read" /\ load.ids # <<>>
  /\ shown' = shown \o load.ids
  /\ logCursor' = NextCursor(load.ids)
  /\ moreShown' = (NextCursor(load.ids) # NoId)
  /\ load' = NoLoad
  /\ UNCHANGED <<nMovements, newestThen, reopened>>

\* The cursor stays.
NothingArrives ==
  /\ load.at = "read" /\ load.ids = <<>>
  /\ moreShown' = FALSE
  /\ load' = NoLoad
  /\ UNCHANGED <<nMovements, shown, logCursor, newestThen, reopened>>

LoadFails ==
  /\ load.at # "idle"
  /\ load' = NoLoad
  /\ UNCHANGED <<nMovements, shown, logCursor, moreShown, newestThen, reopened>>
-----------------------------------------------------------------------------
\* As the page is opened for the first time.
LogInit ==
  /\ nMovements \in 0 .. MaxMovements
  /\ shown = <<>> /\ logCursor = NoId /\ moreShown = TRUE
  /\ load = Sent(NoId)
  /\ newestThen = NoId /\ reopened = FALSE

LogNext ==
  \/ RecordMovement \/ OpenLogs \/ FetchMore \/ ReadLogs
  \/ PageArrives \/ NothingArrives \/ LoadFails

LogSpec == LogInit /\ [][LogNext]_logVars
-----------------------------------------------------------------------------
(* Properties *)

\* Type invariant of the page and its load.
LogTypeOK ==
  /\ nMovements \in 0 .. MaxMovements
  /\ shown \in Seq(1 .. nMovements)
  /\ logCursor \in 0 .. nMovements /\ newestThen \in 0 .. nMovements
  /\ load \in [at : {"idle", "sent", "read"}, below : 0 .. nMovements,
               ids : Seq(1 .. nMovements)]
  /\ moreShown \in BOOLEAN /\ reopened \in BOOLEAN

\* However movements are recorded and loads fail while the user goes back in
\* time, the page shows the movements without a gap and none twice, from the
\* one that was newest when the page was opened; from an older one only if it
\* was opened while a load for an earlier opening was under way.
NoMovementMissing ==
  /\ \A i \in 1 .. Len(shown) : shown[i] = shown[1] + 1 - i
  /\ shown # <<>> /\ ~reopened => shown[1] = newestThen
=============================================================================
