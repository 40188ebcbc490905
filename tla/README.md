# TGC BUS Core in TLA+

A specification of the parts of TGC BUS Core (Python, FastAPI, SQLAlchemy,
SQLite) where orderings, crashes and stale reads decide whether the program is
right, with TLC configurations that check it on small instances and proofs that
TLAPS checks for every instance. Paths below are relative to the repository.

## 1. The system

TGC BUS Core is a local server for a small workshop: items and their stock in
FIFO batches, purchases, issues and adjustments, recipes and manufacturing runs,
vendors and contacts, encrypted backup and restore, a background indexer of
local files and Google Drive, and a runtime that plans and commits file
operations. One process serves HTTP; plain `def` handlers run in a thread
pool, `async def` handlers on the event loop. All business data is in one SQLite
file; several append-only `*.jsonl` files record what was done.

| Component | State it keeps | Operations | Interacts with | Module |
|---|---|---|---|---|
| Stock ledger (`core/appdb/ledger.py`, `core/api/routes/ledger_api.py`) | `items.qty_stored`, `item_batches`, `item_movements` | purchase, stock-in, consume, stock-out, adjust, valuation, movements | sessions and SQLite's write lock; inventory journal | `InventoryLedger`; reads: `StockViews`, `LogPage` |
| Manufacturing (`core/manufacturing/service.py`, `core/api/routes/manufacturing.py`) | `manufacturing_runs` and the ledger's tables | validate, allocate, execute, record a failed run | ledger, recipes, manufacturing journal | `InventoryLedger` |
| Journals (`core/journal/*`, `_append_*_journal`) | `inventory.jsonl`, `manufacturing.jsonl` | append after the commit | archived by a restore | `InventoryLedger`, `Restore` |
| Raw inventory run (`POST /app/inventory/run` in `core/api/http.py`) | `items.qty_stored` | one raw transaction | bypasses batches | `InventoryLedger` |
| Items, recipes, vendors and contacts (`core/api/routes/items.py`, `recipes.py`, `vendors.py`) | `items`, `recipes`, `recipe_items`, `vendors` | create (or overwrite), update, delete with what hangs on a row | each other, through ids | `Catalog`, `StockViews` |
| Backup and restore (`core/utils/export.py`, `core/backup/restore_commit.py`, `core/api/http.py`) | maintenance flag, restore lock, database file, journals | export, preview, commit | indexer, every session | `Restore`; its page and files: `RestorePage` |
| Schema upgrade (`core/appdb/sqlite_patch.py`, `core/appdb/engine.py`, `core/api/http.py`) | tables, columns, flags and indexes of the database | copy an older file, create tables, add columns, align flags | every start of a server; restores | `SchemaUpgrade` |
| Background indexer (`core/api/http.py`) | task, stop/pause/idle events | start, stop, scan | restore, broker | `Indexer` |
| Runtime journal (`core/runtime/journal.py`, `core_alpha.py`, `policy.py`, `sandbox.py`) | `journal.log`, `audit.log`, idempotency index | prepare, commit, recover | transform and write of the runtime | `RuntimeJournal` |
| Plans and organizer (`core/plans/*`, `core/organizer/*`) | `plans.db`, the user's files | make a plan, preview, commit | local files | `Organizer` |
| Sessions (`tgc/tokens.py`, `tgc/state.py`, `core/api/http.py`, `core/ui/js/token.js`) | two tokens, a cookie, the page's cache | guard, token, restart; fetch and retry | every request of a page | `Session` |
| Google account (`core/api/http.py`, `core/secrets/manager.py`) | OAuth states, client and refresh token in keyring or file | start, callback, revoke, settings | Google | `GoogleAccount` |
| Settings files (`core/policy/store.py`, `core/config/*`, `core/settings/reader_state.py`, `core/plugins/loader.py`) | five small JSON files | load, merge, save | indexer, policy, plugins | `Settings` |
| Capabilities (`core/services/capabilities/registry.py`, `core/runtime/probe.py`, `core/plugins_alpha.py`) | registry, manifest file | register, probe, emit | plugins, broker | `Capabilities` |
| Pages (`core/ui/js/cards/*`, `core/ui/js/logs.js`) | what is chosen, drafted and shown | asynchronous handlers of clicks and answers | the routes above | `RunForm`, `RecipeEditor`, `Contacts`, `ItemDialogs`, `RestorePage`, `LogPage` |
| Connection broker and catalog (`core/services/conn_broker.py`, `core/domain/*`, `core/adapters/*`) | clients and scopes, open streams, access tokens | get, probe, open, next, close | indexer, capabilities, Google | `CatalogStream`, `DriveToken` |
| Retention (`core/retention.py`, `core/unilog.py`) | directories of runs and indexes, log files | list, delete, cut short | the runs that log | `Retention` |
| Units and money, launcher and tray | – | conversions; start-up | – | – (section 6) |

What is hard:

* **Read, then write.** A session opens a transaction only before its first
  INSERT, UPDATE or DELETE. What a handler SELECTs before that is read one
  statement at a time with nothing locked; what it then writes are absolute
  values computed from the reads. `fifo_consume` and `stock_in` are of this
  kind, `add_batch` and the commit of a run are not.
* **Two copies of a quantity.** `items.qty_stored` and the sum of
  `item_batches.qty_remaining`; the movements are a third account of it.
* **Partial failure.** A run takes from many batches and may fail at a later
  line; its failure is recorded by another transaction.
* **Journal after commit.** A crash or an I/O error in between loses a line.
* **Restore while requests run**, and the restart of the indexer around it.
* **Threads that outlive their task.** Stopping the indexer cancels the task but
  not the thread; the events it waits on are forced after a timeout.
* **Idempotency and recovery** of the runtime journal, which a second process may
  open while the first one serves.
* **Ids that come back.** SQLite gives the id of a deleted last row to the next
  one, and nothing enforces references.
* **Read, change and replace of a whole file**, by settings and secrets, in a
  thread pool and without locks; some of them in place.
* **Plans carried out later** than the file system was looked at.
* **Starts over what earlier starts and requests left**: the schema is brought up to
  date statement by statement, by every server that starts.
* **Cursors shared by threads**: a stream, the token cache of a provider.
* **Reads of several moments**: stock, its cost and its batches; a log and its tail.
* **Answers in any order.** The pages send requests without sequence numbers, read
  shared variables again after an `await`, and wait for a token first.

What makes each component correct: the ledger never creates or loses stock and
issues oldest first (modelled); a run is all or nothing and never takes what is
not there (modelled); a journal line is a receipt (modelled); a restore leaves
one database and the journals that describe it, and reports what it did
(modelled); no worker
scans while a restore replaces the database; a committed runtime operation is not
done twice and a pending one is closed after a crash; a plan that is committed is
done, and the organizer loses no content; a row's children are its own; settings and
secrets are as they were last set; a revoked token stays revoked; what a page shows
and sends is what is chosen; a server that serves finds the schema it needs; a walk over
a provider's folders misses none of those that it queues; pruning keeps what is newest.
Each of these holds up to the exceptions its property names, which are what the code
gives up; the table of section 4 lists them. The hazards behind these, each at its line,
are listed in `PROJECT.json`.

## 2. Plan

1. `Fifo`, `InventoryLedger`, `StockSpec`: the ledger and manufacturing runs
   (done), their type correctness and every safety invariant by proof (done).
2. `Restore`, `DatabaseSpec`: the maintenance flag, the lock, requests in flight,
   replacement of the file, archiving of journals, crash at each step (done), with
   every safety property and the refinement by proof (done).
3. `Indexer`: task, thread, events and timeouts, with the steps of a restore that
   stop and start it (done).
4. `RuntimeJournal`: prepare, commit, crash, recovery, two processes (done).
5. `Catalog`: items, recipes, contacts, what hangs on them and ids that are reused
   (done).
6. `Organizer`, `Settings`, `Session`, `GoogleAccount`, `Capabilities` (done).
7. The asynchronous pages: `RunForm`, `RecipeEditor`, `Contacts`, `ItemDialogs`
   (done).
8. `SchemaUpgrade`, `CatalogStream`, `DriveToken`, `StockViews`, `RestorePage`,
   `LogPage`, `Retention` (done).
9. Proofs about the modules of 3 to 8, for any number of threads, requests, rows,
   files and clicks, and about all of them side by side (done).

| Theorem worth proving | Status |
|---|---|
| The FIFO walk takes oldest first, within bounds, and conserves the quantity | proved, `InventoryLedger_proofs` |
| `Spec => []` of `TypeOK`, `JournalAfterCommit`, `BatchBounds`, `RunNeverOversells` of the ledger | proved, `InventoryLedger_proofs` |
| `Spec => []JournalCoversStockChanges`, with no hypothesis on kinds or faults | proved, `InventoryLedger_proofs` |
| `Spec => []` of `IssueIsFifo`, `MovementsMatchRequests`, `DriftOnlyByOverlap`, `StoredMatchesBatches` | proved, `InventoryLedger_accounts` |
| `Spec => []` of `RestoreExclusive`, `MaintenanceWindow`, `AnswerTruthful`, `JournalsFollowDb`, and `Spec => DatabaseAtomic` | proved, `Restore_proofs` |
| `JournalTypeOK`, `ChainsIntact`, `AppendOnly`, `RecoveryClosesJournal`, `CommitTwiceOnlyByRace` of the runtime journal | proved, `RuntimeJournal_proofs` |
| `QuietWhileReplacing`, `SettingsKept`, `ManifestCurrent`, `RefusedOnlyIfDisturbed`, `TokenFollowsRequests` (with its parts `CodeExchangedOnce`, `RevokedStaysGone`, `TokenKept`), `ServedUpToDate`, `WalkComplete`, `AsksForTheAccount` | proved, `Server_proofs` |
| `NoStockOrRunsInherited`, `ChildrenNameTheirOrg`, `CommittedIsDone`, `DuplicatesKeepContent`, `CostIsOfStock`, `PruneKeeps` | proved, `Records_proofs` |
| `RunIsOfChosen`, `SentForWhatIsShown`, `PaintedIsCurrent`, `TwiceOnlyIfRepeated`, `RestoresWhatIsShown`, `NoMovementMissing` | proved, `Pages_proofs` |
| The services side by side are each of them by itself, and keep all of the above | proved, `Services_proofs` |
| `Spec => StockAtomic` for one worker | open: section 5 says what it needs |

## 3. What is modelled

### `InventoryLedger`

The state is the committed database (per batch: item, initial and remaining
quantity, and the sum of its movements; per item: `qty_stored`), the outcome of
each request, the journal lines, SQLite's write lock, and per worker the session:
where its handler is, the request body, what it loaded and what it changed in
memory. Five history variables (`acked`, `fresh`, `clobbered`, `rewritten`, and `lost`,
the requests whose append failed or whose process died in front of it) record what the
properties need and influence nothing.

The granularity is the code's: **one action per SELECT that a handler makes
before its first flush, and one for the flush-to-commit section**, which holds
the write lock. A request that needs the lock waits for it, gives up
("database is locked") or gets it.

| Action | Code |
|---|---|
| `Purchase` | `purchase` and positive `adjust_stock` through `add_batch`: the INSERT is flushed before the item is read, so one atomic step |
| `StockInRead`, `StockInCommit` | `stock_in`: `db.get(Item)`, then the transaction that writes `qty_stored` from it |
| `SumStock`, `ReadBatches`, `ReadItem`, `IssueCommit` | `consume`, `stock_out`, negative `adjust_stock` through `fifo_consume`: SUM, SELECT of the batches and the walk over them, `session.get(Item)`, commit |
| `ValidateRun`, `BeginRun`, `AllocateLine`, `RunCommit`, `RecordFailedRun` | `validate_run`, `execute_run_txn`, `_record_failed_run`; `BeginRun` is the flush of the run's row, from which it holds the lock |
| `InventoryRun` | the raw transaction of `POST /app/inventory/run` |
| `ItemPutRead`, `ItemPutCommit` | `update_item` with a quantity |
| `AppendJournal` | the append after the commit, whose failure is swallowed |
| `Busy` | SQLite's lock timeout |
| `Crash` | the process dies; database and journals stay |

Quantities are in base units and small. Costs, notes, references and the text of
answers are left out. A run's handler is `async` and never awaits, so two runs
never overlap each other (`LoopIsFree`) but do overlap the handlers in threads.

### `Fifo`

The walk both `fifo_consume` and `fifo.allocate` make, as recursive functions over
batch numbers: `LeftAfter` (what is still to take after the first n batches) and
`FifoTake` (what is taken of each batch).

### `StockSpec`

What users are promised: an on-hand quantity per item, changed by a receipt, an
issue of what is there, or a whole manufacturing run, in one step each.
`MCInventoryLedger` maps `onHand` to the sum of the committed batches.

### `Restore`

The database file and its write-ahead log are sets of committed changes, and a
backup is such a set. A change is a request number, so two databases differ when
they hold different requests. Next to the files the state has the maintenance
flag, the restore lock, the open connections, a program counter per worker
(a thread that serves a request) and per restorer (a thread in
`app_import_commit`). `since`, `crossed` and `unarchived` are history.

| Action | Code |
|---|---|
| `Admit` | `maintenance_guard` lets a request through; the flag may be set before its handler runs |
| `CreateSession`, `Connect`, `Commit`, `Append` | the session dependency (only that of the vendor routes looks at the flag again), first statement, commit, journal line; a session's connection closes with its commit (`NullPool`), a raw `sqlite3` connection when the handler returns |
| `Backup` | `export_db` |
| `Begin` | lock (409 when taken), flag, first log line |
| `Load` | decryption into a temporary file, checks of the container |
| `Sweep`, `SweepAgain` | `close_all_db_handles`: session connections are closed under their requests, which then fail; a raw connection refuses to be closed by another thread |
| `Checkpoint`, `Cleanup` | `wal_checkpoint`, `cleanup_sidecars` |
| `Wait`, `Replace` | `wait_for_exclusive`, `robust_replace`; both give up |
| `Archive`, `Audit` | `archive_journals`, the audit line |
| `Finally`, `Release` | the `finally` clause: flag, then lock |
| `Crash` | the process dies; files and log stay |

Four kinds of requests stand for all: `ledger` (session, then a journal line),
`vendor` (session with the second look at the flag, no line), `raw`
(`POST /app/inventory/run`) and `export`. The log moves into the file when the last
connection closes, so it outlives a crash; `Checkpoint` is what saves it then.
`Cleanup` deletes a log nobody has open.

The platform is Windows, for which the restore code is written: an open file can be
neither deleted nor replaced. On POSIX the replacement goes through under open
connections (listed as a hazard, not modelled). `Faults` names what may fail:
crash, archiving, audit line, journal line, and two that no passing run includes
because a guarantee falls with them: `log` (the run `restore_log` shows it) and
`checkpoint`, an error `wal_checkpoint` ignores: after a crash the log is then
deleted by `Cleanup` and, if the replacement fails as well, committed changes are
lost. The indexer is stopped and started between `Begin` and `Load` and after
`Finally`; it has no write access to the database and is not part of this module.
A leftover temporary file after a crash is not modelled: nothing reads it.

### `DatabaseSpec`

A database and its backups: a commit adds a change, a backup copies the database,
an install puts one backup in its place, whole. `Restore` maps the database to what
a query sees (`Visible`) and the backups to the exports.

### `RuntimeJournal`

The two files `journal.log` and `audit.log` as sequences of lines, each with the hash
of the line before it as its writer knew it; per process (two of them) what it has in
memory: the last hashes, the index of entries and the status of each key; per thread
the request it serves. An append reads the file and replaces it by a copy with one
more line. The actions follow `JournalManager` (`Boot` is `_recover` up to its loop,
`RecoverRead`/`RollBack` one turn of the loop, `PrepareCheck`, `Prepare`,
`CommitRead`, `Commit`) and `transform` and `write` of `CoreAlpha`, with the policy
(`Permits`) and the sandboxed call (`Sandbox`) reduced to their outcomes. A lock of a
process keeps its own threads apart and not those of another process; `Crash` and
`AppendFails` may strike at every step. What a line says is left out but for key,
entry and result.

### `Indexer`

The event loop as a queue of callbacks, the tasks and worker threads it makes, the
stop flag, the idle event, and the thread that restores. `StopSignals`, `WaitEnds`,
`StopReturns`, `StartClears`, `StartReturns` cut `stop_indexer` and `start_indexer`
where they wait, set the event or hand over to the loop: between the end of the wait and
the set a worker that was queued may begin and clear the event. The broker the server builds at this commit
has no `catalog_open`, so a scan takes its time and then fails; that is what
`WorkerScans` does.

### `Organizer`

Files with a content and an age at paths (folder, name, suffix); the table of plans,
whose ids are a second of time; a job per handler. `Walk` lists and hashes the files
below a start path; `PlanDuplicates` then dates them as they are by that time
(`Duplicates`, in the order `Before` of `pick_keeper`) and plans the moves, and
`PlanRenames` the renames. `CommitPlan` begins a commit, `CarryOut` and `ActionFails` do
one action each. `ChangeFile` is the user, who writes or deletes a file at any time, also
between the hashes and the dates of a plan. `unsure` is history: the contents of the files
that were changed so, and those of which a plan dated another file than it had hashed or
found two of one age. The hashes of one walk are taken in one step, and so are the dates
of one plan: a change between two of them is like one before or after all of them, but for
files that change more than once. The actions of a plan are carried out in any order, of
which the code's is one; the suffix of a name that has a suffix is the next number.

### `Catalog`

Rows have an id, which SQLite gives again, and a birth number, which it does not;
batches, recipe lines and runs remember the birth of the row they meant. The handlers
of items and contacts run in threads and are cut between the load and the transaction
(`…Load`, then the write); those of recipes and the runs never await.

### `Settings`

One of five files is chosen at first. A save loads and merges (`LoadAndMerge`), opens
the file or the temporary file, which empties it (`OpenFile`), writes (`WriteFile`)
and replaces (`ReplaceFile`) or is done. The reader's file is also kept in memory.
`SaveFails` and `ReplaceFails` are the errors of opening, writing and replacing: a write
in place that fails leaves the file torn, and the reader's memory is then ahead of its
file. `DieAndLoad` kills the process between any two of these. `cutShort` and `rivals`
are history.

### `Session` and `GoogleAccount`

`Session` has the server's two tokens, which `GET /session/token` makes one, and
the page's cached token, its promise and its calls, each with one retry.
`GoogleAccount` has the keyring, which may fail at any use, the file of secrets, read
and replaced as a whole, and the handlers of the OAuth and settings routes, cut where
they wait for Google or between reading the file, opening the temporary file (`OpenTemp`),
writing it (`FillTemp`) and putting it in place (`ReplaceStore`). All handlers share the
one name of the temporary file: one may empty it under another, put it in place while
another writes it, or find it gone. Google is external: it accepts a code or not, and
hands out numbered refresh tokens.

### `Capabilities`

The registry, filled plugin by plugin and service by service; what a request has still to
set is a set, each capability with its place in the order. Each emit takes a snapshot that
a thread of its own writes to the manifest later, or fails to write.

### `RunForm`, `RecipeEditor`, `Contacts`, `ItemDialogs`

One module per page: one action per handler up to its first `await`, and one per
answer, which may come in any order or not at all. The variables are those the page
keeps (`selectedRecipe`, `_draft`, the list it painted, the open dialog), and the
server's state as far as the answers depend on it.

### `SchemaUpgrade`

The columns that are there, what makes names unique, and the contacts with their role,
flags and kind; per server how far its start has come and which columns it has seen.
`PatchColumn` and `UpgradeColumn` are one ALTER each, because SQLite runs DDL by itself;
`AlignFlags` and `Backfill` are the UPDATEs with their commit. A start may stop between
any two, fail at one, or run beside another; servers that are up write contacts and
restore older files. A PUT of a contact loads the row (`PutLoad`) and later writes the
columns that differ from what it loaded (`PutCommit`, `Written`), over whatever is there by
then; `blended` is history, the contacts that were so stored over a row that had changed.
`MCUpgrade` places the requests of the run `upgrade_again`.

### `CatalogStream` and `DriveToken`

A stream is a queue of folders that every `next` walks on with; a page is its folder and
number. `ListFirst` asks for a page and gives up the interpreter's lock, `PageComes`,
`LastPageComes`, `ListingRefused` and `Raises` are what may come of it, `Deliver` returns
what was got. Only `LastPageComes` queues folders, and only those of its own page: the Drive
provider drops the folders of the pages before (`core/adapters/drive/provider.py:304-312`),
although the comment at line 247 calls the stream recursive. `DriveToken` has the refresh token in the secrets and the three attributes
of the provider's cache, each written by a step of its own; an access token is the
refresh token it was got for. Google is external.

### `StockViews`, `LogPage`, `RestorePage`, `Retention`

`StockViews`: the three SELECTs by which a request reads stock, unit cost and batches,
while batches are received and issued. An issue loads the batches (`LoadBatches`) and later
writes absolute quantities computed from them (`Issue`), which may raise a batch that
another has emptied since. `LogPage`: the list of movements and its route,
page by page from the newest. `RestorePage`: exports, uploads and previews with the
files they write and read, and the two buttons of the page; what a restore then does is
in `Restore`. `Retention`: directories with their names and seconds, the runs that list,
plan and delete them, and a log that is read and then written anew.

## 4. Runs

| Run | Instance | Shows |
|---|---|---|
| `ledger_concurrent` | 2 workers, 3 requests, 2 items, quantities 1 and 2, crash and lock timeout; 168,135 states | Types, and what survives every interleaving: movements equal to acknowledged requests, oldest-first issues, runs that take only what is there; and that batches, movements and `qty_stored` disagree only where the windows of two requests overlapped |
| `ledger_alone` | 1 worker, 3 requests of every kind, crash and I/O error; 430,278 states | Without overlap the ledger implements `StockSpec` (`StockAtomic`) |
| `ledger_answers` | 2 workers, 2 requests of every kind, crash, I/O error and lock timeout, fair; 18,015 states | Every request is answered, and in quiescence each committed purchase, issue, run and raw run has a line, unless its append failed or the process died in front of it; and nothing else has one |
| `ledger_oversell` | 2 workers, 2 negative adjustments | **Violated**: two overlapping adjustments take more than there is (`docs/SOT.md`: "No oversold from adjustments") |
| `ledger_optional` | 1 worker, a recipe with an item both required and optional | **Violated**: the optional line fails the run ("Optional components never block runs") |
| `upgrade_again` | 2 servers, 1 contact, 2 starts | **Violated**: a second start makes an organization of a contact that a request stored as a person ("Safe to run multiple times.") |
| `restore_safety` | 2 workers, 2 restorers, 2 requests of every kind, 2 restores, crash and failures of archiving, audit and journal line, fair; 94,209 states | The window is exactly that of a restore, `ok` is answered only over the backup, the journals follow the database except for requests in flight, the database changes as `DatabaseSpec` says, and a restore ends although requests may keep the database open for ever |
| `restore_journal` | 1 worker, 1 restorer | **Violated**: a request that committed before the replacement writes its line into the fresh journal ("This prevents confusion between logs and DB state") |
| `restore_log` | 1 worker, 1 restorer, a failing log file | **Violated**: `_log("starting")` raises before the `try`, and the server stays in maintenance with the lock taken |
| `services` | the modules of section 3 from `RuntimeJournal` on, one at a time; 844,477 states | Twenty-five properties, listed below |
| `indexer_resumed` | 1 restore, 3 tasks, fair | **Violated**: the start after a restore finds the cancelled task not yet done and starts nothing ("indexer is resumed after commit or failure") |
| `rename_keeps_files` | 2 files with one normal form | **Violated**: a rename plan moves both to one name ("Skip if another file already occupies the destination name.") |

The modules of `services` share no variable. A behaviour of all of them, seen through
the variables of one, is a behaviour of that one with pauses, and every invariant
speaks of one module: so `MCServices` picks a module at first, the `focus`, and lets
only that one move. The three families of tables of `Catalog` (items, recipes,
contacts) have no row in common and are picked one by one. Where two components do
interact, the module has both sides: `Indexer` has the steps of a restore, `Session`
server and page, `GoogleAccount` routes and secret store, each page its server.

| Property | What holds, and what the code gives up |
|---|---|
| `ServicesTypeOK` | The type invariant of the module that moves (the others keep their initial values) |
| `ChainsIntact` | Both files are hash chains as long as one process at a time writes them, over any crashes |
| `RecoveryClosesJournal` | After a recovery every entry it found is committed or rolled back, once |
| `CommitTwiceOnlyByRace` | A key is committed twice only if its two requests overlapped, if a recovery in between rolled back another entry with the key, or in two processes |
| `AppendOnly` | No step takes a line away or changes one, unless two processes write |
| `RefusedOnlyIfDisturbed` | The retry of a page gets over every mismatch of tokens but a restart or a failed fetch in its middle |
| `TokenFollowsRequests` | A repeated callback exchanges nothing, without exception; a revoked token is not found again and a stored one not lost, unless a store failed, a change of the file was written over, two requests used the temporary file at once, or a token was stored while another request was about to delete it |
| `QuietWhileReplacing` | No worker scans while the database is replaced, unless a stop has set the idle event over a worker at work (its wait timed out, or the worker began between the wait and the set), or two tasks used the event |
| `DuplicatesKeepContent` | Quarantining duplicates keeps each content outside the quarantine, as far as only such plans are carried out; but not contents of files the user has written or deleted, nor those of which a plan dated another file than it had hashed or found two of one age |
| `CommittedIsDone` | A plan that says committed had all its actions carried out, unless another handler meddled with the plan |
| `NoStockOrRunsInherited` | A new item has no batches of an earlier one with its id, unless stock was bought under the id while no item had it; a new recipe has no lines or runs of an earlier one. Movements, recipe lines that use the item and recipes that make it do pass to the new one |
| `ChildrenNameTheirOrg` | A contact is in the organization it was put in, or in none, unless (`adrift`) it was given a parent that was not there, its parent was deleted by a request that had loaded it as no organization, or its parent was deleted by a cascade: that deletes one level only (`vendors.py:171-176`), and leaves the contacts of the contacts it deletes |
| `SettingsKept` | Between saves the file and the memory hold each field as set by the last save that did not fail, over any crash and failure, unless saves overlapped, a crash or a failure cut a write in place short, or a save of the reader failed |
| `ManifestCurrent` | The last manifest is written after the last change of the registry; if it is the one on disk, it is the registry |
| `RunIsOfChosen` | When all answers are in, the button runs the recipe that is chosen, unless answers overtook each other or failed |
| `SentForWhatIsShown` | A save or delete is sent for the recipe on screen, unless another click came in before it was |
| `PaintedIsCurrent` | A page that waits for nothing shows the contacts as they are, unless lists came out of order or an answer was lost |
| `TwiceOnlyIfRepeated` | A dialog acts twice only if it was clicked again before the answer or after a failure that hid a success. A request that has failed for the page is either done or never done: one that runs later is not modelled |
| `ServedUpToDate` | A server that has come up finds all columns, roles with matching flags and no unique index, wherever earlier starts were cut off, unless the file was replaced since; but not contacts that a PUT has stored over what another request had changed since it loaded the row |
| `WalkComplete` | A walk that is done has written every page of every folder that a written page names, unless two calls overlapped or a failure lost a page, and but for folders of Drive that only pages before the last one of a parent name |
| `AsksForTheAccount` | Drive is asked with a token of the account a call has read, unless calls for two accounts overlapped |
| `RestoresWhatIsShown` | What is restored is what a preview of that path has shown, unless a file of the same name and second took its place or the path was clicked in the list |
| `CostIsOfStock` | Stock, cost and batches in one answer fit together but for what was received, issued or written back by an issue from an old load between the reads |
| `NoMovementMissing` | The list of movements has no gap and no repetition, and begins with the newest unless it was opened again during a load |
| `PruneKeeps` | The newest directories of each kind stay, no run deletes its own, and the last lines of the log stay but for those appended between a read and a write of it, and unless that write fails after it has emptied the file |

Some invariants that section 5 proves are in no run of their own:
`BatchBounds`, `JournalAfterCommit`, `RestoreExclusive`, and the parts of
`TokenFollowsRequests`, `NoStockOrRunsInherited` and `PruneKeeps`, which the runs check
together. `JournalCoversStockChanges` excepts stock-ins: `stock_in` commits
without a line, although `docs/SOT.md:448-452` lists them.

**Bounds.** Two opening batches of one item (2 and 1) let an issue of 2 span or
end in a batch and of 3 in total exhaust the item; two quantities make an issue
possible, impossible, and possible only before another one. Three requests are
the least with which one request's window can overlap two commits, or a run can
meet both an issue and a receipt. Two workers suffice for every pairwise
overlap; a third would only queue for the same lock. `MaxBatches` is large enough
that every receipt of a run has a row, so no action is disabled by it. Runs have
one line, or three (two of the same item around an optional one).
Restores need two
requests so that one can be the export and the other a change that is in the database
only, or in flight, when the file is replaced; a second restore is what can overlap the first
one's `finally` clause, and the proofs of section 5 cover any number. In `services`
two of all that write can overlap (threads, processes, handlers, savers, clicks, jobs),
and there is one reader of the stock and one restore click, which change nothing that
another one reads; two issues of the same two batches are what it takes to write one back;
two requests, one at each server, can both have loaded the one contact (they give
`is_org` as false: only the run `upgrade_again`, which is about that flag, gives both);
three births give an id back once; two starts of the process (`MaxStarts`) let an OAuth
state outlive the session token it is signed with and a request end between the opening
and the replacement of the temporary file, and once the account's history is `excused`
`MCServices` lets the requests under way end but takes no other (`NoneAfterExcused`; the
proofs have no such bound); three fetches or loads let an answer be overtaken
and still be followed by another; three tasks (`MaxTasks`) are the startup's and one per
restore. Two launches let one server start on what another has begun or left, over an
empty database and two older files (an early one with a unique index on names, a later
one with most columns). A stream has three folders, of which two come to Drive on
different pages and one has two pages itself; two connections of an account are a token
and its replacement. One upload and two exports within one second share the path of
exports; two rows a page and five movements make two full pages and movements recorded
in between; two runs in two seconds, of which one or two directories of a kind are kept,
can each find the other's outdated. The organizer's three layouts have duplicates beside
other files, one in the quarantine already, and two files with one normal form, and the
user may rewrite or delete a duplicate. Where an exception depends on a race, the bound
is one
more than the race needs, so that the state after it is reached too. `Symmetry` permutes
workers or handlers, which no action tells apart; it is used only with invariants
and step properties. `CHECK_DEADLOCK FALSE`: the models stop when their bounds are
reached.

**Fairness.** `FairSpec` asks weak fairness of each worker's own steps: a thread
that serves a request is scheduled again. A waiter needs no strong fairness: its
`Busy` is enabled while the lock is held and its write when it is free, so some
step of it is enabled all the time. `FairSpec` of `Restore` asks the same of the
thread of a restore and nothing of the workers: every wait of a restore is a loop
with a number of attempts. Nothing is assumed of arrivals, crashes or
I/O errors. `IndexerFairSpec` asks weak fairness of the event loop, of worker threads
and of a restore that has begun; that is the scheduling of Python's threads and of
`asyncio`, and without it `IndexerResumed` would fail for a reason that says nothing of
the code.

## 5. Proofs

Each property below that is not inductive rests on an invariant that is. Every
inductive invariant was first checked by TLC as an invariant of the runs of section 4.

* `InventoryLedger_proofs` has three parts.

  The walk: for any number of batches and any quantities, it takes between nothing and
  all of a batch, what it takes and what it leaves add up to the request (`TakeTotal`),
  and a batch is touched only when every older one is emptied (`TakeOldestFirst`). The
  sums are recursive functions; facts about them are by induction on the number of
  batches with the induction written as a set of numbers (`SetInduction`).

  The types, one lemma per action. They need more than the type of each variable: that
  a session at work has an item that exists and a kind, and a request number of its
  own, because actions index `stored` and `log` by them; those facts are conjuncts of
  `SessionType`.

  The bounds and the journal:
  - `LogInv`: a request belongs to one worker, which is past its commit exactly
    when it is about to append. `JournalAfterCommit` follows.
  - `CoversInv`: a request that committed a change of stock has its line, or has lost it,
    or has a worker at the append; and no other request is any of these. `IssueKindInv`
    says what kinds of request are where, so that a commit by a handler that appends is one
    of a kind that has a line. `JournalCoversSafe` follows, for all kinds and all faults.
  - `LockInv`: from one step to the next the write lock is held by the run that
    is allocating and by nobody else. It is what makes the next part inductive.
  - `BoundsInv`, the conjunction of `RowInv` (rows not inserted yet hold nothing),
    `LoadInv` (what an issue has in memory is within what was *received*), `RunInv`
    (a run has the *committed* rows in memory and takes no more), `CleanInv` (nothing
    is taken outside those handlers) and `BatchBounds`. `BatchBounds` is not inductive
    by itself: an issue writes old values, and it is `LoadInv`, not any relation
    to the current rows, that keeps them in bounds.
* `InventoryLedger_accounts` proves the three accounts of stock. An item's total
  is a function of the batch-to-item map and the quantities (`ItemSum`), and the
  lemmas about it say what a FIFO take, a subtraction and a new row do to it.
  - `IssueIsFifo` follows from `TakeTotal` and `TakeOldestFirst`.
  - `MovementsMatchRequests` is inductive together with `IssueIsFifo` and `RowInv`.
  - `FreshInv`: a session that no commit on its item overlapped has the committed
    values in memory. With it, `DriftOnlyByOverlap` and `StoredMatchesBatches` are
    inductive (`AccountsAgree`).

* `Restore_proofs` proves the safety properties of `restore_safety` and `RestoreExclusive`.
  - `LockInv` (a restore at work has the lock) gives `RestoreExclusive`, and with it
    `MaintenanceWindow` is inductive, if the first log line can be written.
  - `WalInv`: from the checkpoint to the replacement a log exists only while a
    connection is open. It rests on the checkpoint, and is why neither `Cleanup` nor
    `Replace` loses or mixes in a change.
  - `DataSteps`: with `WalInv`, a step changes what a query sees only by a commit or
    by a whole replacement. All that follows is about these few kinds of steps.
  - `TempInv` (what is put in place is a backup) then gives the refinement.
  - `InstalledInv`, with `LockInv`: nobody replaces the database a second time before
    the first restore has answered. `AnswerTruthful` follows.
  - `AppendInv`: a line about to be appended is of a change that the database holds
    or held before it was replaced. `JournalsFollowDb` is inductive with it.

* `RuntimeJournal_proofs` proves `JournalTypeOK`, `ChainsIntact`, `AppendOnly` and
  `RecoveryClosesJournal`, the last three as long as one process runs at a time.
  - `WorkInv`: a request is served by a process that is up; a thread that is about to
    append has the lock. The types are inductive with it.
  - `AloneInv`: what a thread or a recovery has read is still the file when the line is
    added, and the process has the hashes of the last lines. A thread has the lock from
    the read to the replacement, and a process that recovers has no requests yet. So a
    file only grows at its end, by a line that names the one before it.
  - `RecoveryInv`: a process that recovers has yet to roll back whatever is open. It is
    why a crash in the middle of a recovery leaves nothing behind in the next one.
  `CommitTwiceOnlyByRace` follows from these, again while one process runs at a time:
  - `OrderInv`: lines are numbered in the order they are written, and a record names an
    earlier entry. It rests on `AloneInv`, and makes "the last record in the file" and
    "the latest one" the same, which is what `_recover` takes for granted (`StatusLoaded`).
  - `StatusInv`: if a process does not hold a key for committed, each commit of the key
    has a later rollback of an entry with it. It is what an entry that is prepared relies
    on (`KeyInv`: the lock is kept from the test of the key to the append), and
    `RaceInv`, the property itself, is inductive with it.

* `Server_proofs`, about the services around the ledger.
  - `Indexer`: `QuietInv`, that a stop that has not ended keeps its flags up, and that
    one worker at most is at work and none while the idle event is set, unless a stop has
    set it over a worker or a second task used the event. `QuietWhileReplacing` is its last conjunct.
  - `Settings`: `OneSaver` (unless saves overlap, one handler at most is at its save) and
    `SettingsInv`, which says for each point of that one save where the settings are: in
    the file, in the temporary file, or only in the handler's hands. A crash or a failure
    at any of these points loses nothing but what the property gives up.
  - `Capabilities`: `SnapshotInv`, that between requests the last snapshot is the
    registry, written or not; every change is followed by an emit under its request.
  - `Session`: `ServedInv` (no token is newer than that of the running server, and what
    compares with `SESSION_TOKEN` expects it once it was handed out) and `RetryInv` (a
    second attempt that nothing disturbed carries it).
  - `GoogleAccount`: `HandlerInv` and `FreshInv` (what a handler has yet to do at the
    store, and that a token on its way there is new), `TempInv` (unless something is
    excused, one handler at most is at the temporary file, and what it has written there is
    what it read with its change) and `TokenInv`, which says, for every point of a read and
    replacement of the file beside a keyring that may fail, where the token that is in use
    can be found and that a revoked one cannot.
    `RevokedStaysGone` and `TokenKept` are two sides of it; `CodeExchangedOnce` has an
    invariant of its own, about which states of a login are still open. The three together
    are `TokenFollowsRequests`.
  - `SchemaUpgrade`: `UpToDateInv`, that a server on this file knows only columns that are
    there, and that past its patch the columns of the patch are there and every contact
    agrees that no PUT has stored over a row that had changed. Other servers and requests can only add to that, which is why an interrupted
    or overlapping start does no harm.
  - `CatalogStream`: `WalkInv`. Unless calls overlapped or a failure lost a page
    (`Tracked`), entries of the queue are distinct and read up to their page token, the
    listing under way is the next page of the first of them, and a folder that the last page
    of a parent names is got, queued or being listed (`NothingForgotten`). A folder of the
    local provider is one page, so there that is every folder.
  - `DriveToken`: `CacheInv`. Unless calls for two accounts overlapped, all calls have read
    one refresh token, and the cache is of one token except between the two writes of a
    call that has that token.
* `Records_proofs`, about rows and files.
  - `Catalog`: `BatchInv` (a batch is of the row with its id, unless it strayed),
    `NoInheritedRuns` (inductive as it is, given the types) and `ParentInv` (the parent
    of a contact is there and is the row that was meant, with the property's exceptions).
    All rest on the birth numbers: a row is born where none was.
  - `Organizer`: `JobsInv` (a commit that has not failed has carried out what it has
    behind it, and a plan it read is still the table's unless somebody meddled) and
    `DupInv`, the conjunction of `TablesMoveDuplicates`, `JobsMoveDuplicates` (saved plans
    and plans in hand move younger duplicates only), `TreesLast` (what a walk saw outside
    the quarantine is still there or gone), `FilesKnown` and `OldestStay`, each up to the
    contents that are `unsure`. `OldestStay` gives `DuplicatesKeepContent`; the others keep
    the oldest file from ever being listed.
  - `StockViews`: `ViewInv`, what a request has counted compared with the batches now:
    untouched unless some were issued, older than all others, and all there is unless some
    were received or written back; `Unmade`, that batches yet to come are empty and in no
    issue's load.
  - `Retention`: `PruneInv` (what is deleted or planned is outdated by someone's count and
    nobody's own; more directories only make it more so) and `TailInv` (what a run has read
    holds the last lines there were).
* `Pages_proofs`, about the asynchronous pages.
  - `RunForm`: `NewestInv`, that the recipe asked for last is the chosen one and has not
    come, or what is selected is what is chosen.
  - `RecipeEditor`: `DraftInv`, that unless answers crossed the draft is of the recipe on
    screen and the click under way is about it.
  - `Contacts`: `OwnNumbers` and `LastLoadInv`: the last load is for what the page is set
    to, and it is under way, or in the page, or painted.
  - `ItemDialogs`: `ItemsInv` (`PressInv`, `OwnItems`, `FreshItems`, `EffectsCounted`:
    clicks, the items they made and their opening batches fit together) and `OnceInv`: a
    dialog that was neither hurried nor troubled has one click under way and no effect
    yet, or has had its effect and has no click that could have another.
  - `RestorePage`: `PreviewInv` and `CommitInv`, that the path remembered, the box shown and
    every request under way go back to a preview that was shown, and that a file which was
    not replaced is still what that preview said.
  - `LogPage`: `LogInv`, that the page descends without a gap, the cursor is its last id and
    a load under way continues it.
* `Services_proofs`, about all of these at once. A step of `MCServices` is a step of each
  component or leaves it alone (`StepsOfEach`), so a behaviour of the services is one of
  each component (`EachByItself`). With that, `ServicesTypes` and `ServicesSafe` are the
  theorems of the components, and the argument of section 4 for checking one component
  at a time is itself proved.

**Assumptions.** One per module, in the module that declares the constants, and nothing
else; TLC evaluates them on every run. `BoundsAssumption` and `RequestAssumption` of
`InventoryLedger`: the bounds are numbers, quantities are positive, lines are well
formed. The others say that bounds are numbers (and large enough that one load, start
or emit can happen where the initial state has one), that a placeholder such as "no
file" or "no call" is not one of the things it stands for, and that the values a
component begins with are among those it may have. `CatalogAssumption` has finitely many
row ids, because SQLite's next id is a maximum. `CapabilitiesAssumption` has
each capability provided by one plugin, as the repository's plugins do, and
`QuarantineAssumption` says that what the quarantine holds at first was put there by
earlier plans: an older file with the same content is outside. Each theorem that
excludes a fault names it as a hypothesis.

So every invariant and action property that a passing run checks holds for any numbers
of workers, items, batches, requests, restores, files, rows and clicks, but for these,
which are **only model-checked**:

* the refinement of `StockSpec` (`StockAtomic`, in `ledger_alone`). A step of a run
  changes the sum of committed batches per item, and `StockSpec`'s run names one total
  per item for a whole recipe: the proof would need sums over sets of lines, by
  induction over data, on top of `ItemSum`;
* `RequestsAnswered` and `RestoreEnds`: liveness under fairness.

## 6. What is not modelled

* **Data.** Costs and valuation, fractional scaling of recipes, units and money, the
  content of journals, proposals and manifests, roles and metadata of contacts: they
  are computed in one step from their inputs.
* **Code that nothing reaches at this commit.** No module that the server or the
  launcher loads imports `core/appdb/ensure.py` and `migrations`,
  `core/bus/command_bus.py`, `core/config/tracker.py`, `core/runtime_state.py`,
  `core/plugins_hub.py`, `core/plugin_manager.py`, `core/menu_*`, `core/action_cards`,
  `tgc/http.py`, `core/ledger/health.py`, `core/policy_engine.py`,
  `core/policy/approvals.py`, `core/isolate.py`, `core/signing.py` and
  `core/safelog.py`. A model of them would have to invent their callers. Three parts are
  modelled although they are hardly called, because their callers are written: the streams
  of the catalog (the routes and the background scan call `catalog_open`, which the broker
  they get does not have), the Drive provider's tokens (nothing registers the provider) and
  retention (only `tests/test_retention.py` calls it). Of these, more shared drives than one
  answer holds and a page that comes twice are left out. `Indexer` and `Capabilities` model
  what their callers make of the broker as it is.
* **The state that a scan saves.** The worker would write `index_state.json` after a
  scan that succeeded, which cannot happen; the route that writes it is in `Settings`.
* **Cryptography.** Encryption of backups and secrets, and the signature of a manifest,
  which is computed before the licence and the run id are added.
* **Races of start-up.** Two processes that create `master.key` at the same moment, and
  a second process at the file of secrets.
* **Late requests.** A request that the page's browser has given up on while it was queued,
  and that reaches the server later: in the modules of the pages it is done at once or never.
* **Third-party code and the subprocess.** Loading plugins; a sandboxed call is its
  outcome: ok, an error or a timeout.
* **Presentation.** Layout, formatting, and the pages without asynchronous state.
* **Recipe lines and movements of deleted items** stay in the tables, as do recipes that
  make the item, and pass to an item that gets the id; `delete_item` says nothing of them,
  and `NoStockOrRunsInherited` is of batches, and of the lines and runs of recipes, only.

The interleaving inside SQLite is reduced to its single write lock; the write-ahead
log's snapshot upgrade failure is covered by `Busy`, which may abort any waiting write.
