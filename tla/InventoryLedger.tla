--------------------------- MODULE InventoryLedger ---------------------------
(***************************************************************************)
(* The stock ledger of TGC BUS Core: the tables items, item_batches,       *)
(* item_movements and manufacturing_runs, the journals inventory.jsonl and *)
(* manufacturing.jsonl, and the request handlers that change them          *)
(* (core/api/routes/ledger_api.py, core/api/routes/manufacturing.py and    *)
(* the quantity part of core/api/routes/items.py and core/api/http.py).    *)
(*                                                                         *)
(* Handlers run concurrently: FastAPI runs every plain "def" handler in a  *)
(* thread pool, and the one "async def" handler, /manufacturing/run, on    *)
(* the event loop.  Each has its own SQLAlchemy session on its own SQLite  *)
(* connection (core/appdb/engine.py).  The driver opens a transaction only *)
(* before the first INSERT, UPDATE or DELETE, so what a handler SELECTs    *)
(* before its first flush is read outside any transaction, one statement   *)
(* at a time, and may be old by the time it commits; from its first flush  *)
(* to its commit a handler holds SQLite's write lock.  An ORM flush writes *)
(* the absolute value computed from what was read.  Hence one action per   *)
(* SELECT made before the first flush, and one for the transaction.        *)
(***************************************************************************)
EXTENDS Integers, Sequences, FiniteSets, Fifo

CONSTANTS
  Items,        \* the rows of items
  Workers,      \* the threads (and the event loop) that serve requests
  Qtys,         \* the quantities requests carry, in base units
  Runs,         \* the manufacturing requests: [item, qty, lines]
  Kinds,        \* the kinds of request that arrive (a subset of AllKinds)
  Faults,       \* what may go wrong, a subset of {"crash", "io", "busy"}
  Opening,      \* the batches that exist at the start: <<[item, qty], ...>>
  MaxBatches,   \* bound on the batches ever created
  MaxRequests,  \* bound on the requests ever served
  NoItem,       \* no item
  Nobody        \* no worker

InKinds  == {"purchase", "adjust_up"}
OutKinds == {"consume", "stock_out", "adjust_down"}
AllKinds == InKinds \cup OutKinds
              \cup {"stock_in", "run", "inventory_run", "item_put"}

Batch   == 1 .. MaxBatches
Request == 1 .. MaxRequests
Zero    == [b \in Batch |-> 0]

\* A line of a manufacturing request, quantities already scaled by k.
Lines == Seq([item : Items, qty : Nat, optional : BOOLEAN])

ASSUME BoundsAssumption ==
  /\ MaxBatches \in Nat
  /\ MaxRequests \in Nat
  /\ Len(Opening) <= MaxBatches
  /\ NoItem \notin Items
  /\ Nobody \notin Workers

ASSUME RequestAssumption ==
  /\ Qtys \subseteq Nat \ {0}
  /\ Kinds \subseteq AllKinds
  /\ Faults \subseteq {"crash", "io", "busy"}
  /\ Runs \subseteq [item : Items, qty : Nat \ {0}, lines : Lines]
  /\ Opening \in Seq([item : Items, qty : Nat \ {0}])

VARIABLES
  \* the committed database
  nBatches,     \* item_batches holds the rows 1 .. nBatches, oldest first
  itemOf,       \* item_batches.item_id
  initial,      \* item_batches.qty_initial
  remaining,    \* item_batches.qty_remaining
  moved,        \* SUM(item_movements.qty_change) of the batch's movements
  stored,       \* items.qty_stored
  \* requests
  log,          \* what became of each request: its kind and status
  nRequests,    \* requests that have arrived
  journal,      \* the requests with a line in a journal file
  writer,       \* the worker inside a write transaction, or Nobody
  \* the sessions of the workers
  pc,           \* the next statement of the handler
  op,           \* the request's body
  req,          \* the request's number
  seen,         \* qty_remaining of the ItemBatch objects the session loaded
  taken,        \* what the session has taken from them, not yet flushed
  base,         \* items.qty_stored as the session loaded it
  line,         \* a run's next component line
  \* history
  acked,        \* net quantity of the requests committed, per item
  fresh,        \* no commit touched the session's item since it read it
  clobbered,    \* items that a commit wrote from values no longer current
  rewritten,    \* items whose qty_stored was set outside the ledger
  lost          \* requests whose handler died at, or failed, its append

db   == <<nBatches, itemOf, initial, remaining, moved, stored>>
sess == <<pc, op, req, seen, taken, base, line>>
vars == <<db, log, nRequests, journal, writer, sess,
          acked, fresh, clobbered, rewritten, lost>>

PCs == {"idle", "batches", "item", "commit", "insert", "begin", "alloc",
        "record", "put", "journal"}
Statuses == {"none", "open", "committed", "rejected", "aborted",
             "failed_insufficient_stock"}
NoOp == [kind |-> "none", item |-> NoItem, qty |-> 0, lines |-> << >>]

\* The body of a request on one item.
Body(kind, i, q) == [kind |-> kind, item |-> i, qty |-> q, lines |-> << >>]
-----------------------------------------------------------------------------
(* Queries *)

Rows == 1 .. nBatches

\* The quantities f of the batches of item i, as a query filtered by item_id.
OfItem(f, i) == [b \in Batch |-> IF itemOf[b] = i THEN f[b] ELSE 0]

SumOf(f, i) == SumTo(OfItem(f, i), MaxBatches)

\* on_hand_qty: SUM(qty_remaining) over the committed batches of the item.
OnHand(i) == SumOf(remaining, i)
-----------------------------------------------------------------------------
(* Sessions *)

\* A worker takes the next request; kind is logged with it.
Arrive(w, kind) ==
  /\ pc[w] = "idle"
  /\ kind \in Kinds
  /\ nRequests < MaxRequests
  /\ nRequests' = nRequests + 1
  /\ req' = [req EXCEPT ![w] = nRequests + 1]

\* Mutant: the session is emptied but its handler goes on.
EndSessionOnly(w) ==
  /\ op' = [op EXCEPT ![w] = NoOp]
  /\ seen' = [seen EXCEPT ![w] = Zero]
  /\ taken' = [taken EXCEPT ![w] = Zero]
  /\ base' = [base EXCEPT ![w] = 0]
  /\ line' = [line EXCEPT ![w] = 0]
  /\ UNCHANGED pc

\* The request ends: the response is sent and the session is closed.
EndSession(w) ==
  /\ pc' = [pc EXCEPT ![w] = "idle"]
  /\ op' = [op EXCEPT ![w] = NoOp]
  /\ seen' = [seen EXCEPT ![w] = Zero]
  /\ taken' = [taken EXCEPT ![w] = Zero]
  /\ base' = [base EXCEPT ![w] = 0]
  /\ line' = [line EXCEPT ![w] = 0]

\* Mutant: the append is forgotten.
NoJournal(w) == EndSession(w)

\* The request goes on to its journal append, its session is done with.
ToJournal(w) ==
  /\ pc' = [pc EXCEPT ![w] = "journal"]
  /\ op' = [op EXCEPT ![w] = NoOp]
  /\ seen' = [seen EXCEPT ![w] = Zero]
  /\ taken' = [taken EXCEPT ![w] = Zero]
  /\ base' = [base EXCEPT ![w] = 0]
  /\ line' = [line EXCEPT ![w] = 0]

LogAs(r, kind, status) ==
  log' = [log EXCEPT ![r] = [kind |-> kind, status |-> status]]

\* SQLite lets a transaction write when no other one holds the write lock.
CanWrite(w) == writer \in {Nobody, w}

\* Mutant: reads are not preceded by a flush, so nothing is locked.
NoLock(w) == writer = Nobody /\ UNCHANGED writer

\* A flush that stays uncommitted takes the lock; commit and rollback free it.
TakeLock(w) == writer = Nobody /\ writer' = w

\* Mutant: the transaction is left open.
KeepLock(w) == UNCHANGED writer

ReleaseLock(w) == writer' = Nobody

\* History: a commit of worker w touches the items S; others that have read
\* them now hold old values.
Touch(w, S) ==
  fresh' = [v \in Workers |-> \/ v = w
                              \/ fresh[v] /\ op[v].item \notin S]

\* INSERT INTO item_batches of a new, full batch, with its movement.
NewBatch(i, q, rem, mov) ==
  /\ nBatches < MaxBatches
  /\ nBatches' = nBatches + 1
  /\ itemOf' = [itemOf EXCEPT ![nBatches + 1] = i]
  /\ initial' = [initial EXCEPT ![nBatches + 1] = q]
  /\ remaining' = [rem EXCEPT ![nBatches + 1] = q]
  /\ moved' = [mov EXCEPT ![nBatches + 1] = q]
-----------------------------------------------------------------------------
(* Receipts.  add_batch INSERTs the batch and flushes before it reads the  *)
(* item, so the whole of it runs under the write lock.                     *)

Purchase(w, kind, i, q) ==
  /\ kind \in InKinds
  /\ Arrive(w, kind)
  /\ writer = Nobody
  /\ NewBatch(i, q, remaining, moved)
  /\ stored' = [stored EXCEPT ![i] = @ + q]
  /\ acked' = [acked EXCEPT ![i] = @ + q]
  /\ LogAs(nRequests + 1, kind, "committed")
  /\ Touch(w, {i})
  /\ ToJournal(w)
  /\ UNCHANGED <<journal, lost, writer, clobbered, rewritten>>

\* stock_in loads the item with db.get before it opens the transaction ...
StockInRead(w, i, q) ==
  /\ Arrive(w, "stock_in")
  /\ op' = [op EXCEPT ![w] = Body("stock_in", i, q)]
  /\ base' = [base EXCEPT ![w] = stored[i]]
  /\ fresh' = [fresh EXCEPT ![w] = TRUE]
  /\ pc' = [pc EXCEPT ![w] = "insert"]
  /\ LogAs(nRequests + 1, "stock_in", "open")
  /\ UNCHANGED <<db, journal, lost, writer, seen, taken, line,
                 acked, clobbered, rewritten>>

\* ... and writes qty_stored computed from it.  It appends to no journal.
StockInCommit(w) ==
  LET i == op[w].item
      q == op[w].qty
  IN  /\ pc[w] = "insert"
      /\ CanWrite(w)
      /\ NewBatch(i, q, remaining, moved)
      /\ stored' = [stored EXCEPT ![i] = base[w] + q]
      /\ acked' = [acked EXCEPT ![i] = @ + q]
      /\ clobbered' = IF fresh[w] THEN clobbered ELSE clobbered \cup {i}
      /\ LogAs(req[w], "stock_in", "committed")
      /\ Touch(w, {i})
      /\ EndSession(w)
      /\ UNCHANGED <<nRequests, journal, lost, writer, req, rewritten>>
-----------------------------------------------------------------------------
(* Issues: consume, stock_out and the negative side of adjust_stock, all   *)
(* through fifo_consume, whose three SELECTs precede the transaction.      *)

\* SELECT SUM(qty_remaining): 400 when it is short of the request.
SumStock(w, kind, i, q) ==
  /\ kind \in OutKinds
  /\ Arrive(w, kind)
  /\ IF OnHand(i) < q
     THEN /\ LogAs(nRequests + 1, kind, "rejected")
          /\ UNCHANGED <<pc, op>>
     ELSE /\ LogAs(nRequests + 1, kind, "open")
          /\ pc' = [pc EXCEPT ![w] = "batches"]
          /\ op' = [op EXCEPT ![w] = Body(kind, i, q)]
  /\ UNCHANGED <<db, journal, lost, writer, seen, taken, base, line,
                 acked, fresh, clobbered, rewritten>>

\* Mutant: the second check, after the walk, is left out.
NeverShort(avail, qty) == FALSE

\* The walk over the batches ends with something still to take.
Short(avail, qty) == LeftAfter(avail, qty, MaxBatches) > 0

\* SELECT the batches with stock, walk them oldest first; 400 when what they
\* hold no longer covers the request (the SUM was another statement).
ReadBatches(w) ==
  LET avail == OfItem(remaining, op[w].item)
  IN  /\ pc[w] = "batches"
      /\ IF Short(avail, op[w].qty)
         THEN /\ LogAs(req[w], op[w].kind, "rejected")
              /\ EndSession(w)
              /\ UNCHANGED fresh
         ELSE /\ pc' = [pc EXCEPT ![w] = "item"]
              /\ seen' = [seen EXCEPT ![w] = avail]
              /\ taken' = [taken EXCEPT ![w] =
                             FifoTake(avail, op[w].qty, MaxBatches)]
              /\ fresh' = [fresh EXCEPT ![w] = TRUE]
              /\ UNCHANGED <<log, op, base, line>>
      /\ UNCHANGED <<db, nRequests, journal, lost, writer, req,
                     acked, clobbered, rewritten>>

\* session.get(Item): the qty_stored the new value is computed from.
ReadItem(w) ==
  /\ pc[w] = "item"
  /\ base' = [base EXCEPT ![w] = stored[op[w].item]]
  /\ pc' = [pc EXCEPT ![w] = "commit"]
  /\ UNCHANGED <<db, log, nRequests, journal, lost, writer, op, req, seen,
                 taken, line, acked, fresh, clobbered, rewritten>>

\* Mutant: a batch that is only partly used is not written back.
WrittenIfEmptied(w) ==
  [b \in Batch |-> IF taken[w][b] > 0 /\ taken[w][b] = seen[w][b]
                   THEN 0 ELSE remaining[b]]

\* The rows that have changed in memory are written as they are there.
Written(w) ==
  [b \in Batch |-> IF taken[w][b] > 0 THEN seen[w][b] - taken[w][b]
                                      ELSE remaining[b]]

\* db.commit(): UPDATE each batch taken from to the value computed from what
\* was read, INSERT the movements, UPDATE the item likewise.
IssueCommit(w) ==
  LET i == op[w].item
  IN  /\ pc[w] = "commit"
      /\ CanWrite(w)
      /\ remaining' = Written(w)
      /\ moved' = [b \in Batch |-> moved[b] - taken[w][b]]
      /\ stored' = [stored EXCEPT ![i] = base[w] - op[w].qty]
      /\ acked' = [acked EXCEPT ![i] = @ - op[w].qty]
      /\ clobbered' = IF fresh[w] THEN clobbered ELSE clobbered \cup {i}
      /\ LogAs(req[w], op[w].kind, "committed")
      /\ Touch(w, {i})
      /\ ToJournal(w)
      /\ UNCHANGED <<nBatches, itemOf, initial, nRequests, journal, lost,
                     writer, req, rewritten>>
-----------------------------------------------------------------------------
(* Manufacturing runs.  The handler is async and never awaits, so one run  *)
(* at a time is between its first and its last step.                       *)

LoopIsFree == \A v \in Workers : pc[v] # "idle" => log[req[v]].kind # "run"

\* validate_run: every required line against the stock on hand.  A shortage
\* is recorded as a failed run, otherwise the run is executed.
ValidateRun(w, run) ==
  LET short == \E l \in DOMAIN run.lines :
                  /\ ~run.lines[l].optional
                  /\ OnHand(run.lines[l].item) < run.lines[l].qty
  IN  /\ Arrive(w, "run")
      /\ LoopIsFree
      /\ op' = [op EXCEPT ![w] = [kind |-> "run", item |-> run.item,
                                  qty |-> run.qty, lines |-> run.lines]]
      /\ pc' = [pc EXCEPT ![w] = IF short THEN "record" ELSE "begin"]
      /\ LogAs(nRequests + 1, "run", "open")
      /\ UNCHANGED <<db, journal, lost, writer, seen, taken, base, line,
                     acked, fresh, clobbered, rewritten>>

\* INSERT INTO manufacturing_runs and flush: the write lock is taken, and
\* every batch and item read from here to the commit is current.
BeginRun(w) ==
  /\ pc[w] = "begin"
  /\ TakeLock(w)
  /\ seen' = [seen EXCEPT ![w] = remaining]
  /\ line' = [line EXCEPT ![w] = 1]
  /\ pc' = [pc EXCEPT ![w] = "alloc"]
  /\ UNCHANGED <<db, log, nRequests, journal, lost, op, req, taken, base,
                 acked, fresh, clobbered, rewritten>>

\* Mutant: the query's values, without what the run has taken already.
AllCommitted(w, i) == OfItem(remaining, i)

\* What fifo.allocate finds for item i: the rows whose committed
\* qty_remaining is positive, with the values the session holds in memory.
Unallocated(w, i) ==
  [b \in Batch |-> IF itemOf[b] = i /\ remaining[b] > 0
                   THEN seen[w][b] - taken[w][b] ELSE 0]

\* One turn of the loop over the component lines.  A line of quantity 0 is
\* skipped, and so is an optional line that the committed stock does not
\* cover; on_hand_qty is a query, and does not see what this run has taken.
\* A line that cannot be allocated raises InsufficientStock: rollback.
AllocateLine(w) ==
  LET l     == op[w].lines[line[w]]
      avail == Unallocated(w, l.item)
      skip  == \/ l.qty = 0
               \/ l.optional /\ OnHand(l.item) < l.qty
      short == Short(avail, l.qty)
  IN  /\ pc[w] = "alloc"
      /\ line[w] \in DOMAIN op[w].lines
      /\ \/ /\ skip
            /\ line' = [line EXCEPT ![w] = @ + 1]
            /\ UNCHANGED <<pc, taken, writer, seen>>
         \/ /\ ~skip
            /\ short
            /\ pc' = [pc EXCEPT ![w] = "record"]
            /\ ReleaseLock(w)
            /\ seen' = [seen EXCEPT ![w] = Zero]
            /\ taken' = [taken EXCEPT ![w] = Zero]
            /\ line' = [line EXCEPT ![w] = 0]
         \/ /\ ~skip
            /\ ~short
            /\ taken' = [taken EXCEPT ![w] =
                 LET take == FifoTake(avail, l.qty, MaxBatches)
                 IN  [b \in Batch |-> taken[w][b] + take[b]]]
            /\ line' = [line EXCEPT ![w] = @ + 1]
            /\ UNCHANGED <<pc, writer, seen>>
      /\ UNCHANGED <<db, log, nRequests, journal, lost, op, req, base,
                     acked, fresh, clobbered, rewritten>>

\* Mutant: only the output's qty_stored is adjusted.
OutputOnly(w) ==
  [i \in Items |-> IF i = op[w].item THEN op[w].qty ELSE 0]

\* What a run adds to each item: its output, less what was consumed.
NetOf(w) ==
  [i \in Items |-> (IF i = op[w].item THEN op[w].qty ELSE 0)
                     - SumOf(taken[w], i)]

\* The movements, the output batch and the new qty_stored of every item are
\* written and the run is committed as "completed".
RunCommit(w) ==
  LET out == op[w].item
  IN  /\ pc[w] = "alloc"
      /\ line[w] = Len(op[w].lines) + 1
      /\ NewBatch(out, op[w].qty, Written(w),
                  [b \in Batch |-> moved[b] - taken[w][b]])
      /\ stored' = [i \in Items |-> stored[i] + NetOf(w)[i]]
      /\ acked' = [i \in Items |-> acked[i] + NetOf(w)[i]]
      /\ ReleaseLock(w)
      /\ LogAs(req[w], "run", "committed")
      /\ Touch(w, {i \in Items : i = out \/ SumOf(taken[w], i) > 0})
      /\ ToJournal(w)
      /\ UNCHANGED <<nRequests, journal, lost, req, clobbered, rewritten>>

\* _record_failed_run: the shortage is kept as a run of its own status.
RecordFailedRun(w) ==
  /\ pc[w] = "record"
  /\ CanWrite(w)
  /\ LogAs(req[w], "run", "failed_insufficient_stock")
  /\ EndSession(w)
  /\ UNCHANGED <<db, nRequests, journal, lost, writer, req,
                 acked, fresh, clobbered, rewritten>>
-----------------------------------------------------------------------------
(* Two endpoints change items.qty_stored without going through batches.    *)

\* POST /app/inventory/run: a raw transaction adds outputs minus inputs.
InventoryRun(w, from, to, q) ==
  /\ Arrive(w, "inventory_run")
  /\ writer = Nobody
  /\ stored' = [i \in Items |-> stored[i] + (IF i = to THEN q ELSE 0)
                                          - (IF i = from THEN q ELSE 0)]
  /\ rewritten' = rewritten \cup {from, to}
  /\ LogAs(nRequests + 1, "inventory_run", "committed")
  /\ ToJournal(w)
  /\ UNCHANGED <<nBatches, itemOf, initial, remaining, moved, journal,
                 lost, writer, acked, fresh, clobbered>>

\* PUT /app/items/{id} with a quantity: the item is loaded ...
ItemPutRead(w, i, q) ==
  /\ Arrive(w, "item_put")
  /\ op' = [op EXCEPT ![w] = Body("item_put", i, q)]
  /\ base' = [base EXCEPT ![w] = stored[i]]
  /\ pc' = [pc EXCEPT ![w] = "put"]
  /\ LogAs(nRequests + 1, "item_put", "open")
  /\ UNCHANGED <<db, journal, lost, writer, seen, taken, line,
                 acked, fresh, clobbered, rewritten>>

\* ... and qty_stored is set, when it differs from what was loaded.
ItemPutCommit(w) ==
  LET i == op[w].item
  IN  /\ pc[w] = "put"
      /\ CanWrite(w)
      /\ IF op[w].qty = base[w]
         THEN UNCHANGED <<stored, rewritten>>
         ELSE /\ stored' = [stored EXCEPT ![i] = op[w].qty]
              /\ rewritten' = rewritten \cup {i}
      /\ LogAs(req[w], "item_put", "committed")
      /\ EndSession(w)
      /\ UNCHANGED <<nBatches, itemOf, initial, remaining, moved, nRequests,
                     journal, lost, writer, req, acked, fresh, clobbered>>
-----------------------------------------------------------------------------
(* Journals and faults *)

\* The line is appended after the commit; a failing append is swallowed.
AppendJournal(w) ==
  /\ pc[w] = "journal"
  /\ \/ journal' = journal \cup {req[w]} /\ UNCHANGED lost
     \/ "io" \in Faults /\ lost' = lost \cup {req[w]} /\ UNCHANGED journal
  /\ EndSession(w)
  /\ UNCHANGED <<db, log, nRequests, writer, req,
                 acked, fresh, clobbered, rewritten>>

\* "database is locked": SQLite gives up waiting for the write lock, the
\* handler raises and closing the session rolls it back.
Busy(w) ==
  /\ "busy" \in Faults
  /\ pc[w] \in {"commit", "insert", "begin", "record", "put"}
  /\ ~CanWrite(w)
  /\ LogAs(req[w], op[w].kind, "aborted")
  /\ EndSession(w)
  /\ UNCHANGED <<db, nRequests, journal, lost, writer, req,
                 acked, fresh, clobbered, rewritten>>

\* The process dies and starts again: sessions and their unflushed or
\* uncommitted work are gone, the committed database and the journals stay.
Crash ==
  /\ "crash" \in Faults
  /\ \E w \in Workers : pc[w] # "idle"
  /\ pc' = [w \in Workers |-> "idle"]
  /\ op' = [w \in Workers |-> NoOp]
  /\ seen' = [w \in Workers |-> Zero]
  /\ taken' = [w \in Workers |-> Zero]
  /\ base' = [w \in Workers |-> 0]
  /\ line' = [w \in Workers |-> 0]
  /\ writer' = Nobody
  /\ lost' = lost \cup {req[w] : w \in {v \in Workers : pc[v] = "journal"}}
  /\ UNCHANGED <<db, log, nRequests, journal, req,
                 acked, fresh, clobbered, rewritten>>
-----------------------------------------------------------------------------
Init ==
  /\ nBatches = Len(Opening)
  /\ itemOf = [b \in Batch |-> IF b <= Len(Opening) THEN Opening[b].item
                                                    ELSE NoItem]
  /\ initial = [b \in Batch |-> IF b <= Len(Opening) THEN Opening[b].qty
                                                     ELSE 0]
  /\ remaining = initial
  /\ moved = initial
  /\ stored = [i \in Items |-> SumOf(initial, i)]
  /\ acked = stored
  /\ log = [r \in Request |-> [kind |-> "none", status |-> "none"]]
  /\ nRequests = 0
  /\ journal = {}
  /\ writer = Nobody
  /\ pc = [w \in Workers |-> "idle"]
  /\ op = [w \in Workers |-> NoOp]
  /\ req = [w \in Workers |-> 0]
  /\ seen = [w \in Workers |-> Zero]
  /\ taken = [w \in Workers |-> Zero]
  /\ base = [w \in Workers |-> 0]
  /\ line = [w \in Workers |-> 0]
  /\ fresh = [w \in Workers |-> TRUE]
  /\ clobbered = {}
  /\ rewritten = {}
  /\ lost = {}

\* A request arrives at worker w.
NewRequest(w) ==
  \/ \E i \in Items, q \in Qtys :
       \/ \E kind \in Kinds : Purchase(w, kind, i, q)
       \/ \E kind \in Kinds : SumStock(w, kind, i, q)
       \/ StockInRead(w, i, q)
       \/ ItemPutRead(w, i, q)
       \/ \E to \in Items : InventoryRun(w, i, to, q)
  \/ \E run \in Runs : ValidateRun(w, run)

\* Worker w goes on with the request it serves.
Continue(w) ==
  \/ StockInCommit(w)
  \/ ReadBatches(w) \/ ReadItem(w) \/ IssueCommit(w)
  \/ BeginRun(w) \/ AllocateLine(w) \/ RunCommit(w) \/ RecordFailedRun(w)
  \/ ItemPutCommit(w)
  \/ AppendJournal(w)
  \/ Busy(w)

Next == \/ \E w \in Workers : NewRequest(w) \/ Continue(w)
        \/ Crash

Spec == Init /\ [][Next]_vars

\* A thread that is serving a request is scheduled again: fairness of each
\* worker's own steps, none for the arrival of requests or for faults.
FairSpec == Spec /\ \A w \in Workers : WF_vars(Continue(w))

\* What the required lines of a run need of item i, all together.
RequiredOf(lines, i) ==
  LET need[n \in 0 .. Len(lines)] ==
        IF n = 0 THEN 0
        ELSE need[n - 1] + (IF lines[n].item = i /\ ~lines[n].optional
                            THEN lines[n].qty ELSE 0)
  IN  need[Len(lines)]

-----------------------------------------------------------------------------
(* Types *)

DbType ==
  /\ nBatches \in 0 .. MaxBatches
  /\ itemOf \in [Batch -> Items \cup {NoItem}]
  /\ initial \in [Batch -> Nat]
  /\ remaining \in [Batch -> Int]
  /\ moved \in [Batch -> Int]
  /\ stored \in [Items -> Int]

LogEntry == [kind : AllKinds \cup {"none"}, status : Statuses]

LogType ==
  /\ log \in [Request -> LogEntry]
  /\ nRequests \in 0 .. MaxRequests
  /\ journal \subseteq Request
  /\ writer \in Workers \cup {Nobody}

Operation == [kind : AllKinds \cup {"none"}, qty : Nat,
              item : Items \cup {NoItem}, lines : Lines]

SessionType ==
  /\ pc \in [Workers -> PCs]
  /\ op \in [Workers -> Operation]
  /\ req \in [Workers -> 0 .. MaxRequests]
  /\ seen \in [Workers -> [Batch -> Int]]
  /\ taken \in [Workers -> [Batch -> Int]]
  /\ base \in [Workers -> Int]
  /\ line \in [Workers -> Nat]
  /\ \A w \in Workers : \/ pc[w] \in {"idle", "journal"}
                        \/ op[w].item \in Items /\ op[w].kind \in AllKinds
  /\ \A w \in Workers : pc[w] = "idle" \/ req[w] \in Request

HistoryType ==
  /\ acked \in [Items -> Int]
  /\ fresh \in [Workers -> BOOLEAN]
  /\ clobbered \subseteq Items
  /\ rewritten \subseteq Items
  /\ lost \subseteq Request
-----------------------------------------------------------------------------
(* What the properties below rest on: together, an inductive invariant *)

Active(w) == pc[w] # "idle"

\* A request belongs to one worker, which is past its commit exactly when it
\* is about to append to a journal; no journal line is ahead of the requests.
LogInv ==
  /\ \A w \in Workers : Active(w) =>
        /\ req[w] \in 1 .. nRequests
        /\ log[req[w]].status = IF pc[w] = "journal" THEN "committed"
                                                     ELSE "open"
  /\ \A v, w \in Workers : v # w /\ Active(v) /\ Active(w) => req[v] # req[w]
  /\ journal \subseteq 1 .. nRequests

\* Only a run keeps the write lock from one step to the next.
LockInv == \A w \in Workers : pc[w] = "alloc" <=> writer = w

\* Rows not yet inserted hold nothing and belong to no item.
RowInv ==
  \A b \in Batch : b > nBatches =>
     itemOf[b] = NoItem /\ initial[b] = 0 /\ remaining[b] = 0 /\ moved[b] = 0

\* What a session has in memory of the batches of its item is within what
\* was received, and it takes from no other batch and no more than it saw.
Loaded(w) ==
  \A b \in Batch :
     /\ 0 <= taken[w][b] /\ taken[w][b] <= seen[w][b]
     /\ seen[w][b] <= initial[b]
     /\ taken[w][b] > 0 => itemOf[b] = op[w].item

LoadInv == \A w \in Workers : pc[w] \in {"item", "commit"} => Loaded(w)

\* A run in its transaction has the committed rows in memory.
Allocating(w) ==
  /\ seen[w] = remaining
  /\ \A b \in Batch : 0 <= taken[w][b] /\ taken[w][b] <= remaining[b]

RunInv == \A w \in Workers : pc[w] = "alloc" => Allocating(w)

\* Only a handler between its load and its commit has taken anything.
CleanInv ==
  \A w \in Workers :
     pc[w] \notin {"item", "commit", "alloc"} => taken[w] = Zero

\* A session no commit has overlapped still has the committed values.
Current(w) ==
  /\ pc[w] \in {"item", "commit"} =>
       \A b \in Batch : itemOf[b] = op[w].item => seen[w][b] = remaining[b]
  /\ pc[w] \in {"commit", "insert"} /\ op[w].item \notin rewritten =>
       base[w] = stored[op[w].item]

FreshInv == \A w \in Workers : fresh[w] => Current(w)
-----------------------------------------------------------------------------
(* Properties *)

\* Every variable keeps its type.
TypeOK ==
  /\ DbType
  /\ LogType
  /\ SessionType
  /\ HistoryType

\* However requests interleave, a batch never holds less than nothing or more
\* than was received: the absolute values that fifo_consume and
\* execute_run_txn write come from a load that was itself in bounds.
BatchBounds ==
  \A b \in Batch : 0 <= remaining[b] /\ remaining[b] <= initial[b]

\* A batch's qty_remaining is the sum of its movements, unless a request on
\* its item committed values another commit had meanwhile made old: the
\* overlap of two read-then-write windows is the only source of drift.
DriftOnlyByOverlap ==
  \A b \in Rows : itemOf[b] \notin clobbered => remaining[b] = moved[b]

\* The two copies of the on-hand quantity agree (what health_summary of
\* core/ledger/health.py tests), unless requests overlapped on the item or an
\* endpoint rewrote items.qty_stored without going through the batches.
StoredMatchesBatches ==
  \A i \in Items \ (clobbered \cup rewritten) : stored[i] = OnHand(i)

\* The movements of an item add up to the quantities of the requests that
\* were acknowledged: none is partial, doubled or dropped, even when
\* qty_remaining itself is overwritten.
MovementsMatchRequests ==
  \A i \in Items : SumOf(moved, i) = acked[i]

\* What a session is about to write as an issue is the whole request, taken
\* from the loaded batches oldest first ("400 if insufficient on-hand; no
\* partials", ledger_api.py), also when the stock changed after the SUM.
IssueIsFifo ==
  \A w \in Workers : pc[w] \in {"item", "commit"} =>
     /\ SumOf(taken[w], op[w].item) = op[w].qty
     /\ \A b \in Batch : taken[w][b] \in 0 .. seen[w][b]
     /\ \A a, b \in Batch : a < b /\ taken[w][b] > 0 => taken[w][a] = seen[w][a]

\* A manufacturing run takes only stock that is there when it commits: from
\* its first flush no other commit can get between its reads and its writes.
RunNeverOversells ==
  \A w \in Workers : pc[w] = "alloc" =>
     \A b \in Batch : 0 <= taken[w][b] /\ taken[w][b] <= remaining[b]

\* A journal line is a receipt of a committed request: none for a request
\* that was refused, rolled back or lost in a crash before its commit.
JournalAfterCommit ==
  \A r \in journal : log[r].status = "committed"

\* Stock on hand is never spent twice: the acknowledged requests on an item
\* do not take more than was received ("no oversold from adjustments").
NeverOversold == \A i \in Items : acked[i] >= 0

\* When nothing is in flight the journals hold a line for every committed
\* change of stock and for nothing else.  The exceptions: a stock_in and a PUT
\* of an item's quantity never write one, and there is none for a request
\* whose append failed or whose process died after the commit and before the
\* append (lost): nothing appends it later.
JournalCoversStockChanges ==
  (\A w \in Workers : pc[w] = "idle") =>
     journal \cup lost =
       {r \in Request : /\ log[r].status = "committed"
                        /\ log[r].kind \notin {"item_put", "stock_in"}}

\* A run is recorded as failed only when its required lines, taken together,
\* need more of some item than there is ("optional components never block").
OptionalNeverBlocks ==
  \A w \in Workers : pc[w] = "record" =>
     \E i \in Items : RequiredOf(op[w].lines, i) > OnHand(i)

\* A request that arrived is answered: the wait for the write lock ends, by
\* the lock's release or by SQLite's timeout.
RequestsAnswered ==
  \A w \in Workers : pc[w] # "idle" ~> pc[w] = "idle"
=============================================================================
