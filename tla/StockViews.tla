----------------------------- MODULE StockViews -----------------------------
(***************************************************************************)
(* What the routes of items tell of the stock of one item: how much is on  *)
(* hand, what the next unit costs and, for a single item, its batches      *)
(* (list_items and get_item of core/api/routes/items.py).                  *)
(*                                                                         *)
(* Each of the three is a SELECT of its own.  They are not in one          *)
(* transaction, so that batches may be received or issued between them.    *)
(* An issue loads the batches and later writes what it leaves of them, as  *)
(* InventoryLedger has it in full: one that has loaded them before another *)
(* committed may write more than there is.  The item is not deleted, and   *)
(* the clock not set back: batches are numbered as they are created.       *)
(***************************************************************************)
EXTENDS Naturals

CONSTANTS Viewers,    \* requests that look
          Issuers,    \* requests that issue stock
          MaxBatches, \* bound on batches
          MaxReceived \* bound on what a batch holds

ASSUME StockViewsAssumption == MaxBatches \in Nat /\ MaxReceived \in Nat

Batches    == 1 .. MaxBatches
Quantities == [Batches -> 0 .. MaxReceived]

VARIABLES
  nBatches,
  remaining, \* per batch: qty_remaining
  loaded,    \* per issue: what it has loaded; nothing, if none is under way
  view       \* per request: where it is, what the sum has counted, the batch
             \* that gave the cost, the batches listed; history: whether since
             \* the sum stock has been received or issued, or a batch raised

viewVars == <<nBatches, remaining, loaded, view>>

Nothing == [b \in Batches |-> 0]
NoView  == [at |-> "idle", counted |-> Nothing, costOf |-> 0,
            listed |-> Nothing, received |-> FALSE, raised |-> FALSE,
            issued |-> FALSE]

\* Mutant: the newest batch that has something left.
NewestOpen ==
  {b \in Batches : remaining[b] > 0
                     /\ \A c \in Batches : c > b => remaining[c] = 0}
\* The oldest batch that has something left, if there is one.
OldestOpen ==
  {b \in Batches : remaining[b] > 0
                     /\ \A c \in Batches : c < b => remaining[c] = 0}

\* The views that have begun learn of a change.
Noticed(received, raised, issued) ==
  [v \in Viewers |-> [view[v] EXCEPT !.received = @ \/ received,
                                     !.raised = @ \/ raised,
                                     !.issued = @ \/ issued]]
-----------------------------------------------------------------------------
(* The ledger *)

Receive(n) ==
  /\ nBatches < MaxBatches /\ n > 0
  /\ nBatches' = nBatches + 1
  /\ remaining' = [remaining EXCEPT ![nBatches + 1] = n]
  /\ view' = Noticed(TRUE, FALSE, FALSE)
  /\ UNCHANGED loaded

\* fifo_consume; an earlier issue of i has failed if it was not committed.
LoadBatches(i) ==
  /\ loaded' = [loaded EXCEPT ![i] = remaining]
  /\ UNCHANGED <<nBatches, remaining, view>>

\* Oldest first: of the batches that i has loaded, those older than b are
\* emptied and b keeps k, whatever they hold by now.
Issue(i, b, k) ==
  /\ k < loaded[i][b]
  /\ remaining' = [c \in Batches |->
       IF c = b THEN k
       ELSE IF c < b /\ loaded[i][c] > 0 THEN 0 ELSE remaining[c]]
  /\ loaded' = [loaded EXCEPT ![i] = Nothing]
  /\ view' = Noticed(FALSE, k > remaining[b], TRUE)
  /\ UNCHANGED nBatches
-----------------------------------------------------------------------------
(* A request *)

\* _items_with_onhand, for a row of the list or the single item.
CountOnHand(v) ==
  /\ view[v].at = "idle"
  /\ view' = [view EXCEPT ![v] =
                [NoView EXCEPT !.at = "counted", !.counted = remaining]]
  /\ UNCHANGED <<nBatches, remaining, loaded>>

\* _fifo_unit_cost; the list ends here.
FifoUnitCost(v) ==
  /\ view[v].at = "counted"
  /\ \E b \in OldestOpen \cup {0} :
       /\ b = 0 => OldestOpen = {}
       /\ view' = [view EXCEPT ![v].at = "costed", ![v].costOf = b]
  /\ UNCHANGED <<nBatches, remaining, loaded>>

\* batches_summary.
ListBatches(v) ==
  /\ view[v].at = "costed"
  /\ view' = [view EXCEPT ![v].at = "listed", ![v].listed = remaining]
  /\ UNCHANGED <<nBatches, remaining, loaded>>

\* The request has been answered, or has failed.
Leave(v) ==
  /\ view[v].at # "idle"
  /\ view' = [view EXCEPT ![v] = NoView]
  /\ UNCHANGED <<nBatches, remaining, loaded>>
-----------------------------------------------------------------------------
ViewsInit ==
  /\ nBatches = 0 /\ remaining = Nothing
  /\ loaded = [i \in Issuers |-> Nothing]
  /\ view = [v \in Viewers |-> NoView]

ViewsNext ==
  \/ \E n \in 1 .. MaxReceived : Receive(n)
  \/ \E i \in Issuers :
       \/ LoadBatches(i)
       \/ \E b \in Batches, k \in 0 .. MaxReceived : Issue(i, b, k)
  \/ \E v \in Viewers :
       CountOnHand(v) \/ FifoUnitCost(v) \/ ListBatches(v) \/ Leave(v)

ViewsSpec == ViewsInit /\ [][ViewsNext]_viewVars
-----------------------------------------------------------------------------
(* Properties *)

\* Type invariant of the batches and the requests.
ViewsTypeOK ==
  /\ nBatches \in 0 .. MaxBatches
  /\ remaining \in Quantities /\ loaded \in [Issuers -> Quantities]
  /\ view \in [Viewers ->
       [at : {"idle", "counted", "costed", "listed"},
        counted : Quantities, costOf : 0 .. MaxBatches, listed : Quantities,
        received : BOOLEAN, raised : BOOLEAN, issued : BOOLEAN]]

InStock(q) == \E b \in Batches : q[b] > 0

\* The three answers of a request may be of different moments, and yet: a cost
\* without stock means that stock was received in between, or that an issue
\* wrote back a batch that another had lowered; stock without a cost that some
\* was issued.  If none was issued, the cost is that of the oldest of the
\* batches that were counted, all of them are listed with what was counted, and
\* those listed besides came later.
CostIsOfStock ==
  \A v \in Viewers :
    LET w == view[v]
    IN  w.at \in {"costed", "listed"} =>
          /\ w.costOf # 0 => InStock(w.counted) \/ w.received \/ w.raised
          /\ w.costOf = 0 => ~InStock(w.counted) \/ w.issued
          /\ ~w.issued =>
               \A b \in Batches :
                 w.counted[b] > 0 =>
                   /\ w.costOf \in 1 .. b
                   /\ w.counted[w.costOf] > 0
                   /\ w.at = "listed" => w.listed[b] = w.counted[b]
=============================================================================
