-------------------------------- MODULE Fifo --------------------------------
(***************************************************************************)
(* The arithmetic of first-in first-out stock consumption, as fifo_consume *)
(* (core/appdb/ledger.py) and fifo.allocate (core/manufacturing/service.py)*)
(* compute it.  Batches are numbered 1..n in the order in which the two    *)
(* loops visit them (created_at, then id), and avail[b] is what batch b    *)
(* offers: its qty_remaining, or 0 when the query does not select it.      *)
(***************************************************************************)
EXTENDS Integers

Least(a, b) == IF a <= b THEN a ELSE b

(***************************************************************************)
(* SUM(f) over the batches 1..n, as SQL's COALESCE(SUM(...), 0).           *)
(***************************************************************************)
SumTo(f, n) ==
  LET sum[k \in 0..n] == IF k = 0 THEN 0 ELSE sum[k - 1] + f[k]
  IN  sum[n]

(***************************************************************************)
(* The loop variable "remaining" after the loop has passed batch n: each   *)
(* batch gives min(qty_remaining, remaining), so a batch visited when      *)
(* nothing remains gives nothing (the loop's break).                       *)
(***************************************************************************)
LeftAfter(avail, qty, n) ==
  LET left[k \in 0..n] ==
        IF k = 0 THEN qty ELSE left[k - 1] - Least(avail[k], left[k - 1])
  IN  left[n]

\* Mutant: the newest batch first.
NewestFirst(avail, qty, n) ==
  [b \in 1..n |-> Least(avail[b], LeftAfter([k \in 1..n |-> avail[n + 1 - k]],
                                            qty, n - b))]

(***************************************************************************)
(* What the loop takes from each of the batches 1..n.                      *)
(***************************************************************************)
FifoTake(avail, qty, n) ==
  [b \in 1..n |-> Least(avail[b], LeftAfter(avail, qty, b - 1))]
=============================================================================
