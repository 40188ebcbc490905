------------------------------ MODULE StockSpec ------------------------------
(***************************************************************************)
(* What the stock ledger promises its users, without batches, movements,   *)
(* sessions or journals: every item has an on-hand quantity, a receipt     *)
(* adds to it, an issue takes from it only what is there, a manufacturing  *)
(* run takes all its required components and adds its output in one step,  *)
(* and nothing else changes it.                                            *)
(***************************************************************************)
EXTENDS Integers, Sequences, FiniteSetsExt

CONSTANTS Items,    \* the items of the inventory
          Qtys,     \* the quantities a request may carry
          Runs      \* the manufacturing requests (see InventoryLedger)

VARIABLE onHand     \* [Items -> Nat]

\* Stock arrives: purchase, stock-in or a positive adjustment.
Receive(i, q) == onHand' = [onHand EXCEPT ![i] = @ + q]

\* Stock leaves, and only stock that is there.
Issue(i, q) == /\ q <= onHand[i]
               /\ onHand' = [onHand EXCEPT ![i] = @ - q]

\* What the lines S of a run need of item i.
Needs(run, S, i) ==
  MapThenSumSet(LAMBDA l : run.lines[l].qty,
                {l \in S : run.lines[l].item = i})

\* A run consumes all its required lines, and any of its optional ones, and
\* produces its output: all of it or nothing.
Make(run) ==
  \E S \in SUBSET DOMAIN run.lines :
     /\ \A l \in DOMAIN run.lines : ~run.lines[l].optional => l \in S
     /\ \A i \in Items : Needs(run, S, i) <= onHand[i]
     /\ onHand' = [i \in Items |->
                     onHand[i] - Needs(run, S, i)
                       + (IF i = run.item THEN run.qty ELSE 0)]

Init == onHand \in [Items -> Nat]

Next == \/ \E i \in Items, q \in Qtys : Receive(i, q) \/ Issue(i, q)
        \/ \E run \in Runs : Make(run)

Spec == Init /\ [][Next]_onHand
=============================================================================
