-------------------------- MODULE MCInventoryLedger --------------------------
(***************************************************************************)
(* Constants for model checking InventoryLedger.                           *)
(***************************************************************************)
EXTENDS InventoryLedger, TLC

CONSTANTS w1, w2, raw, product

\* Two batches of the raw item, so that an issue may span a batch boundary.
MCOpening == << [item |-> raw, qty |-> 2], [item |-> raw, qty |-> 1] >>

Line(i, q, opt) == [item |-> i, qty |-> q, optional |-> opt]

\* A recipe with one required line.
PlainRun == [item |-> product, qty |-> 1, lines |-> << Line(raw, 2, FALSE) >>]

\* Two required lines of one item, and an optional line of another.
TwoLineRun ==
  [item |-> product, qty |-> 1,
   lines |-> << Line(raw, 1, FALSE), Line(product, 1, TRUE),
                Line(raw, 1, FALSE) >>]

\* A run that puts back into stock the item it consumes.
ReworkRun == [item |-> raw, qty |-> 1, lines |-> << Line(raw, 2, FALSE) >>]

\* The same item as a required and as an optional component.
SharedRun ==
  [item |-> product, qty |-> 1,
   lines |-> << Line(raw, 2, FALSE), Line(raw, 2, TRUE) >>]

MCRuns     == {PlainRun, TwoLineRun}
MCAllRuns  == {PlainRun, TwoLineRun, ReworkRun}
MCShared   == {SharedRun}

\* With one worker the ledger implements StockSpec.
Stock == INSTANCE StockSpec WITH onHand <- [i \in Items |-> OnHand(i)]
StockAtomic == Stock!Spec

WorkerSymmetry == Permutations(Workers)
=============================================================================
