---------------------------- MODULE ItemDialogs ----------------------------
(***************************************************************************)
(* The dialogs of the inventory page (core/ui/js/cards/inventory.js): add  *)
(* an item, with an opening batch or without, edit one, take stock in or   *)
(* out.  A click waits for the session token, posts, and takes the dialog  *)
(* off the page when it is answered; an item is posted before its opening  *)
(* batch.  No button is disabled meanwhile, no request carries a key that  *)
(* would make it safe to repeat, and whatever fails leaves the dialog open *)
(* for another click.                                                      *)
(***************************************************************************)
EXTENDS Naturals, FiniteSets

CONSTANTS Forms,    \* dialogs
          Presses,  \* clicks on their buttons that are under way
          NoForm,   \* a click that is not under way
          NoItem,   \* no item of its own
          MaxMade   \* bound on items made and stock movements

ASSUME ItemDialogsAssumption == NoForm \notin Forms /\ MaxMade \in Nat
                                  /\ NoItem \notin 1 .. MaxMade

FormKinds == {"add", "add_with_batch", "edit", "stock_in", "stock_out"}

VARIABLES
  formKind, \* per dialog: what it is for
  open,     \* per dialog: it is on the page
  press,    \* per click: its dialog, how far it is, and the item it has made
  effects,  \* per dialog: items it made or movements it posted on its own
  made,     \* items made
  openings, \* per item: its opening batches
  hurried,  \* history, per dialog: clicked again before an answer
  troubled  \* history, per dialog: an attempt failed that had had an effect

dialogVars == <<formKind, open, press, effects, made, openings, hurried,
                troubled>>

NoPress == [form |-> NoForm, at |-> "none", item |-> NoItem]

OpenForm(f, k) ==
  /\ ~open[f] /\ \A p \in Presses : press[p].form # f
  /\ formKind' = [formKind EXCEPT ![f] = k]
  /\ open' = [open EXCEPT ![f] = TRUE]
  /\ effects' = [effects EXCEPT ![f] = 0]
  /\ hurried' = [hurried EXCEPT ![f] = FALSE]
  /\ troubled' = [troubled EXCEPT ![f] = FALSE]
  /\ UNCHANGED <<press, made, openings>>

\* Cancel, the backdrop, or leaving the page; what was sent goes on.
CloseForm(f) ==
  /\ open[f]
  /\ open' = [open EXCEPT ![f] = FALSE]
  /\ UNCHANGED <<formKind, press, effects, made, openings, hurried, troubled>>

Press(p, f) ==
  /\ open[f] /\ press[p] = NoPress
  /\ press' = [press EXCEPT ![p] = [form |-> f, at |-> "posted",
                                    item |-> NoItem]]
  /\ hurried' = [hurried EXCEPT ![f] = @ \/ \E q \in Presses :
                                              press[q].form = f]
  /\ UNCHANGED <<formKind, open, effects, made, openings, troubled>>

\* The server does what it is asked: it makes an item, changes one, or books
\* a movement.
ServerPosts(p) ==
  LET f == press[p].form IN
  /\ press[p].at = "posted"
  /\ CASE formKind[f] \in {"add", "add_with_batch"} ->
            /\ made < MaxMade
            /\ made' = made + 1
            /\ press' = [press EXCEPT ![p] = [form |-> f, at |-> "done",
                                              item |-> made + 1]]
            /\ effects' = [effects EXCEPT ![f] = @ + 1]
       [] formKind[f] = "edit" ->
            /\ press' = [press EXCEPT ![p].at = "done"]
            /\ UNCHANGED <<made, effects>>
       [] OTHER ->
            /\ effects[f] < MaxMade
            /\ press' = [press EXCEPT ![p].at = "done"]
            /\ effects' = [effects EXCEPT ![f] = @ + 1]
            /\ UNCHANGED made
  /\ UNCHANGED <<formKind, open, openings, hurried, troubled>>

\* An item that wants an opening batch has it posted next.
AsksForBatch(p) ==
  /\ press[p].at = "done" /\ formKind[press[p].form] = "add_with_batch"
  /\ press' = [press EXCEPT ![p].at = "batch"]
  /\ UNCHANGED <<formKind, open, effects, made, openings, hurried, troubled>>

ServerBatches(p) ==
  /\ press[p].at = "batch"
  /\ openings' = [openings EXCEPT ![press[p].item] = @ + 1]
  /\ press' = [press EXCEPT ![p].at = "batched"]
  /\ UNCHANGED <<formKind, open, effects, made, hurried, troubled>>

Finished(p) ==
  \/ press[p].at = "batched"
  \/ press[p].at = "done" /\ formKind[press[p].form] # "add_with_batch"

\* Mutant: the list is loaded again behind a dialog that stays open.
LeavesOpen(p) ==
  /\ press[p].at # "none" /\ Finished(p)
  /\ press' = [press EXCEPT ![p] = NoPress]
  /\ UNCHANGED <<formKind, open, effects, made, openings, hurried, troubled>>
\* The dialog goes; the list is loaded again.
Succeeds(p) ==
  /\ press[p].at # "none" /\ Finished(p)
  /\ open' = [open EXCEPT ![press[p].form] = FALSE]
  /\ press' = [press EXCEPT ![p] = NoPress]
  /\ UNCHANGED <<formKind, effects, made, openings, hurried, troubled>>

\* No token, a refusal, a batch without a quantity, or an answer that was
\* lost: an error is shown.
FailsOpen(p) ==
  /\ press[p] # NoPress
  /\ press' = [press EXCEPT ![p] = NoPress]
  /\ troubled' = [troubled EXCEPT ![press[p].form] =
                    @ \/ press[p].at # "posted"]
  /\ UNCHANGED <<formKind, open, effects, made, openings, hurried>>

DialogsInit ==
  /\ formKind = [f \in Forms |-> "add"]
  /\ open = [f \in Forms |-> FALSE]
  /\ press = [p \in Presses |-> NoPress]
  /\ effects = [f \in Forms |-> 0] /\ made = 0
  /\ openings = [i \in 1 .. MaxMade |-> 0]
  /\ hurried = [f \in Forms |-> FALSE] /\ troubled = [f \in Forms |-> FALSE]

DialogsNext ==
  \/ \E f \in Forms : CloseForm(f) \/ \E k \in FormKinds : OpenForm(f, k)
  \/ \E p \in Presses : \/ \E f \in Forms : Press(p, f)
                        \/ ServerPosts(p) \/ AsksForBatch(p)
                        \/ ServerBatches(p) \/ Succeeds(p) \/ FailsOpen(p)

DialogsSpec == DialogsInit /\ [][DialogsNext]_dialogVars
-----------------------------------------------------------------------------
(* Properties *)

\* Type invariant of the dialogs, their clicks and what they have done.
DialogsTypeOK ==
  /\ formKind \in [Forms -> FormKinds]
  /\ {open, hurried, troubled} \subseteq [Forms -> BOOLEAN]
  /\ press \in [Presses -> [form : Forms \cup {NoForm},
                            at : {"none", "posted", "done", "batch",
                                  "batched"},
                            item : 1 .. MaxMade \cup {NoItem}]]
  /\ effects \in [Forms -> 0 .. MaxMade] /\ made \in 0 .. MaxMade
  /\ openings \in [1 .. MaxMade -> 0 .. 1]

\* A dialog makes a second item, or books its movement again, only if it was
\* clicked before an answer, or after a failure that hid what had been done.
TwiceOnlyIfRepeated ==
  \A f \in Forms : effects[f] > 1 => hurried[f] \/ troubled[f]
=============================================================================
