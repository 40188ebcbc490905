------------------------------ MODULE Contacts ------------------------------
(***************************************************************************)
(* The contacts page (core/ui/js/cards/vendors.js).  Each key typed into   *)
(* the search field and each role button loads the list anew; so does a    *)
(* save or a delete once it has been answered.  A load fetches the list    *)
(* and then the organizations, and paints whatever the page holds by then; *)
(* no load is cancelled and no answer is compared with the filter.         *)
(***************************************************************************)
EXTENDS Naturals

CONSTANTS Filters,    \* what may be searched for
          AllRows,    \* the filter at first
          Broken,     \* a list emptied by an error
          Dialogs,    \* an editor or a delete dialog
          MaxLoads,   \* bound on loads
          MaxChanges  \* bound on contacts changed

ASSUME ContactsAssumption ==
  /\ AllRows \in Filters /\ Broken \notin Filters
  /\ MaxLoads \in Nat \ {0} /\ MaxChanges \in Nat

VARIABLES
  filter,    \* state.search and state.filterRole
  version,   \* the contacts on the server: how often they were changed
  rows,      \* state.list: the filter and the version it was read with
  painted,   \* the list on screen
  loads,     \* loads under way
  nLoads,
  dialog,    \* per dialog: "closed", "open", "sent" or "done"
  deletes,   \* per dialog: it deletes
  visible,   \* per dialog: it is still on screen
  newestIn,  \* history: the newest load whose list has arrived
  misordered,\* history: a list arrived after that of a later load
  unseen     \* history: the page was not told of a change, or could not load

contactsVars == <<filter, version, rows, painted, loads, nLoads, dialog,
                  deletes, visible, newestIn, misordered, unseen>>

dialogs == <<dialog, deletes, visible>>

\* loadData reads the filter when it is called.
Load(f) ==
  /\ nLoads < MaxLoads
  /\ nLoads' = nLoads + 1
  /\ loads' = loads \cup
       {[n |-> nLoads + 1, filter |-> f, at |-> "asked", version |-> 0]}

\* The search field or a role button.
SetFilter(f) ==
  /\ f # filter
  /\ filter' = f
  /\ Load(f)
  /\ UNCHANGED <<version, rows, painted, dialogs, newestIn, misordered,
                 unseen>>

Moved(l, at) == loads' = (loads \ {l}) \cup {[l EXCEPT !.at = at]}

\* The server reads the contacts; the answer is on its way.
ServerReads(l) ==
  /\ l.at = "asked"
  /\ loads' = (loads \ {l}) \cup
       {[l EXCEPT !.at = "read", !.version = version]}
  /\ UNCHANGED <<filter, version, rows, painted, nLoads, dialogs, newestIn,
                 misordered, unseen>>

\* 404 and 500 empty the list, any other error ends the load.
ListArrives(l) ==
  /\ l.at = "read"
  /\ \/ /\ rows' = [filter |-> l.filter, version |-> l.version]
        /\ Moved(l, "orgs")
        /\ UNCHANGED unseen
     \/ /\ rows' = [filter |-> Broken, version |-> 0]
        /\ Moved(l, "orgs")
        /\ unseen' = TRUE
     \/ /\ loads' = loads \ {l}
        /\ unseen' = TRUE
        /\ UNCHANGED rows
  /\ misordered' = (misordered \/ l.n < newestIn)
  /\ newestIn' = l.n
  /\ UNCHANGED <<filter, version, painted, nLoads, dialogs>>

\* loadOrgs, then render.
Painted(l) ==
  /\ l.at = "orgs"
  /\ loads' = loads \ {l}
  /\ \/ painted' = rows /\ UNCHANGED unseen
     \/ UNCHANGED painted /\ unseen' = TRUE
  /\ UNCHANGED <<filter, version, rows, nLoads, dialogs, newestIn,
                 misordered>>

\* openEditor, or openDelete with its count of linked contacts.
OpenDialog(d) ==
  /\ dialog[d] = "closed"
  /\ dialog' = [dialog EXCEPT ![d] = "open"]
  /\ visible' = [visible EXCEPT ![d] = TRUE]
  /\ \E b \in BOOLEAN : deletes' = [deletes EXCEPT ![d] = b]
  /\ UNCHANGED <<filter, version, rows, painted, loads, nLoads, newestIn,
                 misordered, unseen>>

\* Cancel takes the dialog off the page, whatever it waits for.
CancelDialog(d) ==
  /\ visible[d]
  /\ visible' = [visible EXCEPT ![d] = FALSE]
  /\ dialog' = [dialog EXCEPT ![d] = IF @ = "open" THEN "closed" ELSE @]
  /\ UNCHANGED <<filter, version, rows, painted, loads, nLoads, deletes,
                 newestIn, misordered, unseen>>

\* Save or Confirm, disabled until the answer.  Enter saves even so: a second
\* save of one dialog stands as that of another one.
Submit(d) ==
  /\ dialog[d] = "open"
  /\ dialog' = [dialog EXCEPT ![d] = "sent"]
  /\ UNCHANGED <<filter, version, rows, painted, loads, nLoads, deletes,
                 visible, newestIn, misordered, unseen>>

\* The server does it.
ServerChanges(d) ==
  /\ dialog[d] = "sent" /\ version < MaxChanges
  /\ dialog' = [dialog EXCEPT ![d] = "done"]
  /\ version' = version + 1
  /\ UNCHANGED <<filter, rows, painted, loads, nLoads, deletes, visible,
                 newestIn, misordered, unseen>>

Close(d) ==
  /\ dialog' = [dialog EXCEPT ![d] = "closed"]
  /\ visible' = [visible EXCEPT ![d] = FALSE]

\* Mutant: a contact that was saved is painted when the page is next loaded.
AnsweredOnly(d) ==
  /\ dialog[d] = "done"
  /\ Close(d)
  /\ UNCHANGED <<filter, version, rows, painted, loads, nLoads, deletes,
                 newestIn, misordered, unseen>>
\* The dialog is taken off the page and the list loaded again.  A delete
\* dialog that was cancelled meanwhile cannot be taken off twice: it reports
\* a failure instead.
Answered(d) ==
  /\ dialog[d] = "done"
  /\ Close(d)
  /\ IF deletes[d] /\ ~visible[d]
     THEN unseen' = TRUE /\ UNCHANGED <<loads, nLoads>>
     ELSE Load(filter) /\ UNCHANGED unseen
  /\ UNCHANGED <<filter, version, rows, painted, deletes, newestIn,
                 misordered>>

\* No token, a refusal, or an answer that was lost: the dialog is open again.
Refused(d) ==
  /\ dialog[d] \in {"sent", "done"}
  /\ dialog' = [dialog EXCEPT ![d] = IF visible[d] THEN "open" ELSE "closed"]
  /\ unseen' = (unseen \/ dialog[d] = "done")
  /\ UNCHANGED <<filter, version, rows, painted, loads, nLoads, deletes,
                 visible, newestIn, misordered>>

\* The page is mounted and loads its list.
ContactsInit ==
  /\ filter = AllRows /\ version = 0
  /\ rows = [filter |-> Broken, version |-> 0] /\ painted = rows
  /\ loads = {[n |-> 1, filter |-> AllRows, at |-> "asked", version |-> 0]}
  /\ nLoads = 1
  /\ dialog = [d \in Dialogs |-> "closed"]
  /\ deletes = [d \in Dialogs |-> FALSE]
  /\ visible = [d \in Dialogs |-> FALSE]
  /\ newestIn = 0 /\ misordered = FALSE /\ unseen = FALSE

ContactsNext ==
  \/ \E f \in Filters : SetFilter(f)
  \/ \E l \in loads : ServerReads(l) \/ ListArrives(l) \/ Painted(l)
  \/ \E d \in Dialogs : \/ OpenDialog(d) \/ CancelDialog(d) \/ Submit(d)
                        \/ ServerChanges(d) \/ Answered(d) \/ Refused(d)

ContactsSpec == ContactsInit /\ [][ContactsNext]_contactsVars
-----------------------------------------------------------------------------
(* Properties *)

Lists == [filter : Filters \cup {Broken}, version : 0 .. MaxChanges]

\* Type invariant of the page, its loads and its dialogs.
ContactsTypeOK ==
  /\ filter \in Filters /\ version \in 0 .. MaxChanges
  /\ {rows, painted} \subseteq Lists
  /\ nLoads \in 0 .. MaxLoads /\ newestIn \in 0 .. nLoads
  /\ loads \subseteq [n : 1 .. nLoads, filter : Filters,
                      at : {"asked", "read", "orgs"},
                      version : 0 .. MaxChanges]
  /\ dialog \in [Dialogs -> {"closed", "open", "sent", "done"}]
  /\ {deletes, visible} \subseteq [Dialogs -> BOOLEAN]
  /\ {misordered, unseen} \subseteq BOOLEAN

\* When the page waits for nothing, it shows the contacts as they are, for
\* the filter that is set, unless lists arrived out of order or the page was
\* not told of a change.
PaintedIsCurrent ==
  /\ loads = {} /\ ~misordered /\ ~unseen
  /\ \A d \in Dialogs : dialog[d] # "done"
  => painted = [filter |-> filter, version |-> version]
=============================================================================
