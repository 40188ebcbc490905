------------------------------ MODULE Catalog ------------------------------
(***************************************************************************)
(* Rows that name other rows: items, recipes and contacts with what hangs  *)
(* on them, as written by core/api/routes/items.py, recipes.py, vendors.py *)
(* and by the purchases and manufacturing runs that add rows.              *)
(*                                                                         *)
(* SQLite is asked neither to enforce references nor to keep ids apart: a  *)
(* new row gets the greatest id in use and one, so that the id of a row    *)
(* that was deleted may come back.  Each row has here a birth number of    *)
(* its own; a reference remembers the birth of the row that it meant.      *)
(*                                                                         *)
(* Items and contacts are served in a thread pool: a handler loads its     *)
(* row, and writes in a transaction later.  The recipe handlers and the    *)
(* runs never await on the event loop, and are one step each.              *)
(***************************************************************************)
EXTENDS Naturals, FiniteSets

CONSTANTS Clerks,    \* requests on items or contacts that may be under way
          RowIds,    \* ids of rows: 1 .. some bound
          MaxBirths, \* bound on rows that are created
          MaxHang    \* bound on batches, lines and runs there are at a time

Tables == {"items", "recipes", "vendors"}
Births == 1 .. MaxBirths

ASSUME CatalogAssumption ==
  /\ IsFiniteSet(RowIds) /\ RowIds = 1 .. Cardinality(RowIds)
  /\ MaxBirths \in Nat /\ MaxHang \in Nat

VARIABLES
  row,      \* per table and id: the birth of the row, or 0
  nBirths,
  batches,  \* item_batches
  lines,    \* recipe_items
  runs,     \* manufacturing_runs that name a recipe
  isOrg,    \* per contact: is_org
  parent,   \* per contact: organization_id, or 0
  meant,    \* history, per contact: the birth of the row its parent meant
  clerk,    \* per request: what it does, to which id, and what it has loaded
  strays,   \* history: ids of items that were named when there were none
  adrift    \* history: a contact was given a parent that was not there, its
            \* parent was deleted by a request that had loaded it as no
            \* organisation, or by a cascade, which is one level deep

hanging     == <<batches, lines, runs>>
contacts    == <<isOrg, parent, meant>>
catalogVars == <<row, nBirths, hanging, contacts, clerk, strays, adrift>>

NoWork == [does |-> "nothing", id |-> 0, org |-> FALSE, parent |-> 0,
           found |-> FALSE]

Exists(t, i) == row[t][i] # 0
Room == Cardinality(batches) + Cardinality(lines) + Cardinality(runs) < MaxHang

\* The greatest id in use and one.
NextId(t) ==
  CHOOSE i \in RowIds \cup {Cardinality(RowIds) + 1} :
    /\ i = 1 \/ Exists(t, i - 1)
    /\ \A j \in RowIds : j >= i => ~Exists(t, j)

\* A row of table t is born with id i.
Birth(t, i) ==
  /\ nBirths < MaxBirths /\ i \in RowIds
  /\ nBirths' = nBirths + 1
  /\ row' = [row EXCEPT ![t][i] = nBirths + 1]

Loads(c, does, i, found) ==
  /\ clerk[c] = NoWork
  /\ clerk' = [clerk EXCEPT ![c] = [does |-> does, id |-> i, org |-> isOrg[i],
                                    parent |-> parent[i], found |-> found]]

Finishes(c, does) ==
  /\ clerk[c].does = does
  /\ clerk' = [clerk EXCEPT ![c] = NoWork]
-----------------------------------------------------------------------------
(* Items *)

\* POST /items without an id.
CreateItem ==
  /\ Birth("items", NextId("items"))
  /\ UNCHANGED <<hanging, contacts, clerk, strays, adrift>>

\* POST /items with one: the row is looked up, and inserted if it was not
\* there; when somebody else has inserted it since, the INSERT fails.  A row
\* that is there is changed in place, as PUT does, and keeps its id.
UpsertLoad(c, i) ==
  /\ Loads(c, "upsert", i, Exists("items", i))
  /\ UNCHANGED <<row, nBirths, hanging, contacts, strays, adrift>>

UpsertItem(c) ==
  LET i == clerk[c].id
  IN  /\ Finishes(c, "upsert")
      /\ IF clerk[c].found \/ Exists("items", i)
         THEN UNCHANGED <<row, nBirths>>
         ELSE Birth("items", i)
      /\ UNCHANGED <<hanging, contacts, strays, adrift>>

DeleteItemLoad(c, i) ==
  /\ Exists("items", i)
  /\ Loads(c, "delete item", i, TRUE)
  /\ UNCHANGED <<row, nBirths, hanging, contacts, strays, adrift>>

\* Mutant: the batches stay.
BatchesStay(i) == batches
BatchesWithout(i) == {b \in batches : b.item # i}

\* The batches go with the item, the lines of recipes stay.
DeleteItem(c) ==
  LET i == clerk[c].id
  IN  /\ Finishes(c, "delete item")
      /\ batches' = BatchesWithout(i)
      /\ row' = [row EXCEPT !["items"][i] = 0]
      /\ UNCHANGED <<nBirths, lines, runs, contacts, strays, adrift>>

\* A purchase or stock-in takes any item id.
AddBatch(i) ==
  /\ Room
  /\ batches' = batches \cup {[item |-> i, of |-> row["items"][i]]}
  /\ strays' = IF Exists("items", i) THEN strays ELSE strays \cup {i}
  /\ UNCHANGED <<row, nBirths, lines, runs, contacts, clerk, adrift>>
-----------------------------------------------------------------------------
(* Recipes *)

Line(r, birth, i) == [recipe |-> r, of |-> birth, item |-> i]

CreateRecipe(items) ==
  LET r == NextId("recipes")
  IN  /\ Room
      /\ Birth("recipes", r)
      /\ lines' = lines \cup {Line(r, nBirths + 1, i) : i \in items}
      /\ UNCHANGED <<batches, runs, contacts, clerk, strays, adrift>>

\* The lines are deleted and written anew.
UpdateRecipe(r, items) ==
  /\ Exists("recipes", r) /\ Room
  /\ lines' = {l \in lines : l.recipe # r}
                \cup {Line(r, row["recipes"][r], i) : i \in items}
  /\ UNCHANGED <<row, nBirths, batches, runs, contacts, clerk, strays, adrift>>

RunsWithout(r) == {x \in runs : x.recipe # r}

\* Its runs name no recipe any more, and its lines go.
DeleteRecipe(r) ==
  /\ Exists("recipes", r)
  /\ runs' = RunsWithout(r)
  /\ lines' = {l \in lines : l.recipe # r}
  /\ row' = [row EXCEPT !["recipes"][r] = 0]
  /\ UNCHANGED <<nBirths, batches, contacts, clerk, strays, adrift>>

\* A manufacturing run of a recipe, executed or failed.
AddRun(r) ==
  /\ Exists("recipes", r) /\ Room
  /\ runs' = runs \cup {[recipe |-> r, of |-> row["recipes"][r]]}
  /\ UNCHANGED <<row, nBirths, batches, lines, contacts, clerk, strays,
                 adrift>>
-----------------------------------------------------------------------------
(* Contacts *)

\* The row of contact i names p as its parent, or nobody.
Adopt(i, p) ==
  /\ parent' = [parent EXCEPT ![i] = p]
  /\ meant' = [meant EXCEPT ![i] = IF p = 0 THEN 0 ELSE row["vendors"][p]]
  /\ adrift' = (adrift \/ (p # 0 /\ ~Exists("vendors", p)))

CreateVendor(org, p) ==
  LET i == NextId("vendors")
  IN  /\ Birth("vendors", i)
      /\ isOrg' = [isOrg EXCEPT ![i] = org]
      /\ Adopt(i, p)
      /\ UNCHANGED <<hanging, clerk, strays>>

UpdateVendorLoad(c, i) ==
  /\ Exists("vendors", i)
  /\ Loads(c, "update vendor", i, TRUE)
  /\ UNCHANGED <<row, nBirths, hanging, contacts, strays, adrift>>

\* PUT: a field that the body leaves out or sets to null stays; a row that is
\* gone makes the UPDATE fail.  A field is written if it differs from what was
\* loaded.
UpdateVendor(c, org, p) ==
  LET i == clerk[c].id
  IN  /\ Finishes(c, "update vendor")
      /\ IF Exists("vendors", i)
         THEN /\ isOrg' = [isOrg EXCEPT ![i] = IF org # clerk[c].org THEN org
                                               ELSE @]
              /\ IF p \in {0, clerk[c].parent}
                 THEN UNCHANGED <<parent, meant, adrift>>
                 ELSE Adopt(i, p)
         ELSE UNCHANGED <<contacts, adrift>>
      /\ UNCHANGED <<row, nBirths, hanging, strays>>

DeleteVendorLoad(c, i) ==
  /\ Exists("vendors", i)
  /\ Loads(c, "delete vendor", i, TRUE)
  /\ UNCHANGED <<row, nBirths, hanging, contacts, strays, adrift>>

Children(i) == {k \in RowIds : Exists("vendors", k) /\ parent[k] = i}

\* Mutant: the children of an organisation are left alone.
Orphans(i) == {}
Released(i) == Children(i)

\* If the row was loaded as an organisation its children are deleted with it
\* (cascade_children) or lose their parent.
DeleteVendor(c, cascade) ==
  LET i == clerk[c].id
      kids == IF clerk[c].org THEN Released(i) ELSE {}
      gone == {i} \cup (IF cascade THEN kids ELSE {})
  IN  /\ Finishes(c, "delete vendor")
      /\ row' = [row EXCEPT !["vendors"] =
                   [k \in RowIds |-> IF k \in gone THEN 0 ELSE @[k]]]
      /\ parent' = [k \in RowIds |-> IF k \in kids \cup gone THEN 0
                                     ELSE parent[k]]
      /\ meant' = [k \in RowIds |-> IF k \in kids \cup gone THEN 0
                                    ELSE meant[k]]
      /\ isOrg' = [k \in RowIds |-> isOrg[k] /\ k \notin gone]
      /\ adrift' = \/ adrift
                   \/ ~clerk[c].org /\ Children(i) # {}
                   \/ cascade /\ \E k \in kids : Children(k) # {}
      /\ UNCHANGED <<nBirths, hanging, strays>>

\* The server starts anew: what was under way is over, and contacts may have
\* become organizations (SchemaUpgrade says why).
RestartServer(orgs) ==
  /\ isOrg' = [i \in RowIds |-> isOrg[i] \/ i \in orgs]
  /\ clerk' = [c \in Clerks |-> NoWork]
  /\ UNCHANGED <<row, nBirths, hanging, parent, meant, strays, adrift>>
-----------------------------------------------------------------------------
CatalogInit ==
  /\ row = [t \in Tables |-> [i \in RowIds |-> 0]]
  /\ nBirths = 0
  /\ batches = {} /\ lines = {} /\ runs = {}
  /\ isOrg = [i \in RowIds |-> FALSE]
  /\ parent = [i \in RowIds |-> 0] /\ meant = [i \in RowIds |-> 0]
  /\ clerk = [c \in Clerks |-> NoWork]
  /\ strays = {} /\ adrift = FALSE

ItemSteps ==
  \/ CreateItem
  \/ \E i \in RowIds : AddBatch(i)
  \/ \E c \in Clerks, i \in RowIds : UpsertLoad(c, i) \/ DeleteItemLoad(c, i)
  \/ \E c \in Clerks : UpsertItem(c) \/ DeleteItem(c)

RecipeSteps ==
  \/ \E items \in SUBSET RowIds :
       \/ CreateRecipe(items)
       \/ \E r \in RowIds : UpdateRecipe(r, items)
  \/ \E r \in RowIds : DeleteRecipe(r) \/ AddRun(r)

VendorSteps ==
  \/ \E org \in BOOLEAN, p \in RowIds \cup {0} :
       CreateVendor(org, p) \/ \E c \in Clerks : UpdateVendor(c, org, p)
  \/ \E c \in Clerks, i \in RowIds :
       UpdateVendorLoad(c, i) \/ DeleteVendorLoad(c, i)
  \/ \E c \in Clerks, cascade \in BOOLEAN : DeleteVendor(c, cascade)
  \/ \E orgs \in SUBSET {i \in RowIds : Exists("vendors", i)} :
       RestartServer(orgs)

CatalogNext == ItemSteps \/ RecipeSteps \/ VendorSteps

CatalogSpec == CatalogInit /\ [][CatalogNext]_catalogVars
-----------------------------------------------------------------------------
(* Properties *)

\* Type invariant of the rows and the requests.
CatalogTypeOK ==
  /\ row \in [Tables -> [RowIds -> Births \cup {0}]]
  /\ nBirths \in 0 .. MaxBirths
  /\ batches \subseteq [item : RowIds, of : Births \cup {0}]
  /\ lines \subseteq [recipe : RowIds, of : Births, item : RowIds]
  /\ runs \subseteq [recipe : RowIds, of : Births]
  /\ isOrg \in [RowIds -> BOOLEAN]
  /\ parent \in [RowIds -> RowIds \cup {0}]
  /\ meant \in [RowIds -> Births \cup {0}]
  /\ clerk \in [Clerks -> {NoWork} \cup
       [does : {"upsert", "delete item", "update vendor", "delete vendor"},
        id : RowIds, org : BOOLEAN, parent : RowIds \cup {0},
        found : BOOLEAN]]
  /\ strays \subseteq RowIds /\ adrift \in BOOLEAN

\* An item that gets the id of a deleted one does not inherit its batches,
\* unless stock was bought under this id while no item had it.
NoInheritedBatches ==
  \A b \in batches :
    Exists("items", b.item) /\ b.of # row["items"][b.item]
      => b.item \in strays

\* A recipe that gets the id of a deleted one inherits neither its runs nor
\* its lines.
NoInheritedRuns ==
  \A x \in runs \cup lines :
    Exists("recipes", x.recipe) /\ x.of = row["recipes"][x.recipe]

\* An item that gets the id of a deleted one does not inherit its batches,
\* unless stock was bought under this id while no item had it, and a recipe
\* inherits neither runs nor lines.  (What else names an item by its id stays
\* and passes to the new one: movements, lines of recipes that use it, and
\* recipes that make it.)
NoStockOrRunsInherited == NoInheritedBatches /\ NoInheritedRuns

\* A contact stays in the organisation it was put in, or in none: no other one
\* takes its place with the id, except as adrift says.
ChildrenNameTheirOrg ==
  \A i \in RowIds :
    Exists("vendors", i) /\ parent[i] # 0 /\ ~adrift
      => row["vendors"][parent[i]] = meant[i]
=============================================================================
