--------------------------- MODULE Records_proofs ---------------------------
(***************************************************************************)
(* The catalog and the organizer: what hangs on a row keeps to it although *)
(* ids are used again, and the plans of the organizer lose no content      *)
(* although the folder changes under them.  The views of stock show costs  *)
(* of batches that there were, and the pruning of old runs spares the      *)
(* newest, although others work meanwhile.                                 *)
(***************************************************************************)
EXTENDS Catalog, Organizer, StockViews, Retention, FiniteSetTheorems,
        WellFoundedInduction, TLAPS

-----------------------------------------------------------------------------
(* The catalog *)

\* A batch is of the item that has its id, unless it strayed there.
BatchInv ==
  \A b \in batches :
    \/ b.of # 0 /\ b.of = row["items"][b.item]
    \/ b.item \in strays

\* The parent of a contact is there and is the one that was meant.
ParentInv ==
  ~adrift => \A i \in RowIds :
    Exists("vendors", i) /\ parent[i] # 0
      => /\ Exists("vendors", parent[i])
         /\ row["vendors"][parent[i]] = meant[i]

\* The ids of rows are the numbers from one.
LEMMA RowIdFacts ==
  /\ Cardinality(RowIds) \in Nat
  /\ RowIds = 1 .. Cardinality(RowIds)
  /\ RowIds \subseteq Nat \ {0}
<1>1. Cardinality(RowIds) \in Nat
  BY CatalogAssumption, FS_CardinalityType
<1> QED
  BY <1>1, CatalogAssumption

\* A new row gets an id that no row of its table has.
LEMMA NextIdFree ==
  ASSUME NEW t, NextId(t) \in RowIds
  PROVE  ~Exists(t, NextId(t))
<1> DEFINE n == Cardinality(RowIds)
           Free(i) == \A j \in RowIds : j >= i => ~Exists(t, j)
           T == {i \in RowIds \cup {n + 1} : Free(i)}
<1>1. n \in Nat /\ RowIds = 1 .. n
  BY RowIdFacts
<1>2. T \subseteq Nat /\ n + 1 \in T
  BY <1>1
<1> HIDE DEF n, T
<1>3. PICK i \in T : \A j \in T : ~(<<j, i>> \in OpToRel(<, Nat))
  BY <1>2, NatLessThanWellFounded, WFMin
<1>4. \A j \in T : ~(j < i)
  BY <1>2, <1>3 DEF OpToRel
<1>5. i \in RowIds \cup {n + 1} /\ Free(i)
  BY DEF T
<1>6. i = 1 \/ Exists(t, i - 1)
  <2> SUFFICES ASSUME i # 1
               PROVE  Exists(t, i - 1)
    OBVIOUS
  <2>1. i - 1 \in RowIds /\ i - 1 < i
    BY <1>1, <1>5
  <2>2. i - 1 \notin T
    BY <1>4, <2>1
  <2>3. PICK j \in RowIds : j >= i - 1 /\ Exists(t, j)
    BY <2>1, <2>2 DEF T
  <2>4. ~(j >= i)
    BY <1>5, <2>3
  <2> QED
    BY <1>1, <1>5, <2>3, <2>4
<1>7. /\ NextId(t) = 1 \/ Exists(t, NextId(t) - 1)
      /\ \A j \in RowIds : j >= NextId(t) => ~Exists(t, j)
  BY <1>5, <1>6 DEF NextId, n
<1> QED
  BY <1>1, <1>7

\* A new row is born with the next number, and no other row changes.
LEMMA BirthRow ==
  ASSUME CatalogTypeOK, NEW t \in Tables, NEW i, Birth(t, i)
  PROVE  /\ i \in RowIds /\ nBirths + 1 \in Births
         /\ nBirths' \in 0 .. MaxBirths
         /\ row' \in [Tables -> [RowIds -> Births \cup {0}]]
         /\ \A u \in Tables, j \in RowIds :
              row'[u][j] = IF u = t /\ j = i THEN nBirths + 1 ELSE row[u][j]
<1>a. MaxBirths \in Nat
  BY CatalogAssumption
<1>b. nBirths \in 0 .. MaxBirths
  BY DEF CatalogTypeOK
<1>1. i \in RowIds /\ nBirths + 1 \in Births /\ nBirths' \in 0 .. MaxBirths
  BY <1>a, <1>b DEF Birth, Births
<1>2. row' = [row EXCEPT ![t][i] = nBirths + 1]
  BY DEF Birth
<1>3. row \in [Tables -> [RowIds -> Births \cup {0}]]
  BY DEF CatalogTypeOK
<1> QED
  BY <1>1, <1>2, <1>3

\* The three tables.
LEMMA TableFacts ==
  "items" \in Tables /\ "recipes" \in Tables /\ "vendors" \in Tables
BY DEF Tables

\* A row that is there has the number of its birth.
LEMMA RowFacts ==
  ASSUME CatalogTypeOK, NEW t \in Tables, NEW i \in RowIds
  PROVE  /\ row[t][i] \in Births \cup {0}
         /\ Exists(t, i) => row[t][i] \in Births
<1>1. row \in [Tables -> [RowIds -> Births \cup {0}]]
  BY DEF CatalogTypeOK
<1> QED
  BY <1>1 DEF Exists

\* A request that has loaded its row keeps the types.
LEMMA LoadsTyped ==
  ASSUME CatalogTypeOK, NEW c \in Clerks, NEW i \in RowIds,
         NEW found \in BOOLEAN,
         NEW does \in {"upsert", "delete item", "update vendor",
                       "delete vendor"},
         Loads(c, does, i, found),
         UNCHANGED <<row, nBirths, hanging, contacts, strays, adrift>>
  PROVE  CatalogTypeOK'
BY DEF CatalogTypeOK, Loads, hanging, contacts

\* A request that ends had a row, and leaves its clerk free.
LEMMA FinishesTyped ==
  ASSUME CatalogTypeOK, NEW c \in Clerks,
         NEW does \in {"upsert", "delete item", "update vendor",
                       "delete vendor"},
         Finishes(c, does)
  PROVE  /\ clerk[c].id \in RowIds /\ clerk[c].org \in BOOLEAN
         /\ clerk'[c] = NoWork
         /\ clerk' \in [Clerks -> {NoWork} \cup
              [does : {"upsert", "delete item", "update vendor",
                       "delete vendor"},
               id : RowIds, org : BOOLEAN, parent : RowIds \cup {0},
               found : BOOLEAN]]
<1> DEFINE Work == [does : {"upsert", "delete item", "update vendor",
                            "delete vendor"},
                    id : RowIds, org : BOOLEAN, parent : RowIds \cup {0},
                    found : BOOLEAN]
<1>1. clerk[c] # NoWork
  <2>1. NoWork.does = "nothing"
    BY DEF NoWork
  <2>2. clerk[c].does = does
    BY DEF Finishes
  <2>3. does # "nothing"
    OBVIOUS
  <2> QED
    BY <2>1, <2>2, <2>3
<1>2. clerk \in [Clerks -> {NoWork} \cup Work]
  BY DEF CatalogTypeOK
<1>3. clerk' = [clerk EXCEPT ![c] = NoWork]
  BY DEF Finishes
<1>4. clerk[c] \in Work
  BY <1>1, <1>2
<1>5. clerk[c].id \in RowIds /\ clerk[c].org \in BOOLEAN
  BY <1>4
<1> HIDE DEF Work
<1>6. clerk'[c] = NoWork /\ clerk' \in [Clerks -> {NoWork} \cup Work]
  BY <1>2, <1>3
<1> QED
  BY <1>5, <1>6 DEF Work

\* A contact that gets a parent keeps the types.
LEMMA AdoptTyped ==
  ASSUME CatalogTypeOK, NEW i \in RowIds, NEW p \in RowIds \cup {0},
         Adopt(i, p)
  PROVE  /\ parent' \in [RowIds -> RowIds \cup {0}]
         /\ meant' \in [RowIds -> Births \cup {0}]
         /\ adrift' \in BOOLEAN
<1>1. (IF p = 0 THEN 0 ELSE row["vendors"][p]) \in Births \cup {0}
  BY RowFacts, TableFacts
<1>2. meant' \in [RowIds -> Births \cup {0}]
  BY <1>1 DEF CatalogTypeOK, Adopt
<1>3. parent' \in [RowIds -> RowIds \cup {0}]
  BY DEF CatalogTypeOK, Adopt
<1> QED
  BY <1>2, <1>3 DEF CatalogTypeOK, Adopt

\* A step keeps the types of the tables and the clerks.
LEMMA CatalogTyped ==
  ASSUME CatalogTypeOK, [CatalogNext]_catalogVars
  PROVE  CatalogTypeOK'
<1> USE DEF hanging, contacts
<1>1. CASE CreateItem
  BY <1>1, BirthRow, TableFacts DEF CreateItem, CatalogTypeOK
<1>2. ASSUME NEW i \in RowIds, AddBatch(i)
      PROVE  CatalogTypeOK'
  <2>1. [item |-> i, of |-> row["items"][i]]
          \in [item : RowIds, of : Births \cup {0}]
    BY RowFacts, TableFacts
  <2>2. batches' \subseteq [item : RowIds, of : Births \cup {0}]
    BY <1>2, <2>1 DEF AddBatch, CatalogTypeOK
  <2>3. strays' \subseteq RowIds
    BY <1>2 DEF AddBatch, CatalogTypeOK
  <2> QED
    BY <1>2, <2>2, <2>3 DEF AddBatch, CatalogTypeOK
<1>3. ASSUME NEW c \in Clerks, NEW i \in RowIds,
             UpsertLoad(c, i) \/ DeleteItemLoad(c, i)
               \/ UpdateVendorLoad(c, i) \/ DeleteVendorLoad(c, i)
      PROVE  CatalogTypeOK'
  <2>1. Exists("items", i) \in BOOLEAN
    BY DEF Exists
  <2>2. CASE UpsertLoad(c, i)
    BY <2>1, <2>2, LoadsTyped DEF UpsertLoad
  <2>3. CASE DeleteItemLoad(c, i)
    BY <2>3, LoadsTyped DEF DeleteItemLoad
  <2>4. CASE UpdateVendorLoad(c, i)
    BY <2>4, LoadsTyped DEF UpdateVendorLoad
  <2>5. CASE DeleteVendorLoad(c, i)
    BY <2>5, LoadsTyped DEF DeleteVendorLoad
  <2> QED
    BY <1>3, <2>2, <2>3, <2>4, <2>5
<1>4. ASSUME NEW c \in Clerks, UpsertItem(c)
      PROVE  CatalogTypeOK'
  <2>1. Finishes(c, "upsert")
    BY <1>4 DEF UpsertItem
  <2>2. UNCHANGED <<row, nBirths>> \/ Birth("items", clerk[c].id)
    BY <1>4 DEF UpsertItem
  <2>3. row' \in [Tables -> [RowIds -> Births \cup {0}]]
        /\ nBirths' \in 0 .. MaxBirths
    BY <2>2, BirthRow, TableFacts DEF CatalogTypeOK
  <2> QED
    BY <1>4, <2>1, <2>3, FinishesTyped DEF UpsertItem, CatalogTypeOK
<1>5. ASSUME NEW c \in Clerks, DeleteItem(c)
      PROVE  CatalogTypeOK'
  <2>1. Finishes(c, "delete item")
    BY <1>5 DEF DeleteItem
  <2>2. row' \in [Tables -> [RowIds -> Births \cup {0}]]
    BY <1>5, TableFacts DEF DeleteItem, CatalogTypeOK
  <2>3. batches' \subseteq batches
    BY <1>5 DEF DeleteItem, BatchesWithout
  <2> QED
    BY <1>5, <2>1, <2>2, <2>3, FinishesTyped DEF DeleteItem, CatalogTypeOK
<1>6. ASSUME NEW items \in SUBSET RowIds, CreateRecipe(items)
      PROVE  CatalogTypeOK'
  <2> DEFINE r == NextId("recipes")
  <2>1. Birth("recipes", r)
        /\ lines' = lines \cup {Line(r, nBirths + 1, i) : i \in items}
    BY <1>6 DEF CreateRecipe
  <2>2. r \in RowIds /\ nBirths + 1 \in Births
    BY <2>1, BirthRow, TableFacts
  <2>3. {Line(r, nBirths + 1, i) : i \in items}
          \subseteq [recipe : RowIds, of : Births, item : RowIds]
    <3> HIDE DEF r
    <3> QED
      BY <2>2 DEF Line
  <2>4. lines' \subseteq [recipe : RowIds, of : Births, item : RowIds]
    BY <2>1, <2>3 DEF CatalogTypeOK
  <2>5. row' \in [Tables -> [RowIds -> Births \cup {0}]]
        /\ nBirths' \in 0 .. MaxBirths
    BY <2>1, BirthRow, TableFacts
  <2> QED
    BY <1>6, <2>4, <2>5 DEF CreateRecipe, CatalogTypeOK
<1>7. ASSUME NEW r \in RowIds, NEW items \in SUBSET RowIds,
             UpdateRecipe(r, items)
      PROVE  CatalogTypeOK'
  <2>1. row["recipes"][r] \in Births
    BY <1>7, TableFacts, RowFacts DEF UpdateRecipe
  <2>2. {Line(r, row["recipes"][r], i) : i \in items}
          \subseteq [recipe : RowIds, of : Births, item : RowIds]
    BY <2>1 DEF Line
  <2>3. lines' \subseteq [recipe : RowIds, of : Births, item : RowIds]
    BY <1>7, <2>2 DEF UpdateRecipe, CatalogTypeOK
  <2> QED
    BY <1>7, <2>3 DEF UpdateRecipe, CatalogTypeOK
<1>8. ASSUME NEW r \in RowIds, DeleteRecipe(r)
      PROVE  CatalogTypeOK'
  <2>1. row' \in [Tables -> [RowIds -> Births \cup {0}]]
    BY <1>8, TableFacts DEF DeleteRecipe, CatalogTypeOK
  <2>2. lines' \subseteq lines /\ runs' \subseteq runs
    BY <1>8 DEF DeleteRecipe, RunsWithout
  <2> QED
    BY <1>8, <2>1, <2>2 DEF DeleteRecipe, CatalogTypeOK
<1>9. ASSUME NEW r \in RowIds, AddRun(r)
      PROVE  CatalogTypeOK'
  <2>1. row["recipes"][r] \in Births
    BY <1>9, TableFacts, RowFacts DEF AddRun
  <2>3. [recipe |-> r, of |-> row["recipes"][r]]
          \in [recipe : RowIds, of : Births]
    BY <2>1
  <2>2. runs' \subseteq [recipe : RowIds, of : Births]
    BY <1>9, <2>3 DEF AddRun, CatalogTypeOK
  <2> QED
    BY <1>9, <2>2 DEF AddRun, CatalogTypeOK
<1>10. ASSUME NEW org \in BOOLEAN, NEW p \in RowIds \cup {0},
              CreateVendor(org, p)
       PROVE  CatalogTypeOK'
  <2> DEFINE i == NextId("vendors")
  <2>1. /\ Birth("vendors", i) /\ Adopt(i, p)
        /\ isOrg' = [isOrg EXCEPT ![i] = org]
    BY <1>10 DEF CreateVendor
  <2>2. i \in RowIds /\ nBirths' \in 0 .. MaxBirths
        /\ row' \in [Tables -> [RowIds -> Births \cup {0}]]
    BY <2>1, BirthRow, TableFacts
  <2>3. isOrg' \in [RowIds -> BOOLEAN]
    <3> HIDE DEF i
    <3> QED
      BY <2>1, <2>2 DEF CatalogTypeOK
  <2> QED
    BY <1>10, <2>1, <2>2, <2>3, AdoptTyped DEF CreateVendor, CatalogTypeOK
<1>11. ASSUME NEW org \in BOOLEAN, NEW p \in RowIds \cup {0},
              NEW c \in Clerks, UpdateVendor(c, org, p)
       PROVE  CatalogTypeOK'
  <2> DEFINE i == clerk[c].id
  <2>1. Finishes(c, "update vendor")
    BY <1>11 DEF UpdateVendor
  <2>2. i \in RowIds
    BY <2>1, FinishesTyped
  <2>3. isOrg' \in [RowIds -> BOOLEAN]
    BY <1>11, <2>2 DEF UpdateVendor, CatalogTypeOK
  <2>4. UNCHANGED <<parent, meant, adrift>> \/ Adopt(i, p)
    BY <1>11 DEF UpdateVendor
  <2>5. /\ parent' \in [RowIds -> RowIds \cup {0}]
        /\ meant' \in [RowIds -> Births \cup {0}]
        /\ adrift' \in BOOLEAN
    BY <2>2, <2>4, AdoptTyped DEF CatalogTypeOK
  <2>6. UNCHANGED <<row, nBirths, hanging, strays>>
    BY <1>11 DEF UpdateVendor
  <2> HIDE DEF i
  <2> QED
    BY <2>1, <2>3, <2>5, <2>6, FinishesTyped DEF CatalogTypeOK
<1>12. ASSUME NEW c \in Clerks, NEW cascade \in BOOLEAN,
              DeleteVendor(c, cascade)
       PROVE  CatalogTypeOK'
  <2>1. Finishes(c, "delete vendor")
    BY <1>12 DEF DeleteVendor
  <2>2. row' \in [Tables -> [RowIds -> Births \cup {0}]]
    <3>1. PICK new : /\ row' = [row EXCEPT !["vendors"] = new]
                     /\ \E gone : new = [k \in RowIds |->
                           IF k \in gone THEN 0 ELSE row["vendors"][k]]
      BY <1>12 DEF DeleteVendor
    <3>2. row \in [Tables -> [RowIds -> Births \cup {0}]]
      BY DEF CatalogTypeOK
    <3>3. new \in [RowIds -> Births \cup {0}]
      BY <3>1, <3>2, TableFacts
    <3> QED
      BY <3>1, <3>2, <3>3, TableFacts
  <2>a. /\ parent \in [RowIds -> RowIds \cup {0}]
        /\ meant \in [RowIds -> Births \cup {0}]
        /\ isOrg \in [RowIds -> BOOLEAN] /\ adrift \in BOOLEAN
    BY DEF CatalogTypeOK
  <2>b. /\ parent' \in [RowIds -> RowIds \cup {0}]
        /\ meant' \in [RowIds -> Births \cup {0}]
    BY <1>12, <2>a DEF DeleteVendor
  <2>c. isOrg' \in [RowIds -> BOOLEAN] /\ adrift' \in BOOLEAN
    BY <1>12, <2>a DEF DeleteVendor
  <2>3. /\ parent' \in [RowIds -> RowIds \cup {0}]
        /\ meant' \in [RowIds -> Births \cup {0}]
        /\ isOrg' \in [RowIds -> BOOLEAN]
        /\ adrift' \in BOOLEAN
    BY <2>b, <2>c
  <2>4. UNCHANGED <<nBirths, hanging, strays>>
    BY <1>12 DEF DeleteVendor
  <2> QED
    BY <2>1, <2>2, <2>3, <2>4, FinishesTyped DEF CatalogTypeOK
<1>13. CASE UNCHANGED catalogVars
  BY <1>13 DEF catalogVars, CatalogTypeOK
<1>14. ASSUME NEW orgs, RestartServer(orgs)
       PROVE  CatalogTypeOK'
  BY <1>14 DEF RestartServer, CatalogTypeOK
<1> QED
  BY <1>1, <1>2, <1>3, <1>4, <1>5, <1>6, <1>7, <1>8, <1>9, <1>10, <1>11,
     <1>12, <1>13, <1>14 DEF CatalogNext, ItemSteps, RecipeSteps, VendorSteps

\* There are no rows at first, and no request.
LEMMA CatalogAtFirst ==
  CatalogInit => CatalogTypeOK /\ BatchInv /\ NoInheritedRuns /\ ParentInv
<1> SUFFICES ASSUME CatalogInit
             PROVE  CatalogTypeOK /\ BatchInv /\ NoInheritedRuns /\ ParentInv
  OBVIOUS
<1>1. nBirths \in 0 .. MaxBirths
  BY CatalogAssumption DEF CatalogInit
<1>2. CatalogTypeOK
  BY <1>1 DEF CatalogInit, CatalogTypeOK
<1> QED
  BY <1>2 DEF CatalogInit, BatchInv, NoInheritedRuns, ParentInv, Exists

\* Rows, references and requests are well formed.
THEOREM CatalogTypes == CatalogSpec => []CatalogTypeOK
BY CatalogAtFirst, CatalogTyped, PTL DEF CatalogSpec

-----------------------------------------------------------------------------
(* The items *)

\* A step keeps every batch at the row it was added to: a row that goes takes
\* its batches along.
LEMMA BatchKept ==
  ASSUME CatalogTypeOK, BatchInv, [CatalogNext]_catalogVars
  PROVE  BatchInv'
<1> USE DEF hanging, contacts
\* A row is born where no item was, and no batch that has not strayed is of an
\* item that is not there.
<1>a. ASSUME NEW i, Birth("items", i), ~Exists("items", i),
             UNCHANGED <<batches, strays>>
      PROVE  BatchInv'
  <2>1. \A j \in RowIds : row'["items"][j] =
          IF j = i THEN nBirths + 1 ELSE row["items"][j]
    BY <1>a, BirthRow, TableFacts
  <2>2. ASSUME NEW b \in batches
        PROVE  \/ b.of # 0 /\ b.of = row'["items"][b.item]
               \/ b.item \in strays
    <3>1. b.item \in RowIds
      BY DEF CatalogTypeOK
    <3>2. CASE b.item = i
      BY <1>a, <3>2 DEF BatchInv, Exists
    <3>3. CASE b.item # i
      BY <2>1, <3>1, <3>3 DEF BatchInv
    <3> QED
      BY <3>2, <3>3
  <2> QED
    BY <1>a, <2>2 DEF BatchInv
<1>b. ASSUME row'["items"] = row["items"], UNCHANGED <<batches, strays>>
      PROVE  BatchInv'
  BY <1>b DEF BatchInv
<1>1. CASE CreateItem
  <2>1. NextId("items") \in RowIds
    BY <1>1 DEF CreateItem, Birth
  <2> QED
    BY <1>1, <1>a, <2>1, NextIdFree DEF CreateItem
<1>2. ASSUME NEW i \in RowIds, AddBatch(i)
      PROVE  BatchInv'
  <2>1. row' = row /\ strays \subseteq strays'
    BY <1>2 DEF AddBatch
  <2>2. ASSUME NEW b \in batches', b \notin batches
        PROVE  \/ b.of # 0 /\ b.of = row["items"][b.item]
               \/ b.item \in strays'
    <3>1. b = [item |-> i, of |-> row["items"][i]]
      BY <1>2, <2>2 DEF AddBatch
    <3>2. b.item = i /\ b.of = row["items"][i]
      BY <3>1
    <3>3. ~Exists("items", i) => i \in strays'
      BY <1>2 DEF AddBatch
    <3> QED
      BY <3>2, <3>3 DEF Exists
  <2> QED
    BY <2>1, <2>2 DEF BatchInv
<1>3. ASSUME NEW c \in Clerks, UpsertItem(c)
      PROVE  BatchInv'
  <2>1. CASE clerk[c].found \/ Exists("items", clerk[c].id)
    BY <1>3, <2>1, <1>b DEF UpsertItem
  <2>2. CASE ~(clerk[c].found \/ Exists("items", clerk[c].id))
    BY <1>3, <2>2, <1>a DEF UpsertItem
  <2> QED
    BY <2>1, <2>2
<1>4. ASSUME NEW c \in Clerks, DeleteItem(c)
      PROVE  BatchInv'
  <2> DEFINE i == clerk[c].id
  <2>1. /\ batches' = {b \in batches : b.item # i} /\ strays' = strays
        /\ row' = [row EXCEPT !["items"][i] = 0]
    BY <1>4 DEF DeleteItem, BatchesWithout
  <2>2. \A j \in RowIds : j # i => row'["items"][j] = row["items"][j]
    BY <2>1, TableFacts DEF CatalogTypeOK
  <2>3. \A b \in batches : b.item \in RowIds
    BY DEF CatalogTypeOK
  <2> QED
    BY <2>1, <2>2, <2>3 DEF BatchInv
<1>5. ASSUME NEW c \in Clerks, NEW i \in RowIds,
             UpsertLoad(c, i) \/ DeleteItemLoad(c, i)
               \/ UpdateVendorLoad(c, i) \/ DeleteVendorLoad(c, i)
      PROVE  BatchInv'
  BY <1>5, <1>b
  DEF UpsertLoad, DeleteItemLoad, UpdateVendorLoad, DeleteVendorLoad
<1>6. CASE RecipeSteps
  <2>1. ASSUME NEW items \in SUBSET RowIds, CreateRecipe(items)
        PROVE  BatchInv'
    <3>1. Birth("recipes", NextId("recipes"))
      BY <2>1 DEF CreateRecipe
    <3>2. row'["items"] = row["items"]
      BY <3>1, TableFacts DEF Birth, CatalogTypeOK
    <3> QED
      BY <2>1, <3>2, <1>b DEF CreateRecipe
  <2>2. ASSUME NEW r \in RowIds, DeleteRecipe(r)
        PROVE  BatchInv'
    <3>1. row'["items"] = row["items"]
      BY <2>2, TableFacts DEF DeleteRecipe, CatalogTypeOK
    <3> QED
      BY <2>2, <3>1, <1>b DEF DeleteRecipe
  <2>3. ASSUME NEW r \in RowIds, NEW items \in SUBSET RowIds,
               UpdateRecipe(r, items)
        PROVE  BatchInv'
    BY <2>3, <1>b DEF UpdateRecipe
  <2>4. ASSUME NEW r \in RowIds, AddRun(r)
        PROVE  BatchInv'
    BY <2>4, <1>b DEF AddRun
  <2> QED
    BY <1>6, <2>1, <2>2, <2>3, <2>4 DEF RecipeSteps
<1>7. ASSUME NEW org \in BOOLEAN, NEW p \in RowIds \cup {0},
             CreateVendor(org, p)
      PROVE  BatchInv'
  <2>1. Birth("vendors", NextId("vendors"))
    BY <1>7 DEF CreateVendor
  <2>2. row'["items"] = row["items"]
    BY <2>1, TableFacts DEF Birth, CatalogTypeOK
  <2> QED
    BY <1>7, <2>2, <1>b DEF CreateVendor
<1>8. ASSUME NEW org \in BOOLEAN, NEW p \in RowIds \cup {0},
             NEW c \in Clerks, UpdateVendor(c, org, p)
      PROVE  BatchInv'
  BY <1>8, <1>b DEF UpdateVendor
<1>9. ASSUME NEW c \in Clerks, NEW cascade \in BOOLEAN,
             DeleteVendor(c, cascade)
      PROVE  BatchInv'
  <2>1. row'["items"] = row["items"]
    BY <1>9, TableFacts DEF DeleteVendor, CatalogTypeOK
  <2> QED
    BY <1>9, <2>1, <1>b DEF DeleteVendor
<1>10. CASE UNCHANGED catalogVars
  BY <1>10, <1>b DEF catalogVars
<1>11. ASSUME NEW orgs, RestartServer(orgs)
       PROVE  BatchInv'
  BY <1>11, <1>b DEF RestartServer
<1> QED
  BY <1>1, <1>2, <1>3, <1>4, <1>5, <1>6, <1>7, <1>8, <1>9, <1>10, <1>11
  DEF CatalogNext, ItemSteps, VendorSteps

\* An item inherits the batches of a deleted one only if they strayed.
THEOREM NoInheritedBatchesSafe == CatalogSpec => []NoInheritedBatches
<1>1. CatalogTypeOK /\ BatchInv /\ [CatalogNext]_catalogVars
        => CatalogTypeOK' /\ BatchInv'
  BY CatalogTyped, BatchKept
<1>2. BatchInv => NoInheritedBatches
  BY DEF BatchInv, NoInheritedBatches
<1> QED
  BY CatalogAtFirst, <1>1, <1>2, PTL DEF CatalogSpec
-----------------------------------------------------------------------------
(* The recipes *)

\* A step keeps every run and line at the recipe it was added to: a recipe
\* that goes lets go of them.
LEMMA RunsKept ==
  ASSUME CatalogTypeOK, NoInheritedRuns, [CatalogNext]_catalogVars
  PROVE  NoInheritedRuns'
<1> USE DEF hanging, contacts
<1>0. \A x \in runs \cup lines : x.recipe \in RowIds
  BY DEF CatalogTypeOK
<1>a. ASSUME row'["recipes"] = row["recipes"], UNCHANGED <<runs, lines>>
      PROVE  NoInheritedRuns'
  BY <1>a DEF NoInheritedRuns, Exists
<1>1. ASSUME NEW items \in SUBSET RowIds, CreateRecipe(items)
      PROVE  NoInheritedRuns'
  <2> DEFINE r == NextId("recipes")
  <2>1. /\ Birth("recipes", r) /\ runs' = runs
        /\ lines' = lines \cup {Line(r, nBirths + 1, i) : i \in items}
    BY <1>1 DEF CreateRecipe
  <2>2. r \in RowIds /\ nBirths + 1 \in Births
    BY <2>1, BirthRow, TableFacts
  <2>3. ~Exists("recipes", r)
    BY <2>2, NextIdFree
  <2>4. \A j \in RowIds : row'["recipes"][j] =
          IF j = r THEN nBirths + 1 ELSE row["recipes"][j]
    BY <2>1, BirthRow, TableFacts
  <2>5. nBirths + 1 # 0
    BY <2>2 DEF Births
  <2> HIDE DEF r
  <2>6. ASSUME NEW x \in runs \cup lines
        PROVE  Exists("recipes", x.recipe)' /\ x.of = row'["recipes"][x.recipe]
    <3>1. x.recipe \in RowIds /\ x.recipe # r
      BY <1>0, <2>3 DEF NoInheritedRuns
    <3> QED
      BY <2>4, <3>1 DEF NoInheritedRuns, Exists
  <2>7. ASSUME NEW i \in items, NEW x, x = Line(r, nBirths + 1, i)
        PROVE  Exists("recipes", x.recipe)' /\ x.of = row'["recipes"][x.recipe]
    <3>1. x.recipe = r /\ x.of = nBirths + 1
      BY <2>7 DEF Line
    <3> QED
      BY <2>2, <2>4, <2>5, <3>1 DEF Exists
  <2> QED
    BY <2>1, <2>6, <2>7 DEF NoInheritedRuns
<1>2. ASSUME NEW r \in RowIds, NEW items \in SUBSET RowIds,
             UpdateRecipe(r, items)
      PROVE  NoInheritedRuns'
  <2>1. /\ row' = row /\ runs' = runs /\ Exists("recipes", r)
        /\ lines' = {l \in lines : l.recipe # r}
                      \cup {Line(r, row["recipes"][r], i) : i \in items}
    BY <1>2 DEF UpdateRecipe
  <2>2. \A i : /\ Line(r, row["recipes"][r], i).recipe = r
               /\ Line(r, row["recipes"][r], i).of = row["recipes"][r]
    BY DEF Line
  <2> QED
    BY <2>1, <2>2 DEF NoInheritedRuns, Exists
<1>3. ASSUME NEW r \in RowIds, DeleteRecipe(r)
      PROVE  NoInheritedRuns'
  <2>1. /\ runs' = {x \in runs : x.recipe # r}
        /\ lines' = {l \in lines : l.recipe # r}
        /\ row' = [row EXCEPT !["recipes"][r] = 0]
    BY <1>3 DEF DeleteRecipe, RunsWithout
  <2>2. \A j \in RowIds : j # r => row'["recipes"][j] = row["recipes"][j]
    BY <2>1, TableFacts DEF CatalogTypeOK
  <2> QED
    BY <1>0, <2>1, <2>2 DEF NoInheritedRuns, Exists
<1>4. ASSUME NEW r \in RowIds, AddRun(r)
      PROVE  NoInheritedRuns'
  <2>1. /\ row' = row /\ lines' = lines /\ Exists("recipes", r)
        /\ runs' = runs \cup {[recipe |-> r, of |-> row["recipes"][r]]}
    BY <1>4 DEF AddRun
  <2> QED
    BY <2>1 DEF NoInheritedRuns, Exists
<1>b. ASSUME NEW t \in {"items", "vendors"}, NEW i, Birth(t, i)
      PROVE  row'["recipes"] = row["recipes"]
  BY <1>b, TableFacts DEF Birth, CatalogTypeOK
<1>5. CASE CreateItem
  BY <1>5, <1>a, <1>b DEF CreateItem
<1>6. ASSUME NEW c \in Clerks, UpsertItem(c)
      PROVE  NoInheritedRuns'
  <2>1. row' = row \/ Birth("items", clerk[c].id)
    BY <1>6 DEF UpsertItem
  <2> QED
    BY <1>6, <2>1, <1>a, <1>b DEF UpsertItem
<1>7. ASSUME NEW c \in Clerks, DeleteItem(c)
      PROVE  NoInheritedRuns'
  <2>1. row'["recipes"] = row["recipes"]
    BY <1>7, TableFacts DEF DeleteItem, CatalogTypeOK
  <2> QED
    BY <1>7, <2>1, <1>a DEF DeleteItem
<1>8. ASSUME NEW c \in Clerks, NEW i \in RowIds,
             AddBatch(i) \/ UpsertLoad(c, i) \/ DeleteItemLoad(c, i)
               \/ UpdateVendorLoad(c, i) \/ DeleteVendorLoad(c, i)
      PROVE  NoInheritedRuns'
  BY <1>8, <1>a DEF AddBatch, UpsertLoad, DeleteItemLoad, UpdateVendorLoad,
                    DeleteVendorLoad
<1>9. ASSUME NEW i \in RowIds, AddBatch(i)
      PROVE  NoInheritedRuns'
  BY <1>9, <1>a DEF AddBatch
<1>10. ASSUME NEW org \in BOOLEAN, NEW p \in RowIds \cup {0},
              CreateVendor(org, p)
       PROVE  NoInheritedRuns'
  BY <1>10, <1>a, <1>b DEF CreateVendor
<1>11. ASSUME NEW org \in BOOLEAN, NEW p \in RowIds \cup {0},
              NEW c \in Clerks, UpdateVendor(c, org, p)
       PROVE  NoInheritedRuns'
  BY <1>11, <1>a DEF UpdateVendor
<1>12. ASSUME NEW c \in Clerks, NEW cascade \in BOOLEAN,
              DeleteVendor(c, cascade)
       PROVE  NoInheritedRuns'
  <2>1. row'["recipes"] = row["recipes"]
    BY <1>12, TableFacts DEF DeleteVendor, CatalogTypeOK
  <2> QED
    BY <1>12, <2>1, <1>a DEF DeleteVendor
<1>13. CASE UNCHANGED catalogVars
  BY <1>13, <1>a DEF catalogVars
<1>14. ASSUME NEW orgs, RestartServer(orgs)
       PROVE  NoInheritedRuns'
  BY <1>14, <1>a DEF RestartServer
<1> QED
  BY <1>1, <1>2, <1>3, <1>4, <1>5, <1>6, <1>7, <1>8, <1>9, <1>10, <1>11,
     <1>12, <1>13, <1>14 DEF CatalogNext, ItemSteps, RecipeSteps, VendorSteps

\* A recipe inherits neither the runs nor the lines of a deleted one.
THEOREM NoInheritedRunsSafe == CatalogSpec => []NoInheritedRuns
<1>1. CatalogTypeOK /\ NoInheritedRuns /\ [CatalogNext]_catalogVars
        => CatalogTypeOK' /\ NoInheritedRuns'
  BY CatalogTyped, RunsKept
<1> QED
  BY CatalogAtFirst, <1>1, PTL DEF CatalogSpec

\* Neither the batches of a deleted item nor the runs or lines of a deleted
\* recipe pass to a row with its id, but for stock bought under the id while no
\* item had it.
THEOREM NoStockOrRunsInheritedSafe == CatalogSpec => []NoStockOrRunsInherited
BY NoInheritedBatchesSafe, NoInheritedRunsSafe, PTL DEF NoStockOrRunsInherited
-----------------------------------------------------------------------------
(* The contacts *)

\* A step keeps the parent of every contact the row that was meant: an
\* organisation that goes releases its children first.
LEMMA ParentKept ==
  ASSUME CatalogTypeOK, ParentInv, [CatalogNext]_catalogVars
  PROVE  ParentInv'
<1> USE DEF hanging, contacts
<1>0. \A i \in RowIds : parent[i] \in RowIds \cup {0}
  BY DEF CatalogTypeOK
<1>a. ASSUME row'["vendors"] = row["vendors"], UNCHANGED <<parent, meant>>,
             adrift' = adrift
      PROVE  ParentInv'
  BY <1>a DEF ParentInv, Exists
<1>b. ASSUME NEW t \in {"items", "recipes"}, NEW i, Birth(t, i)
      PROVE  row'["vendors"] = row["vendors"]
  BY <1>b, TableFacts DEF Birth, CatalogTypeOK
\* Contact i names p; other rows are as they were, and p is none but i.
<1>c. ASSUME NEW i \in RowIds, NEW p \in RowIds \cup {0}, Adopt(i, p),
             \A j \in RowIds :
               Exists("vendors", j) => row'["vendors"][j] = row["vendors"][j],
             \A j \in RowIds : j # i =>
               (Exists("vendors", j)' => Exists("vendors", j))
      PROVE  ParentInv'
  <2> SUFFICES ASSUME ~adrift', NEW k \in RowIds, Exists("vendors", k)',
                      parent'[k] # 0
               PROVE  /\ row'["vendors"][parent'[k]] # 0
                      /\ row'["vendors"][parent'[k]] = meant'[k]
    BY DEF ParentInv, Exists
  <2>1. /\ ~adrift /\ (p # 0 => Exists("vendors", p))
        /\ parent' = [parent EXCEPT ![i] = p]
        /\ meant' = [meant EXCEPT ![i] = IF p = 0 THEN 0
                                         ELSE row["vendors"][p]]
    BY <1>c DEF Adopt
  <2>2. CASE k = i
    <3>1. parent'[k] = p /\ p # 0 /\ meant'[k] = row["vendors"][p]
      BY <2>1, <2>2 DEF CatalogTypeOK
    <3>2. row'["vendors"][p] = row["vendors"][p] /\ row["vendors"][p] # 0
      BY <1>c, <2>1, <3>1 DEF Exists
    <3> QED
      BY <3>1, <3>2 DEF Exists
  <2>3. CASE k # i
    <3>1. parent'[k] = parent[k] /\ meant'[k] = meant[k]
      BY <2>1, <2>3 DEF CatalogTypeOK
    <3>2. Exists("vendors", k) /\ parent[k] \in RowIds /\ parent[k] # 0
      BY <1>0, <1>c, <2>3, <3>1
    <3>3. /\ Exists("vendors", parent[k])
          /\ row["vendors"][parent[k]] = meant[k]
      BY <2>1, <3>2 DEF ParentInv
    <3>4. row'["vendors"][parent[k]] = row["vendors"][parent[k]]
      BY <1>c, <3>2, <3>3
    <3> QED
      BY <3>1, <3>3, <3>4 DEF Exists
  <2> QED
    BY <2>2, <2>3
<1>1. ASSUME NEW org \in BOOLEAN, NEW p \in RowIds \cup {0},
             CreateVendor(org, p)
      PROVE  ParentInv'
  <2> DEFINE i == NextId("vendors")
  <2>1. Birth("vendors", i) /\ Adopt(i, p)
    BY <1>1 DEF CreateVendor
  <2>2. i \in RowIds
    BY <2>1 DEF Birth
  <2>3. ~Exists("vendors", i)
    BY <2>2, NextIdFree
  <2>4. \A j \in RowIds : row'["vendors"][j] =
          IF j = i THEN nBirths + 1 ELSE row["vendors"][j]
    BY <2>1, BirthRow, TableFacts
  <2> HIDE DEF i
  <2>5. /\ \A j \in RowIds : Exists("vendors", j) =>
              row'["vendors"][j] = row["vendors"][j]
        /\ \A j \in RowIds : j # i =>
             (Exists("vendors", j)' => Exists("vendors", j))
    BY <2>3, <2>4 DEF Exists
  <2> QED
    BY <1>c, <2>1, <2>2, <2>5
<1>2. ASSUME NEW org \in BOOLEAN, NEW p \in RowIds \cup {0},
             NEW c \in Clerks, UpdateVendor(c, org, p)
      PROVE  ParentInv'
  <2> DEFINE i == clerk[c].id
  <2>1. Finishes(c, "update vendor") /\ row' = row
    BY <1>2 DEF UpdateVendor
  <2>2. i \in RowIds
    BY <2>1, FinishesTyped
  <2>3. UNCHANGED <<parent, meant, adrift>> \/ Adopt(i, p)
    BY <1>2 DEF UpdateVendor
  <2> HIDE DEF i
  <2> QED
    BY <2>1, <2>2, <2>3, <1>a, <1>c DEF Exists
<1>3. ASSUME NEW c \in Clerks, NEW cascade \in BOOLEAN,
             DeleteVendor(c, cascade)
      PROVE  ParentInv'
  <2> DEFINE i == clerk[c].id
             kids == IF clerk[c].org THEN Children(i) ELSE {}
             gone == {i} \cup (IF cascade THEN kids ELSE {})
  <2>1. /\ row' = [row EXCEPT !["vendors"] =
                     [k \in RowIds |-> IF k \in gone THEN 0 ELSE @[k]]]
        /\ parent' = [k \in RowIds |-> IF k \in kids \cup gone THEN 0
                                       ELSE parent[k]]
        /\ meant' = [k \in RowIds |-> IF k \in kids \cup gone THEN 0
                                      ELSE meant[k]]
        /\ adrift' = \/ adrift
                     \/ ~clerk[c].org /\ Children(i) # {}
                     \/ cascade /\ \E k \in kids : Children(k) # {}
    BY <1>3 DEF DeleteVendor, Released
  <2>2. \A j \in RowIds : row'["vendors"][j] =
          IF j \in gone THEN 0 ELSE row["vendors"][j]
    <3> HIDE DEF gone
    <3> QED
      BY <2>1, TableFacts DEF CatalogTypeOK
  <2>3. \A j : \A k \in RowIds : k \in Children(j) <=>
                               Exists("vendors", k) /\ parent[k] = j
    BY DEF Children
  <2> SUFFICES ASSUME ~adrift', NEW k \in RowIds, Exists("vendors", k)',
                      parent'[k] # 0
               PROVE  /\ row'["vendors"][parent'[k]] # 0
                      /\ row'["vendors"][parent'[k]] = meant'[k]
    BY DEF ParentInv, Exists
  <2>4. k \notin kids \cup gone
    BY <2>1
  <2>5. parent'[k] = parent[k] /\ meant'[k] = meant[k]
    BY <2>1, <2>4
  <2>6. Exists("vendors", k) /\ parent[k] \in RowIds /\ ~adrift
    BY <1>0, <2>1, <2>2, <2>4, <2>5 DEF Exists
  <2>7. /\ Exists("vendors", parent[k])
        /\ row["vendors"][parent[k]] = meant[k]
    BY <2>5, <2>6 DEF ParentInv
  <2>8. parent[k] \notin gone
    <3>1. parent[k] # i
      BY <2>1, <2>3, <2>4, <2>6
    <3>2. cascade => parent[k] \notin kids
      BY <2>1, <2>3, <2>6
    <3> QED
      BY <3>1, <3>2
  <2>9. row'["vendors"][parent[k]] = row["vendors"][parent[k]]
    BY <2>2, <2>6, <2>8
  <2> QED
    BY <2>5, <2>7, <2>9 DEF Exists
<1>4. ASSUME NEW c \in Clerks, NEW i \in RowIds,
             UpsertLoad(c, i) \/ DeleteItemLoad(c, i)
               \/ UpdateVendorLoad(c, i) \/ DeleteVendorLoad(c, i)
      PROVE  ParentInv'
  BY <1>4, <1>a DEF UpsertLoad, DeleteItemLoad, UpdateVendorLoad,
                    DeleteVendorLoad
<1>5. CASE CreateItem
  BY <1>5, <1>a, <1>b DEF CreateItem
<1>6. ASSUME NEW i \in RowIds, AddBatch(i)
      PROVE  ParentInv'
  BY <1>6, <1>a DEF AddBatch
<1>7. ASSUME NEW c \in Clerks, UpsertItem(c)
      PROVE  ParentInv'
  <2>1. row' = row \/ Birth("items", clerk[c].id)
    BY <1>7 DEF UpsertItem
  <2> QED
    BY <1>7, <2>1, <1>a, <1>b DEF UpsertItem
<1>8. ASSUME NEW c \in Clerks, DeleteItem(c)
      PROVE  ParentInv'
  <2>1. row'["vendors"] = row["vendors"]
    BY <1>8, TableFacts DEF DeleteItem, CatalogTypeOK
  <2> QED
    BY <1>8, <2>1, <1>a DEF DeleteItem
<1>9. ASSUME NEW items \in SUBSET RowIds, CreateRecipe(items)
      PROVE  ParentInv'
  BY <1>9, <1>a, <1>b DEF CreateRecipe
<1>10. ASSUME NEW r \in RowIds, DeleteRecipe(r)
       PROVE  ParentInv'
  <2>1. row'["vendors"] = row["vendors"]
    BY <1>10, TableFacts DEF DeleteRecipe, CatalogTypeOK
  <2> QED
    BY <1>10, <2>1, <1>a DEF DeleteRecipe
<1>11. ASSUME NEW r \in RowIds, NEW items \in SUBSET RowIds,
              UpdateRecipe(r, items) \/ AddRun(r)
       PROVE  ParentInv'
  BY <1>11, <1>a DEF UpdateRecipe, AddRun
<1>12. ASSUME NEW r \in RowIds, AddRun(r)
       PROVE  ParentInv'
  BY <1>12, <1>a DEF AddRun
<1>13. CASE UNCHANGED catalogVars
  BY <1>13, <1>a DEF catalogVars
<1>14. ASSUME NEW orgs, RestartServer(orgs)
       PROVE  ParentInv'
  BY <1>14, <1>a DEF RestartServer
<1> QED
  BY <1>1, <1>2, <1>3, <1>4, <1>5, <1>6, <1>7, <1>8, <1>9, <1>10, <1>11,
     <1>12, <1>13, <1>14 DEF CatalogNext, ItemSteps, RecipeSteps, VendorSteps

\* No other contact takes the place of the organisation a contact was put in.
THEOREM ChildrenNameTheirOrgSafe == CatalogSpec => []ChildrenNameTheirOrg
<1>1. CatalogTypeOK /\ ParentInv /\ [CatalogNext]_catalogVars
        => CatalogTypeOK' /\ ParentInv'
  BY CatalogTyped, ParentKept
<1>2. ParentInv => ChildrenNameTheirOrg
  BY DEF ParentInv, ChildrenNameTheirOrg
<1> QED
  BY CatalogAtFirst, <1>1, <1>2, PTL DEF CatalogSpec

-----------------------------------------------------------------------------
(* The organizer *)

\* A commit that has not failed has carried out all that it has behind it.
JobsInv ==
  \A h \in Jobs :
    /\ job[h].at \in {"preview", "commit"} => job[h].id \in PlanIds
    /\ job[h].at = "commit" /\ ~job[h].failed =>
         \A x \in job[h].actions \ job[h].left : <<job[h].id, x>> \in carried

\* Files of which an older one with the same content was there at first.
Younger ==
  {f \in born : \E g \in born : g.content = f.content /\ g.age < f.age}

\* One of the first files, none, or one of a content that is unsure.
IsKnown(f) == f \in born \cup {NoFile} \/ f.content \in unsure

\* The path still holds the file, or none, or one of a content that is unsure.
Remains(p, f) == fileAt[p] \in {f, NoFile} \/ fileAt[p].content \in unsure

\* The action puts nothing but a younger file into the quarantine, a file that
\* is there already, or one of a content that is unsure.
MovesDuplicate(x) ==
  /\ x.kind = "move" /\ x.dst[1] = Quarantine
  /\ x.src[1] # Quarantine =>
       \/ fileAt[x.src] \in Younger \cup {NoFile}
       \/ fileAt[x.src].content \in unsure

\* All actions of a plan move a duplicate into the quarantine.
OnlyDuplicates(actions) == \A x \in actions : MovesDuplicate(x)

\* The saved plans of duplicates do.
TablesMoveDuplicates ==
  \A id \in PlanIds :
    id[1] = "dup" /\ table[id] # NoPlan => OnlyDuplicates(table[id].actions)

\* The plans of duplicates that requests have read do.
JobsMoveDuplicates ==
  \A h \in Jobs :
    job[h].at \in {"preview", "commit"} /\ job[h].id[1] = "dup" =>
      OnlyDuplicates(job[h].actions)

\* What a walk has seen is known; outside the quarantine it is still there, or
\* gone.
TreesLast ==
  \A h \in Jobs : \A e \in job[h].tree :
    IsKnown(e[2]) /\ (e[1][1] # Quarantine => Remains(e[1], e[2]))

\* The oldest file of each content stays where it is, unless that is unsure.
OldestStay ==
  \A f \in born \ Younger :
    \/ f.content \in unsure
    \/ \E p \in Paths : p[1] # Quarantine /\ fileAt[p] = f

\* Every file is known.
FilesKnown == \A p \in Paths : IsKnown(fileAt[p])

\* Plans move nothing but duplicates.
OnlyDuplicatesMove ==
  /\ TablesMoveDuplicates /\ JobsMoveDuplicates
  /\ TreesLast /\ OldestStay /\ FilesKnown

\* They do, as long as no other plan was carried out.
DupInv == ~meddled => OnlyDuplicatesMove

\* What a request may have at hand.
States == [at : {"idle", "dup", "rn", "preview", "commit"},
           id : PlanIds \cup {NoPlan}, actions : SUBSET Actions,
           left : SUBSET Actions, failed : BOOLEAN,
           tree : SUBSET (Paths \X Held)]

\* The files there may be stay the same.
LEMMA HeldKept ==
  ASSUME born' = born
  PROVE  Held' = Held /\ States' = States
BY DEF Held, States

\* They are files.
LEMMA HeldFiles ==
  ASSUME OrganizerTypeOK
  PROVE  Held \subseteq Files \ {NoFile} /\ born \subseteq Held
BY OrganizerAssumption DEF Held, OrganizerTypeOK

\* The fields of no request.
LEMMA IdleFacts ==
  /\ Idle.at = "idle" /\ Idle.id = NoPlan /\ Idle.actions = {}
  /\ Idle.left = {} /\ Idle.failed = FALSE /\ Idle.tree = {}
  /\ Idle \in States
BY DEF Idle, States

\* The fields of a request.
LEMMA JobFacts ==
  ASSUME OrganizerTypeOK, NEW h \in Jobs
  PROVE  /\ job \in [Jobs -> States]
         /\ job[h] \in States
         /\ job[h].id \in PlanIds \cup {NoPlan}
         /\ job[h].actions \subseteq Actions
         /\ job[h].left \subseteq job[h].actions
         /\ job[h].failed \in BOOLEAN
         /\ job[h].tree \subseteq Paths \X Held
<1>1. job \in [Jobs -> States]
  BY DEF OrganizerTypeOK, States
<1>2. job[h] \in States
  BY <1>1
<1>3. job[h].left \subseteq job[h].actions
  BY DEF OrganizerTypeOK
<1> QED
  BY <1>1, <1>2, <1>3 DEF States

\* One request moves on, the others stay.
LEMMA JobSet ==
  ASSUME OrganizerTypeOK, NEW h \in Jobs, NEW s \in States,
         s.left \subseteq s.actions, job' = [job EXCEPT ![h] = s],
         born' = born
  PROVE  /\ job' \in [Jobs -> States]
         /\ job'[h] = s
         /\ \A g \in Jobs : g # h => job'[g] = job[g]
         /\ \A g \in Jobs : job'[g].left \subseteq job'[g].actions
<1>1. job \in [Jobs -> States]
  BY JobFacts
<1>2. /\ job' \in [Jobs -> States]
      /\ job'[h] = s
      /\ \A g \in Jobs : g # h => job'[g] = job[g]
  BY <1>1
<1>3. \A g \in Jobs : job'[g].left \subseteq job'[g].actions
  BY <1>2 DEF OrganizerTypeOK
<1> QED
  BY <1>2, <1>3

\* No request has nothing left to do.
LEMMA IdleFits ==
  Idle \in States /\ Idle.left \subseteq Idle.actions
BY IdleFacts

\* The parts of a path.
LEMMA PathFacts ==
  ASSUME NEW p \in Paths
  PROVE  /\ p[1] \in Folders /\ p[2] \in Names /\ p[3] \in 0 .. MaxSuffix
         /\ p = <<p[1], p[2], p[3]>>
BY DEF Paths

\* A plan that is saved changes its own row and no other.
LEMMA SaveTyped ==
  ASSUME OrganizerTypeOK, NEW id \in PlanIds,
         NEW new \in {"draft", "previewed", "committed", "failed"},
         NEW actions \in SUBSET Actions, SavePlan(id, new, actions)
  PROVE  /\ table' \in [PlanIds -> Plans \cup {NoPlan}]
         /\ table'[id] = [status |-> new, actions |-> actions]
         /\ \A k \in PlanIds : k # id => table'[k] = table[k]
<1> DEFINE plan == [status |-> new, actions |-> actions]
<1>1. plan \in Plans
  BY DEF Plans
<1>2. table' = [table EXCEPT ![id] = plan]
  BY DEF SavePlan
<1>3. table \in [PlanIds -> Plans \cup {NoPlan}]
  BY DEF OrganizerTypeOK
<1> HIDE DEF plan
<1>4. /\ table' \in [PlanIds -> Plans \cup {NoPlan}]
      /\ table'[id] = plan
      /\ \A k \in PlanIds : k # id => table'[k] = table[k]
  BY <1>1, <1>2, <1>3
<1> QED
  BY <1>4 DEF plan

\* The name that a duplicate gets is free, and in the quarantine.
LEMMA FreeNameIsFree ==
  ASSUME NEW p \in Paths, ~There(<<Quarantine, p[2], MaxSuffix>>)
  PROVE  FreeName(p) \in Paths /\ FreeName(p)[1] = Quarantine
<1> DEFINE T == {n \in p[3] .. MaxSuffix : ~There(<<Quarantine, p[2], n>>)}
<1>1. /\ MaxSuffix \in Nat /\ Quarantine \in Folders
      /\ p[2] \in Names /\ p[3] \in 0 .. MaxSuffix
  BY PathFacts, OrganizerAssumption
<1>2. T \subseteq Nat /\ MaxSuffix \in T
  BY <1>1
<1> HIDE DEF T
<1>3. PICK n \in T : \A m \in T : ~(<<m, n>> \in OpToRel(<, Nat))
  BY <1>2, NatLessThanWellFounded, WFMin
<1>4. \A m \in T : ~(m < n)
  BY <1>2, <1>3 DEF OpToRel
<1>5. /\ n \in p[3] .. MaxSuffix
      /\ ~There(<<Quarantine, p[2], n>>)
  BY DEF T
<1>6. \A m \in p[3] .. n - 1 : There(<<Quarantine, p[2], m>>)
  BY <1>1, <1>4, <1>5 DEF T
<1> DEFINE k == <<Quarantine, p[2], n>>
<1>7. k \in Paths /\ k[1] = Quarantine /\ k[2] = p[2] /\ k[3] = n
  BY <1>1, <1>5 DEF Paths
<1>8. /\ k[1] = Quarantine /\ k[2] = p[2] /\ ~There(k)
      /\ \A m \in p[3] .. k[3] - 1 : There(<<Quarantine, p[2], m>>)
  BY <1>5, <1>6, <1>7
<1> HIDE DEF k
<1> QED
  BY <1>7, <1>8 DEF FreeName

\* The plan of duplicates moves files of the tree into the quarantine.
LEMMA MovesTyped ==
  ASSUME OrganizerTypeOK, NEW tree \in SUBSET (Paths \X Held),
         \A e \in Duplicates(tree) :
           ~There(<<Quarantine, e[1][2], MaxSuffix>>)
  PROVE  /\ Moves(tree) \subseteq Actions
         /\ \A x \in Moves(tree) : \E e \in Duplicates(tree) :
              /\ x.kind = "move" /\ x.src = e[1]
              /\ x.dst[1] = Quarantine
<1> SUFFICES ASSUME NEW x \in Moves(tree)
             PROVE  /\ x \in Actions
                    /\ \E e \in Duplicates(tree) :
                         /\ x.kind = "move" /\ x.src = e[1]
                         /\ x.dst[1] = Quarantine
  OBVIOUS
<1>1. PICK e \in Duplicates(tree) :
        x = [kind |-> "move", src |-> e[1], dst |-> FreeName(e[1])]
  BY DEF Moves
<1>2. e[1] \in Paths
  BY DEF Duplicates
<1>3. FreeName(e[1]) \in Paths /\ FreeName(e[1])[1] = Quarantine
  BY <1>2, FreeNameIsFree
<1>4. x \in Actions
  BY <1>1, <1>2, <1>3 DEF Actions, Kinds
<1> QED
  BY <1>1, <1>3, <1>4

\* The plan of renames is one of actions.
LEMMA RenamesTyped ==
  ASSUME NEW tree \in SUBSET (Paths \X Held)
  PROVE  Renames(tree) \subseteq Actions
<1> SUFFICES ASSUME NEW x \in Renames(tree)
             PROVE  x \in Actions
  OBVIOUS
<1>1. PICK e \in tree :
        x = [kind |-> "rename", src |-> e[1],
             dst |-> <<e[1][1], Normal[e[1][2]], e[1][3]>>]
  BY DEF Renames
<1>2. e[1] \in Paths
  OBVIOUS
<1>3. <<e[1][1], Normal[e[1][2]], e[1][3]>> \in Paths
  BY <1>2, PathFacts, OrganizerAssumption DEF Paths
<1> QED
  BY <1>1, <1>2, <1>3 DEF Actions, Kinds

\* An action keeps the paths typed.
LEMMA DoneTyped ==
  ASSUME OrganizerTypeOK, NEW a \in Actions
  PROVE  Done(a) \in [Paths -> Held \cup {NoFile}]
<1>1. fileAt \in [Paths -> Held \cup {NoFile}]
  BY DEF OrganizerTypeOK
<1>2. a.kind \in Kinds /\ a.src \in Paths /\ a.dst \in Paths
  BY DEF Actions
<1>3. CASE a.kind \in {"move", "rename"}
  <2> DEFINE moved == [p \in Paths |-> IF p = a.dst THEN fileAt[a.src]
                         ELSE IF p = a.src THEN NoFile ELSE fileAt[p]]
  <2>1. Done(a) = moved
    BY <1>3 DEF Done
  <2>2. moved \in [Paths -> Held \cup {NoFile}]
    BY <1>1, <1>2
  <2> QED
    BY <2>1, <2>2
<1>4. CASE a.kind \in {"copy", "hardlink"}
  <2>1. Done(a) = [fileAt EXCEPT ![a.dst] = fileAt[a.src]]
    BY <1>4 DEF Done
  <2> QED
    BY <1>1, <1>2, <2>1
<1>5. CASE a.kind = "delete"
  <2>1. Done(a) = [fileAt EXCEPT ![a.src] = NoFile]
    BY <1>5 DEF Done
  <2> QED
    BY <1>1, <1>2, <2>1
<1> QED
  BY <1>2, <1>3, <1>4, <1>5 DEF Kinds
-----------------------------------------------------------------------------
(* Types *)

\* The organizer starts with its types.
LEMMA OrganizerInitTyped ==
  ASSUME OrganizerInit
  PROVE  OrganizerTypeOK
<1>1. fileAt \in [Paths -> Files \cup {NoFile}]
  BY OrganizerAssumption DEF OrganizerInit
<1>2. born = {fileAt[p] : p \in Paths} \ {NoFile}
  BY DEF OrganizerInit
<1>3. /\ fileAt \in [Paths -> Held \cup {NoFile}]
      /\ born \subseteq Files \ {NoFile}
  BY <1>1, <1>2 DEF Held
<1>4. job \in [Jobs -> States]
  BY IdleFacts DEF OrganizerInit
<1>5. \A h \in Jobs : job[h].left \subseteq job[h].actions
  BY IdleFacts DEF OrganizerInit
<1>6. second \in 0 .. MaxSeconds /\ served \in 0 .. MaxServed
  BY OrganizerAssumption DEF OrganizerInit
<1>7. table \in [PlanIds -> Plans \cup {NoPlan}]
  BY DEF OrganizerInit
<1>8. /\ carried \subseteq PlanIds \X Actions
      /\ {meddled, cleared} \subseteq BOOLEAN /\ unsure \subseteq Nat
  BY DEF OrganizerInit
<1> QED
  BY <1>3, <1>4, <1>5, <1>6, <1>7, <1>8 DEF OrganizerTypeOK, States

\* A request ends, and its plan is saved or nothing is.
LEMMA EndTyped ==
  ASSUME OrganizerTypeOK, NEW h \in Jobs, job' = [job EXCEPT ![h] = Idle],
         table' \in [PlanIds -> Plans \cup {NoPlan}],
         unsure' \subseteq Nat,
         UNCHANGED <<fileAt, second, served, born, commitHistory>>
  PROVE  OrganizerTypeOK'
<1>1. Held' = Held
  BY HeldKept
<1>2. /\ job' \in [Jobs -> States]
      /\ \A g \in Jobs : job'[g].left \subseteq job'[g].actions
  BY IdleFits, JobSet
<1> QED
  BY <1>1, <1>2 DEF OrganizerTypeOK, commitHistory, States

\* A request moves on.
LEMMA MoveTyped ==
  ASSUME OrganizerTypeOK, NEW h \in Jobs, NEW s \in States,
         s.left \subseteq s.actions, job' = [job EXCEPT ![h] = s],
         served' \in 0 .. MaxServed,
         UNCHANGED <<fileAt, table, second, organizerHistory>>
  PROVE  OrganizerTypeOK'
<1>1. born' = born /\ Held' = Held
  BY HeldKept DEF organizerHistory
<1>2. /\ job' \in [Jobs -> States]
      /\ \A g \in Jobs : job'[g].left \subseteq job'[g].actions
  BY <1>1, JobSet
<1> QED
  BY <1>1, <1>2 DEF OrganizerTypeOK, organizerHistory, commitHistory, States

\* A request more is served.
LEMMA BeginsTyped ==
  ASSUME OrganizerTypeOK, Begins
  PROVE  served' \in 0 .. MaxServed
BY OrganizerAssumption DEF OrganizerTypeOK, Begins

\* What a walk and a read of a plan make of a request.
Seen(kind, start) ==
  [Idle EXCEPT !.at = kind,
               !.tree = {<<p, fileAt[p]>> :
                           p \in {q \in Paths : q[1] \in start /\ There(q)}}]

\* A request that has read its plan.
Opened(use, id) ==
  [Idle EXCEPT !.at = use, !.id = id, !.actions = table[id].actions,
               !.left = IF use = "commit" THEN table[id].actions ELSE {}]

\* The fields of a request that has read the tree.
LEMMA SeenFacts ==
  ASSUME OrganizerTypeOK, NEW kind \in {"dup", "rn"}, NEW start
  PROVE  /\ Seen(kind, start) \in States
         /\ Seen(kind, start).left = {} /\ Seen(kind, start).at = kind
         /\ \A e \in Seen(kind, start).tree :
              e[1] \in Paths /\ e[2] = fileAt[e[1]]
<1> DEFINE tree == {<<p, fileAt[p]>> :
                      p \in {q \in Paths : q[1] \in start /\ There(q)}}
<1>1. tree \subseteq Paths \X Held
  BY DEF OrganizerTypeOK, There
<1>2. \A e \in tree : e[1] \in Paths /\ e[2] = fileAt[e[1]]
  OBVIOUS
<1>0. Seen(kind, start) = [Idle EXCEPT !.at = kind, !.tree = tree]
  BY DEF Seen
<1> HIDE DEF tree
<1>3. Seen(kind, start) = [at |-> kind, id |-> NoPlan, actions |-> {},
                           left |-> {}, failed |-> FALSE, tree |-> tree]
  BY <1>0 DEF Idle
<1> QED
  BY <1>1, <1>2, <1>3 DEF States

\* The fields of a request that has read its plan.
LEMMA OpenedFacts ==
  ASSUME OrganizerTypeOK, NEW use \in {"preview", "commit"},
         NEW id \in PlanIds, table[id] # NoPlan
  PROVE  /\ Opened(use, id) \in States
         /\ Opened(use, id).left \subseteq Opened(use, id).actions
         /\ Opened(use, id).at = use /\ Opened(use, id).id = id
         /\ Opened(use, id).actions = table[id].actions
         /\ use = "commit" => Opened(use, id).left = table[id].actions
         /\ Opened(use, id).tree = {}
<1>1. table[id].actions \subseteq Actions
  BY DEF OrganizerTypeOK, Plans
<1> DEFINE left == IF use = "commit" THEN table[id].actions ELSE {}
<1>2. left \subseteq table[id].actions
  OBVIOUS
<1>4. use = "commit" => left = table[id].actions
  OBVIOUS
<1>5. Opened(use, id) = [Idle EXCEPT !.at = use, !.id = id,
                           !.actions = table[id].actions, !.left = left]
  BY DEF Opened
<1> HIDE DEF left
<1>3. Opened(use, id) = [at |-> use, id |-> id, actions |-> table[id].actions,
                         left |-> left, failed |-> FALSE, tree |-> {}]
  BY <1>5 DEF Idle
<1> QED
  BY <1>1, <1>2, <1>3, <1>4 DEF States

\* An action of a commit is behind it.
LEMMA LeftFacts ==
  ASSUME OrganizerTypeOK, NEW h \in Jobs, NEW a \in job[h].left,
         NEW s \in {PassOver(h, a), NoteFailure(h, a)}
  PROVE  /\ s \in States /\ s.left = job[h].left \ {a}
         /\ s.at = job[h].at /\ s.id = job[h].id
         /\ s.actions = job[h].actions /\ s.tree = job[h].tree
         /\ s.left \subseteq s.actions
         /\ ~s.failed => ~job[h].failed
<1> DEFINE j == job[h]
<1>1. j \in States /\ j.left \subseteq j.actions
  BY JobFacts
<1> HIDE DEF j
<1>2. /\ PassOver(h, a) = [j EXCEPT !.left = @ \ {a}]
      /\ NoteFailure(h, a) = [j EXCEPT !.left = @ \ {a}, !.failed = TRUE]
  BY DEF PassOver, NoteFailure, j
<1>3. s.left = j.left \ {a}
  BY <1>1, <1>2 DEF States
<1>4. s \in States
  <2> DEFINE rest == j.left \ {a}
  <2>1. rest \in SUBSET Actions
    BY <1>1 DEF States
  <2>2. s \in {[j EXCEPT !.left = rest],
               [j EXCEPT !.left = rest, !.failed = TRUE]}
    BY <1>2
  <2> HIDE DEF rest
  <2>3. CASE s = [j EXCEPT !.left = rest]
    BY <1>1, <2>1, <2>3 DEF States
  <2>4. CASE s = [j EXCEPT !.left = rest, !.failed = TRUE]
    BY <1>1, <2>1, <2>4 DEF States
  <2> QED
    BY <2>2, <2>3, <2>4
<1>7. CASE s = [j EXCEPT !.left = @ \ {a}]
  <2>1. /\ s.at = j.at /\ s.id = j.id /\ s.actions = j.actions
        /\ s.tree = j.tree /\ s.failed = j.failed
    BY <1>1, <1>7 DEF States
  <2> QED
    BY <2>1, <1>1, <1>3, <1>4 DEF j
<1>8. CASE s = [j EXCEPT !.left = @ \ {a}, !.failed = TRUE]
  <2>1. /\ s.at = j.at /\ s.id = j.id /\ s.actions = j.actions
        /\ s.tree = j.tree /\ s.failed = TRUE
    BY <1>1, <1>8 DEF States
  <2> QED
    BY <2>1, <1>1, <1>3, <1>4 DEF j
<1> QED
  BY <1>2, <1>7, <1>8

\* Of an action that is carried out the commit keeps what it passed.
LEMMA CarryOutJob ==
  ASSUME NEW h, NEW a, CarryOut(h, a)
  PROVE  job' = [job EXCEPT ![h] = PassOver(h, a)]
BY DEF CarryOut, PassOver

\* A step of the organizer or of the user keeps the types.
LEMMA OrganizerNextTyped ==
  ASSUME OrganizerTypeOK, JobsInv, OrganizerNext
  PROVE  OrganizerTypeOK'
<1>1. ASSUME NEW h \in Jobs, NEW kind \in {"dup", "rn"}, NEW s \in Starts,
             Walk(h, kind, s)
      PROVE  OrganizerTypeOK'
  <2>1. /\ Begins /\ job' = [job EXCEPT ![h] = Seen(kind, s)]
        /\ UNCHANGED <<fileAt, table, second, organizerHistory>>
    BY <1>1 DEF Walk, Seen
  <2>2. /\ Seen(kind, s) \in States
        /\ Seen(kind, s).left \subseteq Seen(kind, s).actions
    BY SeenFacts
  <2> QED
    BY <2>1, <2>2, BeginsTyped, MoveTyped
<1>2. ASSUME NEW h \in Jobs, PlanDuplicates(h)
      PROVE  OrganizerTypeOK'
  <2>1. Moves(job[h].tree) \in SUBSET Actions
    BY <1>2, JobFacts, MovesTyped DEF PlanDuplicates
  <2>2. <<"dup", second>> \in PlanIds
    BY DEF PlanIds, OrganizerTypeOK
  <2>3. table' \in [PlanIds -> Plans \cup {NoPlan}]
    BY <1>2, <2>1, <2>2, SaveTyped DEF PlanDuplicates
  <2>4. Unclear(job[h].tree) \subseteq Nat
    <3>1. \A e \in job[h].tree : e[2] \in Files
      BY JobFacts, HeldFiles
    <3> QED
      BY <3>1 DEF Unclear, Files
  <2>5. unsure' \subseteq Nat
    BY <1>2, <2>4 DEF PlanDuplicates, OrganizerTypeOK
  <2> QED
    BY <1>2, <2>3, <2>5, EndTyped DEF PlanDuplicates
<1>3. ASSUME NEW h \in Jobs, PlanRenames(h)
      PROVE  OrganizerTypeOK'
  <2>1. Renames(job[h].tree) \in SUBSET Actions
    BY JobFacts, RenamesTyped
  <2>2. <<"rn", second>> \in PlanIds
    BY DEF PlanIds, OrganizerTypeOK
  <2>3. table' \in [PlanIds -> Plans \cup {NoPlan}]
    BY <1>3, <2>1, <2>2, SaveTyped DEF PlanRenames
  <2> QED
    BY <1>3, <2>3, EndTyped DEF PlanRenames, organizerHistory, OrganizerTypeOK
<1>4. ASSUME NEW h \in Jobs, NEW use \in {"preview", "commit"},
             NEW id \in PlanIds, ReadPlan(h, use, id)
      PROVE  OrganizerTypeOK'
  <2>1. /\ Begins /\ job' = [job EXCEPT ![h] = Opened(use, id)]
        /\ table[id] # NoPlan
        /\ UNCHANGED <<fileAt, table, second, organizerHistory>>
    BY <1>4 DEF ReadPlan, Opened
  <2>2. /\ Opened(use, id) \in States
        /\ Opened(use, id).left \subseteq Opened(use, id).actions
    BY <2>1, OpenedFacts
  <2> QED
    BY <2>1, <2>2, BeginsTyped, MoveTyped
<1>5. ASSUME NEW h \in Jobs, Preview(h) \/ CommitPlan(h)
      PROVE  OrganizerTypeOK'
  <2>1. job[h].id \in PlanIds /\ job[h].actions \in SUBSET Actions
    BY <1>5, JobFacts DEF JobsInv, Preview, CommitPlan
  <2>2. PICK new \in {"draft", "previewed", "committed", "failed"} :
          SavePlan(job[h].id, new, job[h].actions)
    BY <1>5 DEF Preview, CommitPlan
  <2>3. table' \in [PlanIds -> Plans \cup {NoPlan}]
    BY <2>1, <2>2, SaveTyped
  <2> QED
    BY <1>5, <2>3, EndTyped
    DEF Preview, CommitPlan, organizerHistory, OrganizerTypeOK
<1>6. ASSUME NEW h \in Jobs, NEW a \in job[h].left, CarryOut(h, a)
      PROVE  OrganizerTypeOK'
  <2>1. a \in Actions /\ job[h].id \in PlanIds
    BY <1>6, JobFacts DEF JobsInv, CarryOut
  <2>2. /\ fileAt' = Done(a) /\ carried' = carried \cup {<<job[h].id, a>>}
        /\ meddled' = (meddled \/ job[h].id[1] # "dup")
        /\ cleared' = (cleared \/ job[h].id[1] # "rn")
        /\ UNCHANGED <<table, second, served, born, unsure>> /\ Held' = Held
    BY <1>6, HeldKept DEF CarryOut
  <2>3. fileAt' \in [Paths -> Held \cup {NoFile}]
    BY <2>1, <2>2, DoneTyped
  <2>4. carried' \subseteq PlanIds \X Actions
    BY <2>1, <2>2 DEF OrganizerTypeOK
  <2>5. /\ job' \in [Jobs -> States]
        /\ \A g \in Jobs : job'[g].left \subseteq job'[g].actions
    BY <1>6, <2>2, LeftFacts, CarryOutJob, JobSet
  <2>6. {meddled', cleared'} \subseteq BOOLEAN
    BY <2>2 DEF OrganizerTypeOK
  <2> QED
    BY <2>2, <2>3, <2>4, <2>5, <2>6 DEF OrganizerTypeOK, States
<1>7. ASSUME NEW h \in Jobs, NEW a \in job[h].left, ActionFails(h, a)
      PROVE  OrganizerTypeOK'
  <2>1. /\ job' = [job EXCEPT ![h] = NoteFailure(h, a)]
        /\ UNCHANGED <<fileAt, table, second, served, organizerHistory>>
    BY <1>7 DEF ActionFails
  <2>2. served' \in 0 .. MaxServed
    BY <2>1 DEF OrganizerTypeOK
  <2>3. /\ NoteFailure(h, a) \in States
        /\ NoteFailure(h, a).left \subseteq NoteFailure(h, a).actions
    BY LeftFacts
  <2> QED
    BY <2>1, <2>2, <2>3, MoveTyped
<1>8. ASSUME NEW actions \in UserPlans, CreatePlan(actions)
      PROVE  OrganizerTypeOK'
  <2>1. actions \in SUBSET Actions
    BY OrganizerAssumption
  <2>2. <<"user", 0>> \in PlanIds
    BY OrganizerAssumption DEF PlanIds
  <2>3. table' \in [PlanIds -> Plans \cup {NoPlan}]
    BY <1>8, <2>1, <2>2, SaveTyped DEF CreatePlan
  <2> QED
    BY <1>8, <2>3, HeldKept
    DEF CreatePlan, OrganizerTypeOK, organizerHistory, commitHistory
<1>9. CASE Tick
  BY <1>9, OrganizerAssumption, HeldKept
  DEF Tick, OrganizerTypeOK, organizerHistory, commitHistory
<1>10. CASE Die
  <2>1. /\ job' = [h \in Jobs |-> Idle]
        /\ UNCHANGED <<fileAt, table, second, served, organizerHistory>>
    BY <1>10 DEF Die
  <2>2. job' \in [Jobs -> States'] /\ Idle' = Idle
    BY <2>1, IdleFacts, HeldKept DEF organizerHistory, Idle
  <2>3. \A h \in Jobs : job'[h].left \subseteq job'[h].actions
    BY <2>1, IdleFacts
  <2> QED
    BY <2>1, <2>2, <2>3, HeldKept
    DEF OrganizerTypeOK, organizerHistory, commitHistory, States
<1>11. ASSUME NEW c \in UserChanges, ChangeFile(c[1], c[2])
       PROVE  OrganizerTypeOK'
  <2>1. c[1] \in Paths /\ c[2] \in Held \cup {NoFile}
    BY OrganizerAssumption DEF Held
  <2>2. fileAt' \in [Paths -> Held \cup {NoFile}]
    BY <1>11, <2>1 DEF ChangeFile, OrganizerTypeOK
  <2>3. served' \in 0 .. MaxServed
    BY <1>11, BeginsTyped DEF ChangeFile
  <2>4. unsure' \subseteq Nat
    <3>1. {fileAt[c[1]], c[2]} \ {NoFile} \subseteq Files
      BY <2>1, HeldFiles DEF OrganizerTypeOK
    <3>2. \A f \in Files : f.content \in Nat
      BY DEF Files
    <3>3. unsure \subseteq Nat
      BY DEF OrganizerTypeOK
    <3>4. unsure' = unsure \cup
                     {f.content : f \in {fileAt[c[1]], c[2]} \ {NoFile}}
      BY <1>11 DEF ChangeFile
    <3> QED
      BY <3>1, <3>2, <3>3, <3>4
  <2> QED
    BY <1>11, <2>2, <2>3, <2>4, HeldKept
    DEF ChangeFile, OrganizerTypeOK, commitHistory
<1> QED
  BY <1>1, <1>2, <1>3, <1>4, <1>5, <1>6, <1>7, <1>8, <1>9, <1>10, <1>11
  DEF OrganizerNext, Serve
-----------------------------------------------------------------------------
(* What a committed plan has done *)

\* A request moves on to a state that satisfies the invariant.
LEMMA JobsKept ==
  ASSUME OrganizerTypeOK, JobsInv, NEW h \in Jobs, NEW s \in States,
         s.left \subseteq s.actions,
         job' = [job EXCEPT ![h] = s], born' = born,
         carried \subseteq carried',
         s.at \in {"preview", "commit"} => s.id \in PlanIds,
         s.at = "commit" /\ ~s.failed =>
           \A x \in s.actions \ s.left : <<s.id, x>> \in carried'
  PROVE  JobsInv'
<1>1. job'[h] = s /\ \A g \in Jobs : g # h => job'[g] = job[g]
  BY JobSet
<1> SUFFICES ASSUME NEW g \in Jobs
             PROVE  /\ job'[g].at \in {"preview", "commit"} =>
                         job'[g].id \in PlanIds
                    /\ job'[g].at = "commit" /\ ~job'[g].failed =>
                         \A x \in job'[g].actions \ job'[g].left :
                           <<job'[g].id, x>> \in carried'
  BY DEF JobsInv
<1>2. CASE g = h
  BY <1>1, <1>2
<1>3. CASE g # h
  BY <1>1, <1>3 DEF JobsInv
<1> QED
  BY <1>2, <1>3

\* A step keeps what a commit that has not failed has carried out.
LEMMA JobsInvKept ==
  ASSUME OrganizerTypeOK, JobsInv, OrganizerNext
  PROVE  JobsInv'
<1>0. Idle.at = "idle"
  BY IdleFacts
<1>a. ASSUME NEW h \in Jobs, job' = [job EXCEPT ![h] = Idle],
             UNCHANGED <<born, carried>>
      PROVE  JobsInv'
  BY <1>a, <1>0, IdleFits, JobsKept
<1>b. ASSUME UNCHANGED <<job, carried>>
      PROVE  JobsInv'
  BY <1>b DEF JobsInv
<1>1. ASSUME NEW h \in Jobs, NEW kind \in {"dup", "rn"}, NEW s \in Starts,
             Walk(h, kind, s)
      PROVE  JobsInv'
  <2>1. /\ job' = [job EXCEPT ![h] = Seen(kind, s)]
        /\ UNCHANGED <<born, carried>>
    BY <1>1 DEF Walk, Seen, organizerHistory, commitHistory
  <2>2. /\ Seen(kind, s) \in States /\ Seen(kind, s).at = kind
        /\ Seen(kind, s).left \subseteq Seen(kind, s).actions
    BY SeenFacts
  <2> QED
    BY <2>1, <2>2, JobsKept
<1>2. ASSUME NEW h \in Jobs,
             PlanDuplicates(h) \/ PlanRenames(h) \/ Preview(h)
               \/ CommitPlan(h)
      PROVE  JobsInv'
  BY <1>2, <1>a DEF PlanDuplicates, PlanRenames, Preview, CommitPlan,
                    organizerHistory, commitHistory
<1>4. ASSUME NEW h \in Jobs, NEW use \in {"preview", "commit"},
             NEW id \in PlanIds, ReadPlan(h, use, id)
      PROVE  JobsInv'
  <2>1. /\ job' = [job EXCEPT ![h] = Opened(use, id)]
        /\ table[id] # NoPlan /\ UNCHANGED <<born, carried>>
    BY <1>4 DEF ReadPlan, Opened, organizerHistory, commitHistory
  <2> DEFINE s == Opened(use, id)
  <2>2. /\ s \in States /\ s.left \subseteq s.actions
        /\ s.at = use /\ s.id = id /\ s.actions = table[id].actions
        /\ use = "commit" => s.left = table[id].actions
    BY <2>1, OpenedFacts
  <2> HIDE DEF s
  <2>3. job' = [job EXCEPT ![h] = s]
    BY <2>1 DEF s
  <2>4. \A x : x \notin s.actions \ s.left \/ use # "commit"
    BY <2>2
  <2> QED
    BY <2>1, <2>2, <2>3, <2>4, JobsKept
<1>6. ASSUME NEW h \in Jobs, NEW a \in job[h].left,
             CarryOut(h, a) \/ ActionFails(h, a)
      PROVE  JobsInv'
  <2>1. PICK s \in {PassOver(h, a), NoteFailure(h, a)} :
          /\ job' = [job EXCEPT ![h] = s]
          /\ ~s.failed => carried' = carried \cup {<<job[h].id, a>>}
          /\ carried \subseteq carried' /\ born' = born
    <3>1. CASE CarryOut(h, a)
      BY <3>1, CarryOutJob DEF CarryOut
    <3>2. CASE ActionFails(h, a)
      <4>1. NoteFailure(h, a).failed
        BY JobFacts DEF NoteFailure, States
      <4> QED
        BY <3>2, <4>1 DEF ActionFails, organizerHistory, commitHistory
    <3> QED
      BY <1>6, <3>1, <3>2
  <2>2. /\ s \in States /\ s.left = job[h].left \ {a}
        /\ s.at = job[h].at /\ s.id = job[h].id
        /\ s.actions = job[h].actions
        /\ s.left \subseteq s.actions
        /\ ~s.failed => ~job[h].failed
    BY LeftFacts
  <2>3. s.at \in {"preview", "commit"} => s.id \in PlanIds
    BY <2>2 DEF JobsInv
  <2>4. ASSUME s.at = "commit", ~s.failed,
               NEW x \in s.actions \ s.left
        PROVE  <<s.id, x>> \in carried'
    <3>1. x \in job[h].actions \ job[h].left => <<job[h].id, x>> \in carried
      BY <2>2, <2>4 DEF JobsInv
    <3> QED
      BY <2>1, <2>2, <2>4, <3>1
  <2> QED
    BY <2>1, <2>2, <2>3, <2>4, JobsKept
<1>8. ASSUME NEW actions \in UserPlans, CreatePlan(actions)
      PROVE  JobsInv'
  BY <1>8, <1>b DEF CreatePlan, organizerHistory, commitHistory
<1>9. CASE Tick
  BY <1>9, <1>b DEF Tick, organizerHistory, commitHistory
<1>10. CASE Die
  <2>1. \A h \in Jobs : job'[h].at = "idle"
    BY <1>10, <1>0 DEF Die
  <2> QED
    BY <2>1 DEF JobsInv
<1>11. ASSUME NEW c \in UserChanges, ChangeFile(c[1], c[2])
       PROVE  JobsInv'
  BY <1>11, <1>b DEF ChangeFile, commitHistory
<1> QED
  BY <1>1, <1>2, <1>4, <1>6, <1>8, <1>9, <1>10, <1>11
  DEF OrganizerNext, Serve

\* A step records as committed no plan but one that has been carried out.
LEMMA CommittedKept ==
  ASSUME OrganizerTypeOK, JobsInv, CommittedIsDone, OrganizerNext
  PROVE  CommittedIsDone'
\* A plan is saved that is not committed, or has been carried out.
<1>a. ASSUME NEW id \in PlanIds,
             NEW new \in {"draft", "previewed", "committed", "failed"},
             NEW actions \in SUBSET Actions, SavePlan(id, new, actions),
             carried \subseteq carried',
             new = "committed" => \A x \in actions : <<id, x>> \in carried
      PROVE  CommittedIsDone'
  <2>1. /\ table'[id].status = new /\ table'[id].actions = actions
        /\ \A k \in PlanIds : k # id => table'[k] = table[k]
    <3>1. /\ table'[id] = [status |-> new, actions |-> actions]
          /\ \A k \in PlanIds : k # id => table'[k] = table[k]
      BY <1>a, SaveTyped
    <3> QED
      BY <3>1
  <2> SUFFICES ASSUME NEW k \in PlanIds, table'[k] # NoPlan,
                      table'[k].status = "committed",
                      NEW x \in table'[k].actions
               PROVE  <<k, x>> \in carried'
    BY DEF CommittedIsDone
  <2>2. CASE k = id
    BY <1>a, <2>1, <2>2
  <2>3. CASE k # id
    BY <1>a, <2>1, <2>3 DEF CommittedIsDone
  <2> QED
    BY <2>2, <2>3
<1>b. ASSUME table' = table, carried \subseteq carried'
      PROVE  CommittedIsDone'
  BY <1>b DEF CommittedIsDone
<1>1. ASSUME NEW h \in Jobs, PlanDuplicates(h)
      PROVE  CommittedIsDone'
  <2>1. Moves(job[h].tree) \in SUBSET Actions
    BY <1>1, JobFacts, MovesTyped DEF PlanDuplicates
  <2>2. <<"dup", second>> \in PlanIds
    BY DEF PlanIds, OrganizerTypeOK
  <2> QED
    BY <1>1, <2>1, <2>2, <1>a DEF PlanDuplicates, organizerHistory, commitHistory
<1>2. ASSUME NEW h \in Jobs, PlanRenames(h)
      PROVE  CommittedIsDone'
  <2>1. Renames(job[h].tree) \in SUBSET Actions
    BY JobFacts, RenamesTyped
  <2>2. <<"rn", second>> \in PlanIds
    BY DEF PlanIds, OrganizerTypeOK
  <2> QED
    BY <1>2, <2>1, <2>2, <1>a DEF PlanRenames, organizerHistory, commitHistory
<1>3. ASSUME NEW h \in Jobs, Preview(h)
      PROVE  CommittedIsDone'
  <2>1. job[h].id \in PlanIds /\ job[h].actions \in SUBSET Actions
    BY <1>3, JobFacts DEF JobsInv, Preview
  <2> QED
    BY <1>3, <2>1, <1>a DEF Preview, organizerHistory, commitHistory
<1>4. ASSUME NEW h \in Jobs, CommitPlan(h)
      PROVE  CommittedIsDone'
  <2>1. job[h].id \in PlanIds /\ job[h].actions \in SUBSET Actions
    BY <1>4, JobFacts DEF JobsInv, CommitPlan
  <2>2. ~job[h].failed =>
          \A x \in job[h].actions : <<job[h].id, x>> \in carried
    BY <1>4 DEF JobsInv, CommitPlan
  <2> DEFINE new == IF job[h].failed THEN "failed" ELSE "committed"
  <2>3. /\ new \in {"draft", "previewed", "committed", "failed"}
        /\ new = "committed" => ~job[h].failed
        /\ SavePlan(job[h].id, new, job[h].actions)
        /\ carried' = carried
    BY <1>4 DEF CommitPlan, organizerHistory, commitHistory
  <2> HIDE DEF new
  <2> QED
    BY <2>1, <2>2, <2>3, <1>a
<1>5. ASSUME NEW actions \in UserPlans, CreatePlan(actions)
      PROVE  CommittedIsDone'
  <2>1. actions \in SUBSET Actions
    BY OrganizerAssumption
  <2>2. <<"user", 0>> \in PlanIds
    BY OrganizerAssumption DEF PlanIds
  <2> QED
    BY <1>5, <2>1, <2>2, <1>a DEF CreatePlan, organizerHistory, commitHistory
<1>6. ASSUME NEW h \in Jobs,
             \/ \E kind \in {"dup", "rn"}, s \in Starts : Walk(h, kind, s)
             \/ \E use \in {"preview", "commit"}, id \in PlanIds :
                  ReadPlan(h, use, id)
             \/ \E a \in job[h].left : CarryOut(h, a) \/ ActionFails(h, a)
      PROVE  CommittedIsDone'
  BY <1>6, <1>b DEF Walk, ReadPlan, CarryOut, ActionFails, organizerHistory,
                    commitHistory
<1>7. CASE Tick \/ Die
  BY <1>7, <1>b DEF Tick, Die, organizerHistory, commitHistory
<1>8. ASSUME NEW c \in UserChanges, ChangeFile(c[1], c[2])
      PROVE  CommittedIsDone'
  BY <1>8, <1>b DEF ChangeFile, commitHistory
<1> QED
  BY <1>1, <1>2, <1>3, <1>4, <1>5, <1>6, <1>7, <1>8 DEF OrganizerNext, Serve

\* The organizer keeps its types, and a commit knows what it carried out.
THEOREM OrganizerTypes == OrganizerSpec => [](OrganizerTypeOK /\ JobsInv)
<1>1. OrganizerInit => OrganizerTypeOK /\ JobsInv
  BY OrganizerInitTyped, IdleFacts DEF OrganizerInit, JobsInv
<1>2. OrganizerTypeOK /\ JobsInv /\ [OrganizerNext]_organizerVars
        => (OrganizerTypeOK /\ JobsInv)'
  <2> SUFFICES ASSUME OrganizerTypeOK, JobsInv,
                      [OrganizerNext]_organizerVars
               PROVE  (OrganizerTypeOK /\ JobsInv)'
    OBVIOUS
  <2>1. CASE OrganizerNext
    BY <2>1, OrganizerNextTyped, JobsInvKept
  <2>2. CASE UNCHANGED organizerVars
    BY <2>2, HeldKept
    DEF organizerVars, organizerHistory, commitHistory, OrganizerTypeOK, JobsInv
  <2> QED
    BY <2>1, <2>2
<1> QED
  BY <1>1, <1>2, PTL DEF OrganizerSpec

\* Every action of a plan saved as committed has been carried out.
THEOREM CommittedIsDoneSafe == OrganizerSpec => []CommittedIsDone
<1>1. OrganizerInit => CommittedIsDone
  BY DEF OrganizerInit, CommittedIsDone
<1>2. (/\ OrganizerTypeOK /\ JobsInv /\ CommittedIsDone
       /\ [OrganizerNext]_organizerVars) => CommittedIsDone'
  <2> SUFFICES ASSUME OrganizerTypeOK, JobsInv, CommittedIsDone,
                      [OrganizerNext]_organizerVars
               PROVE  CommittedIsDone'
    OBVIOUS
  <2>1. CASE OrganizerNext
    BY <2>1, CommittedKept
  <2>2. CASE UNCHANGED organizerVars
    BY <2>2 DEF organizerVars, organizerHistory, commitHistory,
                CommittedIsDone
  <2> QED
    BY <2>1, <2>2
<1> QED
  BY <1>1, <1>2, OrganizerTypes, PTL DEF OrganizerSpec
-----------------------------------------------------------------------------
(* What the duplicates leave *)

\* Any file has an oldest one of its content.
LEMMA OldestIsThere ==
  ASSUME OrganizerTypeOK, NEW f \in born
  PROVE  \E g \in born \ Younger : g.content = f.content
<1> DEFINE Ages == {g.age : g \in {x \in born : x.content = f.content}}
<1>1. born \subseteq Files
  BY DEF OrganizerTypeOK
<1>2. Ages \subseteq Nat /\ f.age \in Ages
  BY <1>1 DEF Files
<1> HIDE DEF Ages
<1>3. PICK n \in Ages : \A m \in Ages : ~(<<m, n>> \in OpToRel(<, Nat))
  BY <1>2, NatLessThanWellFounded, WFMin
<1>4. \A m \in Ages : ~(m < n)
  BY <1>2, <1>3 DEF OpToRel
<1>5. PICK g \in born : g.content = f.content /\ g.age = n
  BY DEF Ages
<1>6. \A k \in born : k.content = g.content => k.age \in Ages
  BY <1>5 DEF Ages
<1> QED
  BY <1>4, <1>5, <1>6 DEF Younger

\* While nothing but duplicates moves, every content stays where it was
\* first.
LEMMA DupInvMeansKept ==
  OrganizerTypeOK /\ DupInv => DuplicatesKeepContent
<1> SUFFICES ASSUME OrganizerTypeOK, DupInv, ~meddled, NEW f \in born,
                    f.content \notin unsure
             PROVE  \E p \in Paths : /\ There(p) /\ p[1] # Quarantine
                                    /\ fileAt[p].content = f.content
  BY DEF DuplicatesKeepContent
<1>1. PICK g \in born \ Younger : g.content = f.content
  BY OldestIsThere
<1>2. PICK p \in Paths : p[1] # Quarantine /\ fileAt[p] = g
  BY <1>1 DEF DupInv, OnlyDuplicatesMove, OldestStay
<1>3. g # NoFile
  BY DEF OrganizerTypeOK
<1> QED
  BY <1>1, <1>2, <1>3 DEF There

\* At first there are no plans and every file is where it was.
LEMMA DupInvInitially ==
  ASSUME OrganizerInit
  PROVE  DupInv
<1>1. /\ fileAt \in Layouts /\ born = {fileAt[p] : p \in Paths} \ {NoFile}
      /\ unsure = {}
  BY DEF OrganizerInit
<1>2. OldestStay
  <2> SUFFICES ASSUME NEW f \in born \ Younger
               PROVE  \E p \in Paths : p[1] # Quarantine /\ fileAt[p] = f
    BY DEF OldestStay
  <2>1. PICK p \in Paths : fileAt[p] = f
    BY <1>1
  <2>2. p[1] # Quarantine
    <3> SUFFICES ASSUME p[1] = Quarantine
                 PROVE  FALSE
      OBVIOUS
    <3>1. PICK k \in Paths :
            /\ fileAt[k] # NoFile /\ fileAt[k].content = f.content
            /\ fileAt[k].age < f.age
      BY <1>1, <2>1, QuarantineAssumption
    <3>2. fileAt[k] \in born
      BY <1>1, <3>1
    <3> QED
      BY <3>1, <3>2 DEF Younger
  <2> QED
    BY <2>1, <2>2
<1>3. TablesMoveDuplicates
  BY DEF TablesMoveDuplicates, OrganizerInit
<1>4. JobsMoveDuplicates /\ TreesLast
  BY IdleFacts DEF JobsMoveDuplicates, TreesLast, OrganizerInit
<1>5. FilesKnown
  BY <1>1 DEF FilesKnown, IsKnown
<1> QED
  BY <1>2, <1>3, <1>4, <1>5 DEF DupInv, OnlyDuplicatesMove

\* Outside the quarantine a step takes files away, or puts some there whose
\* content is unsure, and nothing else.
OnlyTakes ==
  /\ born' = born /\ unsure \subseteq unsure'
  /\ \A p \in Paths : p[1] # Quarantine =>
       fileAt'[p] \in {fileAt[p], NoFile} \/ fileAt'[p].content \in unsure'

\* Such a step leaves what plans and walks know of the files true.
LEMMA OnlyLoses ==
  ASSUME OrganizerTypeOK, OnlyTakes
  PROVE  /\ Younger' = Younger
         /\ \A f : IsKnown(f) => IsKnown(f)'
         /\ \A p \in Paths : \A f :
              p[1] # Quarantine /\ Remains(p, f) => Remains(p, f)'
         /\ \A x \in Actions : MovesDuplicate(x) => MovesDuplicate(x)'
<1>1. Younger' = Younger
  BY DEF Younger, OnlyTakes
<1>2. \A f : IsKnown(f) => IsKnown(f)'
  BY DEF IsKnown, OnlyTakes
<1>3. ASSUME NEW p \in Paths, NEW f, p[1] # Quarantine, Remains(p, f)
      PROVE  Remains(p, f)'
  <2>1. CASE fileAt'[p] = fileAt[p]
    BY <1>3, <2>1 DEF Remains, OnlyTakes
  <2>2. CASE fileAt'[p] # fileAt[p]
    BY <1>3, <2>2 DEF Remains, OnlyTakes
  <2> QED
    BY <2>1, <2>2
<1>4. ASSUME NEW x \in Actions, MovesDuplicate(x)
      PROVE  MovesDuplicate(x)'
  <2>1. x.src \in Paths
    BY DEF Actions
  <2>2. CASE x.src[1] = Quarantine
    BY <1>4, <2>2 DEF MovesDuplicate
  <2>3. CASE x.src[1] # Quarantine
    <3>1. CASE fileAt'[x.src] = fileAt[x.src]
      BY <1>1, <1>4, <2>3, <3>1 DEF MovesDuplicate, OnlyTakes
    <3>2. CASE fileAt'[x.src] # fileAt[x.src]
      BY <1>4, <2>1, <2>3, <3>2 DEF MovesDuplicate, OnlyTakes
    <3> QED
      BY <3>1, <3>2
  <2> QED
    BY <2>2, <2>3
<1> QED
  BY <1>1, <1>2, <1>3, <1>4

\* The plan of a walk moves files that are not the oldest, or are unsure.
LEMMA MovesAreOfYounger ==
  ASSUME OrganizerTypeOK, NEW tree \in SUBSET (Paths \X Held),
         \A e \in Duplicates(tree) :
           ~There(<<Quarantine, e[1][2], MaxSuffix>>),
         \A e \in tree : /\ IsKnown(e[2])
                         /\ e[1][1] # Quarantine => Remains(e[1], e[2]),
         UNCHANGED <<fileAt, born>>,
         unsure' = unsure \cup Unclear(tree)
  PROVE  \A x \in Moves(tree) : MovesDuplicate(x)'
<1> SUFFICES ASSUME NEW x \in Moves(tree)
             PROVE  MovesDuplicate(x)'
  OBVIOUS
<1>1. PICK e \in Duplicates(tree) :
        x.kind = "move" /\ x.src = e[1] /\ x.dst[1] = Quarantine
  BY MovesTyped
<1>2. e \in tree /\ e[1] \in Paths /\ e[2] \in Held
  BY DEF Duplicates
<1>3. PICK k \in tree : SameContent(e[2], k[2]) /\ Before(k[1], e[1])
  BY DEF Duplicates
<1>4. k[1] \in Paths /\ k[2] \in Held
  BY <1>3
<1>5. Held \subseteq Files \ {NoFile}
  BY HeldFiles
<1> SUFFICES ASSUME e[1][1] # Quarantine, There(e[1]),
                    fileAt[e[1]].content \notin unsure'
             PROVE  fileAt[e[1]] \in Younger
  BY <1>1 DEF MovesDuplicate, There, Younger
<1>6. fileAt[e[1]] = e[2] /\ e[2].content \notin unsure'
  BY <1>2 DEF Remains, There
<1>7. /\ e[2].content \notin Unclear(tree) /\ e[2].content \notin unsure
  BY <1>6
<1>8. k[2].content = e[2].content
  BY <1>3 DEF SameContent
<1>9. There(k[1]) /\ fileAt[k[1]].age <= e[2].age
  <2>1. There(k[1])
    BY <1>3 DEF Before
  <2>2. fileAt[k[1]] \in Held
    BY <1>4, <2>1 DEF OrganizerTypeOK, There
  <2>3. fileAt[k[1]].age \in Nat /\ e[2].age \in Nat
    BY <1>2, <1>5, <2>2 DEF Files
  <2> QED
    BY <1>3, <1>6, <2>1, <2>3 DEF Before
<1>10. fileAt[k[1]] = k[2]
  <2> SUFFICES ASSUME fileAt[k[1]] # k[2]
               PROVE  k[2].content \in Unclear(tree)
    BY <1>7, <1>8
  <2> QED
    BY <1>3, <1>9 DEF Unclear
<1>11. fileAt[k[1]].age # e[2].age
  <2> SUFFICES ASSUME fileAt[k[1]].age = e[2].age
               PROVE  e[2].content \in Unclear(tree)
    BY <1>7
  <2>1. CASE k = e
    <3>1. Before(e[1], e[1])
      BY <1>3, <2>1
    <3>2. fileAt[e[1]].age \in Nat /\ PathOrder[e[1]] \in Nat
      BY <1>2, <1>5, <1>6, OrganizerAssumption DEF Files
    <3> QED
      BY <3>1, <3>2 DEF Before
  <2>2. CASE k # e
    <3>1. /\ k \in tree \ {e} /\ SameContent(e[2], k[2]) /\ There(k[1])
          /\ fileAt[k[1]].age = fileAt[e[1]].age
      BY <1>3, <1>6, <1>9, <2>2
    <3> QED
      BY <1>2, <3>1 DEF Unclear
  <2> QED
    BY <2>1, <2>2
<1>12. e[2] \in born /\ k[2] \in born
  BY <1>2, <1>3, <1>4, <1>5, <1>7, <1>8 DEF IsKnown
<1>13. k[2].age < e[2].age
  <2>1. k[2].age \in Nat /\ e[2].age \in Nat
    BY <1>2, <1>4, <1>5 DEF Files
  <2> QED
    BY <1>9, <1>10, <1>11, <2>1
<1> QED
  BY <1>6, <1>8, <1>12, <1>13 DEF Younger

\* A request moves on, or ends.
LEMMA JobsMoveKept ==
  ASSUME OrganizerTypeOK, JobsMoveDuplicates, TreesLast, OnlyTakes,
         NEW h \in Jobs, NEW s \in States, s.left \subseteq s.actions,
         job' = [job EXCEPT ![h] = s],
         s.at \in {"preview", "commit"} /\ s.id[1] = "dup" =>
           OnlyDuplicates(s.actions),
         \A e \in s.tree : /\ IsKnown(e[2])
                           /\ e[1][1] # Quarantine => Remains(e[1], e[2])
  PROVE  JobsMoveDuplicates' /\ TreesLast'
<1>0. born' = born
  BY DEF OnlyTakes
<1>1. /\ job'[h] = s /\ \A g \in Jobs : g # h => job'[g] = job[g]
  BY <1>0, JobSet
<1>2. /\ \A x \in Actions : MovesDuplicate(x) => MovesDuplicate(x)'
      /\ \A f : IsKnown(f) => IsKnown(f)'
      /\ \A p \in Paths : \A f :
           p[1] # Quarantine /\ Remains(p, f) => Remains(p, f)'
  BY OnlyLoses
<1>3. /\ s.actions \subseteq Actions /\ s.tree \subseteq Paths \X Held
  BY DEF States
<1>4. JobsMoveDuplicates'
  <2> SUFFICES ASSUME NEW g \in Jobs,
                      job'[g].at \in {"preview", "commit"},
                      job'[g].id[1] = "dup", NEW x \in job'[g].actions
               PROVE  MovesDuplicate(x)'
    BY DEF JobsMoveDuplicates, OnlyDuplicates
  <2>1. CASE g = h
    BY <1>1, <1>2, <1>3, <2>1 DEF OnlyDuplicates
  <2>2. CASE g # h
    <3>1. job[g].actions \subseteq Actions
      BY JobFacts
    <3> QED
      BY <1>1, <1>2, <2>2, <3>1 DEF JobsMoveDuplicates, OnlyDuplicates
  <2> QED
    BY <2>1, <2>2
<1>5. TreesLast'
  <2> SUFFICES ASSUME NEW g \in Jobs, NEW e \in job'[g].tree
               PROVE  /\ IsKnown(e[2])'
                      /\ e[1][1] # Quarantine => Remains(e[1], e[2])'
    BY DEF TreesLast
  <2>1. CASE g = h
    <3>1. /\ e \in s.tree /\ e[1] \in Paths /\ IsKnown(e[2])
          /\ e[1][1] # Quarantine => Remains(e[1], e[2])
      BY <1>1, <1>3, <2>1
    <3> QED
      BY <1>2, <3>1
  <2>2. CASE g # h
    <3>1. job[g].tree \subseteq Paths \X Held /\ e \in job[g].tree
      BY <1>1, <2>2, JobFacts
    <3>2. /\ e[1] \in Paths /\ IsKnown(e[2])
          /\ e[1][1] # Quarantine => Remains(e[1], e[2])
      BY <3>1 DEF TreesLast
    <3> QED
      BY <1>2, <3>2
  <2> QED
    BY <2>1, <2>2
<1> QED
  BY <1>4, <1>5

\* No request moves on.
LEMMA JobsMoveStay ==
  ASSUME OrganizerTypeOK, JobsMoveDuplicates, TreesLast, OnlyTakes, job' = job
  PROVE  JobsMoveDuplicates' /\ TreesLast'
<1>2. /\ \A x \in Actions : MovesDuplicate(x) => MovesDuplicate(x)'
      /\ \A f : IsKnown(f) => IsKnown(f)'
      /\ \A p \in Paths : \A f :
           p[1] # Quarantine /\ Remains(p, f) => Remains(p, f)'
  BY OnlyLoses
<1>3. \A g \in Jobs : /\ job[g].actions \subseteq Actions
                      /\ job[g].tree \subseteq Paths \X Held
  BY JobFacts
<1>4. JobsMoveDuplicates'
  BY <1>2, <1>3 DEF JobsMoveDuplicates, OnlyDuplicates
<1>5. TreesLast'
  <2> SUFFICES ASSUME NEW g \in Jobs, NEW e \in job[g].tree
               PROVE  /\ IsKnown(e[2])'
                      /\ e[1][1] # Quarantine => Remains(e[1], e[2])'
    BY DEF TreesLast
  <2>1. /\ e[1] \in Paths /\ IsKnown(e[2])
        /\ e[1][1] # Quarantine => Remains(e[1], e[2])
    BY <1>3 DEF TreesLast
  <2> QED
    BY <1>2, <2>1
<1> QED
  BY <1>4, <1>5

\* A plan is saved that only moves duplicates, or has no number of theirs.
LEMMA TablesMoveKept ==
  ASSUME OrganizerTypeOK, TablesMoveDuplicates, OnlyTakes, NEW id \in PlanIds,
         NEW new \in {"draft", "previewed", "committed", "failed"},
         NEW actions \in SUBSET Actions, SavePlan(id, new, actions),
         id[1] = "dup" => \A x \in actions : MovesDuplicate(x)'
  PROVE  TablesMoveDuplicates'
<1>1. /\ table'[id].actions = actions
      /\ \A k \in PlanIds : k # id => table'[k] = table[k]
  <2>1. /\ table'[id] = [status |-> new, actions |-> actions]
        /\ \A k \in PlanIds : k # id => table'[k] = table[k]
    BY SaveTyped
  <2> QED
    BY <2>1
<1>2. \A x \in Actions : MovesDuplicate(x) => MovesDuplicate(x)'
  BY OnlyLoses
<1> SUFFICES ASSUME NEW k \in PlanIds, k[1] = "dup", table'[k] # NoPlan,
                    NEW x \in table'[k].actions
             PROVE  MovesDuplicate(x)'
  BY DEF TablesMoveDuplicates, OnlyDuplicates
<1>3. CASE k = id
  BY <1>1, <1>3
<1>4. CASE k # id
  <2>1. table[k] # NoPlan => table[k].actions \subseteq Actions
    BY DEF OrganizerTypeOK, Plans
  <2> QED
    BY <1>1, <1>2, <1>4, <2>1 DEF TablesMoveDuplicates, OnlyDuplicates
<1> QED
  BY <1>3, <1>4

\* No plan is saved.
LEMMA TablesMoveStay ==
  ASSUME OrganizerTypeOK, TablesMoveDuplicates, OnlyTakes, table' = table
  PROVE  TablesMoveDuplicates'
<1>1. \A x \in Actions : MovesDuplicate(x) => MovesDuplicate(x)'
  BY OnlyLoses
<1>2. \A id \in PlanIds :
        table[id] # NoPlan => table[id].actions \subseteq Actions
  BY DEF OrganizerTypeOK, Plans
<1> QED
  BY <1>1, <1>2 DEF TablesMoveDuplicates, OnlyDuplicates

\* What a duplicate plan does to the files.
LEMMA MoveLoses ==
  ASSUME OrganizerTypeOK, NEW x \in Actions, MovesDuplicate(x),
         OldestStay, FilesKnown,
         fileAt' = Done(x), UNCHANGED <<born, unsure>>
  PROVE  OnlyTakes /\ OldestStay' /\ FilesKnown'
<1>1. /\ x.kind = "move" /\ x.dst[1] = Quarantine
      /\ x.src \in Paths /\ x.dst \in Paths
  BY DEF MovesDuplicate, Actions
<1>2. fileAt' = [p \in Paths |-> IF p = x.dst THEN fileAt[x.src]
                                ELSE IF p = x.src THEN NoFile
                                ELSE fileAt[p]]
  BY <1>1 DEF Done
<1>3. \A p \in Paths : p[1] # Quarantine =>
        fileAt'[p] = IF p = x.src THEN NoFile ELSE fileAt[p]
  BY <1>1, <1>2
<1>4. OnlyTakes
  BY <1>3 DEF OnlyTakes
<1>5. OldestStay'
  <2>1. Younger' = Younger
    BY DEF Younger
  <2> SUFFICES ASSUME NEW f \in born \ Younger, f.content \notin unsure
               PROVE  \E p \in Paths : p[1] # Quarantine /\ fileAt'[p] = f
    BY <2>1 DEF OldestStay
  <2>2. PICK p \in Paths : p[1] # Quarantine /\ fileAt[p] = f
    BY DEF OldestStay
  <2>3. f # NoFile
    BY DEF OrganizerTypeOK
  <2>4. p # x.src
    BY <2>2, <2>3 DEF MovesDuplicate
  <2> QED
    BY <1>3, <2>2, <2>4
<1>6. FilesKnown'
  <2>1. \A p \in Paths : fileAt'[p] \in {fileAt[x.src], NoFile, fileAt[p]}
    BY <1>2
  <2> QED
    BY <1>1, <2>1 DEF FilesKnown, IsKnown
<1> QED
  BY <1>4, <1>5, <1>6

\* A step that moves no file, and is not surer of any.
LEMMA FilesStay ==
  ASSUME OldestStay, FilesKnown, UNCHANGED <<fileAt, born>>,
         unsure \subseteq unsure'
  PROVE  OnlyTakes /\ OldestStay' /\ FilesKnown'
BY DEF OnlyTakes, OldestStay, FilesKnown, IsKnown, Younger

\* The user changes a file, and the contents of both are unsure.
LEMMA ChangeTakes ==
  ASSUME OrganizerTypeOK, OldestStay, FilesKnown,
         NEW c \in UserChanges, ChangeFile(c[1], c[2])
  PROVE  OnlyTakes /\ OldestStay' /\ FilesKnown'
<1>1. c[1] \in Paths
  BY OrganizerAssumption
<1>2. /\ fileAt' = [fileAt EXCEPT ![c[1]] = c[2]]
      /\ unsure' = unsure \cup
                     {f.content : f \in {fileAt[c[1]], c[2]} \ {NoFile}}
      /\ born' = born
  BY DEF ChangeFile
<1>3. /\ fileAt'[c[1]] = c[2]
      /\ \A p \in Paths : p # c[1] => fileAt'[p] = fileAt[p]
  BY <1>1, <1>2 DEF OrganizerTypeOK
<1>4. /\ unsure \subseteq unsure'
      /\ c[2] = NoFile \/ c[2].content \in unsure'
      /\ fileAt[c[1]] = NoFile \/ fileAt[c[1]].content \in unsure'
  BY <1>2
<1>5. OnlyTakes
  BY <1>2, <1>3, <1>4 DEF OnlyTakes
<1>6. OldestStay'
  <2>1. Younger' = Younger
    BY <1>2 DEF Younger
  <2> SUFFICES ASSUME NEW f \in born \ Younger, f.content \notin unsure'
               PROVE  \E p \in Paths : p[1] # Quarantine /\ fileAt'[p] = f
    BY <1>2, <2>1 DEF OldestStay
  <2>2. PICK p \in Paths : p[1] # Quarantine /\ fileAt[p] = f
    BY <1>4 DEF OldestStay
  <2>3. f # NoFile
    BY DEF OrganizerTypeOK
  <2> QED
    BY <1>3, <1>4, <2>2, <2>3
<1>7. FilesKnown'
  BY <1>2, <1>3, <1>4 DEF FilesKnown, IsKnown
<1> QED
  BY <1>5, <1>6, <1>7

\* A step keeps duplicates the only files that move: the oldest of a content
\* is in no plan, and a stale plan moves what its commit finds.
LEMMA DupInvKept ==
  ASSUME OrganizerTypeOK, JobsInv, DupInv, OrganizerNext
  PROVE  DupInv'
<1> SUFFICES ASSUME ~meddled'
             PROVE  OnlyDuplicatesMove'
  BY DEF DupInv
<1>0. Idle.at = "idle" /\ Idle.tree = {}
  BY IdleFacts
\* No file is moved.
<1>a. ASSUME UNCHANGED <<fileAt, born, meddled>>, unsure \subseteq unsure'
      PROVE  /\ TablesMoveDuplicates /\ JobsMoveDuplicates
             /\ TreesLast /\ OldestStay /\ FilesKnown
             /\ OnlyTakes /\ OldestStay' /\ FilesKnown'
  <2>1. OnlyDuplicatesMove
    BY <1>a DEF DupInv
  <2> QED
    BY <1>a, <2>1, FilesStay DEF OnlyDuplicatesMove
\* A request ends.
<1>e. ASSUME NEW h \in Jobs, job' = [job EXCEPT ![h] = Idle],
             UNCHANGED <<fileAt, born, meddled>>, unsure \subseteq unsure'
      PROVE  JobsMoveDuplicates' /\ TreesLast'
  BY <1>e, <1>a, <1>0, IdleFits, JobsMoveKept
<1>1. ASSUME NEW h \in Jobs, NEW kind \in {"dup", "rn"}, NEW s \in Starts,
             Walk(h, kind, s)
      PROVE  OnlyDuplicatesMove'
  <2>1. /\ job' = [job EXCEPT ![h] = Seen(kind, s)]
        /\ UNCHANGED <<fileAt, table, born, meddled, unsure>>
    BY <1>1 DEF Walk, Seen, organizerHistory, commitHistory
  <2> DEFINE j == Seen(kind, s)
  <2>2. /\ j \in States /\ j.at = kind
        /\ j.left \subseteq j.actions
        /\ \A e \in j.tree : e[1] \in Paths /\ e[2] = fileAt[e[1]]
    BY SeenFacts
  <2> HIDE DEF j
  <2>3. job' = [job EXCEPT ![h] = j]
    BY <2>1 DEF j
  <2>4. \A e \in j.tree : /\ IsKnown(e[2])
                          /\ e[1][1] # Quarantine => Remains(e[1], e[2])
    BY <1>a, <2>1, <2>2 DEF FilesKnown, Remains
  <2>5. JobsMoveDuplicates' /\ TreesLast'
    BY <1>a, <2>1, <2>2, <2>3, <2>4, JobsMoveKept
  <2>6. TablesMoveDuplicates'
    BY <1>a, <2>1, TablesMoveStay
  <2> QED
    BY <1>a, <2>1, <2>5, <2>6 DEF OnlyDuplicatesMove
<1>2. ASSUME NEW h \in Jobs, PlanDuplicates(h)
      PROVE  OnlyDuplicatesMove'
  <2>1. /\ job' = [job EXCEPT ![h] = Idle]
        /\ UNCHANGED <<fileAt, born, meddled>>
        /\ unsure' = unsure \cup Unclear(job[h].tree)
        /\ SavePlan(<<"dup", second>>, "draft", Moves(job[h].tree))
        /\ \A e \in Duplicates(job[h].tree) :
             ~There(<<Quarantine, e[1][2], MaxSuffix>>)
    BY <1>2 DEF PlanDuplicates, commitHistory
  <2>2. Moves(job[h].tree) \in SUBSET Actions
    BY <2>1, JobFacts, MovesTyped
  <2>3. \A x \in Moves(job[h].tree) : MovesDuplicate(x)'
    <3>1. job[h].tree \in SUBSET (Paths \X Held)
      BY JobFacts
    <3>2. \A e \in job[h].tree :
            /\ IsKnown(e[2])
            /\ e[1][1] # Quarantine => Remains(e[1], e[2])
      BY <1>a, <2>1 DEF TreesLast
    <3> QED
      BY <2>1, <3>1, <3>2, MovesAreOfYounger
  <2>4. <<"dup", second>> \in PlanIds
    BY DEF PlanIds, OrganizerTypeOK
  <2>5. TablesMoveDuplicates'
    BY <1>a, <2>1, <2>2, <2>3, <2>4, TablesMoveKept
  <2> QED
    BY <1>a, <1>e, <2>1, <2>5 DEF OnlyDuplicatesMove
<1>3. ASSUME NEW h \in Jobs, PlanRenames(h)
      PROVE  OnlyDuplicatesMove'
  <2>1. /\ job' = [job EXCEPT ![h] = Idle]
        /\ UNCHANGED <<fileAt, born, meddled, unsure>>
        /\ SavePlan(<<"rn", second>>, "draft", Renames(job[h].tree))
    BY <1>3 DEF PlanRenames, organizerHistory, commitHistory
  <2>2. Renames(job[h].tree) \in SUBSET Actions
    BY JobFacts, RenamesTyped
  <2>4. <<"rn", second>> \in PlanIds /\ <<"rn", second>>[1] # "dup"
    BY DEF PlanIds, OrganizerTypeOK
  <2>5. TablesMoveDuplicates'
    BY <1>a, <2>1, <2>2, <2>4, TablesMoveKept
  <2> QED
    BY <1>a, <1>e, <2>1, <2>5 DEF OnlyDuplicatesMove
<1>4. ASSUME NEW h \in Jobs, NEW use \in {"preview", "commit"},
             NEW id \in PlanIds, ReadPlan(h, use, id)
      PROVE  OnlyDuplicatesMove'
  <2>1. /\ job' = [job EXCEPT ![h] = Opened(use, id)]
        /\ table[id] # NoPlan
        /\ UNCHANGED <<fileAt, table, born, meddled, unsure>>
    BY <1>4 DEF ReadPlan, Opened, organizerHistory, commitHistory
  <2> DEFINE j == Opened(use, id)
  <2>2. /\ j \in States /\ j.left \subseteq j.actions
        /\ j.id = id /\ j.actions = table[id].actions /\ j.tree = {}
    BY <2>1, OpenedFacts
  <2> HIDE DEF j
  <2>3. job' = [job EXCEPT ![h] = j]
    BY <2>1 DEF j
  <2>5. j.id[1] = "dup" => OnlyDuplicates(j.actions)
    BY <1>a, <2>1, <2>2 DEF TablesMoveDuplicates
  <2>4. JobsMoveDuplicates' /\ TreesLast'
    BY <1>a, <2>1, <2>2, <2>3, <2>5, JobsMoveKept
  <2>6. TablesMoveDuplicates'
    BY <1>a, <2>1, TablesMoveStay
  <2> QED
    BY <1>a, <2>1, <2>4, <2>6 DEF OnlyDuplicatesMove
<1>5. ASSUME NEW h \in Jobs, Preview(h) \/ CommitPlan(h)
      PROVE  OnlyDuplicatesMove'
  <2>1. /\ job' = [job EXCEPT ![h] = Idle]
        /\ job[h].at \in {"preview", "commit"}
        /\ UNCHANGED <<fileAt, born, meddled, unsure>>
    BY <1>5 DEF Preview, CommitPlan, organizerHistory, commitHistory
  <2>2. job[h].id \in PlanIds /\ job[h].actions \in SUBSET Actions
    BY <2>1, JobFacts DEF JobsInv
  <2>3. PICK new \in {"draft", "previewed", "committed", "failed"} :
          SavePlan(job[h].id, new, job[h].actions)
    BY <1>5 DEF Preview, CommitPlan
  <2>4. job[h].id[1] = "dup" =>
          \A x \in job[h].actions : MovesDuplicate(x)'
    BY <1>a, <2>1, <2>2, OnlyLoses DEF JobsMoveDuplicates, OnlyDuplicates
  <2>5. TablesMoveDuplicates'
    BY <1>a, <2>1, <2>2, <2>3, <2>4, TablesMoveKept
  <2> QED
    BY <1>a, <1>e, <2>1, <2>5 DEF OnlyDuplicatesMove
<1>6. ASSUME NEW h \in Jobs, NEW a \in job[h].left, CarryOut(h, a)
      PROVE  OnlyDuplicatesMove'
  <2>1. /\ job[h].at = "commit" /\ fileAt' = Done(a)
        /\ meddled' = (meddled \/ job[h].id[1] # "dup")
        /\ UNCHANGED <<table, born, unsure>>
    BY <1>6 DEF CarryOut
  <2>2. /\ ~meddled /\ job[h].id[1] = "dup"
        /\ TablesMoveDuplicates /\ JobsMoveDuplicates
        /\ TreesLast /\ OldestStay /\ FilesKnown
    BY <2>1 DEF DupInv, OnlyDuplicatesMove
  <2>3. a \in Actions /\ MovesDuplicate(a)
    BY <2>1, <2>2, JobFacts DEF JobsMoveDuplicates, OnlyDuplicates
  <2>4. OnlyTakes /\ OldestStay' /\ FilesKnown'
    BY <2>1, <2>2, <2>3, MoveLoses
  <2>6. TablesMoveDuplicates'
    BY <2>1, <2>2, <2>4, TablesMoveStay
  <2> DEFINE s == PassOver(h, a)
  <2>7. /\ s \in States /\ s.left \subseteq s.actions
        /\ s.id = job[h].id /\ s.at = job[h].at
        /\ s.actions = job[h].actions /\ s.tree = job[h].tree
    BY LeftFacts
  <2>8. job' = [job EXCEPT ![h] = s]
    BY <1>6, CarryOutJob
  <2> HIDE DEF s
  <2>9. OnlyDuplicates(s.actions)
    BY <2>1, <2>2, <2>7 DEF JobsMoveDuplicates
  <2>10. \A e \in s.tree : /\ IsKnown(e[2])
                           /\ e[1][1] # Quarantine => Remains(e[1], e[2])
    BY <2>2, <2>7 DEF TreesLast
  <2>11. JobsMoveDuplicates' /\ TreesLast'
    BY <2>1, <2>2, <2>4, <2>7, <2>8, <2>9, <2>10, JobsMoveKept
  <2> QED
    BY <2>4, <2>6, <2>11 DEF OnlyDuplicatesMove
<1>7. ASSUME NEW h \in Jobs, NEW a \in job[h].left, ActionFails(h, a)
      PROVE  OnlyDuplicatesMove'
  <2>1. /\ job' = [job EXCEPT ![h] = NoteFailure(h, a)]
        /\ job[h].at = "commit"
        /\ UNCHANGED <<fileAt, table, born, meddled, unsure>>
    BY <1>7 DEF ActionFails, organizerHistory, commitHistory
  <2> DEFINE s == NoteFailure(h, a)
  <2>2. /\ s \in States /\ s.left \subseteq s.actions
        /\ s.id = job[h].id /\ s.at = job[h].at
        /\ s.actions = job[h].actions /\ s.tree = job[h].tree
    BY LeftFacts
  <2> HIDE DEF s
  <2>3. job' = [job EXCEPT ![h] = s]
    BY <2>1 DEF s
  <2>4. s.id[1] = "dup" => OnlyDuplicates(s.actions)
    BY <1>a, <2>1, <2>2 DEF JobsMoveDuplicates
  <2>5. \A e \in s.tree : /\ IsKnown(e[2])
                          /\ e[1][1] # Quarantine => Remains(e[1], e[2])
    BY <1>a, <2>1, <2>2 DEF TreesLast
  <2>6. JobsMoveDuplicates' /\ TreesLast'
    BY <1>a, <2>1, <2>2, <2>3, <2>4, <2>5, JobsMoveKept
  <2>7. TablesMoveDuplicates'
    BY <1>a, <2>1, TablesMoveStay
  <2> QED
    BY <1>a, <2>1, <2>6, <2>7 DEF OnlyDuplicatesMove
<1>8. ASSUME NEW actions \in UserPlans, CreatePlan(actions)
      PROVE  OnlyDuplicatesMove'
  <2>1. /\ SavePlan(<<"user", 0>>, "draft", actions)
        /\ UNCHANGED <<fileAt, born, job, meddled, unsure>>
    BY <1>8 DEF CreatePlan, organizerHistory, commitHistory
  <2>2. actions \in SUBSET Actions
    BY OrganizerAssumption
  <2>3. <<"user", 0>> \in PlanIds /\ <<"user", 0>>[1] # "dup"
    BY OrganizerAssumption DEF PlanIds
  <2>4. TablesMoveDuplicates'
    BY <1>a, <2>1, <2>2, <2>3, TablesMoveKept
  <2> QED
    BY <1>a, <2>1, <2>4, JobsMoveStay DEF OnlyDuplicatesMove
<1>9. CASE Tick
  <2>1. UNCHANGED <<fileAt, table, job, born, meddled, unsure>>
    BY <1>9 DEF Tick, organizerHistory, commitHistory
  <2> QED
    BY <1>a, <2>1, JobsMoveStay, TablesMoveStay DEF OnlyDuplicatesMove
<1>10. CASE Die
  <2>1. /\ \A h \in Jobs : job'[h].at = "idle" /\ job'[h].tree = {}
        /\ UNCHANGED <<fileAt, table, born, meddled, unsure>>
    BY <1>10, <1>0 DEF Die, organizerHistory, commitHistory
  <2>2. JobsMoveDuplicates' /\ TreesLast'
    BY <2>1 DEF JobsMoveDuplicates, TreesLast
  <2> QED
    BY <1>a, <2>1, <2>2, TablesMoveStay DEF OnlyDuplicatesMove
<1>11. ASSUME NEW c \in UserChanges, ChangeFile(c[1], c[2])
       PROVE  OnlyDuplicatesMove'
  <2>1. UNCHANGED <<table, job, meddled>>
    BY <1>11 DEF ChangeFile, commitHistory
  <2>2. OnlyDuplicatesMove
    BY <2>1 DEF DupInv
  <2>3. OnlyTakes /\ OldestStay' /\ FilesKnown'
    BY <1>11, <2>2, ChangeTakes DEF OnlyDuplicatesMove
  <2> QED
    BY <2>1, <2>2, <2>3, JobsMoveStay, TablesMoveStay DEF OnlyDuplicatesMove
<1> QED
  BY <1>1, <1>2, <1>3, <1>4, <1>5, <1>6, <1>7, <1>8, <1>9, <1>10, <1>11
  DEF OrganizerNext, Serve

\* Plans of duplicates leave a file of every content outside the quarantine,
\* whatever the folder looks like when they are committed; except for a content
\* of which the user has changed a file, or that a plan found no oldest file of.
THEOREM DuplicatesKeepContentSafe ==
  OrganizerSpec => []DuplicatesKeepContent
<1>1. OrganizerInit => DupInv
  BY DupInvInitially
<1>2. OrganizerTypeOK /\ JobsInv /\ DupInv /\ [OrganizerNext]_organizerVars
        => DupInv'
  <2> SUFFICES ASSUME OrganizerTypeOK, JobsInv, DupInv,
                      [OrganizerNext]_organizerVars
               PROVE  DupInv'
    OBVIOUS
  <2>1. CASE OrganizerNext
    BY <2>1, DupInvKept
  <2>2. CASE UNCHANGED organizerVars
    BY <2>2 DEF organizerVars, organizerHistory, commitHistory, DupInv,
                OnlyDuplicatesMove, TablesMoveDuplicates, JobsMoveDuplicates,
                TreesLast, OldestStay, FilesKnown, OnlyDuplicates,
                MovesDuplicate, Younger, IsKnown, Remains
  <2> QED
    BY <2>1, <2>2
<1> QED
  BY <1>1, <1>2, OrganizerTypes, DupInvMeansKept, PTL DEF OrganizerSpec
-----------------------------------------------------------------------------
(* The views of stock *)

\* What a request has counted, and the batches as they are now: without an issue
\* the counted ones are untouched and the others newer; without a receipt, and
\* without a batch written back, there are no others.
ViewInv ==
  \A v \in Viewers :
    LET w == view[v]
    IN  w.at # "idle" =>
          /\ \A b \in Batches : w.counted[b] > 0 => b <= nBatches
          /\ ~w.issued => \A b \in Batches :
                            w.counted[b] > 0 => remaining[b] = w.counted[b]
          /\ ~w.issued => \A b, c \in Batches :
               remaining[b] > 0 /\ w.counted[b] = 0 /\ w.counted[c] > 0 => c < b
          /\ ~w.received /\ ~w.raised =>
               \A b \in Batches : remaining[b] > 0 => w.counted[b] > 0

\* No batch beyond the last has anything, or has been loaded.
Unmade ==
  \A b \in Batches :
    /\ remaining[b] > 0 => b <= nBatches
    /\ \A i \in Issuers : loaded[i][b] > 0 => b <= nBatches

\* If a batch has something left, there is an oldest.
LEMMA OldestExists ==
  ASSUME ViewsTypeOK, NEW b \in Batches, remaining[b] > 0
  PROVE  \E o \in OldestOpen : o <= b
<1> DEFINE T == {c \in Batches : remaining[c] > 0}
<1>1. T \subseteq Nat /\ b \in T
  BY StockViewsAssumption DEF Batches
<1> HIDE DEF T
<1>2. PICK o \in T : \A c \in T : ~(<<c, o>> \in OpToRel(<, Nat))
  BY <1>1, NatLessThanWellFounded, WFMin
<1>3. \A c \in T : ~(c < o)
  BY <1>1, <1>2 DEF OpToRel
<1>4. o \in Batches /\ remaining[o] > 0
  BY DEF T
<1>5. ASSUME NEW c \in Batches, c < o
      PROVE  remaining[c] = 0
  <2>1. c \notin T
    BY <1>3, <1>5
  <2>2. ~(remaining[c] > 0) /\ remaining[c] \in 0 .. MaxReceived
    BY <2>1 DEF T, ViewsTypeOK, Quantities
  <2> QED
    BY <2>2, StockViewsAssumption
<1>6. o <= b
  BY <1>1, <1>3
<1> QED
  BY <1>4, <1>5, <1>6 DEF OldestOpen

\* A step keeps the types.
LEMMA ViewsNextTyped ==
  ASSUME ViewsTypeOK, ViewsNext
  PROVE  ViewsTypeOK'
<1> DEFINE Vs == [at : {"idle", "counted", "costed", "listed"},
                  counted : Quantities, costOf : 0 .. MaxBatches,
                  listed : Quantities, received : BOOLEAN, raised : BOOLEAN,
                  issued : BOOLEAN]
<1>0. /\ MaxBatches \in Nat /\ MaxReceived \in Nat
      /\ nBatches \in 0 .. MaxBatches /\ remaining \in Quantities
      /\ loaded \in [Issuers -> Quantities] /\ view \in [Viewers -> Vs]
  BY StockViewsAssumption DEF ViewsTypeOK
<1>1. Nothing \in Quantities /\ NoView \in Vs
  BY <1>0 DEF Nothing, Quantities, NoView
<1>2. ASSUME NEW r \in BOOLEAN, NEW u \in BOOLEAN, NEW i \in BOOLEAN
      PROVE  Noticed(r, u, i) \in [Viewers -> Vs]
  <2>1. \A v \in Viewers :
          [view[v] EXCEPT !.received = @ \/ r, !.raised = @ \/ u,
                          !.issued = @ \/ i] \in Vs
    BY <1>0
  <2> QED
    BY <2>1 DEF Noticed
<1>3. ASSUME NEW n \in 1 .. MaxReceived, Receive(n)
      PROVE  ViewsTypeOK'
  <2>0. /\ nBatches' \in 0 .. MaxBatches /\ n \in 0 .. MaxReceived
        /\ remaining' = [remaining EXCEPT ![nBatches + 1] = n]
    BY <1>0, <1>3 DEF Receive
  <2>1. remaining' \in Quantities
    BY <1>0, <2>0 DEF Quantities
  <2> QED
    BY <1>0, <1>2, <1>3, <2>0, <2>1 DEF Receive, ViewsTypeOK
<1>4. ASSUME NEW i \in Issuers, NEW b \in Batches, NEW k \in 0 .. MaxReceived,
             Issue(i, b, k)
      PROVE  ViewsTypeOK'
  <2>1. \A c \in Batches :
          (IF c = b THEN k
           ELSE IF c < b /\ loaded[i][c] > 0 THEN 0 ELSE remaining[c])
            \in 0 .. MaxReceived
    BY <1>0 DEF Quantities
  <2>2. remaining' \in Quantities
    BY <1>4, <2>1 DEF Issue, Quantities
  <2>3. view' \in [Viewers -> Vs]
    <3>1. view' = Noticed(FALSE, k > remaining[b], TRUE)
      BY <1>4 DEF Issue
    <3>2. (k > remaining[b]) \in BOOLEAN
      OBVIOUS
    <3> QED
      BY <1>2, <3>1, <3>2
  <2>4. loaded' \in [Issuers -> Quantities]
    BY <1>0, <1>1, <1>4 DEF Issue
  <2> QED
    BY <1>0, <1>4, <2>2, <2>3, <2>4 DEF Issue, ViewsTypeOK
<1>5. ASSUME NEW v \in Viewers, CountOnHand(v)
      PROVE  ViewsTypeOK'
  <2>1. [NoView EXCEPT !.at = "counted", !.counted = remaining] \in Vs
    BY <1>0, <1>1
  <2> QED
    BY <1>0, <1>5, <2>1 DEF CountOnHand, ViewsTypeOK
<1>6. ASSUME NEW v \in Viewers, FifoUnitCost(v)
      PROVE  ViewsTypeOK'
  <2>1. PICK b \in OldestOpen \cup {0} :
          view' = [view EXCEPT ![v].at = "costed", ![v].costOf = b]
    BY <1>6 DEF FifoUnitCost
  <2>2. b \in 0 .. MaxBatches
    BY <1>0 DEF OldestOpen, Batches
  <2>3. [view[v] EXCEPT !.at = "costed", !.costOf = b] \in Vs
    BY <1>0, <2>2
  <2>4. view' = [view EXCEPT ![v] = [view[v] EXCEPT !.at = "costed",
                                                    !.costOf = b]]
    BY <1>0, <2>1
  <2>5. view' \in [Viewers -> Vs]
    BY <1>0, <2>3, <2>4
  <2> QED
    BY <1>0, <1>6, <2>5 DEF FifoUnitCost, ViewsTypeOK
<1>7. ASSUME NEW v \in Viewers, ListBatches(v)
      PROVE  ViewsTypeOK'
  <2>1. [view[v] EXCEPT !.at = "listed", !.listed = remaining] \in Vs
    BY <1>0
  <2>2. view' = [view EXCEPT ![v] = [view[v] EXCEPT !.at = "listed",
                                                    !.listed = remaining]]
    BY <1>0, <1>7 DEF ListBatches
  <2>3. view' \in [Viewers -> Vs]
    BY <1>0, <2>1, <2>2
  <2> QED
    BY <1>0, <1>7, <2>3 DEF ListBatches, ViewsTypeOK
<1>8. ASSUME NEW v \in Viewers, Leave(v)
      PROVE  ViewsTypeOK'
  BY <1>0, <1>1, <1>8 DEF Leave, ViewsTypeOK
<1>9. ASSUME NEW i \in Issuers, LoadBatches(i)
      PROVE  ViewsTypeOK'
  BY <1>0, <1>9 DEF LoadBatches, ViewsTypeOK
<1> QED
  BY <1>3, <1>4, <1>5, <1>6, <1>7, <1>8, <1>9 DEF ViewsNext

\* The routes keep their types.
THEOREM ViewsTypes == ViewsSpec => []ViewsTypeOK
<1>1. ViewsInit => ViewsTypeOK
  BY StockViewsAssumption
     DEF ViewsInit, ViewsTypeOK, NoView, Nothing, Quantities
<1>2. ViewsTypeOK /\ UNCHANGED viewVars => ViewsTypeOK'
  BY DEF viewVars, ViewsTypeOK
<1> QED
  BY <1>1, <1>2, ViewsNextTyped, PTL DEF ViewsSpec

\* What the ledger does is noticed by every request under way.
LEMMA NoticedFacts ==
  ASSUME ViewsTypeOK, NEW r \in BOOLEAN, NEW u \in BOOLEAN, NEW i \in BOOLEAN,
         NEW v \in Viewers
  PROVE  /\ Noticed(r, u, i)[v].at = view[v].at
         /\ Noticed(r, u, i)[v].counted = view[v].counted
         /\ Noticed(r, u, i)[v].costOf = view[v].costOf
         /\ Noticed(r, u, i)[v].listed = view[v].listed
         /\ Noticed(r, u, i)[v].received = (view[v].received \/ r)
         /\ Noticed(r, u, i)[v].raised = (view[v].raised \/ u)
         /\ Noticed(r, u, i)[v].issued = (view[v].issued \/ i)
BY DEF Noticed, ViewsTypeOK

\* A step of the ledger keeps what is known of the counted batches.
LEMMA LedgerKeepsViews ==
  ASSUME ViewsTypeOK, ViewInv, Unmade, CostIsOfStock,
         \/ \E n \in 1 .. MaxReceived : Receive(n)
         \/ \E i \in Issuers : LoadBatches(i)
         \/ \E i \in Issuers, b \in Batches, k \in 0 .. MaxReceived :
              Issue(i, b, k)
  PROVE  ViewInv' /\ Unmade' /\ CostIsOfStock'
<1>0. /\ MaxBatches \in Nat /\ MaxReceived \in Nat
      /\ nBatches \in 0 .. MaxBatches
      /\ \A b \in Batches : b \in Nat /\ remaining[b] \in Nat
      /\ \A v \in Viewers, b \in Batches : view[v].counted[b] \in Nat
      /\ remaining \in [Batches -> 0 .. MaxReceived]
      /\ loaded \in [Issuers -> Quantities]
  BY StockViewsAssumption DEF ViewsTypeOK, Quantities, Batches
<1>1. ASSUME NEW n \in 1 .. MaxReceived, Receive(n)
      PROVE  ViewInv' /\ Unmade' /\ CostIsOfStock'
  <2>1. /\ nBatches' = nBatches + 1 /\ nBatches + 1 \in Batches
        /\ view' = Noticed(TRUE, FALSE, FALSE)
        /\ loaded' = loaded
        /\ \A b \in Batches :
             remaining'[b] = IF b = nBatches + 1 THEN n ELSE remaining[b]
    BY <1>0, <1>1 DEF Receive, Batches
  <2>2. Unmade'
    BY <1>0, <2>1 DEF Unmade
  <2>3. ASSUME NEW v \in Viewers
        PROVE  /\ view'[v].at = view[v].at
               /\ view'[v].counted = view[v].counted
               /\ view'[v].costOf = view[v].costOf
               /\ view'[v].listed = view[v].listed
               /\ view'[v].received = TRUE
               /\ view'[v].issued = view[v].issued
    <3>1. view[v].issued \in BOOLEAN
      BY DEF ViewsTypeOK
    <3> QED
      BY <2>1, <3>1, NoticedFacts
  <2>4. CostIsOfStock'
    <3>1. ASSUME NEW v \in Viewers, view[v].at \in {"costed", "listed"},
                 ~view[v].issued, NEW b \in Batches, view[v].counted[b] > 0
          PROVE  /\ view[v].costOf \in 1 .. b
                 /\ view[v].counted[view[v].costOf] > 0
                 /\ view[v].at = "listed" =>
                      view[v].listed[b] = view[v].counted[b]
      BY <3>1 DEF CostIsOfStock
    <3>2. ASSUME NEW v \in Viewers, view[v].at \in {"costed", "listed"},
                 view[v].costOf = 0
          PROVE  ~InStock(view[v].counted) \/ view[v].issued
      BY <3>2 DEF CostIsOfStock
    <3>3. ASSUME NEW v \in Viewers, view'[v].at \in {"costed", "listed"}
          PROVE  LET w == view'[v]
                 IN  /\ w.costOf # 0 => InStock(w.counted) \/ w.received \/ w.raised
                     /\ w.costOf = 0 => ~InStock(w.counted) \/ w.issued
                     /\ ~w.issued => \A b \in Batches :
                          w.counted[b] > 0 =>
                            /\ w.costOf \in 1 .. b
                            /\ w.counted[w.costOf] > 0
                            /\ w.at = "listed" => w.listed[b] = w.counted[b]
      <4>1. /\ view'[v].at = view[v].at /\ view'[v].received = TRUE
            /\ view'[v].counted = view[v].counted
            /\ view'[v].costOf = view[v].costOf
            /\ view'[v].listed = view[v].listed
            /\ view'[v].issued = view[v].issued
        BY <2>3
      <4>2. view[v].at \in {"costed", "listed"}
        BY <3>3, <4>1
      <4> QED
        BY <3>1, <3>2, <4>1, <4>2
    <3> QED
      BY <3>3 DEF CostIsOfStock, InStock
  <2>5. ASSUME NEW v \in Viewers, view[v].at # "idle"
        PROVE  /\ \A b \in Batches :
                    view[v].counted[b] > 0 => b <= nBatches'
               /\ ~view[v].issued => \A b \in Batches :
                    view[v].counted[b] > 0 => remaining'[b] = view[v].counted[b]
               /\ ~view[v].issued => \A b, c \in Batches :
                    /\ remaining'[b] > 0 /\ view[v].counted[b] = 0
                    /\ view[v].counted[c] > 0
                    => c < b
    <3>1. \A b \in Batches : view[v].counted[b] > 0 => b <= nBatches
      BY <2>5 DEF ViewInv
    <3>2. \A b \in Batches :
            view[v].counted[b] > 0 => b <= nBatches' /\ b # nBatches + 1
      BY <1>0, <2>1, <3>1
    <3>3. ~view[v].issued => \A b \in Batches :
            view[v].counted[b] > 0 => remaining'[b] = view[v].counted[b]
      BY <2>1, <2>5, <3>2 DEF ViewInv
    <3>4. ASSUME ~view[v].issued, NEW b \in Batches, NEW c \in Batches,
                 remaining'[b] > 0, view[v].counted[b] = 0,
                 view[v].counted[c] > 0
          PROVE  c < b
      <4>1. CASE b = nBatches + 1
        BY <1>0, <3>1, <3>4, <4>1
      <4>2. CASE b # nBatches + 1
        BY <2>1, <2>5, <3>4, <4>2 DEF ViewInv
      <4> QED
        BY <4>1, <4>2
    <3> QED
      BY <3>2, <3>3, <3>4
  <2>6. ViewInv'
    <3>1. ASSUME NEW v \in Viewers, view'[v].at # "idle"
          PROVE  /\ \A b \in Batches : view'[v].counted[b] > 0 => b <= nBatches'
                 /\ ~view'[v].issued => \A b \in Batches :
                      view'[v].counted[b] > 0
                        => remaining'[b] = view'[v].counted[b]
                 /\ ~view'[v].issued => \A b, c \in Batches :
                      /\ remaining'[b] > 0 /\ view'[v].counted[b] = 0
                      /\ view'[v].counted[c] > 0
                      => c < b
                 /\ view'[v].received
      <4>1. view[v].at # "idle"
        BY <2>3, <3>1
      <4>2. view'[v].counted = view[v].counted /\ view'[v].received = TRUE
        BY <2>3
      <4>3. view'[v].issued = view[v].issued
        BY <2>3
      <4> QED
        BY <2>5, <4>1, <4>2, <4>3
    <3> QED
      BY <3>1 DEF ViewInv
  <2> QED
    BY <2>2, <2>4, <2>6
<1>2. ASSUME NEW i \in Issuers, NEW b \in Batches, NEW k \in 0 .. MaxReceived,
             Issue(i, b, k)
      PROVE  ViewInv' /\ Unmade' /\ CostIsOfStock'
  <2>1. /\ nBatches' = nBatches
        /\ view' = Noticed(FALSE, k > remaining[b], TRUE)
        /\ k < loaded[i][b] /\ k \in Nat
        /\ loaded' = [loaded EXCEPT ![i] = Nothing]
        /\ \A c \in Batches :
             remaining'[c] = IF c = b THEN k
                             ELSE IF c < b /\ loaded[i][c] > 0 THEN 0
                             ELSE remaining[c]
    BY <1>0, <1>2 DEF Issue
  <2>2. \A c \in Batches :
          remaining'[c] > 0 =>
            remaining[c] > 0 \/ (c = b /\ k > remaining[b])
    BY <1>0, <2>1
  <2>3. Unmade'
    <3>1. b <= nBatches
      BY <1>0, <2>1 DEF Unmade, Quantities
    <3>2. \A c \in Batches : remaining'[c] > 0 => c <= nBatches
      BY <2>2, <3>1 DEF Unmade
    <3>3. \A j \in Issuers, c \in Batches :
            loaded'[j][c] > 0 => loaded[j][c] > 0
      BY <1>0, <2>1 DEF Nothing
    <3> QED
      BY <2>1, <3>2, <3>3 DEF Unmade
  <2>4. ASSUME NEW v \in Viewers
        PROVE  /\ view'[v].at = view[v].at
               /\ view'[v].counted = view[v].counted
               /\ view'[v].costOf = view[v].costOf
               /\ view'[v].listed = view[v].listed
               /\ view'[v].received = view[v].received
               /\ view'[v].raised = (view[v].raised \/ k > remaining[b])
               /\ view'[v].issued = TRUE
    <3>1. view[v].received \in BOOLEAN
      BY DEF ViewsTypeOK
    <3>2. CASE k > remaining[b]
      <4>0. (k > remaining[b]) = TRUE
        BY <3>2
      <4>1. view' = Noticed(FALSE, TRUE, TRUE)
        BY <2>1, <4>0, Zenon
      <4> QED
        BY <3>1, <3>2, <4>1, NoticedFacts
    <3>3. CASE ~(k > remaining[b])
      <4>0. (k > remaining[b]) = FALSE
        BY <3>3
      <4>1. view' = Noticed(FALSE, FALSE, TRUE)
        BY <2>1, <4>0, Zenon
      <4> QED
        BY <3>1, <3>3, <4>1, NoticedFacts
    <3> QED
      BY <3>2, <3>3
  <2>5. CostIsOfStock'
    BY <2>4 DEF CostIsOfStock, InStock
  <2>6. ViewInv'
    <3>1. ASSUME NEW v \in Viewers, view[v].at # "idle"
          PROVE  /\ \A c \in Batches : view[v].counted[c] > 0 => c <= nBatches'
                 /\ ~view'[v].received /\ ~view'[v].raised =>
                      \A c \in Batches :
                        remaining'[c] > 0 => view[v].counted[c] > 0
      BY <2>1, <2>2, <2>4, <3>1 DEF ViewInv
    <3> QED
      BY <2>4, <3>1 DEF ViewInv
  <2> QED
    BY <2>3, <2>5, <2>6
<1>3. ASSUME NEW i \in Issuers, LoadBatches(i)
      PROVE  ViewInv' /\ Unmade' /\ CostIsOfStock'
  <2>1. /\ nBatches' = nBatches /\ remaining' = remaining /\ view' = view
        /\ loaded' = [loaded EXCEPT ![i] = remaining]
    BY <1>3 DEF LoadBatches
  <2>2. \A j \in Issuers, c \in Batches :
          loaded'[j][c] > 0 => loaded[j][c] > 0 \/ remaining[c] > 0
    BY <1>0, <2>1
  <2>3. Unmade'
    BY <2>1, <2>2 DEF Unmade
  <2>4. ViewInv' /\ CostIsOfStock'
    BY <2>1 DEF ViewInv, CostIsOfStock, InStock
  <2> QED
    BY <2>3, <2>4
<1> QED
  BY <1>1, <1>2, <1>3

\* A step of a request keeps what is known of its batches.
LEMMA RequestKeepsViews ==
  ASSUME ViewsTypeOK, ViewInv, Unmade, CostIsOfStock, NEW v \in Viewers,
         CountOnHand(v) \/ FifoUnitCost(v) \/ ListBatches(v) \/ Leave(v)
  PROVE  ViewInv' /\ Unmade' /\ CostIsOfStock'
<1>0. /\ \A b \in Batches : b \in Nat /\ remaining[b] \in Nat
      /\ \A b \in Batches : view[v].counted[b] \in Nat
      /\ \A u \in Viewers : view[u] \in
           [at : {"idle", "counted", "costed", "listed"},
            counted : Quantities, costOf : 0 .. MaxBatches,
            listed : Quantities, received : BOOLEAN, raised : BOOLEAN,
            issued : BOOLEAN]
      /\ DOMAIN view = Viewers
  BY StockViewsAssumption DEF ViewsTypeOK, Quantities, Batches
<1>1. /\ Unmade' /\ UNCHANGED <<nBatches, remaining, loaded>>
      /\ \A u \in Viewers : u # v => view'[u] = view[u]
  BY <1>0 DEF CountOnHand, FifoUnitCost, ListBatches, Leave, Unmade
<1>2. SUFFICES
        LET w == view'[v]
        IN  /\ w.at # "idle" =>
                 /\ \A b \in Batches : w.counted[b] > 0 => b <= nBatches
                 /\ ~w.issued => \A b \in Batches :
                      w.counted[b] > 0 => remaining[b] = w.counted[b]
                 /\ ~w.issued => \A b, c \in Batches :
                      /\ remaining[b] > 0 /\ w.counted[b] = 0
                      /\ w.counted[c] > 0
                      => c < b
                 /\ ~w.received /\ ~w.raised => \A b \in Batches :
                      remaining[b] > 0 => w.counted[b] > 0
            /\ w.at \in {"costed", "listed"} =>
                 /\ w.costOf # 0 => InStock(w.counted) \/ w.received \/ w.raised
                 /\ w.costOf = 0 => ~InStock(w.counted) \/ w.issued
                 /\ ~w.issued => \A b \in Batches :
                      w.counted[b] > 0 =>
                        /\ w.costOf \in 1 .. b
                        /\ w.counted[w.costOf] > 0
                        /\ w.at = "listed" => w.listed[b] = w.counted[b]
  <2>1. ViewInv'
    BY <1>1, <1>2 DEF ViewInv
  <2>2. CostIsOfStock'
    BY <1>1, <1>2 DEF CostIsOfStock, InStock
  <2> QED
    BY <1>1, <2>1, <2>2
<1>3. CASE CountOnHand(v)
  <2>1. /\ view'[v].at = "counted" /\ view'[v].counted = remaining
        /\ view'[v].issued = FALSE /\ view'[v].received = FALSE
        /\ view'[v].raised = FALSE
    BY <1>0, <1>3 DEF CountOnHand, NoView
  <2> QED
    BY <1>0, <2>1 DEF Unmade
<1>4. CASE FifoUnitCost(v)
  <2>1. PICK o \in OldestOpen \cup {0} :
          /\ o = 0 => OldestOpen = {}
          /\ view' = [view EXCEPT ![v].at = "costed", ![v].costOf = o]
    BY <1>4 DEF FifoUnitCost
  <2>2. /\ view'[v].at = "costed" /\ view'[v].costOf = o
        /\ view'[v].counted = view[v].counted
        /\ view'[v].issued = view[v].issued
        /\ view'[v].received = view[v].received
        /\ view'[v].raised = view[v].raised
    BY <1>0, <2>1
  <2>3. view[v].at # "idle"
    BY <1>4 DEF FifoUnitCost
  <2>4. o # 0 => /\ o \in Batches /\ remaining[o] > 0
                 /\ \A c \in Batches : c < o => remaining[c] = 0
    BY <2>1 DEF OldestOpen
  <2>5. \A b \in Batches : remaining[b] > 0 => o # 0 /\ o <= b
    <3>1. ASSUME NEW b \in Batches, remaining[b] > 0
          PROVE  o # 0 /\ o <= b
      <4>1. PICK p \in OldestOpen : p <= b
        BY <3>1, OldestExists
      <4>2. o # 0
        BY <2>1, <4>1
      <4>3. p \in Batches /\ remaining[p] > 0
        BY <4>1 DEF OldestOpen
      <4>4. ~(p < o)
        BY <1>0, <2>4, <4>2, <4>3
      <4> QED
        BY <1>0, <2>4, <4>1, <4>2, <4>3, <4>4
    <3> QED
      BY <3>1
  <2>6. o # 0 => InStock(view[v].counted) \/ view[v].received
                  \/ view[v].raised
    BY <2>3, <2>4 DEF ViewInv, InStock
  <2>7. o = 0 => ~InStock(view[v].counted) \/ view[v].issued
    <3>1. ASSUME o = 0, ~view[v].issued, NEW b \in Batches,
                 view[v].counted[b] > 0
          PROVE  FALSE
      BY <2>3, <2>5, <3>1 DEF ViewInv
    <3> QED
      BY <3>1 DEF InStock
  <2>8. ASSUME ~view[v].issued, NEW b \in Batches, view[v].counted[b] > 0
        PROVE  o \in 1 .. b /\ view[v].counted[o] > 0
    <3>1. remaining[b] > 0
      BY <2>3, <2>8 DEF ViewInv
    <3>2. o # 0 /\ o <= b
      BY <2>5, <3>1
    <3>3. o \in Batches /\ remaining[o] > 0
      BY <2>4, <3>2
    <3>4. view[v].counted[o] # 0
      <4>1. SUFFICES ASSUME view[v].counted[o] = 0
                     PROVE  FALSE
        OBVIOUS
      <4>2. b < o
        BY <2>3, <2>8, <3>3, <4>1 DEF ViewInv
      <4> QED
        BY <1>0, <3>2, <3>3, <4>2
    <3> QED
      BY <1>0, <3>2, <3>3, <3>4
  <2>9. /\ \A b \in Batches : view[v].counted[b] > 0 => b <= nBatches
        /\ ~view[v].issued => \A b \in Batches :
             view[v].counted[b] > 0 => remaining[b] = view[v].counted[b]
        /\ ~view[v].issued => \A b, c \in Batches :
             /\ remaining[b] > 0 /\ view[v].counted[b] = 0
             /\ view[v].counted[c] > 0
             => c < b
        /\ ~view[v].received /\ ~view[v].raised => \A b \in Batches :
             remaining[b] > 0 => view[v].counted[b] > 0
    BY <2>3 DEF ViewInv
  <2> QED
    BY <2>2, <2>6, <2>7, <2>8, <2>9
<1>5. CASE ListBatches(v)
  <2>1. /\ view'[v].at = "listed" /\ view'[v].listed = remaining
        /\ view'[v].costOf = view[v].costOf
        /\ view'[v].counted = view[v].counted
        /\ view'[v].issued = view[v].issued
        /\ view'[v].received = view[v].received
        /\ view'[v].raised = view[v].raised
        /\ view[v].at = "costed"
    BY <1>0, <1>5 DEF ListBatches
  <2> QED
    BY <2>1 DEF ViewInv, CostIsOfStock
<1>6. CASE Leave(v)
  <2>1. view'[v].at = "idle"
    BY <1>0, <1>6 DEF Leave, NoView
  <2> QED
    BY <2>1
<1> QED
  BY <1>3, <1>4, <1>5, <1>6

\* A cost is that of the stock that was counted, however requests and issues
\* overlap, but for what was received, issued or written back in between.
THEOREM CostIsOfStockSafe == ViewsSpec => []CostIsOfStock
<1>1. ViewsInit => ViewInv /\ Unmade /\ CostIsOfStock
  BY DEF ViewsInit, ViewInv, Unmade, CostIsOfStock, NoView, Nothing
<1>2. ViewsTypeOK /\ ViewInv /\ Unmade /\ CostIsOfStock /\ ViewsNext
        => ViewInv' /\ Unmade' /\ CostIsOfStock'
  BY LedgerKeepsViews, RequestKeepsViews DEF ViewsNext
<1>3. ViewInv /\ Unmade /\ CostIsOfStock /\ UNCHANGED viewVars
        => ViewInv' /\ Unmade' /\ CostIsOfStock'
  BY DEF viewVars, ViewInv, Unmade, CostIsOfStock, InStock
<1> QED
  BY <1>1, <1>2, <1>3, ViewsTypes, PTL DEF ViewsSpec
-----------------------------------------------------------------------------
(* The pruning of old runs *)

\* By someone's count there are enough newer ones.
Outdated(d) == \E k \in KeepCounts : Cardinality(NewerIn(everMade, d)) >= k

\* What has been deleted, or is going to be, is outdated and nobody's own.
PruneInv ==
  /\ IsFiniteSet(everMade) /\ ~ownLost
  /\ \A d \in deleted : Outdated(d)
  /\ \A r \in Runs :
       /\ IF pruner[r].at \in {"listed", "pruning"}
          THEN pruner[r].keep \in KeepCounts ELSE pruner[r].plan = {}
       /\ \A d \in pruner[r].plan :
            Outdated(d) /\ ~(pruner[r].knows /\ Own(r, pruner[r].start, d))

\* What a run has read holds the last of the lines there were then.
TailInv ==
  \A r \in Runs : pruner[r].at = "read" =>
    \A n \in 1 .. pruner[r].readAt :
      n > logged - MaxLines => n \in pruner[r].tail \/ n \in lostLines

\* Adding directories leaves the outdated ones so.
LEMMA OutdatedStays ==
  ASSUME IsFiniteSet(everMade), everMade \subseteq everMade',
         IsFiniteSet(everMade'), NEW d, Outdated(d)
  PROVE  Outdated(d)'
<1>1. PICK k \in KeepCounts : Cardinality(NewerIn(everMade, d)) >= k
  BY DEF Outdated
<1>2. /\ NewerIn(everMade, d) \subseteq everMade
      /\ NewerIn(everMade', d) \subseteq everMade'
      /\ NewerIn(everMade, d) \subseteq NewerIn(everMade', d)
  BY DEF NewerIn
<1>3. IsFiniteSet(NewerIn(everMade', d))
  BY <1>2, FS_Subset
<1>4. /\ IsFiniteSet(NewerIn(everMade, d))
      /\ Cardinality(NewerIn(everMade, d)) <= Cardinality(NewerIn(everMade', d))
  BY <1>2, <1>3, FS_Subset
<1>5. /\ Cardinality(NewerIn(everMade, d)) \in Nat
      /\ Cardinality(NewerIn(everMade', d)) \in Nat
  BY <1>3, <1>4, FS_CardinalityType
<1>6. k \in Nat
  BY RetentionAssumption
<1>7. Cardinality(NewerIn(everMade', d)) >= k
  BY <1>1, <1>4, <1>5, <1>6
<1> QED
  BY <1>7 DEF Outdated

\* What is planned is outdated, and not the run's own.
LEMMA PlannedFacts ==
  ASSUME RetentionTypeOK, IsFiniteSet(everMade), NEW r, NEW kind,
         NEW k \in KeepCounts, NEW knows, NEW d \in Planned(r, kind, k, knows)
  PROVE  /\ d \in AllDirs /\ Outdated(d)
         /\ ~(knows /\ Own(r, pruner[r].start, d))
<1>1. /\ d \in Present /\ ~(knows /\ Own(r, pruner[r].start, d))
      /\ Cardinality(NewerIn(Present, d)) >= k
  BY DEF Planned
<1>2. /\ Present \subseteq everMade
      /\ NewerIn(Present, d) \subseteq NewerIn(everMade, d)
      /\ NewerIn(everMade, d) \subseteq everMade
  BY DEF Present, NewerIn
<1>3. IsFiniteSet(NewerIn(everMade, d))
  BY <1>2, FS_Subset
<1>4. /\ IsFiniteSet(NewerIn(Present, d))
      /\ Cardinality(NewerIn(Present, d)) <= Cardinality(NewerIn(everMade, d))
  BY <1>2, <1>3, FS_Subset
<1>5. /\ Cardinality(NewerIn(Present, d)) \in Nat
      /\ Cardinality(NewerIn(everMade, d)) \in Nat
  BY <1>3, <1>4, FS_CardinalityType
<1>6. k \in Nat
  BY RetentionAssumption
<1>7. Cardinality(NewerIn(everMade, d)) >= k
  BY <1>1, <1>4, <1>5, <1>6
<1> QED
  BY <1>1, <1>2, <1>7 DEF Outdated, RetentionTypeOK

\* The last lines of a file that has them are in its tail.
LEMMA TailKeepsLast ==
  ASSUME NEW S, NEW top \in Nat, S \subseteq 1 .. top, NEW n \in S,
         n > top - MaxLines
  PROVE  n \in TailLines(S)
<1> DEFINE T == {m \in S : m > n}
<1>1. n \in 1 .. top /\ MaxLines \in Nat
  BY RetentionAssumption
<1>2. T \subseteq (n + 1) .. top
  <2>1. ASSUME NEW m \in S, m > n
        PROVE  m \in (n + 1) .. top
    <3>1. m \in 1 .. top
      BY <2>1
    <3> QED
      BY <1>1, <2>1, <3>1
  <2> QED
    BY <2>1
<1>3. /\ IsFiniteSet((n + 1) .. top)
      /\ Cardinality((n + 1) .. top) = IF n + 1 > top THEN 0
                                       ELSE top - (n + 1) + 1
  BY <1>1, FS_Interval
<1>4. /\ IsFiniteSet(T) /\ Cardinality(T) \in Nat
      /\ Cardinality(T) <= Cardinality((n + 1) .. top)
  BY <1>2, <1>3, FS_Subset, FS_CardinalityType
<1> HIDE DEF T
<1>5. Cardinality(T) < MaxLines
  BY <1>1, <1>3, <1>4, RetentionAssumption
<1> QED
  BY <1>5 DEF TailLines, T

\* The fields of a run after an action that changes some of them.
PrunerType(n) ==
  [at : {"out", "running", "listed", "pruning", "read", "cut", "over"},
   start : 1 .. MaxStamp + 1, keep : Nat, dry : BOOLEAN, knows : BOOLEAN,
   plan : SUBSET AllDirs, tail : SUBSET (1 .. n), readAt : 0 .. n]

LEMMA PrunerTyped ==
  ASSUME NEW n \in Nat,
         NEW at \in {"out", "running", "listed", "pruning", "read", "cut",
                     "over"}
  PROVE  Pruner(at) \in PrunerType(n)
<1>1. 1 \in 1 .. MaxStamp + 1 /\ 0 \in 0 .. n /\ {} \in SUBSET (1 .. n)
  BY RetentionAssumption
<1> QED
  BY <1>1 DEF Pruner, PrunerType

\* A line is added to the file and to those there have been.
LEMMA AppendedFacts ==
  ASSUME RetentionTypeOK, Append1
  PROVE  /\ logged' = logged + 1 /\ logged' \in Nat
         /\ logFile' \subseteq 1 .. logged' /\ lostLines' \subseteq 1 .. logged'
         /\ LastLinesStay => LastLinesStay'
<1>1. logged' = logged + 1 /\ logged \in Nat /\ logged' \in Nat
  BY DEF RetentionTypeOK, Append1
<1>2. 1 .. logged \subseteq 1 .. logged' /\ logged + 1 \in 1 .. logged'
  BY <1>1
<1>3. /\ logFile' = logFile \cup {logged + 1} /\ lostLines' = lostLines
      /\ logFile \subseteq 1 .. logged /\ lostLines \subseteq 1 .. logged
  BY DEF RetentionTypeOK, Append1
<1>4. ASSUME LastLinesStay
      PROVE  LastLinesStay'
  <2>1. ASSUME NEW n \in 1 .. logged', n > logged' - MaxLines
        PROVE  n \in logFile' \/ n \in lostLines'
    <3>1. CASE n = logged + 1
      BY <1>3, <3>1
    <3>2. CASE n # logged + 1
      <4>1. n \in 1 .. logged /\ n > logged - MaxLines
        BY <1>1, <2>1, <3>2, RetentionAssumption
      <4> QED
        BY <1>3, <1>4, <4>1 DEF LastLinesStay
    <3> QED
      BY <3>1, <3>2
  <2> QED
    BY <2>1 DEF LastLinesStay
<1> QED
  BY <1>1, <1>2, <1>3, <1>4

\* What is among the last of more lines is among the last of fewer.
LEMMA BoundGrows ==
  ASSUME NEW n \in Int, NEW low \in Int, NEW high \in Int, NEW m \in Int,
         low <= high, n > high - m
  PROVE  n > low - m
OBVIOUS

\* What a step of one run has to keep, for it to keep all.
LEMMA OneRunSteps ==
  ASSUME RetentionTypeOK, PruneInv, TailInv, NEW r \in Runs,
         logged' \in Nat, logged <= logged', lostLines \subseteq lostLines',
         NEW rec \in PrunerType(logged'),
         pruner' = [pruner EXCEPT ![r] = rec],
         IsFiniteSet(everMade'), everMade \subseteq everMade',
         ownLost' = FALSE, \A d \in deleted' : Outdated(d)',
         IF rec.at \in {"listed", "pruning"} THEN rec.keep \in KeepCounts
         ELSE rec.plan = {},
         \A d \in rec.plan :
           Outdated(d)' /\ ~(rec.knows /\ Own(r, rec.start, d)),
         rec.at = "read" => \A n \in 1 .. rec.readAt :
           n > logged' - MaxLines => n \in rec.tail \/ n \in lostLines'
  PROVE  pruner' \in [Runs -> PrunerType(logged')] /\ PruneInv' /\ TailInv'
<1>0. /\ logged \in Nat /\ pruner \in [Runs -> PrunerType(logged)]
      /\ IsFiniteSet(everMade)
  BY DEF RetentionTypeOK, PrunerType, PruneInv
<1>1. /\ pruner'[r] = rec
      /\ \A q \in Runs : q # r => pruner'[q] = pruner[q]
      /\ DOMAIN pruner' = Runs
  BY <1>0
<1>2. 1 .. logged \subseteq 1 .. logged' /\ 0 .. logged \subseteq 0 .. logged'
  BY <1>0
<1>3. PrunerType(logged) \subseteq PrunerType(logged')
  <2>1. SUBSET (1 .. logged) \subseteq SUBSET (1 .. logged')
    BY <1>2
  <2> QED
    BY <1>2, <2>1 DEF PrunerType
<1>4. pruner' \in [Runs -> PrunerType(logged')]
  BY <1>0, <1>3
<1>5. ASSUME NEW q \in Runs
      PROVE  /\ IF pruner'[q].at \in {"listed", "pruning"}
                THEN pruner'[q].keep \in KeepCounts ELSE pruner'[q].plan = {}
             /\ \A d \in pruner'[q].plan :
                  /\ Outdated(d)'
                  /\ ~(pruner'[q].knows /\ Own(q, pruner'[q].start, d))
  <2>1. CASE q = r
    BY <1>1, <2>1
  <2>2. CASE q # r
    <3>1. pruner'[q] = pruner[q]
      BY <1>1, <2>2
    <3>2. \A d \in pruner[q].plan :
            Outdated(d) /\ ~(pruner[q].knows /\ Own(q, pruner[q].start, d))
      BY DEF PruneInv
    <3>3. \A d \in pruner[q].plan : Outdated(d)'
      BY <1>0, <3>2, OutdatedStays
    <3>4. IF pruner[q].at \in {"listed", "pruning"}
          THEN pruner[q].keep \in KeepCounts ELSE pruner[q].plan = {}
      BY DEF PruneInv
    <3> QED
      BY <3>1, <3>2, <3>3, <3>4
  <2> QED
    BY <2>1, <2>2
<1>6. PruneInv'
  BY <1>5 DEF PruneInv
<1>7. ASSUME NEW q \in Runs, pruner'[q].at = "read",
             NEW n \in 1 .. pruner'[q].readAt, n > logged' - MaxLines
      PROVE  n \in pruner'[q].tail \/ n \in lostLines'
  <2>1. CASE q = r
    BY <1>1, <1>7, <2>1
  <2>2. CASE q # r
    <3>1. pruner'[q] = pruner[q]
      BY <1>1, <2>2
    <3>2. pruner[q].readAt \in 0 .. logged
      BY <1>0 DEF PrunerType
    <3>4. n \in 1 .. pruner[q].readAt
      BY <1>7, <3>1
    <3>5. n \in Int /\ n > logged' - MaxLines
      BY <1>7, <3>2, <3>4
    <3>6. logged \in Int /\ logged' \in Int /\ MaxLines \in Int
      BY <1>0, RetentionAssumption
    <3>7. logged <= logged'
      OBVIOUS
    <3>3. n > logged - MaxLines
      BY <3>5, <3>6, <3>7, BoundGrows
    <3> QED
      BY <1>7, <3>1, <3>3, <3>4 DEF TailInv
  <2> QED
    BY <2>1, <2>2
<1>8. TailInv'
  BY <1>7 DEF TailInv
<1> QED
  BY <1>4, <1>6, <1>8

\* A step of a run keeps types and invariants.
LEMMA RunNextInv ==
  ASSUME RetentionTypeOK, PruneInv, TailInv, LastLinesStay, NEW r \in Runs,
         \/ BeginRun(r) \/ WriteIndex(r) \/ ListRuns(r) \/ ListIndexes(r)
         \/ AlreadyGone(r) \/ DeleteDir(r) \/ DeleteFails(r)
         \/ ReadLog(r) \/ ReadFails(r) \/ WriteTail(r) \/ WriteFails(r)
         \/ SumUp(r)
  PROVE  RetentionTypeOK' /\ PruneInv' /\ TailInv' /\ LastLinesStay'
<1> DEFINE p == pruner[r]
<1>0. /\ logged \in Nat /\ pruner \in [Runs -> PrunerType(logged)]
      /\ p \in PrunerType(logged) /\ DOMAIN pruner = Runs
      /\ everMade \subseteq AllDirs /\ deleted \subseteq everMade
      /\ logFile \subseteq 1 .. logged /\ lostLines \subseteq 1 .. logged
      /\ IsFiniteSet(everMade) /\ ownLost = FALSE
      /\ \A d \in deleted : Outdated(d)
      /\ IF p.at \in {"listed", "pruning"} THEN p.keep \in KeepCounts
         ELSE p.plan = {}
      /\ \A d \in p.plan : Outdated(d) /\ ~(p.knows /\ Own(r, p.start, d))
      /\ KeepCounts \subseteq Nat /\ MaxStamp \in Nat
  BY RetentionAssumption DEF RetentionTypeOK, PrunerType, PruneInv
<1>S. ASSUME UNCHANGED storedLines
      PROVE  /\ logged' \in Nat /\ logged <= logged'
             /\ lostLines \subseteq lostLines'
             /\ logFile' \subseteq 1 .. logged' /\ lostLines' \subseteq 1 .. logged'
             /\ LastLinesStay'
  BY <1>0, <1>S DEF storedLines, LastLinesStay
<1>L. ASSUME Append1
      PROVE  /\ logged' \in Nat /\ logged <= logged'
             /\ lostLines \subseteq lostLines'
             /\ logFile' \subseteq 1 .. logged' /\ lostLines' \subseteq 1 .. logged'
             /\ LastLinesStay' /\ PrunerType(logged) \subseteq PrunerType(logged')
  <2>1. logged' = logged + 1 /\ lostLines' = lostLines
    BY <1>L DEF Append1
  <2>2. 1 .. logged \subseteq 1 .. logged' /\ 0 .. logged \subseteq 0 .. logged'
    BY <1>0, <2>1
  <2>3. SUBSET (1 .. logged) \subseteq SUBSET (1 .. logged')
    BY <2>2
  <2> QED
    BY <1>0, <1>L, <2>1, <2>2, <2>3, AppendedFacts DEF PrunerType
<1>D. ASSUME UNCHANGED storedDirs
      PROVE  /\ IsFiniteSet(everMade') /\ everMade \subseteq everMade'
             /\ everMade' \subseteq AllDirs /\ deleted' \subseteq everMade'
             /\ ownLost' = FALSE /\ \A d : Outdated(d)' <=> Outdated(d)
             /\ \A d \in deleted' : Outdated(d)'
  BY <1>0, <1>D DEF storedDirs, Outdated
<1>E. ASSUME NEW x \in AllDirs, everMade' = everMade \cup {x},
             UNCHANGED <<deleted, ownLost>>
      PROVE  /\ IsFiniteSet(everMade') /\ everMade \subseteq everMade'
             /\ everMade' \subseteq AllDirs /\ deleted' \subseteq everMade'
             /\ ownLost' = FALSE /\ \A d : Outdated(d) => Outdated(d)'
             /\ \A d \in deleted' : Outdated(d)'
  <2>1. /\ IsFiniteSet(everMade') /\ everMade \subseteq everMade'
        /\ everMade' \subseteq AllDirs /\ deleted' \subseteq everMade'
    BY <1>0, <1>E, FS_AddElement
  <2>2. \A d : Outdated(d) => Outdated(d)'
    BY <1>0, <2>1, OutdatedStays
  <2> QED
    BY <1>0, <1>E, <2>1, <2>2
<1>Q. ASSUME pruner' \in [Runs -> PrunerType(logged')], PruneInv', TailInv',
             everMade' \subseteq AllDirs, deleted' \subseteq everMade',
             logged' \in Nat, logFile' \subseteq 1 .. logged',
             lostLines' \subseteq 1 .. logged', LastLinesStay', ownLost' = FALSE
      PROVE  RetentionTypeOK' /\ PruneInv' /\ TailInv' /\ LastLinesStay'
  BY <1>Q DEF RetentionTypeOK, PrunerType
<1> HIDE DEF p
<1>1. CASE BeginRun(r)
  <2>1. PICK s \in Stamps :
          /\ pruner' = [pruner EXCEPT ![r].at = "running", ![r].start = s]
          /\ everMade' = everMade
                \cup {[kind |-> "run", stamp |-> s, by |-> r]}
    BY <1>1 DEF BeginRun
  <2> DEFINE rec == [p EXCEPT !.at = "running", !.start = s]
  <2>2. /\ pruner' = [pruner EXCEPT ![r] = rec]
        /\ rec.at = "running" /\ rec.plan = {}
    BY <1>0, <1>1, <2>1 DEF PrunerType, BeginRun, p
  <2>3. [kind |-> "run", stamp |-> s, by |-> r] \in AllDirs
    BY DEF AllDirs, RunDirs
  <2>4. UNCHANGED <<deleted, ownLost>> /\ UNCHANGED storedLines
    BY <1>1 DEF BeginRun
  <2>5. logged' = logged
    BY <2>4 DEF storedLines
  <2>6. s \in 1 .. MaxStamp + 1
    BY <1>0 DEF Stamps
  <2>7. rec \in PrunerType(logged')
    BY <1>0, <2>5, <2>6 DEF PrunerType
  <2> HIDE DEF rec
  <2>8. pruner' \in [Runs -> PrunerType(logged')] /\ PruneInv' /\ TailInv'
    BY <1>E, <1>S, <2>1, <2>2, <2>3, <2>4, <2>7, OneRunSteps
  <2> QED
    BY <1>E, <1>S, <1>Q, <2>1, <2>3, <2>4, <2>8
<1>2. CASE WriteIndex(r)
  <2>1. PICK s \in Stamps :
          everMade' = everMade \cup {[kind |-> "index", stamp |-> s, by |-> 0]}
    BY <1>2 DEF WriteIndex
  <2>2. [kind |-> "index", stamp |-> s, by |-> 0] \in AllDirs
    BY DEF AllDirs, IndexDirs
  <2>3. /\ UNCHANGED <<deleted, ownLost>> /\ UNCHANGED storedLines
        /\ pruner' = pruner
    BY <1>2 DEF WriteIndex
  <2>4. /\ pruner' = [pruner EXCEPT ![r] = p] /\ p.plan = {}
        /\ p.at = "running"
    BY <1>0, <1>2, <2>3 DEF WriteIndex, p
  <2>5. p \in PrunerType(logged')
    BY <1>0, <2>3 DEF storedLines
  <2>6. pruner' \in [Runs -> PrunerType(logged')] /\ PruneInv' /\ TailInv'
    BY <1>E, <1>S, <2>1, <2>2, <2>3, <2>4, <2>5, OneRunSteps
  <2> QED
    BY <1>E, <1>S, <1>Q, <2>1, <2>2, <2>3, <2>6
<1>3. CASE ListRuns(r)
  <2>1. PICK k \in KeepCounts, dry \in BOOLEAN, knows \in BOOLEAN :
          pruner' = [pruner EXCEPT ![r].at = "listed", ![r].keep = k,
                                   ![r].dry = dry, ![r].knows = knows,
                                   ![r].plan = Planned(r, "run", k, knows)]
    BY <1>3 DEF ListRuns
  <2> DEFINE plan == Planned(r, "run", k, knows)
             rec == [p EXCEPT !.at = "listed", !.keep = k, !.dry = dry,
                              !.knows = knows, !.plan = plan]
  <2>2. UNCHANGED storedDirs /\ UNCHANGED storedLines
    BY <1>3 DEF ListRuns
  <2>3. \A d \in plan : d \in AllDirs /\ Outdated(d)
                          /\ ~(knows /\ Own(r, p.start, d))
    BY <1>0, PlannedFacts DEF p
  <2> HIDE DEF plan
  <2>4. pruner' = [pruner EXCEPT ![r] = rec]
    BY <1>0, <2>1 DEF PrunerType, p, plan
  <2>5. /\ rec.at = "listed" /\ rec.keep = k /\ rec.plan = plan
        /\ rec.knows = knows /\ rec.start = p.start
        /\ rec \in PrunerType(logged)
    <3>1. k \in Nat /\ plan \in SUBSET AllDirs
      BY <1>0, <2>3
    <3> QED
      BY <1>0, <3>1 DEF PrunerType
  <2>6. logged' = logged
    BY <2>2 DEF storedLines
  <2> HIDE DEF rec
  <2>7. pruner' \in [Runs -> PrunerType(logged')] /\ PruneInv' /\ TailInv'
    BY <1>D, <1>S, <2>2, <2>3, <2>4, <2>5, <2>6, OneRunSteps
  <2> QED
    BY <1>D, <1>S, <1>Q, <2>2, <2>7
<1>4. CASE ListIndexes(r)
  <2> DEFINE plan == IF p.dry THEN {}
                     ELSE p.plan \cup Planned(r, "index", p.keep, p.knows)
             rec == [p EXCEPT !.at = "pruning", !.plan = plan]
  <2>1. /\ p.at = "listed" /\ Append1 /\ UNCHANGED storedDirs
        /\ pruner' = [pruner EXCEPT ![r].at = "pruning", ![r].plan = plan]
    BY <1>0, <1>4 DEF ListIndexes, p
  <2>2. \A d \in plan : d \in AllDirs /\ Outdated(d)
                          /\ ~(p.knows /\ Own(r, p.start, d))
    <3>1. ASSUME NEW d \in Planned(r, "index", p.keep, p.knows)
          PROVE  d \in AllDirs /\ Outdated(d)
                 /\ ~(p.knows /\ Own(r, p.start, d))
      <4>1. p.keep \in KeepCounts
        BY <1>0, <2>1
      <4> QED
        BY <1>0, <4>1, PlannedFacts DEF p
    <3>2. p.plan \subseteq AllDirs
      BY <1>0 DEF PrunerType
    <3> QED
      BY <1>0, <3>1, <3>2
  <2> HIDE DEF plan
  <2>3. pruner' = [pruner EXCEPT ![r] = rec]
    BY <1>0, <2>1 DEF PrunerType, p
  <2>4. /\ rec.at = "pruning" /\ rec.keep = p.keep /\ rec.plan = plan
        /\ rec.knows = p.knows /\ rec.start = p.start
        /\ rec \in PrunerType(logged)
    BY <1>0, <2>2 DEF PrunerType
  <2>5. p.keep \in KeepCounts
    BY <1>0, <2>1
  <2>6. rec \in PrunerType(logged')
    BY <1>L, <2>1, <2>4
  <2> HIDE DEF rec
  <2>7. pruner' \in [Runs -> PrunerType(logged')] /\ PruneInv' /\ TailInv'
    BY <1>D, <1>L, <2>1, <2>2, <2>3, <2>4, <2>5, <2>6, OneRunSteps
  <2> QED
    BY <1>D, <1>L, <1>Q, <2>1, <2>7
<1>5. ASSUME NEW plan, plan \subseteq p.plan, p.at = "pruning",
             pruner' = [pruner EXCEPT ![r].plan = plan],
             logged' \in Nat, logged <= logged', lostLines \subseteq lostLines',
             IsFiniteSet(everMade'), everMade \subseteq everMade',
             ownLost' = FALSE, \A d \in deleted' : Outdated(d)',
             \A d : Outdated(d) => Outdated(d)'
      PROVE  pruner' \in [Runs -> PrunerType(logged')] /\ PruneInv' /\ TailInv'
  <2> DEFINE rec == [p EXCEPT !.plan = plan]
  <2>1. pruner' = [pruner EXCEPT ![r] = rec]
    BY <1>0, <1>5 DEF PrunerType, p
  <2>2. /\ rec.at = "pruning" /\ rec.keep = p.keep /\ rec.plan = plan
        /\ rec.knows = p.knows /\ rec.start = p.start
        /\ rec \in PrunerType(logged)
    BY <1>0, <1>5 DEF PrunerType
  <2>3. 1 .. logged \subseteq 1 .. logged' /\ 0 .. logged \subseteq 0 .. logged'
    BY <1>0, <1>5
  <2>4. SUBSET (1 .. logged) \subseteq SUBSET (1 .. logged')
    BY <2>3
  <2>5. rec \in PrunerType(logged')
    BY <2>2, <2>3, <2>4 DEF PrunerType
  <2>6. p.keep \in KeepCounts
    BY <1>0, <1>5
  <2>7. \A d \in plan : Outdated(d)' /\ ~(p.knows /\ Own(r, p.start, d))
    BY <1>0, <1>5
  <2> HIDE DEF rec
  <2> QED
    BY <1>5, <2>1, <2>2, <2>5, <2>6, <2>7, OneRunSteps
<1>6. CASE AlreadyGone(r)
  <2> DEFINE plan == p.plan \cap Present
  <2>1. /\ p.at = "pruning" /\ UNCHANGED storedDirs /\ UNCHANGED storedLines
        /\ pruner' = [pruner EXCEPT ![r].plan = plan] /\ plan \subseteq p.plan
    BY <1>0, <1>6 DEF AlreadyGone, p
  <2> HIDE DEF plan
  <2>2. pruner' \in [Runs -> PrunerType(logged')] /\ PruneInv' /\ TailInv'
    BY <1>5, <1>D, <1>S, <2>1
  <2> QED
    BY <1>D, <1>S, <1>Q, <2>1, <2>2
<1>7. CASE DeleteDir(r)
  <2>1. PICK d \in p.plan \cap Present :
          /\ deleted' = deleted \cup {d}
          /\ ownLost' = (ownLost \/ (p.knows /\ Own(r, p.start, d)))
          /\ pruner' = [pruner EXCEPT ![r].plan = p.plan \ {d}]
    BY <1>0, <1>7 DEF DeleteDir, p
  <2>2. p.at = "pruning" /\ Append1 /\ everMade' = everMade
    BY <1>7 DEF DeleteDir, p
  <2>3. \A e : Outdated(e)' <=> Outdated(e)
    BY <2>2 DEF Outdated
  <2>4. /\ ownLost' = FALSE /\ deleted' \subseteq everMade'
        /\ \A e \in deleted' : Outdated(e)'
    BY <1>0, <2>1, <2>2, <2>3 DEF Present
  <2>5. p.plan \ {d} \subseteq p.plan
    OBVIOUS
  <2>6. pruner' \in [Runs -> PrunerType(logged')] /\ PruneInv' /\ TailInv'
    BY <1>0, <1>5, <1>L, <2>1, <2>2, <2>3, <2>4, <2>5
  <2> QED
    BY <1>0, <1>L, <1>Q, <2>2, <2>4, <2>6
<1>8. CASE DeleteFails(r)
  <2>1. PICK d \in p.plan : pruner' = [pruner EXCEPT ![r].plan = p.plan \ {d}]
    BY <1>0, <1>8 DEF DeleteFails, p
  <2>2. p.at = "pruning" /\ Append1 /\ UNCHANGED storedDirs
    BY <1>8 DEF DeleteFails, p
  <2>3. p.plan \ {d} \subseteq p.plan
    OBVIOUS
  <2>4. pruner' \in [Runs -> PrunerType(logged')] /\ PruneInv' /\ TailInv'
    BY <1>5, <1>D, <1>L, <2>1, <2>2, <2>3
  <2> QED
    BY <1>D, <1>L, <1>Q, <2>2, <2>4
<1>9. ASSUME NEW at \in {"cut", "over"},
             pruner' = [pruner EXCEPT ![r] = Pruner(at)], UNCHANGED storedDirs,
             logged' \in Nat, logged <= logged', lostLines \subseteq lostLines'
      PROVE  pruner' \in [Runs -> PrunerType(logged')] /\ PruneInv' /\ TailInv'
  <2>1. /\ Pruner(at) \in PrunerType(logged') /\ Pruner(at).at = at
        /\ Pruner(at).plan = {}
    BY <1>9, PrunerTyped DEF Pruner
  <2> QED
    BY <1>9, <1>D, <2>1, OneRunSteps
<1>10. CASE ReadLog(r)
  <2>1. UNCHANGED storedDirs /\ UNCHANGED storedLines /\ logged' = logged
    BY <1>10 DEF ReadLog, storedLines
  <2>2. CASE pruner' = [pruner EXCEPT ![r] = Pruner("cut")]
    BY <1>9, <1>D, <1>S, <1>Q, <2>1, <2>2
  <2>3. CASE pruner' = [pruner EXCEPT ![r] =
               [Pruner("read") EXCEPT !.tail = TailLines(logFile),
                                      !.readAt = logged]]
    <3> DEFINE rec == [Pruner("read") EXCEPT !.tail = TailLines(logFile),
                                             !.readAt = logged]
    <3>1. TailLines(logFile) \in SUBSET (1 .. logged) /\ logged \in 0 .. logged
      <4>1. TailLines(logFile) \subseteq logFile
        BY DEF TailLines
      <4>2. TailLines(logFile) \subseteq 1 .. logged
        BY <1>0, <4>1
      <4>3. logged \in 0 .. logged
        BY <1>0
      <4> QED
        BY <4>2, <4>3
    <3>2. Pruner("read") \in PrunerType(logged)
      BY <1>0, PrunerTyped
    <3>3. rec \in PrunerType(logged)
      BY <3>1, <3>2 DEF PrunerType
    <3>4. /\ rec.at = "read" /\ rec.plan = {} /\ rec.readAt = logged
          /\ rec.tail = TailLines(logFile)
      BY DEF Pruner
    <3>5. ASSUME NEW n \in 1 .. logged, n > logged - MaxLines
          PROVE  n \in TailLines(logFile) \/ n \in lostLines
      BY <1>0, <3>5, TailKeepsLast DEF LastLinesStay
    <3> HIDE DEF rec
    <3>6. lostLines' = lostLines
      BY <2>1 DEF storedLines
    <3>7. pruner' \in [Runs -> PrunerType(logged')] /\ PruneInv' /\ TailInv'
      BY <1>D, <1>S, <2>1, <2>3, <3>3, <3>4, <3>5, <3>6, OneRunSteps DEF rec
    <3> QED
      BY <1>D, <1>S, <1>Q, <2>1, <3>7
  <2> QED
    BY <1>10, <2>2, <2>3 DEF ReadLog
<1>11. CASE ReadFails(r)
  <2>1. /\ pruner' = [pruner EXCEPT ![r] = Pruner("cut")]
        /\ Append1 /\ UNCHANGED storedDirs
    BY <1>11 DEF ReadFails
  <2> QED
    BY <1>9, <1>D, <1>L, <1>Q, <2>1
<1>12. CASE SumUp(r)
  <2>1. /\ pruner' = [pruner EXCEPT ![r] = Pruner("over")]
        /\ Append1 /\ UNCHANGED storedDirs
    BY <1>12 DEF SumUp
  <2> QED
    BY <1>9, <1>D, <1>L, <1>Q, <2>1
<1>13. CASE WriteTail(r)
  <2>1. /\ logged' = logged + 1 /\ logFile' = p.tail \cup {logged + 1}
        /\ lostLines' = lostLines \cup (p.readAt + 1 .. logged)
        /\ pruner' = [pruner EXCEPT ![r] = Pruner("cut")]
        /\ UNCHANGED storedDirs /\ p.at = "read"
    BY <1>13 DEF WriteTail, p
  <2>2. /\ p.tail \subseteq 1 .. logged /\ p.readAt \in 0 .. logged
    BY <1>0 DEF PrunerType
  <2>3. logged' \in Nat /\ logged <= logged' /\ lostLines \subseteq lostLines'
    BY <1>0, <2>1
  <2>4. 1 .. logged \subseteq 1 .. logged' /\ logged + 1 \in 1 .. logged'
        /\ p.readAt + 1 .. logged \subseteq 1 .. logged'
    BY <1>0, <2>1, <2>2
  <2>5. logFile' \subseteq 1 .. logged' /\ lostLines' \subseteq 1 .. logged'
    BY <1>0, <2>1, <2>2, <2>4
  <2>6. LastLinesStay'
    <3>1. ASSUME NEW n \in 1 .. logged', n > logged' - MaxLines
          PROVE  n \in logFile' \/ n \in lostLines'
      <4>1. CASE n = logged + 1
        BY <2>1, <4>1
      <4>2. CASE n # logged + 1 /\ n <= p.readAt
        <5>1. n \in 1 .. p.readAt /\ n > logged - MaxLines
          BY <1>0, <2>1, <2>2, <3>1, <4>2, RetentionAssumption
        <5> QED
          BY <2>1, <5>1 DEF TailInv, p
      <4>3. CASE n # logged + 1 /\ ~(n <= p.readAt)
        <5>1. n \in p.readAt + 1 .. logged
          BY <1>0, <2>1, <2>2, <3>1, <4>3
        <5> QED
          BY <2>1, <5>1
      <4> QED
        BY <4>1, <4>2, <4>3
    <3> QED
      BY <3>1 DEF LastLinesStay
  <2> QED
    BY <1>9, <1>D, <1>Q, <2>1, <2>3, <2>5, <2>6
<1>14. CASE WriteFails(r)
  <2>1. /\ logged' = logged + 1
        /\ pruner' = [pruner EXCEPT ![r] = Pruner("cut")]
        /\ UNCHANGED storedDirs
    BY <1>14 DEF WriteFails
  <2>2. CASE Append1
    BY <1>9, <1>D, <1>L, <1>Q, <2>1, <2>2
  <2>3. CASE logFile' = {logged + 1} /\ lostLines' = lostLines \cup 1 .. logged
    <3>1. logged' \in Nat /\ logged <= logged' /\ lostLines \subseteq lostLines'
      BY <1>0, <2>1, <2>3
    <3>2. 1 .. logged \subseteq 1 .. logged' /\ logged + 1 \in 1 .. logged'
      BY <1>0, <2>1
    <3>3. logFile' \subseteq 1 .. logged' /\ lostLines' \subseteq 1 .. logged'
      BY <1>0, <2>3, <3>2
    <3>4. ASSUME NEW n \in 1 .. logged'
          PROVE  n \in logFile' \/ n \in lostLines'
      <4>1. n = logged + 1 \/ n \in 1 .. logged
        BY <1>0, <2>1, <3>4
      <4> QED
        BY <2>3, <4>1
    <3>5. LastLinesStay'
      BY <3>4 DEF LastLinesStay
    <3> QED
      BY <1>9, <1>D, <1>Q, <2>1, <3>1, <3>3, <3>5
  <2> QED
    BY <1>14, <2>1, <2>2, <2>3 DEF WriteFails, Append1
<1> QED
  BY <1>1, <1>2, <1>3, <1>4, <1>6, <1>7, <1>8,
     <1>10, <1>11, <1>12, <1>13, <1>14

\* Anything that logs an event keeps them.
LEMMA LogEventInv ==
  ASSUME RetentionTypeOK, PruneInv, TailInv, LastLinesStay, LogEvent
  PROVE  RetentionTypeOK' /\ PruneInv' /\ TailInv' /\ LastLinesStay'
<1>1. /\ logged' = logged + 1 /\ logged \in Nat /\ logged' \in Nat
      /\ logFile' \subseteq 1 .. logged' /\ lostLines' \subseteq 1 .. logged'
      /\ LastLinesStay' /\ lostLines' = lostLines
      /\ UNCHANGED <<everMade, deleted, ownLost, pruner>>
  BY AppendedFacts DEF LogEvent, RetentionTypeOK, Append1, storedDirs
<1>2. 1 .. logged \subseteq 1 .. logged' /\ 0 .. logged \subseteq 0 .. logged'
  BY <1>1
<1>3. SUBSET (1 .. logged) \subseteq SUBSET (1 .. logged')
  BY <1>2
<1>4. PrunerType(logged) \subseteq PrunerType(logged')
  BY <1>2, <1>3 DEF PrunerType
<1>5. pruner \in [Runs -> PrunerType(logged)]
  BY DEF RetentionTypeOK, PrunerType
<1>6. pruner' \in [Runs -> PrunerType(logged')]
  BY <1>1, <1>4, <1>5
<1>7. RetentionTypeOK'
  BY <1>1, <1>6 DEF RetentionTypeOK, PrunerType
<1>8. PruneInv'
  BY <1>1 DEF PruneInv, Outdated
<1>9. ASSUME NEW r \in Runs, pruner[r].at = "read",
             NEW n \in 1 .. pruner[r].readAt, n > logged' - MaxLines
      PROVE  n \in pruner[r].tail \/ n \in lostLines
  <2>1. pruner[r].readAt \in 0 .. logged
    BY <1>5 DEF PrunerType
  <2>2. n \in Int /\ MaxLines \in Int
    BY <1>9, <2>1, RetentionAssumption
  <2>3. n > logged - MaxLines
    BY <1>1, <1>9, <2>2
  <2> QED
    BY <1>9, <2>3 DEF TailInv
<1>10. TailInv'
  BY <1>1, <1>9 DEF TailInv
<1> QED
  BY <1>1, <1>7, <1>8, <1>10

\* A pause keeps them.
LEMMA RetentionPauses ==
  ASSUME RetentionTypeOK, PruneInv, TailInv, LastLinesStay,
         UNCHANGED retentionVars
  PROVE  RetentionTypeOK' /\ PruneInv' /\ TailInv' /\ LastLinesStay'
<1>1. UNCHANGED <<everMade, deleted, ownLost, logged, logFile, lostLines, pruner>>
  BY DEF retentionVars, storedDirs, storedLines
<1>2. RetentionTypeOK'
  BY <1>1 DEF RetentionTypeOK
<1>3. PruneInv'
  BY <1>1 DEF PruneInv, Outdated
<1>4. TailInv' /\ LastLinesStay'
  BY <1>1 DEF TailInv, LastLinesStay
<1> QED
  BY <1>2, <1>3, <1>4

\* Types and what the pruning keeps, for any number of runs, stamps and lines.
THEOREM RetentionTypes ==
  RetentionSpec => [](RetentionTypeOK /\ PruneInv /\ TailInv /\ LastLinesStay)
<1>1. RetentionInit => RetentionTypeOK /\ PruneInv /\ TailInv /\ LastLinesStay
  <2> SUFFICES ASSUME RetentionInit
               PROVE  RetentionTypeOK /\ PruneInv /\ TailInv /\ LastLinesStay
    OBVIOUS
  <2>1. /\ logged = 0 /\ Pruner("out") \in PrunerType(logged)
        /\ pruner = [r \in Runs |-> Pruner("out")]
        /\ Pruner("out").at = "out" /\ Pruner("out").plan = {}
    BY PrunerTyped DEF RetentionInit, Pruner
  <2>2. pruner \in [Runs -> PrunerType(logged)]
    BY <2>1
  <2>3. RetentionTypeOK
    <3>1. /\ logged \in Nat /\ everMade = {} /\ deleted = {}
          /\ ownLost = FALSE /\ logFile = {} /\ lostLines = {}
      BY <2>1 DEF RetentionInit
    <3> QED
      BY <2>2, <3>1 DEF RetentionTypeOK, PrunerType
  <2>4. PruneInv
    BY <2>1, FS_EmptySet DEF RetentionInit, PruneInv
  <2>5. TailInv /\ LastLinesStay
    BY <2>1 DEF TailInv, LastLinesStay
  <2> QED
    BY <2>3, <2>4, <2>5
<1>2. RetentionTypeOK /\ PruneInv /\ TailInv /\ LastLinesStay /\ RetentionNext
        => RetentionTypeOK' /\ PruneInv' /\ TailInv' /\ LastLinesStay'
  BY RunNextInv, LogEventInv DEF RetentionNext
<1> QED
  BY <1>1, <1>2, RetentionPauses, PTL DEF RetentionSpec

\* Whoever prunes, the newest of a kind stay, and nobody deletes its own.
THEOREM NewestStaySafe == RetentionSpec => []NewestStay
<1>1. RetentionTypeOK /\ PruneInv => NewestStay
  <2> SUFFICES ASSUME RetentionTypeOK, PruneInv, NEW d \in everMade,
                      \A k \in KeepCounts :
                        Cardinality(NewerIn(everMade, d)) < k
               PROVE  d \in Present
    BY DEF NewestStay, PruneInv
  <2>1. NewerIn(everMade, d) \subseteq everMade /\ IsFiniteSet(everMade)
    BY DEF NewerIn, PruneInv
  <2>2. Cardinality(NewerIn(everMade, d)) \in Nat
    BY <2>1, FS_Subset, FS_CardinalityType
  <2>3. ~Outdated(d)
    BY <2>2, RetentionAssumption DEF Outdated
  <2> QED
    BY <2>3 DEF PruneInv, Present
<1> QED
  BY RetentionTypes, <1>1, PTL

\* Whoever cuts the log short, its last lines stay, but for those that were
\* appended between the read and the write of a prune, and for all of them if
\* the write fails once it has emptied the file.
THEOREM LastLinesStaySafe == RetentionSpec => []LastLinesStay
BY RetentionTypes, PTL

\* A prune keeps what it promises to keep, for any number of runs: the newest of
\* each kind, a run's own directories, and the last lines with the exceptions
\* of LastLinesStay.
THEOREM PruneKeepsSafe == RetentionSpec => []PruneKeeps
BY NewestStaySafe, LastLinesStaySafe, PTL DEF PruneKeeps
=============================================================================
