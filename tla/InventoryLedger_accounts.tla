----------------------- MODULE InventoryLedger_accounts -----------------------
(***************************************************************************)
(* The accounts of InventoryLedger agree: movements with requests, batches *)
(* with movements, qty_stored with batches, for any number of items,       *)
(* workers, batches and requests.                                          *)
(***************************************************************************)
EXTENDS InventoryLedger_proofs

(***************************************************************************)
(* Sums over the batches of an item.  The map m of batches to items is a   *)
(* parameter, so that the facts hold of sums before and after a step.      *)
(***************************************************************************)
ItemSum(m, f, i) ==
  SumTo([b \in Batch |-> IF m[b] = i THEN f[b] ELSE 0], MaxBatches)

LEMMA ItemSumInt ==
  ASSUME NEW m, NEW f \in [Batch -> Int], NEW i
  PROVE  ItemSum(m, f, i) \in Int
<1> DEFINE g == [b \in Batch |-> IF m[b] = i THEN f[b] ELSE 0]
<1>1. \A b \in 1 .. MaxBatches : g[b] \in Int
  BY DEF Batch
<1> HIDE DEF g
<1>2. SumTo(g, MaxBatches) \in Int
  <2>1. MaxBatches \in 0 .. MaxBatches
    BY BatchFacts
  <2>2. QED
    BY <1>1, <2>1, BatchFacts, SumInt
<1>3. QED
  BY <1>2 DEF ItemSum, g

LEMMA ItemSumNat ==
  ASSUME NEW m, NEW f \in [Batch -> Int], NEW i,
         \A b \in Batch : m[b] = i => 0 <= f[b]
  PROVE  ItemSum(m, f, i) \in Nat
<1> DEFINE g == [b \in Batch |-> IF m[b] = i THEN f[b] ELSE 0]
<1>1. \A b \in 1 .. MaxBatches : g[b] \in Nat
  BY DEF Batch
<1> HIDE DEF g
<1>2. SumTo(g, MaxBatches) \in Nat
  <2>1. MaxBatches \in 0 .. MaxBatches
    BY BatchFacts
  <2>2. QED
    BY <1>1, <2>1, BatchFacts, SumNat
<1>3. QED
  BY <1>2 DEF ItemSum, g

LEMMA ItemSumSame ==
  ASSUME NEW m, NEW n, NEW f, NEW g, NEW i,
         \A b \in Batch : (IF m[b] = i THEN f[b] ELSE 0)
                            = (IF n[b] = i THEN g[b] ELSE 0)
  PROVE  ItemSum(m, f, i) = ItemSum(n, g, i)
<1>1. [b \in Batch |-> IF m[b] = i THEN f[b] ELSE 0]
        = [b \in Batch |-> IF n[b] = i THEN g[b] ELSE 0]
  OBVIOUS
<1>2. QED
  BY <1>1 DEF ItemSum

LEMMA ItemSumMinus ==
  ASSUME NEW m, NEW f \in [Batch -> Int], NEW g \in [Batch -> Int], NEW h, NEW i,
         \A b \in Batch : m[b] = i => h[b] = f[b] - g[b]
  PROVE  ItemSum(m, h, i) = ItemSum(m, f, i) - ItemSum(m, g, i)
<1> DEFINE F == [b \in Batch |-> IF m[b] = i THEN f[b] ELSE 0]
           G == [b \in Batch |-> IF m[b] = i THEN g[b] ELSE 0]
           H == [b \in Batch |-> IF m[b] = i THEN h[b] ELSE 0]
<1>1. \A b \in 1 .. MaxBatches :
         F[b] \in Int /\ G[b] \in Int /\ H[b] = F[b] - G[b]
  BY DEF Batch
<1> HIDE DEF F, G, H
<1>2. SumTo(H, MaxBatches) = SumTo(F, MaxBatches) - SumTo(G, MaxBatches)
  BY <1>1, BatchFacts, SumMinus
<1>3. QED
  BY <1>2 DEF ItemSum, F, G, H

LEMMA ItemSumZero ==
  ASSUME NEW m, NEW f \in [Batch -> Int], NEW i,
         \A b \in Batch : m[b] = i => f[b] = 0
  PROVE  ItemSum(m, f, i) = 0
<1>1. \A b \in Batch : m[b] = i => f[b] = f[b] - f[b]
  OBVIOUS
<1>2. ItemSum(m, f, i) = ItemSum(m, f, i) - ItemSum(m, f, i)
  BY <1>1, ItemSumMinus
<1>3. ItemSum(m, f, i) \in Int
  BY ItemSumInt
<1>4. QED
  BY <1>2, <1>3

\* A new batch n of item j, which held nothing before.
LEMMA ItemSumNew ==
  ASSUME NEW m, NEW f \in [Batch -> Int], NEW n \in Batch, m[n] = NoItem,
         NEW j \in Items, NEW q \in Int, NEW i \in Items,
         NEW m2, NEW f2, m2[n] = j, f2[n] = q,
         \A b \in Batch : b # n => m2[b] = m[b] /\ f2[b] = f[b]
  PROVE  ItemSum(m2, f2, i) = ItemSum(m, f, i) + (IF i = j THEN q ELSE 0)
<1> DEFINE F == [b \in Batch |-> IF m[b] = i THEN f[b] ELSE 0]
           G == [b \in Batch |-> IF m2[b] = i THEN f2[b] ELSE 0]
<1>2. \A b \in Batch : f2[b] \in Int
  OBVIOUS
<1>3. NoItem # i
  BY BoundsAssumption
<1>4. \A b \in Batch : /\ F[b] \in Int /\ G[b] \in Int
                       /\ b # n => G[b] = F[b]
  BY <1>2
<1>5. F[n] = 0 /\ G[n] = IF i = j THEN q ELSE 0
  BY <1>3
<1> HIDE DEF F, G
<1>6. SumTo(G, MaxBatches) = SumTo(F, MaxBatches) + (G[n] - F[n])
  <2>1. /\ n \in 1 .. MaxBatches
        /\ \A a \in 1 .. MaxBatches : F[a] \in Int /\ G[a] \in Int
        /\ \A a \in 1 .. MaxBatches : a # n => G[a] = F[a]
    BY <1>4, BatchFacts
  <2>2. MaxBatches \in Nat
    BY BatchFacts
  <2>3. QED
    BY <2>1, <2>2, SumChange, Zenon
<1>7. G[n] - F[n] = IF i = j THEN q ELSE 0
  BY <1>5
<1>8. QED
  BY <1>6, <1>7 DEF ItemSum, F, G

\* A sum of quantities is at least each of them.
LEMMA ItemSumPositive ==
  ASSUME NEW m, NEW f \in [Batch -> Int], NEW i, NEW n \in Batch,
         \A b \in Batch : 0 <= f[b], m[n] = i, f[n] > 0
  PROVE  ItemSum(m, f, i) > 0
<1> DEFINE F == [b \in Batch |-> IF m[b] = i THEN f[b] ELSE 0]
           G == [b \in Batch |-> IF b = n THEN 0 ELSE F[b]]
<1>1. \A b \in 1 .. MaxBatches : F[b] \in Nat
  BY BatchFacts
<1>2. F[n] = f[n]
  OBVIOUS
<1> HIDE DEF F
<1>3. /\ \A b \in 1 .. MaxBatches : F[b] \in Int /\ G[b] \in Int
      /\ \A b \in 1 .. MaxBatches : b # n => G[b] = F[b]
      /\ \A b \in 1 .. MaxBatches : G[b] \in Nat
      /\ G[n] = 0
  BY <1>1, BatchFacts
<1> HIDE DEF G
<1>4. SumTo(G, MaxBatches) = SumTo(F, MaxBatches) + (G[n] - F[n])
  <2>1. n \in 1 .. MaxBatches
    BY BatchFacts
  <2>2. MaxBatches \in Nat
    BY BatchFacts
  <2>3. /\ \A b \in 1 .. MaxBatches : F[b] \in Int /\ G[b] \in Int
        /\ \A b \in 1 .. MaxBatches : b # n => G[b] = F[b]
    BY <1>3
  <2>4. QED
    BY <2>1, <2>2, <2>3, SumChange, Zenon
<1>5. SumTo(G, MaxBatches) \in Nat /\ SumTo(F, MaxBatches) \in Nat
  <2>1. MaxBatches \in 0 .. MaxBatches
    BY BatchFacts
  <2>2. QED
    BY <1>1, <1>3, <2>1, BatchFacts, SumNat
<1>6. f[n] \in Int /\ SumTo(F, MaxBatches) > 0
  BY <1>2, <1>3, <1>4, <1>5
<1>7. QED
  BY <1>6 DEF ItemSum, F

LEMMA SumsAreItemSums ==
  /\ \A f, i : SumOf(f, i) = ItemSum(itemOf, f, i)
  /\ \A i : SumOf(moved, i)' = ItemSum(itemOf', moved', i)
  /\ \A i : OnHand(i) = ItemSum(itemOf, remaining, i)
  /\ \A i : OnHand(i)' = ItemSum(itemOf', remaining', i)
  /\ \A w, i : SumOf(taken[w], i)' = ItemSum(itemOf', taken'[w], i)
BY DEF OnHand, SumOf, OfItem, ItemSum

(***************************************************************************)
(* A step of worker w leaves the other sessions alone, and w comes to its  *)
(* commit by way of its reads.                                             *)
(***************************************************************************)
LEMMA StepSessions ==
  ASSUME TypeOK, NEW w \in Workers, NewRequest(w) \/ Continue(w)
  PROVE  /\ Others(w)
         /\ \A v \in Workers : v # w => base'[v] = base[v]
         /\ pc'[w] \in {"item", "commit"} => ReadBatches(w) \/ ReadItem(w)
<1> DEFINE Goal == /\ Others(w)
                   /\ \A v \in Workers : v # w => base'[v] = base[v]
                   /\ pc'[w] \in {"item", "commit"}
                        => ReadBatches(w) \/ ReadItem(w)
<1>t. /\ pc \in [Workers -> PCs] /\ op \in [Workers -> Operation]
      /\ seen \in [Workers -> [Batch -> Int]]
      /\ taken \in [Workers -> [Batch -> Int]]
      /\ base \in [Workers -> Int]
  BY DEF TypeOK, SessionType
<1>e. ASSUME EndSession(w) \/ ToJournal(w) PROVE Goal
  <2>1. \A v \in Workers : v # w => base'[v] = base[v]
    BY <1>t, <1>e DEF EndSession, ToJournal
  <2>2. Others(w) /\ pc'[w] \in {"idle", "journal"}
    BY <1>e, EndedSession DEF TypeOK
  <2>3. QED
    BY <2>1, <2>2
<1>1. ASSUME NEW i \in Items, NEW q \in Qtys, NEW kind \in Kinds,
             Purchase(w, kind, i, q) PROVE Goal
  BY <1>e, <1>1 DEF Purchase
<1>2. ASSUME NEW i \in Items, NEW q \in Qtys, NEW kind \in Kinds,
             SumStock(w, kind, i, q) PROVE Goal
  <2>1. /\ pc' = pc \/ pc' = [pc EXCEPT ![w] = "batches"]
        /\ op' = op \/ op' = [op EXCEPT ![w] = Body(kind, i, q)]
        /\ pc[w] = "idle" /\ UNCHANGED <<seen, taken, base>>
    BY <1>2 DEF SumStock, Arrive
  <2>2. QED
    BY <1>t, <2>1 DEF Others
<1>3. ASSUME NEW i \in Items, NEW q \in Qtys, StockInRead(w, i, q) PROVE Goal
  BY <1>t, <1>3 DEF StockInRead, Others
<1>4. ASSUME NEW i \in Items, NEW q \in Qtys, ItemPutRead(w, i, q) PROVE Goal
  BY <1>t, <1>4 DEF ItemPutRead, Others
<1>5. ASSUME NEW i \in Items, NEW to \in Items, NEW q \in Qtys,
             InventoryRun(w, i, to, q) PROVE Goal
  BY <1>e, <1>5 DEF InventoryRun
<1>6. ASSUME NEW run \in Runs, ValidateRun(w, run) PROVE Goal
  BY <1>t, <1>6 DEF ValidateRun, Others
<1>7. CASE \/ StockInCommit(w) \/ IssueCommit(w) \/ RunCommit(w)
           \/ RecordFailedRun(w) \/ ItemPutCommit(w) \/ AppendJournal(w)
           \/ Busy(w)
  <2>1. EndSession(w) \/ ToJournal(w)
    BY <1>7 DEF StockInCommit, IssueCommit, RunCommit, RecordFailedRun,
                ItemPutCommit, AppendJournal, Busy
  <2>2. QED
    BY <1>e, <2>1
<1>8. CASE ReadBatches(w)
  <2>1. CASE EndSession(w)
    BY <1>e, <2>1
  <2>2. CASE UNCHANGED <<op, base>>
    <3> DEFINE f == OfItem(remaining, op[w].item)
               g == FifoTake(f, op[w].qty, MaxBatches)
    <3>1. \/ EndSession(w)
          \/ /\ pc' = [pc EXCEPT ![w] = "item"]
             /\ seen' = [seen EXCEPT ![w] = f]
             /\ taken' = [taken EXCEPT ![w] = g]
      BY <1>8 DEF ReadBatches
    <3> HIDE DEF f, g
    <3>2. QED
      BY <1>t, <1>e, <1>8, <2>2, <3>1 DEF Others
  <2>3. QED
    BY <1>8, <2>1, <2>2 DEF ReadBatches
<1>9. CASE ReadItem(w)
  BY <1>t, <1>9 DEF ReadItem, Others
<1>10. CASE BeginRun(w)
  BY <1>t, <1>10 DEF BeginRun, Others
<1>11. CASE AllocateLine(w)
  <2>1. /\ pc[w] = "alloc" /\ UNCHANGED <<op, base>>
        /\ pc' = pc \/ pc' = [pc EXCEPT ![w] = "record"]
        /\ seen' = seen \/ seen' = [seen EXCEPT ![w] = Zero]
        /\ taken' = taken \/ \E x : taken' = [taken EXCEPT ![w] = x]
    BY <1>11 DEF AllocateLine
  <2>2. QED
    BY <1>t, <2>1 DEF Others
<1>12. QED
  BY <1>1, <1>2, <1>3, <1>4, <1>5, <1>6, <1>7, <1>8, <1>9, <1>10, <1>11
     DEF NewRequest, Continue

(***************************************************************************)
(* What a session is about to write as an issue.                           *)
(***************************************************************************)
LEMMA LoadedSum ==
  ASSUME NEW m, NEW g \in [Batch -> Int], NEW i,
         \A b \in Batch : g[b] # 0 => m[b] = i
  PROVE  ItemSum(m, g, i) = SumTo(g, MaxBatches)
<1>1. [b \in Batch |-> IF m[b] = i THEN g[b] ELSE 0] = g
  OBVIOUS
<1>2. QED
  BY <1>1 DEF ItemSum

\* A walk that is not short takes the whole request, oldest batches first.
LEMMA WholeWalk ==
  ASSUME NEW f \in [Batch -> Nat], NEW q \in Nat, ~Short(f, q)
  PROVE  /\ SumTo(FifoTake(f, q, MaxBatches), MaxBatches) = q
         /\ \A a, b \in Batch :
               a < b /\ FifoTake(f, q, MaxBatches)[b] > 0
                 => FifoTake(f, q, MaxBatches)[a] = f[a]
<1>1. /\ \A b \in 1 .. MaxBatches : f[b] \in Nat
      /\ MaxBatches \in Nat /\ MaxBatches \in 0 .. MaxBatches
  BY BatchFacts
<1>2. LeftAfter(f, q, MaxBatches) \in Nat
  BY <1>1, LeftNat
<1>3. LeftAfter(f, q, MaxBatches) = 0
  BY <1>2 DEF Short
<1>4. SumTo(FifoTake(f, q, MaxBatches), MaxBatches)
        = q - LeftAfter(f, q, MaxBatches)
  BY <1>1, TakeTotal
<1>5. \A a, b \in 1 .. MaxBatches :
         a < b /\ FifoTake(f, q, MaxBatches)[b] > 0
           => FifoTake(f, q, MaxBatches)[a] = f[a]
  BY <1>1, TakeOldestFirst
<1>6. QED
  BY <1>3, <1>4, <1>5, BatchFacts

\* IssueIsFifo of one worker.
Issuing(w) ==
  /\ SumOf(taken[w], op[w].item) = op[w].qty
  /\ \A b \in Batch : taken[w][b] \in 0 .. seen[w][b]
  /\ \A a, b \in Batch : a < b /\ taken[w][b] > 0 => taken[w][a] = seen[w][a]

LEMMA IssueReadBatches ==
  ASSUME TypeOK, BoundsInv, NEW w \in Workers, ReadBatches(w),
         pc'[w] \in {"item", "commit"}
  PROVE  Issuing(w)'
<1> DEFINE f == OfItem(remaining, op[w].item)
           g == FifoTake(f, op[w].qty, MaxBatches)
<1>t. /\ SessionType /\ DbType /\ BatchBounds /\ op[w].qty \in Nat
  <2>1. op[w] \in Operation
    BY DEF TypeOK, SessionType
  <2>2. QED
    BY <2>1 DEF TypeOK, Operation, BoundsInv
<1>1. /\ ~Short(f, op[w].qty)
      /\ op' = op /\ seen'[w] = f /\ taken'[w] = g /\ itemOf' = itemOf
  <2>1. CASE Short(f, op[w].qty)
    BY <1>t, <2>1, EndSessionPc DEF ReadBatches
  <2>2. CASE ~Short(f, op[w].qty)
    BY <1>t, <2>2 DEF ReadBatches, SessionType, db
  <2>3. QED
    BY <2>1, <2>2
<1>2. /\ f \in [Batch -> Nat] /\ g \in [Batch -> Nat]
      /\ \A b \in Batch : /\ 0 <= g[b] /\ g[b] <= f[b]
                          /\ g[b] > 0 => itemOf[b] = op[w].item
  BY <1>t, WalkOfItem
<1> HIDE DEF f
<1>3. /\ SumTo(g, MaxBatches) = op[w].qty
      /\ \A a, b \in Batch : a < b /\ g[b] > 0 => g[a] = f[a]
  BY <1>t, <1>1, <1>2, WholeWalk
<1> HIDE DEF g
<1>4. \A b \in Batch : g[b] # 0 => itemOf[b] = op[w].item
  BY <1>2
<1>5. ItemSum(itemOf, g, op[w].item) = op[w].qty
  <2>1. g \in [Batch -> Int]
    BY <1>2
  <2>2. QED
    BY <1>3, <1>4, <2>1, LoadedSum
<1>6. SumOf(taken[w], op[w].item)' = op[w].qty
  BY <1>1, <1>5 DEF SumOf, OfItem, ItemSum
<1>7. \A b \in Batch : g[b] \in 0 .. f[b]
  BY <1>2
<1>8. QED
  BY <1>1, <1>3, <1>6, <1>7 DEF Issuing

LEMMA IssueStep ==
  TypeOK /\ LockInv /\ BoundsInv /\ IssueIsFifo /\ [Next]_vars => IssueIsFifo'
<1> SUFFICES ASSUME TypeOK, LockInv, BoundsInv, IssueIsFifo, [Next]_vars
             PROVE  IssueIsFifo'
  OBVIOUS
<1>b. BoundsInv'
  BY BoundsStep
\* A session that is kept as it is goes on being an issue.
<1>k. ASSUME NEW v \in Workers, pc[v] \in {"item", "commit"},
             pc'[v] \in {"item", "commit"}, op'[v] = op[v],
             seen'[v] = seen[v], taken'[v] = taken[v]
      PROVE  Issuing(v)'
  <2>1. Loaded(v) /\ Loaded(v)' /\ Issuing(v)
    BY <1>k, <1>b DEF BoundsInv, LoadInv, IssueIsFifo, Issuing
  <2>2. taken[v] \in [Batch -> Int] /\ seen[v] \in [Batch -> Int]
    BY DEF TypeOK, SessionType
  <2>3. \A b \in Batch :
           (IF itemOf'[b] = op[v].item THEN taken[v][b] ELSE 0)
             = (IF itemOf[b] = op[v].item THEN taken[v][b] ELSE 0)
    <3>1. ASSUME NEW b \in Batch, taken[v][b] # 0
          PROVE  itemOf[b] = op[v].item /\ itemOf'[b] = op[v].item
      BY <1>k, <2>1, <2>2, <3>1 DEF Loaded
    <3>2. QED
      BY <3>1
  <2>4. ItemSum(itemOf', taken[v], op[v].item)
          = ItemSum(itemOf, taken[v], op[v].item)
    BY <2>3, ItemSumSame
  <2>5. SumOf(taken[v], op[v].item)' = SumOf(taken[v], op[v].item)
    BY <1>k, <2>4 DEF SumOf, OfItem, ItemSum
  <2>6. QED
    BY <1>k, <2>1, <2>5 DEF Issuing
<1>1. ASSUME NEW w \in Workers, NewRequest(w) \/ Continue(w)
      PROVE  IssueIsFifo'
  <2>1. ASSUME NEW v \in Workers, pc'[v] \in {"item", "commit"}
        PROVE  Issuing(v)'
    <3>1. CASE v # w
      BY <1>1, <1>k, <2>1, <3>1, StepSessions DEF Others
    <3>2. CASE v = w /\ ReadBatches(w)
      BY <2>1, <3>2, IssueReadBatches
    <3>3. CASE v = w /\ ReadItem(w)
      <4>1. /\ pc[w] = "item" /\ op'[w] = op[w]
            /\ seen'[w] = seen[w] /\ taken'[w] = taken[w]
        BY <3>3 DEF ReadItem
      <4>2. QED
        BY <1>k, <2>1, <3>3, <4>1
    <3>4. QED
      BY <1>1, <2>1, <3>1, <3>2, <3>3, StepSessions
  <2>2. QED
    BY <2>1 DEF IssueIsFifo, Issuing
<1>2. CASE Crash
  BY <1>2 DEF Crash, IssueIsFifo
<1>3. CASE UNCHANGED vars
  BY <1>3 DEF vars, db, sess, IssueIsFifo, SumOf, OfItem
<1>4. QED
  BY <1>1, <1>2, <1>3 DEF Next

(***************************************************************************)
(* An issue writes the whole request, oldest batches first, or nothing,    *)
(* whatever happened to the stock after its SUM was read.                  *)
(***************************************************************************)
THEOREM IssuesAreFifo == Spec => []IssueIsFifo
<1>1. Init => IssueIsFifo
  BY DEF Init, IssueIsFifo
<1>2. QED
  BY <1>1, IssueStep, TypeCorrect, LockSafe, BoundsSafe, PTL DEF Spec

(***************************************************************************)
(* What the commits do to the sums.                                        *)
(***************************************************************************)
LEMMA NewBatchSums ==
  ASSUME DbType, RowInv, NEW j \in Items, NEW q \in Nat,
         NEW rem \in [Batch -> Int], NEW mov \in [Batch -> Int],
         NewBatch(j, q, rem, mov), NEW i \in Items
  PROVE  /\ ItemSum(itemOf', remaining', i)
              = ItemSum(itemOf, rem, i) + (IF i = j THEN q ELSE 0)
         /\ ItemSum(itemOf', moved', i)
              = ItemSum(itemOf, mov, i) + (IF i = j THEN q ELSE 0)
<1> DEFINE n == nBatches + 1
<1>1. n \in Batch /\ n > nBatches
  BY BatchFacts DEF DbType, NewBatch
<1>2. /\ itemOf' = [itemOf EXCEPT ![n] = j]
      /\ remaining' = [rem EXCEPT ![n] = q]
      /\ moved' = [mov EXCEPT ![n] = q]
  BY DEF NewBatch
<1> HIDE DEF n
<1>3. itemOf[n] = NoItem /\ itemOf \in [Batch -> Items \cup {NoItem}]
  BY <1>1 DEF RowInv, DbType
<1>4. /\ itemOf'[n] = j /\ remaining'[n] = q /\ moved'[n] = q
      /\ \A b \in Batch : b # n => /\ itemOf'[b] = itemOf[b]
                                    /\ remaining'[b] = rem[b]
                                    /\ moved'[b] = mov[b]
  BY <1>1, <1>2, <1>3
<1>5. q \in Int
  OBVIOUS
<1>6. ItemSum(itemOf', remaining', i)
        = ItemSum(itemOf, rem, i) + (IF i = j THEN q ELSE 0)
  BY <1>1, <1>3, <1>4, <1>5, ItemSumNew
<1>7. ItemSum(itemOf', moved', i)
        = ItemSum(itemOf, mov, i) + (IF i = j THEN q ELSE 0)
  BY <1>1, <1>3, <1>4, <1>5, ItemSumNew
<1>8. QED
  BY <1>6, <1>7

\* An issue takes its quantity from its item and nothing from the others.
LEMMA IssueSums ==
  ASSUME TypeOK, BoundsInv, IssueIsFifo, NEW w \in Workers, pc[w] = "commit",
         NEW i \in Items
  PROVE  ItemSum(itemOf, taken[w], i)
           = IF i = op[w].item THEN op[w].qty ELSE 0
<1>t. taken[w] \in [Batch -> Int] /\ Loaded(w)
  BY DEF TypeOK, SessionType, BoundsInv, LoadInv
<1>1. CASE i = op[w].item
  <2>1. SumOf(taken[w], i) = op[w].qty
    BY <1>1 DEF IssueIsFifo
  <2>2. QED
    BY <1>1, <2>1 DEF SumOf, OfItem, ItemSum
<1>2. CASE i # op[w].item
  <2>1. \A b \in Batch : itemOf[b] = i => taken[w][b] = 0
    BY <1>t, <1>2 DEF Loaded
  <2>2. QED
    BY <1>t, <1>2, <2>1, ItemSumZero
<1>3. QED
  BY <1>1, <1>2

\* What is written is the committed value less what was taken, unless the
\* committed value has changed since it was loaded.
LEMMA WrittenIs ==
  ASSUME TypeOK, BoundsInv, FreshInv, NEW w \in Workers,
         pc[w] \in {"commit", "alloc"}, NEW b \in Batch,
         fresh[w] \/ pc[w] = "alloc" \/ itemOf[b] # op[w].item
  PROVE  Written(w)[b] = remaining[b] - taken[w][b]
<1>1. /\ 0 <= taken[w][b] /\ taken[w][b] \in Int /\ remaining[b] \in Int
      /\ Written(w)[b] = IF taken[w][b] > 0 THEN seen[w][b] - taken[w][b]
                                            ELSE remaining[b]
  BY WrittenBounds DEF TypeOK, DbType, SessionType, Written
<1>2. taken[w][b] > 0 => seen[w][b] = remaining[b]
  <2>1. CASE pc[w] = "alloc"
    BY <2>1 DEF BoundsInv, RunInv, Allocating
  <2>2. CASE pc[w] = "commit"
    <3>1. taken[w][b] > 0 => itemOf[b] = op[w].item
      BY <2>2 DEF BoundsInv, LoadInv, Loaded
    <3>2. QED
      BY <2>2, <3>1 DEF FreshInv, Current
  <2>3. QED
    BY <2>1, <2>2
<1>3. QED
  BY <1>1, <1>2

(***************************************************************************)
(* Movements and requests.                                                 *)
(***************************************************************************)
LEMMA MovementsInit == Init => MovementsMatchRequests
BY DEF Init, MovementsMatchRequests

\* A receipt.
LEMMA MovementsReceipt ==
  ASSUME TypeOK, BoundsInv, MovementsMatchRequests,
         NEW j \in Items, NEW q \in Nat, NewBatch(j, q, remaining, moved),
         acked' = [acked EXCEPT ![j] = @ + q]
  PROVE  MovementsMatchRequests'
<1>1. ASSUME NEW i \in Items PROVE SumOf(moved, i)' = acked'[i]
  <2>1. ItemSum(itemOf', moved', i)
          = ItemSum(itemOf, moved, i) + (IF i = j THEN q ELSE 0)
    BY NewBatchSums DEF TypeOK, DbType, BoundsInv
  <2>2. ItemSum(itemOf, moved, i) = acked[i]
    BY SumsAreItemSums DEF MovementsMatchRequests
  <2>3. acked'[i] = acked[i] + (IF i = j THEN q ELSE 0)
    BY DEF TypeOK, HistoryType
  <2>4. QED
    BY <2>1, <2>2, <2>3, SumsAreItemSums
<1>2. QED
  BY <1>1 DEF MovementsMatchRequests

LEMMA MovementsIssue ==
  ASSUME TypeOK, BoundsInv, IssueIsFifo, MovementsMatchRequests,
         NEW w \in Workers, IssueCommit(w)
  PROVE  MovementsMatchRequests'
<1>t. /\ moved \in [Batch -> Int] /\ taken[w] \in [Batch -> Int]
      /\ acked \in [Items -> Int] /\ op[w].item \in Items
      /\ op[w].qty \in Nat
  <2>1. op[w] \in Operation /\ op[w].item \in Items
    BY DEF TypeOK, SessionType, IssueCommit
  <2>2. QED
    BY <2>1 DEF TypeOK, DbType, SessionType, HistoryType, Operation
<1>a. /\ pc[w] = "commit" /\ itemOf' = itemOf
      /\ moved' = [b \in Batch |-> moved[b] - taken[w][b]]
      /\ acked' = [acked EXCEPT ![op[w].item] = @ - op[w].qty]
  BY DEF IssueCommit
<1>1. ASSUME NEW i \in Items PROVE SumOf(moved, i)' = acked'[i]
  <2>1. \A b \in Batch : itemOf[b] = i => moved'[b] = moved[b] - taken[w][b]
    BY <1>a
  <2>2. ItemSum(itemOf, moved', i)
          = ItemSum(itemOf, moved, i) - ItemSum(itemOf, taken[w], i)
    BY <1>t, <2>1, ItemSumMinus
  <2>3. ItemSum(itemOf, taken[w], i) = IF i = op[w].item THEN op[w].qty ELSE 0
    BY <1>a, IssueSums
  <2>4. ItemSum(itemOf, moved, i) = acked[i]
    BY SumsAreItemSums DEF MovementsMatchRequests
  <2>5. acked'[i] = acked[i] - (IF i = op[w].item THEN op[w].qty ELSE 0)
    BY <1>t, <1>a
  <2>6. SumOf(moved, i)' = ItemSum(itemOf, moved', i)
    BY <1>a, SumsAreItemSums
  <2>7. QED
    BY <2>2, <2>3, <2>4, <2>5, <2>6
<1>2. QED
  BY <1>1 DEF MovementsMatchRequests

LEMMA MovementsRun ==
  ASSUME TypeOK, BoundsInv, MovementsMatchRequests,
         NEW w \in Workers, RunCommit(w)
  PROVE  MovementsMatchRequests'
<1> DEFINE mov == [b \in Batch |-> moved[b] - taken[w][b]]
<1>t. /\ moved \in [Batch -> Int] /\ taken[w] \in [Batch -> Int]
      /\ acked \in [Items -> Int] /\ op[w].item \in Items
      /\ op[w].qty \in Nat /\ DbType /\ RowInv
  <2>1. op[w] \in Operation /\ op[w].item \in Items
    BY DEF TypeOK, SessionType, RunCommit
  <2>2. QED
    BY <2>1 DEF TypeOK, DbType, SessionType, HistoryType, Operation, BoundsInv
<1>a. /\ pc[w] = "alloc"
      /\ NewBatch(op[w].item, op[w].qty, Written(w), mov)
      /\ acked' = [i \in Items |-> acked[i] + NetOf(w)[i]]
  BY DEF RunCommit
<1>b. mov \in [Batch -> Int] /\ Written(w) \in [Batch -> Int]
  BY <1>t, <1>a, WrittenBounds
<1>1. ASSUME NEW i \in Items PROVE SumOf(moved, i)' = acked'[i]
  <2>1. \A b \in Batch : itemOf[b] = i => mov[b] = moved[b] - taken[w][b]
    OBVIOUS
  <2> HIDE DEF mov
  <2>2. ItemSum(itemOf, mov, i)
          = ItemSum(itemOf, moved, i) - ItemSum(itemOf, taken[w], i)
    BY <1>t, <2>1, ItemSumMinus
  <2>3. ItemSum(itemOf', moved', i)
          = ItemSum(itemOf, mov, i)
              + (IF i = op[w].item THEN op[w].qty ELSE 0)
    BY <1>t, <1>a, <1>b, NewBatchSums
  <2>4. ItemSum(itemOf, moved, i) = acked[i]
    BY SumsAreItemSums DEF MovementsMatchRequests
  <2>5. acked'[i] = acked[i] + ((IF i = op[w].item THEN op[w].qty ELSE 0)
                                 - ItemSum(itemOf, taken[w], i))
    BY <1>a, SumsAreItemSums DEF NetOf
  <2>6. ItemSum(itemOf, taken[w], i) \in Int /\ acked[i] \in Int
    BY <1>t, ItemSumInt
  <2>7. QED
    BY <1>t, <2>2, <2>3, <2>4, <2>5, <2>6, SumsAreItemSums
<1>2. QED
  BY <1>1 DEF MovementsMatchRequests

LEMMA MovementsStep ==
  TypeOK /\ BoundsInv /\ IssueIsFifo /\ MovementsMatchRequests /\ [Next]_vars
    => MovementsMatchRequests'
<1> SUFFICES ASSUME TypeOK, BoundsInv, IssueIsFifo, MovementsMatchRequests,
                    [Next]_vars
             PROVE  MovementsMatchRequests'
  OBVIOUS
\* The steps that write no movement.
<1>s. ASSUME UNCHANGED <<itemOf, moved, acked>> PROVE MovementsMatchRequests'
  BY <1>s DEF MovementsMatchRequests, SumOf, OfItem
<1>1. ASSUME NEW w \in Workers, NewRequest(w) PROVE MovementsMatchRequests'
  <2>1. ASSUME NEW i \in Items, NEW q \in Qtys, NEW kind \in Kinds,
               Purchase(w, kind, i, q)
        PROVE  MovementsMatchRequests'
    BY <2>1, MovementsReceipt, RequestAssumption DEF Purchase
  <2>2. ASSUME NEW i \in Items, NEW q \in Qtys, NEW kind \in Kinds,
               SumStock(w, kind, i, q)
        PROVE  MovementsMatchRequests'
    BY <1>s, <2>2 DEF SumStock, db
  <2>3. ASSUME NEW i \in Items, NEW q \in Qtys, NEW to \in Items,
               \/ StockInRead(w, i, q) \/ ItemPutRead(w, i, q)
               \/ InventoryRun(w, i, to, q)
        PROVE  MovementsMatchRequests'
    BY <1>s, <2>3 DEF StockInRead, ItemPutRead, InventoryRun, db
  <2>4. ASSUME NEW run \in Runs, ValidateRun(w, run)
        PROVE  MovementsMatchRequests'
    BY <1>s, <2>4 DEF ValidateRun, db
  <2>5. QED
    BY <1>1, <2>1, <2>2, <2>3, <2>4 DEF NewRequest
<1>2. ASSUME NEW w \in Workers, Continue(w) PROVE MovementsMatchRequests'
  <2>1. CASE StockInCommit(w)
    <3>1. op[w] \in Operation /\ op[w].item \in Items
      BY <2>1 DEF TypeOK, SessionType, StockInCommit
    <3>2. op[w].qty \in Nat
      BY <3>1 DEF Operation
    <3>3. QED
      BY <2>1, <3>1, <3>2, MovementsReceipt DEF StockInCommit
  <2>2. CASE ReadBatches(w) \/ ReadItem(w) \/ BeginRun(w) \/ AllocateLine(w)
    BY <1>s, <2>2 DEF ReadBatches, ReadItem, BeginRun, AllocateLine, db
  <2>3. CASE \/ RecordFailedRun(w) \/ ItemPutCommit(w) \/ AppendJournal(w)
             \/ Busy(w)
    BY <1>s, <2>3 DEF RecordFailedRun, ItemPutCommit, AppendJournal, Busy, db
  <2>4. QED
    BY <1>2, <2>1, <2>2, <2>3, MovementsIssue, MovementsRun DEF Continue
<1>3. CASE Crash \/ UNCHANGED vars
  BY <1>s, <1>3 DEF Crash, vars, db
<1>4. QED
  BY <1>1, <1>2, <1>3 DEF Next

(***************************************************************************)
(* The movements of an item always add up to the requests acknowledged.    *)
(***************************************************************************)
THEOREM MovementsSafe == Spec => []MovementsMatchRequests
BY MovementsInit, MovementsStep, TypeCorrect, BoundsSafe, IssuesAreFifo, PTL
   DEF Spec

(***************************************************************************)
(* Sessions no commit has overlapped.                                      *)
(***************************************************************************)
\* A step leaves item j as a session that has read it knows it.
Unharmed(j) ==
  /\ \A b \in Batch : itemOf'[b] = j => /\ itemOf[b] = j
                                        /\ remaining'[b] = remaining[b]
  /\ stored'[j] = stored[j] \/ j \in rewritten'

LEMMA ReceiptUnharmed ==
  ASSUME DbType, NEW i \in Items, NEW q,
         NEW rem \in [Batch -> Int], NEW mov \in [Batch -> Int],
         NewBatch(i, q, rem, mov), NEW j \in Items, j # i,
         \A b \in Batch : itemOf[b] = j => rem[b] = remaining[b],
         stored'[j] = stored[j]
  PROVE  Unharmed(j)
<1> DEFINE n == nBatches + 1
<1>1. n \in Batch
  BY BatchFacts DEF DbType, NewBatch
<1>2. /\ itemOf'[n] = i
      /\ \A b \in Batch : b # n => /\ itemOf'[b] = itemOf[b]
                                   /\ remaining'[b] = rem[b]
  BY <1>1 DEF NewBatch, DbType
<1> HIDE DEF n
<1>3. QED
  BY <1>2 DEF Unharmed

\* An item from which a run takes nothing in sum loses nothing.
LEMMA NothingTaken ==
  ASSUME TypeOK, BoundsInv, NEW w \in Workers, pc[w] = "alloc",
         NEW j \in Items, ~(SumOf(taken[w], j) > 0)
  PROVE  /\ \A b \in Batch : itemOf[b] = j => Written(w)[b] = remaining[b]
         /\ SumOf(taken[w], j) = 0
<1>1. taken[w] \in [Batch -> Int] /\ \A b \in Batch : 0 <= taken[w][b]
  BY WrittenBounds DEF TypeOK, SessionType
<1>2. SumOf(taken[w], j) = ItemSum(itemOf, taken[w], j)
  BY SumsAreItemSums
<1>3. ASSUME NEW b \in Batch, itemOf[b] = j PROVE taken[w][b] = 0
  <2>1. ~(taken[w][b] > 0)
    BY <1>1, <1>2, <1>3, ItemSumPositive
  <2>2. QED
    BY <1>1, <2>1
<1>4. SumOf(taken[w], j) = 0
  BY <1>1, <1>2, <1>3, ItemSumZero
<1>5. \A b \in Batch : itemOf[b] = j => Written(w)[b] = remaining[b]
  BY <1>1, <1>3 DEF Written
<1>6. QED
  BY <1>4, <1>5

LEMMA CommitUnharmed ==
  ASSUME TypeOK, BoundsInv, NEW w \in Workers,
         StockInCommit(w) \/ IssueCommit(w) \/ RunCommit(w),
         NEW v \in Workers, v # w, fresh'[v],
         pc[v] \in {"item", "commit", "insert"}
  PROVE  fresh[v] /\ Unharmed(op[v].item)
<1> DEFINE j == op[v].item
<1>t. /\ DbType /\ j \in Items /\ op[w].item \in Items
      /\ remaining \in [Batch -> Int] /\ moved \in [Batch -> Int]
      /\ stored \in [Items -> Int] /\ taken[w] \in [Batch -> Int]
  BY DEF TypeOK, DbType, SessionType, StockInCommit, IssueCommit, RunCommit
<1>1. CASE StockInCommit(w)
  <2>1. /\ NewBatch(op[w].item, op[w].qty, remaining, moved)
        /\ Touch(w, {op[w].item})
        /\ stored' = [stored EXCEPT ![op[w].item] = base[w] + op[w].qty]
    BY <1>1 DEF StockInCommit
  <2>2. fresh[v] /\ j # op[w].item
    BY <2>1 DEF Touch
  <2>3. stored'[j] = stored[j]
    BY <1>t, <2>1, <2>2
  <2>4. QED
    BY <1>t, <2>1, <2>2, <2>3, ReceiptUnharmed
<1>2. CASE IssueCommit(w)
  <2>1. /\ remaining' = Written(w) /\ UNCHANGED itemOf
        /\ Touch(w, {op[w].item})
        /\ \E x : stored' = [stored EXCEPT ![op[w].item] = x]
        /\ pc[w] = "commit"
    BY <1>2 DEF IssueCommit
  <2>2. fresh[v] /\ j # op[w].item
    BY <2>1 DEF Touch
  <2>3. stored'[j] = stored[j]
    BY <1>t, <2>1, <2>2
  <2>4. \A b \in Batch : itemOf[b] = j => ~(taken[w][b] > 0)
    BY <2>1, <2>2 DEF BoundsInv, LoadInv, Loaded
  <2>5. \A b \in Batch : itemOf[b] = j => remaining'[b] = remaining[b]
    BY <2>1, <2>4 DEF Written
  <2>6. QED
    BY <2>1, <2>2, <2>3, <2>5 DEF Unharmed
<1>3. CASE RunCommit(w)
  <2> DEFINE mov == [b \in Batch |-> moved[b] - taken[w][b]]
             S == {i \in Items : i = op[w].item \/ SumOf(taken[w], i) > 0}
  <2>1. /\ NewBatch(op[w].item, op[w].qty, Written(w), mov)
        /\ Touch(w, S)
        /\ stored' = [i \in Items |-> stored[i] + NetOf(w)[i]]
        /\ pc[w] = "alloc"
    BY <1>3 DEF RunCommit
  <2>2. fresh[v] /\ j \notin S
    BY <2>1 DEF Touch
  <2>3. j # op[w].item /\ ~(SumOf(taken[w], j) > 0)
    BY <1>t, <2>2
  <2>4. /\ \A b \in Batch : itemOf[b] = j => Written(w)[b] = remaining[b]
        /\ SumOf(taken[w], j) = 0
    BY <1>t, <2>1, <2>3, NothingTaken
  <2>5. stored'[j] = stored[j]
    BY <1>t, <2>1, <2>3, <2>4 DEF NetOf
  <2>6. mov \in [Batch -> Int] /\ Written(w) \in [Batch -> Int]
    BY <1>t, <2>1, WrittenBounds
  <2> HIDE DEF mov, S
  <2>7. QED
    BY <1>t, <2>1, <2>2, <2>3, <2>4, <2>5, <2>6, ReceiptUnharmed
<1>4. QED
  BY <1>1, <1>2, <1>3

LEMMA StepUnharmed ==
  ASSUME TypeOK, BoundsInv, NEW w \in Workers, NewRequest(w) \/ Continue(w),
         NEW v \in Workers, v # w, fresh'[v],
         pc[v] \in {"item", "commit", "insert"}
  PROVE  fresh[v] /\ Unharmed(op[v].item)
<1> DEFINE j == op[v].item
           Goal == fresh[v] /\ Unharmed(j)
<1>t. /\ DbType /\ HistoryType /\ j \in Items
      /\ remaining \in [Batch -> Int] /\ moved \in [Batch -> Int]
      /\ stored \in [Items -> Int] /\ fresh \in [Workers -> BOOLEAN]
  BY DEF TypeOK, DbType, SessionType, HistoryType
<1> HIDE DEF j
<1>s. ASSUME UNCHANGED <<itemOf, remaining, stored>>,
             \/ UNCHANGED fresh
             \/ fresh' = [fresh EXCEPT ![w] = TRUE]
      PROVE  Goal
  BY <1>t, <1>s DEF Unharmed
<1>1. ASSUME NEW i \in Items, NEW q \in Qtys, NEW kind \in Kinds,
             Purchase(w, kind, i, q)
      PROVE  Goal
  <2>1. /\ NewBatch(i, q, remaining, moved) /\ Touch(w, {i})
        /\ stored' = [stored EXCEPT ![i] = @ + q]
    BY <1>1 DEF Purchase
  <2>2. fresh[v] /\ j # i
    BY <2>1 DEF Touch, j
  <2>3. stored'[j] = stored[j]
    BY <1>t, <2>1, <2>2
  <2>4. QED
    BY <1>t, <2>1, <2>2, <2>3, ReceiptUnharmed
<1>2. ASSUME NEW i \in Items, NEW q \in Qtys, NEW kind \in Kinds,
             SumStock(w, kind, i, q)
      PROVE  Goal
  BY <1>s, <1>2 DEF SumStock, db
<1>3. ASSUME NEW i \in Items, NEW q \in Qtys, StockInRead(w, i, q)
      PROVE  Goal
  BY <1>s, <1>3 DEF StockInRead, db
<1>4. ASSUME NEW i \in Items, NEW q \in Qtys, ItemPutRead(w, i, q)
      PROVE  Goal
  BY <1>s, <1>4 DEF ItemPutRead, db
<1>5. ASSUME NEW i \in Items, NEW to \in Items, NEW q \in Qtys,
             InventoryRun(w, i, to, q)
      PROVE  Goal
  <2>1. /\ UNCHANGED <<itemOf, remaining, fresh>>
        /\ stored' = [k \in Items |-> stored[k] + (IF k = to THEN q ELSE 0)
                                                - (IF k = i THEN q ELSE 0)]
        /\ rewritten' = rewritten \cup {i, to}
    BY <1>5 DEF InventoryRun
  <2>2. j \notin rewritten' => stored'[j] = stored[j]
    BY <1>t, <2>1
  <2>3. QED
    BY <2>1, <2>2 DEF Unharmed
<1>6. ASSUME NEW run \in Runs, ValidateRun(w, run) PROVE Goal
  BY <1>s, <1>6 DEF ValidateRun, db
<1>7. CASE StockInCommit(w) \/ IssueCommit(w) \/ RunCommit(w)
  BY <1>7, CommitUnharmed DEF j
<1>8. ASSUME ReadBatches(w) \/ ReadItem(w) \/ BeginRun(w) \/ AllocateLine(w)
      PROVE  Goal
  <2>1. CASE ReadBatches(w)
    <3>1. /\ UNCHANGED <<itemOf, remaining, stored>>
          /\ UNCHANGED fresh \/ fresh' = [fresh EXCEPT ![w] = TRUE]
      BY <2>1 DEF ReadBatches, db
    <3>2. QED
      BY <1>s, <3>1
  <2>2. CASE ReadItem(w) \/ BeginRun(w) \/ AllocateLine(w)
    <3>1. UNCHANGED <<itemOf, remaining, stored, fresh>>
      BY <2>2 DEF ReadItem, BeginRun, AllocateLine, db
    <3>2. QED
      BY <1>s, <3>1
  <2>3. QED
    BY <1>8, <2>1, <2>2
<1>9. ASSUME RecordFailedRun(w) \/ AppendJournal(w) \/ Busy(w) PROVE Goal
  <2>1. UNCHANGED <<itemOf, remaining, stored, fresh>>
    BY <1>9 DEF RecordFailedRun, AppendJournal, Busy, db
  <2>2. QED
    BY <1>s, <2>1
<1>10. ASSUME ItemPutCommit(w) PROVE Goal
  <2>1. /\ UNCHANGED <<itemOf, remaining, fresh>>
        /\ \/ UNCHANGED <<stored, rewritten>>
           \/ /\ stored' = [stored EXCEPT ![op[w].item] = op[w].qty]
              /\ rewritten' = rewritten \cup {op[w].item}
    BY <1>10 DEF ItemPutCommit
  <2>2. j \notin rewritten' => stored'[j] = stored[j]
    <3>1. CASE UNCHANGED <<stored, rewritten>>
      BY <3>1
    <3>2. CASE /\ stored' = [stored EXCEPT ![op[w].item] = op[w].qty]
               /\ rewritten' = rewritten \cup {op[w].item}
      <4>1. j # op[w].item => stored'[j] = stored[j]
        BY <1>t, <3>2
      <4>2. QED
        BY <3>2, <4>1
    <3>3. QED
      BY <2>1, <3>1, <3>2
  <2>3. QED
    BY <2>1, <2>2 DEF Unharmed
<1>11. QED
  BY <1>1, <1>2, <1>3, <1>4, <1>5, <1>6, <1>7, <1>8, <1>9, <1>10
     DEF NewRequest, Continue, j

LEMMA FreshInit == Init => FreshInv
BY DEF Init, FreshInv, Current

\* What worker w itself has read is what is committed.
LEMMA FreshSelf ==
  ASSUME TypeOK, FreshInv, NEW w \in Workers, NewRequest(w) \/ Continue(w),
         fresh'[w]
  PROVE  Current(w)'
<1>t. /\ DbType /\ SessionType /\ HistoryType
      /\ pc \in [Workers -> PCs] /\ op \in [Workers -> Operation]
      /\ seen \in [Workers -> [Batch -> Int]]
      /\ base \in [Workers -> Int]
  BY DEF TypeOK, SessionType
<1>s. ASSUME pc'[w] \notin {"item", "commit", "insert"} PROVE Current(w)'
  BY <1>s DEF Current
<1>1. CASE ReadBatches(w)
  <2>1. CASE EndSession(w)
    BY <1>s, <1>t, <2>1, EndSessionPc
  <2>2. CASE ~EndSession(w)
    <3>1. /\ pc'[w] = "item" /\ UNCHANGED <<op, itemOf, remaining>>
          /\ seen'[w] = OfItem(remaining, op[w].item)
      BY <1>t, <1>1, <2>2 DEF ReadBatches, db
    <3>2. QED
      BY <3>1 DEF Current, OfItem
  <2>3. QED
    BY <2>1, <2>2
<1>2. CASE ReadItem(w)
  <2>1. /\ pc[w] = "item" /\ pc'[w] = "commit" /\ fresh[w]
        /\ UNCHANGED <<op, seen, itemOf, remaining, stored>>
        /\ base'[w] = stored[op[w].item]
    BY <1>t, <1>2 DEF ReadItem, db
  <2>2. \A b \in Batch : itemOf[b] = op[w].item => seen[w][b] = remaining[b]
    BY <2>1 DEF FreshInv, Current
  <2>3. QED
    BY <2>1, <2>2 DEF Current
<1>3. ASSUME NEW i \in Items, NEW q \in Qtys, StockInRead(w, i, q)
      PROVE  Current(w)'
  <2>1. /\ pc'[w] = "insert" /\ op'[w].item = i /\ stored' = stored
        /\ base'[w] = stored[i]
    BY <1>t, <1>3 DEF StockInRead, db, Body
  <2>2. QED
    BY <2>1 DEF Current
<1>4. ASSUME NEW i \in Items, NEW q \in Qtys, ItemPutRead(w, i, q)
      PROVE  Current(w)'
  BY <1>s, <1>t, <1>4 DEF ItemPutRead
<1>5. ASSUME NEW i \in Items, NEW q \in Qtys, NEW kind \in Kinds,
             Purchase(w, kind, i, q)
      PROVE  Current(w)'
  <2>1. pc'[w] = "journal"
    BY <1>t, <1>5, ToJournalPc DEF Purchase
  <2>2. QED
    BY <1>s, <2>1
<1>6. ASSUME NEW i \in Items, NEW q \in Qtys, NEW to \in Items,
             InventoryRun(w, i, to, q)
      PROVE  Current(w)'
  <2>1. pc'[w] = "journal"
    BY <1>t, <1>6, ToJournalPc DEF InventoryRun
  <2>2. QED
    BY <1>s, <2>1
<1>7. ASSUME NEW i \in Items, NEW q \in Qtys, NEW kind \in Kinds,
             SumStock(w, kind, i, q)
      PROVE  Current(w)'
  <2>1. pc'[w] \in {"idle", "batches"}
    BY <1>t, <1>7 DEF SumStock, Arrive
  <2>2. QED
    BY <1>s, <2>1
<1>8. ASSUME NEW run \in Runs, ValidateRun(w, run) PROVE Current(w)'
  BY <1>s, <1>t, <1>8 DEF ValidateRun
<1>9. CASE \/ StockInCommit(w) \/ IssueCommit(w) \/ RunCommit(w)
           \/ RecordFailedRun(w) \/ ItemPutCommit(w) \/ AppendJournal(w)
           \/ Busy(w)
  <2>1. EndSession(w) \/ ToJournal(w)
    BY <1>9 DEF StockInCommit, IssueCommit, RunCommit, RecordFailedRun,
                ItemPutCommit, AppendJournal, Busy
  <2>2. QED
    BY <1>s, <1>t, <2>1, EndedSession
<1>10. CASE BeginRun(w)
  BY <1>s, <1>t, <1>10 DEF BeginRun
<1>11. CASE AllocateLine(w)
  <2>1. pc[w] = "alloc" /\ (pc' = pc \/ pc' = [pc EXCEPT ![w] = "record"])
    BY <1>11 DEF AllocateLine
  <2>2. QED
    BY <1>s, <1>t, <2>1
<1>12. QED
  BY <1>1, <1>2, <1>3, <1>4, <1>5, <1>6, <1>7, <1>8, <1>9, <1>10, <1>11
     DEF NewRequest, Continue

LEMMA RewrittenGrows ==
  ASSUME NEW w \in Workers, NewRequest(w) \/ Continue(w)
  PROVE  rewritten \subseteq rewritten'
<1>1. CASE NewRequest(w)
  <2>1. ASSUME NEW i \in Items, NEW q \in Qtys,
               \/ \E kind \in Kinds : Purchase(w, kind, i, q)
               \/ \E kind \in Kinds : SumStock(w, kind, i, q)
        PROVE  rewritten \subseteq rewritten'
    BY <2>1 DEF Purchase, SumStock
  <2>2. ASSUME NEW i \in Items, NEW q \in Qtys,
               \/ StockInRead(w, i, q) \/ ItemPutRead(w, i, q)
               \/ \E to \in Items : InventoryRun(w, i, to, q)
        PROVE  rewritten \subseteq rewritten'
    BY <2>2 DEF StockInRead, ItemPutRead, InventoryRun
  <2>3. ASSUME NEW run \in Runs, ValidateRun(w, run)
        PROVE  rewritten \subseteq rewritten'
    BY <2>3 DEF ValidateRun
  <2>4. QED
    BY <1>1, <2>1, <2>2, <2>3 DEF NewRequest
<1>2. CASE Continue(w)
  BY <1>2 DEF Continue, StockInCommit, ReadBatches, ReadItem, IssueCommit,
              BeginRun, AllocateLine, RunCommit, RecordFailedRun,
              ItemPutCommit, AppendJournal, Busy
<1>3. QED
  BY <1>1, <1>2

LEMMA FreshStep ==
  TypeOK /\ BoundsInv /\ FreshInv /\ [Next]_vars => FreshInv'
<1> SUFFICES ASSUME TypeOK, BoundsInv, FreshInv, [Next]_vars PROVE FreshInv'
  OBVIOUS
<1>1. ASSUME NEW w \in Workers, NewRequest(w) \/ Continue(w) PROVE FreshInv'
  <2>1. ASSUME NEW v \in Workers, v # w, fresh'[v] PROVE Current(v)'
    <3>1. /\ pc'[v] = pc[v] /\ op'[v] = op[v] /\ seen'[v] = seen[v]
          /\ base'[v] = base[v]
      BY <1>1, <2>1, StepSessions DEF Others
    <3>2. CASE pc[v] \in {"item", "commit", "insert"}
      <4>1. fresh[v] /\ Unharmed(op[v].item)
        BY <1>1, <2>1, <3>2, StepUnharmed
      <4>2. Current(v) /\ rewritten \subseteq rewritten'
        BY <1>1, <4>1, RewrittenGrows DEF FreshInv
      <4>3. pc'[v] \in {"item", "commit"} =>
              \A b \in Batch : itemOf'[b] = op'[v].item
                                 => seen'[v][b] = remaining'[b]
        BY <3>1, <4>1, <4>2 DEF Current, Unharmed
      <4>4. pc'[v] \in {"commit", "insert"} /\ op'[v].item \notin rewritten'
              => base'[v] = stored'[op'[v].item]
        BY <3>1, <4>1, <4>2 DEF Current, Unharmed
      <4>5. QED
        BY <4>3, <4>4 DEF Current
    <3>3. CASE pc[v] \notin {"item", "commit", "insert"}
      BY <3>1, <3>3 DEF Current
    <3>4. QED
      BY <3>2, <3>3
  <2>2. fresh'[w] => Current(w)'
    BY <1>1, FreshSelf
  <2>3. QED
    BY <2>1, <2>2 DEF FreshInv
<1>2. CASE Crash
  BY <1>2 DEF Crash, FreshInv, Current
<1>3. CASE UNCHANGED vars
  BY <1>3 DEF vars, db, sess, FreshInv, Current
<1>4. QED
  BY <1>1, <1>2, <1>3 DEF Next

(***************************************************************************)
(* A session that no commit on its item has overlapped still has in memory *)
(* what the database holds: the rows fifo_consume and stock_in write from. *)
(***************************************************************************)
THEOREM FreshSafe == Spec => []FreshInv
BY FreshInit, FreshStep, TypeCorrect, BoundsSafe, PTL DEF Spec

(***************************************************************************)
(* Batches and movements, and the two copies of the on-hand quantity.      *)
(***************************************************************************)
AgreeInv == DriftOnlyByOverlap /\ StoredMatchesBatches

LEMMA AgreeInit == Init => AgreeInv
<1> SUFFICES ASSUME Init PROVE AgreeInv
  OBVIOUS
<1>1. DriftOnlyByOverlap
  BY OpeningType, BatchFacts DEF Init, DriftOnlyByOverlap
<1>2. StoredMatchesBatches
  BY DEF Init, StoredMatchesBatches, OnHand
<1>3. QED
  BY <1>1, <1>2 DEF AgreeInv

\* A receipt adds the same to the new batch, to its movement and to
\* qty_stored, if qty_stored is computed from its committed value.
LEMMA AgreeReceipt ==
  ASSUME TypeOK, BoundsInv, AgreeInv, NEW j \in Items, NEW q \in Nat,
         NewBatch(j, q, remaining, moved),
         NEW x \in Int, stored' = [stored EXCEPT ![j] = x + q],
         clobbered \subseteq clobbered', UNCHANGED rewritten,
         x = stored[j] \/ j \in clobbered' \cup rewritten
  PROVE  AgreeInv'
<1> DEFINE n == nBatches + 1
<1>s. DbType /\ RowInv /\ nBatches < MaxBatches
  BY DEF TypeOK, BoundsInv, NewBatch
<1>t. /\ DbType /\ RowInv /\ n \in Batch /\ nBatches \in Nat
      /\ remaining \in [Batch -> Int] /\ moved \in [Batch -> Int]
      /\ stored \in [Items -> Int]
  BY <1>s, BatchFacts DEF DbType
<1>1. /\ nBatches' = n /\ itemOf'[n] = j /\ remaining'[n] = q /\ moved'[n] = q
      /\ \A b \in Batch : b # n => /\ itemOf'[b] = itemOf[b]
                                   /\ remaining'[b] = remaining[b]
                                   /\ moved'[b] = moved[b]
  BY <1>t DEF NewBatch, DbType
<1>2. DriftOnlyByOverlap'
  <2>1. ASSUME NEW b \in Rows', itemOf'[b] \notin clobbered'
        PROVE  remaining'[b] = moved'[b]
    <3>1. b \in Batch /\ (b = n \/ b \in Rows)
      <4>1. b \in 1 .. n /\ Batch = 1 .. MaxBatches /\ MaxBatches \in Nat
        BY <2>1, <1>1, BatchFacts DEF Rows
      <4>2. n \in Batch /\ nBatches \in Nat
        BY <1>t
      <4>3. QED
        BY <4>1, <4>2 DEF Rows
    <3>2. CASE b # n
      BY <1>1, <2>1, <3>1, <3>2 DEF AgreeInv, DriftOnlyByOverlap
    <3>3. QED
      BY <1>1, <3>2
  <2>2. QED
    BY <2>1 DEF DriftOnlyByOverlap
<1>3. StoredMatchesBatches'
  <2>1. ASSUME NEW i \in Items \ (clobbered' \cup rewritten')
        PROVE  stored'[i] = OnHand(i)'
    <3>1. stored[i] = ItemSum(itemOf, remaining, i) /\ stored[i] \in Int
      BY <1>t, <2>1, SumsAreItemSums DEF AgreeInv, StoredMatchesBatches
    <3>2. ItemSum(itemOf', remaining', i)
            = ItemSum(itemOf, remaining, i) + (IF i = j THEN q ELSE 0)
      BY <1>t, <2>1, NewBatchSums
    <3>3. stored'[i] = stored[i] + (IF i = j THEN q ELSE 0)
      BY <1>t, <2>1
    <3>4. QED
      BY <3>1, <3>2, <3>3, SumsAreItemSums
  <2>2. QED
    BY <2>1 DEF StoredMatchesBatches
<1>4. QED
  BY <1>2, <1>3 DEF AgreeInv

LEMMA AgreeIssue ==
  ASSUME TypeOK, BoundsInv, IssueIsFifo, FreshInv, AgreeInv,
         NEW w \in Workers, IssueCommit(w)
  PROVE  AgreeInv'
<1> DEFINE j == op[w].item
           q == op[w].qty
<1>t. /\ remaining \in [Batch -> Int] /\ moved \in [Batch -> Int]
      /\ taken[w] \in [Batch -> Int] /\ stored \in [Items -> Int]
      /\ base[w] \in Int /\ j \in Items /\ q \in Nat
      /\ nBatches \in 0 .. MaxBatches
  <2>1. op[w] \in Operation /\ op[w].item \in Items
    BY DEF TypeOK, SessionType, IssueCommit
  <2>2. QED
    BY <2>1 DEF TypeOK, DbType, SessionType, Operation
<1>a. /\ pc[w] = "commit"
      /\ remaining' = Written(w)
      /\ moved' = [b \in Batch |-> moved[b] - taken[w][b]]
      /\ stored' = [stored EXCEPT ![j] = base[w] - q]
      /\ clobbered' = IF fresh[w] THEN clobbered ELSE clobbered \cup {j}
      /\ UNCHANGED <<nBatches, itemOf, rewritten>>
  BY DEF IssueCommit
<1>1. \A b \in Batch : itemOf[b] \notin clobbered' =>
         remaining'[b] = remaining[b] - taken[w][b]
  <2>1. ASSUME NEW b \in Batch, itemOf[b] \notin clobbered'
        PROVE  fresh[w] \/ itemOf[b] # op[w].item
    BY <1>a, <2>1
  <2>2. QED
    BY <1>a, <2>1, WrittenIs
<1>2. DriftOnlyByOverlap'
  <2>1. ASSUME NEW b \in Rows', itemOf'[b] \notin clobbered'
        PROVE  remaining'[b] = moved'[b]
    <3>1. b \in Batch /\ b \in Rows /\ itemOf[b] \notin clobbered
      BY <1>t, <1>a, <2>1, BatchFacts DEF Rows
    <3>2. remaining[b] = moved[b]
      BY <3>1 DEF AgreeInv, DriftOnlyByOverlap
    <3>3. QED
      BY <1>a, <1>1, <2>1, <3>1, <3>2
  <2>2. QED
    BY <2>1 DEF DriftOnlyByOverlap
<1>3. StoredMatchesBatches'
  <2>1. ASSUME NEW i \in Items \ (clobbered' \cup rewritten')
        PROVE  stored'[i] = OnHand(i)'
    <3>1. stored[i] = ItemSum(itemOf, remaining, i) /\ stored[i] \in Int
      BY <1>t, <1>a, <2>1, SumsAreItemSums DEF AgreeInv, StoredMatchesBatches
    <3>2. ItemSum(itemOf, remaining', i)
            = ItemSum(itemOf, remaining, i) - ItemSum(itemOf, taken[w], i)
      BY <1>t, <1>1, <2>1, ItemSumMinus
    <3>3. ItemSum(itemOf, taken[w], i) = IF i = j THEN q ELSE 0
      BY <1>a, IssueSums
    <3>4. stored'[i] = stored[i] - (IF i = j THEN q ELSE 0)
      <4>1. CASE i = j
        <5>1. base[w] = stored[j]
          BY <1>a, <2>1, <4>1 DEF FreshInv, Current
        <5>2. QED
          BY <1>t, <1>a, <4>1, <5>1
      <4>2. CASE i # j
        BY <1>t, <1>a, <3>1, <4>2
      <4>3. QED
        BY <4>1, <4>2
    <3>5. OnHand(i)' = ItemSum(itemOf, remaining', i)
      BY <1>a, SumsAreItemSums
    <3>6. QED
      BY <3>1, <3>2, <3>3, <3>4, <3>5
  <2>2. QED
    BY <2>1 DEF StoredMatchesBatches
<1>4. QED
  BY <1>2, <1>3 DEF AgreeInv

LEMMA AgreeRun ==
  ASSUME TypeOK, BoundsInv, FreshInv, AgreeInv, NEW w \in Workers, RunCommit(w)
  PROVE  AgreeInv'
<1> DEFINE j == op[w].item
           q == op[w].qty
           n == nBatches + 1
           mov == [b \in Batch |-> moved[b] - taken[w][b]]
<1>t. /\ remaining \in [Batch -> Int] /\ moved \in [Batch -> Int]
      /\ taken[w] \in [Batch -> Int] /\ stored \in [Items -> Int]
      /\ j \in Items /\ q \in Nat /\ DbType /\ RowInv
      /\ n \in Batch /\ nBatches \in Nat
  <2>1. op[w] \in Operation /\ op[w].item \in Items
    BY DEF TypeOK, SessionType, RunCommit
  <2>2. n \in Batch /\ nBatches \in Nat
    BY BatchFacts DEF TypeOK, DbType, RunCommit, NewBatch
  <2>3. QED
    BY <2>1, <2>2 DEF TypeOK, DbType, SessionType, Operation, BoundsInv
<1>a. /\ pc[w] = "alloc" /\ NewBatch(j, q, Written(w), mov)
      /\ stored' = [i \in Items |-> stored[i] + NetOf(w)[i]]
      /\ UNCHANGED <<clobbered, rewritten>>
  BY DEF RunCommit
<1>b. /\ mov \in [Batch -> Int] /\ Written(w) \in [Batch -> Int]
      /\ \A b \in Batch : Written(w)[b] = remaining[b] - taken[w][b]
  BY <1>t, <1>a, WrittenBounds, WrittenIs
<1>1. /\ nBatches' = n /\ itemOf'[n] = j /\ remaining'[n] = q /\ moved'[n] = q
      /\ \A b \in Batch : b # n =>
            /\ itemOf'[b] = itemOf[b]
            /\ remaining'[b] = remaining[b] - taken[w][b]
            /\ moved'[b] = moved[b] - taken[w][b]
  <2>1. /\ nBatches' = n /\ itemOf'[n] = j /\ remaining'[n] = q
        /\ moved'[n] = q
    BY <1>t, <1>a, <1>b DEF NewBatch, DbType
  <2>2. \A b \in Batch : b # n => /\ itemOf'[b] = itemOf[b]
                                  /\ remaining'[b] = Written(w)[b]
                                  /\ moved'[b] = mov[b]
    BY <1>t, <1>a, <1>b DEF NewBatch, DbType
  <2>3. QED
    BY <1>b, <2>1, <2>2
<1>2. DriftOnlyByOverlap'
  <2>1. ASSUME NEW b \in Rows', itemOf'[b] \notin clobbered'
        PROVE  remaining'[b] = moved'[b]
    <3>1. b \in Batch /\ (b = n \/ b \in Rows)
      <4>1. b \in 1 .. n /\ Batch = 1 .. MaxBatches /\ MaxBatches \in Nat
        BY <2>1, <1>1, BatchFacts DEF Rows
      <4>2. n \in Batch /\ nBatches \in Nat
        BY <1>t
      <4>3. QED
        BY <4>1, <4>2 DEF Rows
    <3>2. CASE b # n
      <4>1. itemOf[b] \notin clobbered /\ b \in Rows
        BY <1>a, <1>1, <2>1, <3>1, <3>2
      <4>2. remaining[b] = moved[b]
        BY <4>1 DEF AgreeInv, DriftOnlyByOverlap
      <4>3. QED
        BY <1>1, <3>1, <3>2, <4>2
    <3>3. QED
      BY <1>1, <3>2
  <2>2. QED
    BY <2>1 DEF DriftOnlyByOverlap
<1>3. StoredMatchesBatches'
  <2>1. ASSUME NEW i \in Items \ (clobbered' \cup rewritten')
        PROVE  stored'[i] = OnHand(i)'
    <3>1. stored[i] = ItemSum(itemOf, remaining, i) /\ stored[i] \in Int
      BY <1>t, <1>a, <2>1, SumsAreItemSums DEF AgreeInv, StoredMatchesBatches
    <3>2. ItemSum(itemOf, Written(w), i)
            = ItemSum(itemOf, remaining, i) - ItemSum(itemOf, taken[w], i)
      <4>1. \A b \in Batch :
               itemOf[b] = i => Written(w)[b] = remaining[b] - taken[w][b]
        BY <1>b
      <4>2. PICK h : h = Written(w)
        OBVIOUS
      <4>3. \A b \in Batch :
               itemOf[b] = i => h[b] = remaining[b] - taken[w][b]
        BY <4>1, <4>2
      <4>4. remaining \in [Batch -> Int] /\ taken[w] \in [Batch -> Int]
        BY <1>t DEF DbType
      <4>5. ItemSum(itemOf, h, i)
              = ItemSum(itemOf, remaining, i) - ItemSum(itemOf, taken[w], i)
        BY <4>3, <4>4, ItemSumMinus
      <4>6. QED
        BY <4>2, <4>5
    <3> HIDE DEF mov
    <3>3. ItemSum(itemOf', remaining', i)
            = ItemSum(itemOf, Written(w), i) + (IF i = j THEN q ELSE 0)
      BY <1>t, <1>a, <1>b, NewBatchSums
    <3>4. stored'[i] = stored[i] + ((IF i = j THEN q ELSE 0)
                                      - ItemSum(itemOf, taken[w], i))
      BY <1>a, SumsAreItemSums DEF NetOf
    <3>5. ItemSum(itemOf, taken[w], i) \in Int
      BY <1>t, ItemSumInt
    <3>6. QED
      BY <1>t, <3>1, <3>2, <3>3, <3>4, <3>5, SumsAreItemSums
  <2>2. QED
    BY <2>1 DEF StoredMatchesBatches
<1>4. QED
  BY <1>2, <1>3 DEF AgreeInv

\* An endpoint that sets qty_stored itself is on record as having done so.
LEMMA AgreeRewrite ==
  ASSUME TypeOK, AgreeInv,
         UNCHANGED <<nBatches, itemOf, remaining, moved, clobbered>>,
         NEW S, rewritten' = rewritten \cup S,
         \A i \in Items \ S : stored'[i] = stored[i]
  PROVE  AgreeInv'
<1>1. DriftOnlyByOverlap'
  BY DEF AgreeInv, DriftOnlyByOverlap, Rows
<1>2. \A i \in Items : OnHand(i)' = OnHand(i)
  BY DEF OnHand, SumOf, OfItem
<1>3. StoredMatchesBatches'
  BY <1>2 DEF AgreeInv, StoredMatchesBatches
<1>4. QED
  BY <1>1, <1>3 DEF AgreeInv

LEMMA AgreeStep ==
  TypeOK /\ BoundsInv /\ IssueIsFifo /\ FreshInv /\ AgreeInv /\ [Next]_vars
    => AgreeInv'
<1> SUFFICES ASSUME TypeOK, BoundsInv, IssueIsFifo, FreshInv, AgreeInv,
                    [Next]_vars
             PROVE  AgreeInv'
  OBVIOUS
\* The steps that write no batch, no movement and no qty_stored.
<1>s. ASSUME UNCHANGED <<db, clobbered, rewritten>> PROVE AgreeInv'
  <2>1. rewritten' = rewritten \cup {} /\ stored' = stored
    BY <1>s DEF db
  <2>2. QED
    BY <1>s, <2>1, AgreeRewrite DEF db
<1>1. ASSUME NEW w \in Workers, NewRequest(w) PROVE AgreeInv'
  <2>1. ASSUME NEW i \in Items, NEW q \in Qtys, NEW kind \in Kinds,
               Purchase(w, kind, i, q)
        PROVE  AgreeInv'
    <3>1. /\ NewBatch(i, q, remaining, moved) /\ q \in Nat
          /\ stored' = [stored EXCEPT ![i] = stored[i] + q]
          /\ UNCHANGED <<clobbered, rewritten>> /\ stored[i] \in Int
      BY <2>1, RequestAssumption DEF Purchase, TypeOK, DbType
    <3>2. QED
      BY <3>1, AgreeReceipt
  <2>2. ASSUME NEW i \in Items, NEW q \in Qtys, NEW kind \in Kinds,
               SumStock(w, kind, i, q)
        PROVE  AgreeInv'
    BY <1>s, <2>2 DEF SumStock
  <2>3. ASSUME NEW i \in Items, NEW q \in Qtys,
               StockInRead(w, i, q) \/ ItemPutRead(w, i, q)
        PROVE  AgreeInv'
    BY <1>s, <2>3 DEF StockInRead, ItemPutRead
  <2>4. ASSUME NEW i \in Items, NEW q \in Qtys, NEW to \in Items,
               InventoryRun(w, i, to, q)
        PROVE  AgreeInv'
    <3>1. /\ UNCHANGED <<nBatches, itemOf, remaining, moved, clobbered>>
          /\ rewritten' = rewritten \cup {i, to}
          /\ \A k \in Items \ {i, to} : stored'[k] = stored[k]
      BY <2>4 DEF InventoryRun, TypeOK, DbType
    <3>2. QED
      BY <3>1, AgreeRewrite
  <2>5. ASSUME NEW run \in Runs, ValidateRun(w, run) PROVE AgreeInv'
    BY <1>s, <2>5 DEF ValidateRun
  <2>6. QED
    BY <1>1, <2>1, <2>2, <2>3, <2>4, <2>5 DEF NewRequest
<1>2. ASSUME NEW w \in Workers, Continue(w) PROVE AgreeInv'
  <2>1. CASE StockInCommit(w)
    <3>1. op[w] \in Operation /\ op[w].item \in Items /\ base[w] \in Int
      BY <2>1 DEF TypeOK, SessionType, StockInCommit
    <3>2. /\ op[w].qty \in Nat
          /\ NewBatch(op[w].item, op[w].qty, remaining, moved)
          /\ stored' = [stored EXCEPT ![op[w].item] = base[w] + op[w].qty]
          /\ UNCHANGED rewritten
          /\ clobbered \subseteq clobbered'
      BY <2>1, <3>1 DEF Operation, StockInCommit
    <3>3. base[w] = stored[op[w].item]
            \/ op[w].item \in clobbered' \cup rewritten
      BY <2>1 DEF StockInCommit, FreshInv, Current
    <3>4. QED
      BY <3>1, <3>2, <3>3, AgreeReceipt
  <2>2. CASE ReadBatches(w) \/ ReadItem(w) \/ BeginRun(w) \/ AllocateLine(w)
    BY <1>s, <2>2 DEF ReadBatches, ReadItem, BeginRun, AllocateLine
  <2>3. CASE RecordFailedRun(w) \/ AppendJournal(w) \/ Busy(w)
    BY <1>s, <2>3 DEF RecordFailedRun, AppendJournal, Busy
  <2>4. CASE ItemPutCommit(w)
    <3>1. /\ UNCHANGED <<nBatches, itemOf, remaining, moved, clobbered>>
          /\ \/ UNCHANGED <<stored, rewritten>>
             \/ /\ stored' = [stored EXCEPT ![op[w].item] = op[w].qty]
                /\ rewritten' = rewritten \cup {op[w].item}
      BY <2>4 DEF ItemPutCommit
    <3>2. CASE UNCHANGED <<stored, rewritten>>
      BY <1>s, <2>4, <3>2 DEF ItemPutCommit, db
    <3>3. CASE /\ stored' = [stored EXCEPT ![op[w].item] = op[w].qty]
               /\ rewritten' = rewritten \cup {op[w].item}
      <4>1. \A i \in Items \ {op[w].item} : stored'[i] = stored[i]
        BY <3>3 DEF TypeOK, DbType
      <4>2. QED
        BY <3>1, <3>3, <4>1, AgreeRewrite
    <3>4. QED
      BY <3>1, <3>2, <3>3
  <2>5. QED
    BY <1>2, <2>1, <2>2, <2>3, <2>4, AgreeIssue, AgreeRun DEF Continue
<1>3. CASE Crash \/ UNCHANGED vars
  BY <1>s, <1>3 DEF Crash, vars
<1>4. QED
  BY <1>1, <1>2, <1>3 DEF Next

(***************************************************************************)
(* The three accounts of stock (batches, movements, items.qty_stored) agree *)
(* wherever no requests overlapped and no endpoint bypassed the batches.   *)
(***************************************************************************)
THEOREM AccountsAgree == Spec => []AgreeInv
BY AgreeInit, AgreeStep, TypeCorrect, BoundsSafe, IssuesAreFifo, FreshSafe,
   PTL DEF Spec

(***************************************************************************)
(* A batch and its movements part only where two requests overlapped.      *)
(***************************************************************************)
THEOREM DriftNeedsOverlap == Spec => []DriftOnlyByOverlap
<1>1. AgreeInv => DriftOnlyByOverlap
  BY DEF AgreeInv
<1>2. QED
  BY <1>1, AccountsAgree, PTL

(***************************************************************************)
(* items.qty_stored is the sum of the batches, except where two requests   *)
(* overlapped or an endpoint set it without going through the batches.     *)
(***************************************************************************)
THEOREM StoredSafe == Spec => []StoredMatchesBatches
<1>1. AgreeInv => StoredMatchesBatches
  BY DEF AgreeInv
<1>2. QED
  BY <1>1, AccountsAgree, PTL
=============================================================================
