----------------------- MODULE InventoryLedger_proofs -----------------------
(***************************************************************************)
(* Theorems about InventoryLedger, for any number of items, workers,       *)
(* batches and requests and for any kinds of request and faults: its       *)
(* types, what the journals say, and what a batch may hold.  First, what   *)
(* SumTo, LeftAfter and FifoTake compute, for every number of batches and  *)
(* every quantity.                                                         *)
(***************************************************************************)
EXTENDS InventoryLedger, WellFoundedInduction, TLAPS

-----------------------------------------------------------------------------
(* The arithmetic *)

(***************************************************************************)
(* Induction over the natural numbers, stated with a set so that it can be *)
(* cited with a set comprehension.                                         *)
(***************************************************************************)
LEMMA SetInduction ==
  ASSUME NEW S, S \subseteq Nat, 0 \in S, \A n \in S : n + 1 \in S
  PROVE  S = Nat
<1>1. SUFFICES ASSUME Nat \ S # {} PROVE FALSE
  OBVIOUS
<1>2. \E x \in Nat \ S : \A y \in Nat \ S : <<y, x>> \notin OpToRel(<, Nat)
  <2> DEFINE T == Nat \ S
  <2>1. T \subseteq Nat /\ T # {}
    BY <1>1
  <2> HIDE DEF T
  <2>2. \E x \in T : \A y \in T : ~(<<y, x>> \in OpToRel(<, Nat))
    BY <2>1, NatLessThanWellFounded, WFMin
  <2>3. QED
    BY <2>2 DEF T
<1>3. PICK x \in Nat \ S : \A y \in Nat \ S : <<y, x>> \notin OpToRel(<, Nat)
  BY <1>2
<1>4. \A y \in Nat \ S : ~(y < x)
  BY <1>3 DEF OpToRel
<1>5. x # 0 /\ x - 1 \in Nat
  OBVIOUS
<1>6. x - 1 \in S
  BY <1>4, <1>5
<1>7. (x - 1) + 1 \in S
  BY <1>6
<1>8. QED
  BY <1>7, <1>5

(***************************************************************************)
(* The two recursive functions of Fifo have the form s[k] = step(s[k - 1]) *)
(* on 0..n: such a function exists, so it is the one they denote.          *)
(***************************************************************************)
LEMMA SumExists ==
  ASSUME NEW f, NEW n \in Nat
  PROVE  \E s : s = [k \in 0..n |-> IF k = 0 THEN 0 ELSE s[k - 1] + f[k]]
<1> DEFINE Is(s, m) == s = [k \in 0..m |-> IF k = 0 THEN 0
                                           ELSE s[k - 1] + f[k]]
           S == {m \in Nat : \E s : Is(s, m)}
<1>1. 0 \in S
  <2> DEFINE s == [k \in 0..0 |-> 0]
  <2>1. Is(s, 0)
    OBVIOUS
  <2>2. QED
    BY <2>1
<1>2. ASSUME NEW m \in S PROVE m + 1 \in S
  <2>1. PICK s : Is(s, m)
    OBVIOUS
  <2> DEFINE t == [k \in 0..(m + 1) |-> IF k = m + 1 THEN s[m] + f[k]
                                                     ELSE s[k]]
  <2>2. \A k \in 0..(m + 1) : t[k] = IF k = 0 THEN 0 ELSE t[k - 1] + f[k]
    <3> TAKE k \in 0..(m + 1)
    <3>1. CASE k = m + 1
      BY <3>1
    <3>2. CASE k # m + 1
      <4>1. k \in 0..m /\ (k # 0 => k - 1 \in 0..m /\ k - 1 # m + 1)
        BY <3>2
      <4>2. s[k] = IF k = 0 THEN 0 ELSE s[k - 1] + f[k]
        BY <2>1, <4>1
      <4>3. QED
        BY <4>1, <4>2, <3>2
    <3>3. QED
      BY <3>1, <3>2
  <2>3. Is(t, m + 1)
    BY <2>2
  <2> HIDE DEF t, Is
  <2>4. QED
    BY <2>3
<1>3. S = Nat
  <2> HIDE DEF Is
  <2>1. S \subseteq Nat
    OBVIOUS
  <2> HIDE DEF S
  <2>2. QED
    BY <1>1, <1>2, <2>1, SetInduction
<1>4. n \in S
  BY <1>3
<1>5. QED
  BY <1>4

LEMMA SumUnfold ==
  ASSUME NEW f, NEW n \in Nat
  PROVE  \E s : /\ SumTo(f, n) = s[n]
                /\ s = [k \in 0..n |-> IF k = 0 THEN 0 ELSE s[k - 1] + f[k]]
<1> DEFINE s == CHOOSE s : s = [k \in 0..n |-> IF k = 0 THEN 0
                                               ELSE s[k - 1] + f[k]]
<1>1. s = [k \in 0..n |-> IF k = 0 THEN 0 ELSE s[k - 1] + f[k]]
  BY SumExists, Zenon
<1>2. SumTo(f, n) = s[n]
  BY DEF SumTo
<1> HIDE DEF s
<1>3. QED
  BY <1>1, <1>2
(***************************************************************************)
(* SumTo is the sum defined by primitive recursion.                        *)
(***************************************************************************)
LEMMA SumStep ==
  ASSUME NEW f
  PROVE  /\ SumTo(f, 0) = 0
         /\ \A n \in Nat : SumTo(f, n + 1) = SumTo(f, n) + f[n + 1]
<1>1. SumTo(f, 0) = 0
  BY SumUnfold
<1>2. ASSUME NEW n \in Nat
      PROVE  SumTo(f, n + 1) = SumTo(f, n) + f[n + 1]
  <2>1. PICK s : /\ SumTo(f, n) = s[n]
                 /\ s = [k \in 0..n |-> IF k = 0 THEN 0 ELSE s[k - 1] + f[k]]
    BY SumUnfold
  <2>2. n + 1 \in Nat
    OBVIOUS
  <2>3. PICK t : /\ SumTo(f, n + 1) = t[n + 1]
                 /\ t = [k \in 0..(n + 1) |->
                           IF k = 0 THEN 0 ELSE t[k - 1] + f[k]]
    BY SumUnfold, <2>2
  <2>4. /\ s[0] = 0
        /\ \A k \in 1..n : s[k] = s[k - 1] + f[k]
    BY <2>1
  <2>5. /\ t[0] = 0
        /\ \A k \in 1..(n + 1) : t[k] = t[k - 1] + f[k]
    BY <2>3
  <2> DEFINE S == {k \in Nat : k <= n => s[k] = t[k]}
  <2>6. 0 \in S
    BY <2>4, <2>5
  <2>7. ASSUME NEW k \in S PROVE k + 1 \in S
    <3>1. CASE k + 1 <= n
      <4>1. k + 1 \in 1..n /\ k + 1 \in 1..(n + 1) /\ (k + 1) - 1 = k
        BY <3>1
      <4>2. s[k + 1] = s[k] + f[k + 1] /\ t[k + 1] = t[k] + f[k + 1]
        BY <4>1, <2>4, <2>5
      <4>3. QED
        BY <4>2, <3>1
    <3>2. QED
      BY <3>1
  <2>8. S = Nat
    <3>1. S \subseteq Nat
      OBVIOUS
    <3> HIDE DEF S
    <3>2. QED
      BY <2>6, <2>7, <3>1, SetInduction
  <2>9. s[n] = t[n]
    BY <2>8
  <2>10. t[n + 1] = t[n] + f[n + 1]
    BY <2>5
  <2>11. QED
    BY <2>1, <2>3, <2>9, <2>10
<1>3. QED
  BY <1>1, <1>2

LEMMA SumInt ==
  ASSUME NEW N \in Nat, NEW f, \A b \in 1..N : f[b] \in Int
  PROVE  \A n \in 0..N : SumTo(f, n) \in Int
<1> DEFINE S == {n \in Nat : n <= N => SumTo(f, n) \in Int}
<1>1. 0 \in S
  BY SumStep
<1>2. ASSUME NEW n \in S PROVE n + 1 \in S
  BY SumStep
<1>3. S = Nat
  <2>1. S \subseteq Nat
    OBVIOUS
  <2> HIDE DEF S
  <2>2. QED
    BY <1>1, <1>2, <2>1, SetInduction
<1>4. QED
  BY <1>3

LEMMA SumNat ==
  ASSUME NEW N \in Nat, NEW f, \A b \in 1..N : f[b] \in Nat
  PROVE  \A n \in 0..N : SumTo(f, n) \in Nat
<1> DEFINE S == {n \in Nat : n <= N => SumTo(f, n) \in Nat}
<1>1. 0 \in S
  BY SumStep
<1>2. ASSUME NEW n \in S PROVE n + 1 \in S
  BY SumStep
<1>3. S = Nat
  <2>1. S \subseteq Nat
    OBVIOUS
  <2> HIDE DEF S
  <2>2. QED
    BY <1>1, <1>2, <2>1, SetInduction
<1>4. QED
  BY <1>3

(***************************************************************************)
(* Changing f at batch b changes the sum by as much.                       *)
(***************************************************************************)
LEMMA SumChange ==
  ASSUME NEW N \in Nat, NEW f, NEW g, NEW b \in 1..N,
         \A a \in 1..N : f[a] \in Int /\ g[a] \in Int,
         \A a \in 1..N : a # b => g[a] = f[a]
  PROVE  SumTo(g, N) = SumTo(f, N) + (g[b] - f[b])
<1> DEFINE S == {n \in Nat : n <= N =>
                   SumTo(g, n) = SumTo(f, n)
                                   + (IF b <= n THEN g[b] - f[b] ELSE 0)}
<1>1. 0 \in S
  BY SumStep
<1>2. ASSUME NEW n \in S PROVE n + 1 \in S
  <2>1. CASE n + 1 <= N
    <3>1. /\ SumTo(g, n + 1) = SumTo(g, n) + g[n + 1]
          /\ SumTo(f, n + 1) = SumTo(f, n) + f[n + 1]
      BY SumStep
    <3>2. SumTo(f, n) \in Int /\ SumTo(g, n) \in Int
      BY SumInt, <2>1
    <3>3. n + 1 \in 1..N /\ f[n + 1] \in Int /\ g[n + 1] \in Int
      BY <2>1
    <3>4. SumTo(g, n) = SumTo(f, n) + (IF b <= n THEN g[b] - f[b] ELSE 0)
      BY <2>1
    <3>5. CASE n + 1 = b
      BY <3>1, <3>2, <3>3, <3>4, <3>5
    <3>6. CASE n + 1 # b
      BY <3>1, <3>2, <3>3, <3>4, <3>6
    <3>7. QED
      BY <3>5, <3>6
  <2>2. QED
    BY <2>1
<1>3. S = Nat
  <2>1. S \subseteq Nat
    OBVIOUS
  <2> HIDE DEF S
  <2>2. QED
    BY <1>1, <1>2, <2>1, SetInduction
<1>4. QED
  BY <1>3

(***************************************************************************)
(* The sum of a pointwise difference is the difference of the sums.        *)
(***************************************************************************)
LEMMA SumMinus ==
  ASSUME NEW N \in Nat, NEW f, NEW g, NEW h,
         \A a \in 1..N : f[a] \in Int /\ g[a] \in Int /\ h[a] = f[a] - g[a]
  PROVE  SumTo(h, N) = SumTo(f, N) - SumTo(g, N)
<1> DEFINE S == {n \in Nat : n <= N =>
                   SumTo(h, n) = SumTo(f, n) - SumTo(g, n)}
<1>1. 0 \in S
  BY SumStep
<1>2. ASSUME NEW n \in S PROVE n + 1 \in S
  <2>1. CASE n + 1 <= N
    <3>1. /\ SumTo(g, n + 1) = SumTo(g, n) + g[n + 1]
          /\ SumTo(f, n + 1) = SumTo(f, n) + f[n + 1]
          /\ SumTo(h, n + 1) = SumTo(h, n) + h[n + 1]
      BY SumStep
    <3>2. SumTo(f, n) \in Int /\ SumTo(g, n) \in Int
      BY SumInt, <2>1
    <3>3. /\ f[n + 1] \in Int /\ g[n + 1] \in Int
          /\ h[n + 1] = f[n + 1] - g[n + 1]
      BY <2>1
    <3>4. QED
      BY <2>1, <3>1, <3>2, <3>3
  <2>2. QED
    BY <2>1
<1>3. S = Nat
  <2>1. S \subseteq Nat
    OBVIOUS
  <2> HIDE DEF S
  <2>2. QED
    BY <1>1, <1>2, <2>1, SetInduction
<1>4. QED
  BY <1>3
(***************************************************************************)
(* The same three facts for LeftAfter.                                     *)
(***************************************************************************)
LEMMA LeftExists ==
  ASSUME NEW f, NEW q, NEW n \in Nat
  PROVE  \E s : s = [k \in 0..n |-> IF k = 0 THEN q ELSE s[k - 1] - Least(f[k], s[k - 1])]
<1> DEFINE Is(s, m) == s = [k \in 0..m |-> IF k = 0 THEN q
                                           ELSE s[k - 1] - Least(f[k], s[k - 1])]
           S == {m \in Nat : \E s : Is(s, m)}
<1>1. 0 \in S
  <2> DEFINE s == [k \in 0..0 |-> q]
  <2>1. Is(s, 0)
    OBVIOUS
  <2>2. QED
    BY <2>1
<1>2. ASSUME NEW m \in S PROVE m + 1 \in S
  <2>1. PICK s : Is(s, m)
    OBVIOUS
  <2> DEFINE t == [k \in 0..(m + 1) |-> IF k = m + 1 THEN s[m] - Least(f[k], s[m])
                                                     ELSE s[k]]
  <2>2. \A k \in 0..(m + 1) : t[k] = IF k = 0 THEN q ELSE t[k - 1] - Least(f[k], t[k - 1])
    <3> TAKE k \in 0..(m + 1)
    <3>1. CASE k = m + 1
      BY <3>1
    <3>2. CASE k # m + 1
      <4>1. k \in 0..m /\ (k # 0 => k - 1 \in 0..m /\ k - 1 # m + 1)
        BY <3>2
      <4>2. s[k] = IF k = 0 THEN q ELSE s[k - 1] - Least(f[k], s[k - 1])
        BY <2>1, <4>1
      <4>3. QED
        BY <4>1, <4>2, <3>2
    <3>3. QED
      BY <3>1, <3>2
  <2>3. Is(t, m + 1)
    BY <2>2
  <2> HIDE DEF t, Is
  <2>4. QED
    BY <2>3 DEF Least
<1>3. S = Nat
  <2> HIDE DEF Is
  <2>1. S \subseteq Nat
    OBVIOUS
  <2> HIDE DEF S
  <2>2. QED
    BY <1>1, <1>2, <2>1, SetInduction
<1>4. n \in S
  BY <1>3
<1>5. QED
  BY <1>4

LEMMA LeftUnfold ==
  ASSUME NEW f, NEW q, NEW n \in Nat
  PROVE  \E s : /\ LeftAfter(f, q, n) = s[n]
                /\ s[0] = q
                /\ \A k \in 1..n : s[k] = s[k - 1] - Least(f[k], s[k - 1])
<1> DEFINE s == CHOOSE s : s = [k \in 0..n |-> IF k = 0 THEN q
                                       ELSE s[k - 1] - Least(f[k], s[k - 1])]
<1>1. s = [k \in 0..n |-> IF k = 0 THEN q
                          ELSE s[k - 1] - Least(f[k], s[k - 1])]
  BY LeftExists DEF Least
<1>2. LeftAfter(f, q, n) = s[n]
  BY DEF LeftAfter
<1> HIDE DEF s
<1>3. s[0] = q
  BY <1>1 DEF Least
<1>4. \A k \in 1..n : s[k] = s[k - 1] - Least(f[k], s[k - 1])
  BY <1>1 DEF Least
<1>5. QED
  BY <1>2, <1>3, <1>4, Zenon

LEMMA LeftStep ==
  ASSUME NEW f, NEW q
  PROVE  /\ LeftAfter(f, q, 0) = q
         /\ \A n \in Nat : LeftAfter(f, q, n + 1) = 
                  LeftAfter(f, q, n) - Least(f[n + 1], LeftAfter(f, q, n))
<1>1. LeftAfter(f, q, 0) = q
  <2>1. \E s : /\ LeftAfter(f, q, 0) = s[0]
               /\ s[0] = q
               /\ \A k \in 1..0 : s[k] = s[k - 1] - Least(f[k], s[k - 1])
    BY LeftUnfold DEF Least
  <2>2. QED
    BY <2>1, Zenon
<1>2. ASSUME NEW n \in Nat
      PROVE  LeftAfter(f, q, n + 1) =
               LeftAfter(f, q, n) - Least(f[n + 1], LeftAfter(f, q, n))
  <2>1. PICK s : /\ LeftAfter(f, q, n) = s[n]
                 /\ s[0] = q
                 /\ \A k \in 1..n : s[k] = s[k - 1] - Least(f[k], s[k - 1])
    BY LeftUnfold DEF Least
  <2>2. n + 1 \in Nat
    OBVIOUS
  <2>3. PICK t : /\ LeftAfter(f, q, n + 1) = t[n + 1]
                 /\ t[0] = q
                 /\ \A k \in 1..(n + 1) :
                      t[k] = t[k - 1] - Least(f[k], t[k - 1])
    BY LeftUnfold, <2>2 DEF Least
  <2> DEFINE S == {k \in Nat : k <= n => s[k] = t[k]}
  <2>6. 0 \in S
    BY <2>1, <2>3
  <2>7. ASSUME NEW k \in S PROVE k + 1 \in S
    <3>1. CASE k + 1 <= n
      <4>1. k + 1 \in 1..n /\ k + 1 \in 1..(n + 1) /\ (k + 1) - 1 = k
        BY <3>1
      <4>2. s[k + 1] = s[k] - Least(f[k + 1], s[k]) /\ t[k + 1] = t[k] - Least(f[k + 1], t[k])
        BY <4>1, <2>1, <2>3
      <4>3. QED
        BY <4>2, <3>1
    <3>2. QED
      BY <3>1
  <2>8. S = Nat
    <3>1. S \subseteq Nat
      OBVIOUS
    <3> HIDE DEF S
    <3>2. QED
      BY <2>6, <2>7, <3>1, SetInduction
  <2>9. s[n] = t[n]
    BY <2>8
  <2>10. t[n + 1] = t[n] - Least(f[n + 1], t[n])
    BY <2>3
  <2>11. QED
    BY <2>1, <2>3, <2>9, <2>10
<1>3. QED
  BY <1>1, <1>2

LEMMA LeftNext ==
  ASSUME NEW f, NEW q, NEW n \in Nat
  PROVE  LeftAfter(f, q, n + 1)
           = LeftAfter(f, q, n) - Least(f[n + 1], LeftAfter(f, q, n))
BY LeftStep, Zenon

LEMMA LeftInt ==
  ASSUME NEW N \in Nat, NEW f, NEW q \in Int, \A b \in 1..N : f[b] \in Int
  PROVE  \A n \in 0..N : LeftAfter(f, q, n) \in Int
<1> DEFINE S == {n \in Nat : n <= N => LeftAfter(f, q, n) \in Int}
<1>1. 0 \in S
  BY LeftStep
<1>2. ASSUME NEW n \in S PROVE n + 1 \in S
  <2>1. LeftAfter(f, q, n + 1)
          = LeftAfter(f, q, n) - Least(f[n + 1], LeftAfter(f, q, n))
    <3>1. n \in Nat
      OBVIOUS
    <3>2. QED
      BY <3>1, LeftNext
  <2>2. n + 1 <= N => f[n + 1] \in Int
    OBVIOUS
  <2>3. QED
    BY <2>1, <2>2 DEF Least
<1>3. S = Nat
  <2>1. S \subseteq Nat
    OBVIOUS
  <2> HIDE DEF S
  <2>2. QED
    BY <1>1, <1>2, <2>1, SetInduction
<1>4. QED
  BY <1>3

LEMMA TakeInt ==
  ASSUME NEW N \in Nat, NEW f, NEW q \in Int, \A b \in 1..N : f[b] \in Int
  PROVE  FifoTake(f, q, N) \in [1..N -> Int]
<1>1. \A b \in 1..N : LeftAfter(f, q, b - 1) \in Int
  BY LeftInt
<1>2. QED
  BY <1>1 DEF FifoTake, Least

(***************************************************************************)
(* The loop never leaves less than nothing to take, and takes from each    *)
(* batch between nothing and all of it.                                    *)
(***************************************************************************)
LEMMA LeftNat ==
  ASSUME NEW N \in Nat, NEW f, NEW q \in Nat, \A b \in 1..N : f[b] \in Nat
  PROVE  \A n \in 0..N : LeftAfter(f, q, n) \in Nat
<1> DEFINE S == {n \in Nat : n <= N => LeftAfter(f, q, n) \in Nat}
<1>1. 0 \in S
  BY LeftStep
<1>2. ASSUME NEW n \in S PROVE n + 1 \in S
  <2>1. LeftAfter(f, q, n + 1)
          = LeftAfter(f, q, n) - Least(f[n + 1], LeftAfter(f, q, n))
    <3>1. n \in Nat
      OBVIOUS
    <3>2. QED
      BY <3>1, LeftNext
  <2>2. n + 1 <= N => f[n + 1] \in Nat
    OBVIOUS
  <2>3. QED
    BY <2>1, <2>2 DEF Least
<1>3. S = Nat
  <2>1. S \subseteq Nat
    OBVIOUS
  <2> HIDE DEF S
  <2>2. QED
    BY <1>1, <1>2, <2>1, SetInduction
<1>4. QED
  BY <1>3

LEMMA TakeBounds ==
  ASSUME NEW N \in Nat, NEW f, NEW q \in Nat, \A b \in 1..N : f[b] \in Nat
  PROVE  /\ FifoTake(f, q, N) \in [1..N -> Nat]
         /\ \A b \in 1..N : FifoTake(f, q, N)[b] \in 0..f[b]
<1>1. \A b \in 1..N : LeftAfter(f, q, b - 1) \in Nat
  BY LeftNat
<1>2. QED
  BY <1>1 DEF FifoTake, Least

(***************************************************************************)
(* What is taken and what is left make up the request.                     *)
(***************************************************************************)
LEMMA TakeTotal ==
  ASSUME NEW N \in Nat, NEW f, NEW q \in Nat, \A b \in 1..N : f[b] \in Nat
  PROVE  SumTo(FifoTake(f, q, N), N) = q - LeftAfter(f, q, N)
<1> DEFINE take == FifoTake(f, q, N)
           S == {n \in Nat : n <= N =>
                   SumTo(take, n) = q - LeftAfter(f, q, n)}
<1>1. 0 \in S
  BY SumStep, LeftStep
<1>2. ASSUME NEW n \in S PROVE n + 1 \in S
  <2>1. CASE n + 1 <= N
    <3>1. SumTo(take, n + 1) = SumTo(take, n) + take[n + 1]
      BY SumStep
    <3>2. LeftAfter(f, q, n + 1)
            = LeftAfter(f, q, n) - Least(f[n + 1], LeftAfter(f, q, n))
      <4>1. n \in Nat
        OBVIOUS
      <4>2. QED
        BY <4>1, LeftNext
    <3>3. take[n + 1] = Least(f[n + 1], LeftAfter(f, q, n))
      BY <2>1 DEF FifoTake
    <3>4. LeftAfter(f, q, n) \in Nat /\ f[n + 1] \in Nat
      BY LeftNat, <2>1
    <3>5. SumTo(take, n) = q - LeftAfter(f, q, n)
      BY <2>1
    <3> HIDE DEF take
    <3>6. QED
      BY <3>1, <3>2, <3>3, <3>4, <3>5 DEF Least
  <2>2. QED
    BY <2>1
<1>3. S = Nat
  <2>1. S \subseteq Nat
    OBVIOUS
  <2> HIDE DEF S
  <2>2. QED
    BY <1>1, <1>2, <2>1, SetInduction
<1>4. QED
  BY <1>3

(***************************************************************************)
(* Oldest first: a batch is touched only when every older one is emptied.  *)
(***************************************************************************)
LEMMA TakeOldestFirst ==
  ASSUME NEW N \in Nat, NEW f, NEW q \in Nat, \A b \in 1..N : f[b] \in Nat,
         NEW a \in 1..N, NEW b \in 1..N, a < b, FifoTake(f, q, N)[b] > 0
  PROVE  FifoTake(f, q, N)[a] = f[a]
<1> DEFINE S == {n \in Nat : a + n <= N =>
                   LeftAfter(f, q, a + n) <= LeftAfter(f, q, a)}
<1>1. 0 \in S
  BY LeftNat
<1>2. ASSUME NEW n \in S PROVE n + 1 \in S
  <2>1. CASE a + (n + 1) <= N
    <3>1. LeftAfter(f, q, (a + n) + 1)
            = LeftAfter(f, q, a + n)
                - Least(f[(a + n) + 1], LeftAfter(f, q, a + n))
      <4>1. a + n \in Nat
        OBVIOUS
      <4>2. QED
        BY <4>1, LeftNext
    <3>2. /\ LeftAfter(f, q, a + n) \in Nat
          /\ LeftAfter(f, q, a) \in Nat
          /\ f[(a + n) + 1] \in Nat
      BY LeftNat, <2>1
    <3>3. LeftAfter(f, q, (a + n) + 1) <= LeftAfter(f, q, a + n)
      BY <3>1, <3>2 DEF Least
    <3>4. LeftAfter(f, q, a + n) <= LeftAfter(f, q, a)
      BY <2>1
    <3>5. LeftAfter(f, q, (a + n) + 1) \in Int
      BY <3>1, <3>2 DEF Least
    <3>6. LeftAfter(f, q, (a + n) + 1) <= LeftAfter(f, q, a)
      BY <3>2, <3>3, <3>4, <3>5
    <3>7. a + (n + 1) = (a + n) + 1
      OBVIOUS
    <3>8. QED
      BY <3>6, <3>7
  <2>2. QED
    BY <2>1
<1>3. S = Nat
  <2>1. S \subseteq Nat
    OBVIOUS
  <2> HIDE DEF S
  <2>2. QED
    BY <1>1, <1>2, <2>1, SetInduction
<1>4. LeftAfter(f, q, b - 1) <= LeftAfter(f, q, a)
  <2>1. (b - 1) - a \in Nat /\ a + ((b - 1) - a) = b - 1
    OBVIOUS
  <2>2. (b - 1) - a \in S
    BY <1>3, <2>1
  <2>3. QED
    BY <2>1, <2>2
<1>5. /\ LeftAfter(f, q, a - 1) \in Nat
      /\ LeftAfter(f, q, a) \in Nat
      /\ LeftAfter(f, q, b - 1) \in Nat
  BY LeftNat
<1>6. LeftAfter(f, q, b - 1) > 0
  BY <1>5 DEF FifoTake, Least
<1>7. LeftAfter(f, q, a)
        = LeftAfter(f, q, a - 1) - Least(f[a], LeftAfter(f, q, a - 1))
  <2>1. PICK p \in Nat : p + 1 = a /\ a - 1 = p
    OBVIOUS
  <2>2. LeftAfter(f, q, p + 1)
          = LeftAfter(f, q, p) - Least(f[p + 1], LeftAfter(f, q, p))
    BY LeftNext
  <2>3. QED
    BY <2>1, <2>2
<1>8. FifoTake(f, q, N)[a] = Least(f[a], LeftAfter(f, q, a - 1))
  BY DEF FifoTake
<1>9. f[a] \in Nat
  OBVIOUS
<1> HIDE DEF S
<1>10. QED
  BY <1>4, <1>5, <1>6, <1>7, <1>8, <1>9 DEF Least

-----------------------------------------------------------------------------
(* The ledger *)

LEMMA BatchFacts ==
  /\ MaxBatches \in Nat
  /\ MaxRequests \in Nat
  /\ Batch = 1 .. MaxBatches
  /\ Request = 1 .. MaxRequests
  /\ Zero \in [Batch -> Nat]
  /\ \A b \in Batch : Zero[b] = 0
BY BoundsAssumption DEF Batch, Request, Zero

LEMMA ZeroType == Zero \in [Batch -> Int]
BY DEF Zero

LEMMA NoOpType == NoOp \in Operation
<1>1. << >> \in Lines
  BY DEF Lines
<1>2. QED
  BY <1>1 DEF NoOp, Operation

LEMMA BodyType ==
  ASSUME NEW kind \in AllKinds, NEW i \in Items, NEW q \in Nat
  PROVE  /\ Body(kind, i, q) \in Operation
         /\ Body(kind, i, q).item = i
         /\ Body(kind, i, q).kind = kind
<1>1. << >> \in Lines
  BY DEF Lines
<1>2. QED
  BY <1>1 DEF Operation, Body

LEMMA KindsType ==
  /\ Kinds \subseteq AllKinds
  /\ {"stock_in", "item_put", "inventory_run", "run"} \subseteq AllKinds
BY RequestAssumption DEF AllKinds

LEMMA RunType ==
  ASSUME NEW run \in Runs
  PROVE  run.item \in Items /\ run.qty \in Nat /\ run.lines \in Lines
BY RequestAssumption

LEMMA OpeningType ==
  /\ Len(Opening) \in 0 .. MaxBatches
  /\ \A b \in 1 .. Len(Opening) :
        Opening[b].item \in Items /\ Opening[b].qty \in Nat
<1>1. Len(Opening) \in Nat
  BY RequestAssumption
<1>2. \A b \in 1 .. Len(Opening) :
         Opening[b] \in [item : Items, qty : Nat \ {0}]
  <2> DEFINE T == [item : Items, qty : Nat \ {0}]
  <2>1. Opening \in Seq(T)
    BY RequestAssumption
  <2> HIDE DEF T
  <2>2. \A b \in 1 .. Len(Opening) : Opening[b] \in T
    BY <2>1
  <2>3. QED
    BY <2>2 DEF T
<1>3. QED
  BY <1>1, <1>2, BoundsAssumption

LEMMA SumOfInt ==
  ASSUME NEW f, f \in [Batch -> Int], NEW i
  PROVE  SumOf(f, i) \in Int
<1>1. \A b \in 1 .. MaxBatches : OfItem(f, i)[b] \in Int
  BY DEF OfItem, Batch
<1>2. MaxBatches \in 0 .. MaxBatches
  BY BatchFacts
<1>3. QED
  BY <1>1, <1>2, BatchFacts, SumInt DEF SumOf

LEMMA TypeInit == Init => TypeOK
<1> SUFFICES ASSUME Init PROVE TypeOK
  OBVIOUS
<1> USE BatchFacts
<1>1. /\ nBatches \in 0 .. MaxBatches
      /\ itemOf \in [Batch -> Items \cup {NoItem}]
      /\ initial \in [Batch -> Nat]
  <2>1. \A b \in Batch : b <= Len(Opening) => b \in 1 .. Len(Opening)
    BY OpeningType
  <2>2. QED
    BY <2>1, OpeningType DEF Init
<1>2. remaining \in [Batch -> Int] /\ moved \in [Batch -> Int]
  BY <1>1 DEF Init
<1>3. stored \in [Items -> Int] /\ acked \in [Items -> Int]
  <2>1. \A i \in Items : SumOf(initial, i) \in Int
    <3>1. initial \in [Batch -> Int]
      BY <1>1
    <3>2. QED
      BY <3>1, SumOfInt
  <2>2. QED
    BY <2>1 DEF Init
<1>4. LogType
  BY DEF Init, LogType, LogEntry, Statuses
<1>5. SessionType
  BY NoOpType, ZeroType DEF Init, SessionType, PCs
<1>6. DbType
  BY <1>1, <1>2, <1>3 DEF DbType
<1>7. HistoryType
  BY <1>3 DEF Init, HistoryType
<1>8. QED
  BY <1>4, <1>5, <1>6, <1>7 DEF TypeOK

\* Only worker w is given a request, if any is.
ReqMoves(w) ==
  /\ req' \in [Workers -> 0 .. MaxRequests]
  /\ \A v \in Workers : req'[v] = req[v] \/ (v = w /\ req'[v] \in Request)

(***************************************************************************)
(* What the helpers that end a session leave behind is well typed.         *)
(***************************************************************************)
LEMMA EndSessionType ==
  ASSUME SessionType, NEW w \in Workers, EndSession(w),
         ReqMoves(w)
  PROVE  SessionType'
<1>1. /\ pc' \in [Workers -> PCs]
      /\ \A v \in Workers : \/ pc'[v] \in {"idle", "journal"}
                            \/ v # w /\ pc'[v] = pc[v]
  BY DEF SessionType, EndSession, PCs
<1>2. op' \in [Workers -> Operation]
  BY NoOpType DEF SessionType, EndSession
<1>3. /\ seen' \in [Workers -> [Batch -> Int]]
      /\ taken' \in [Workers -> [Batch -> Int]]
  BY ZeroType DEF SessionType, EndSession
<1>4. base' \in [Workers -> Int] /\ line' \in [Workers -> Nat]
  BY DEF SessionType, EndSession
<1>5. \A v \in Workers : v # w => op'[v] = op[v]
  BY DEF SessionType, EndSession
<1>6. \A v \in Workers : pc'[v] = "idle" \/ req'[v] \in Request
  BY DEF SessionType, ReqMoves, EndSession
<1>7. QED
  BY <1>1, <1>2, <1>3, <1>4, <1>5, <1>6 DEF SessionType, ReqMoves

LEMMA ToJournalType ==
  ASSUME SessionType, NEW w \in Workers, ToJournal(w),
         ReqMoves(w), req'[w] \in Request
  PROVE  SessionType'
<1>1. /\ pc' \in [Workers -> PCs]
      /\ \A v \in Workers : \/ pc'[v] \in {"idle", "journal"}
                            \/ v # w /\ pc'[v] = pc[v]
  BY DEF SessionType, ToJournal, PCs
<1>2. op' \in [Workers -> Operation]
  BY NoOpType DEF SessionType, ToJournal
<1>3. /\ seen' \in [Workers -> [Batch -> Int]]
      /\ taken' \in [Workers -> [Batch -> Int]]
  BY ZeroType DEF SessionType, ToJournal
<1>4. base' \in [Workers -> Int] /\ line' \in [Workers -> Nat]
  BY DEF SessionType, ToJournal
<1>5. \A v \in Workers : v # w => op'[v] = op[v]
  BY DEF SessionType, ToJournal
<1>6. \A v \in Workers : pc'[v] = "idle" \/ req'[v] \in Request
  BY DEF SessionType, ReqMoves, ToJournal
<1>7. QED
  BY <1>1, <1>2, <1>3, <1>4, <1>5, <1>6 DEF SessionType, ReqMoves

LEMMA ReqStays ==
  ASSUME SessionType, NEW w \in Workers, pc[w] # "idle", UNCHANGED req
  PROVE  ReqMoves(w) /\ req'[w] \in Request
<1>1. req \in [Workers -> 0 .. MaxRequests] /\ req[w] \in Request
  BY DEF SessionType
<1>2. QED
  BY <1>1 DEF ReqMoves

LEMMA ArriveType ==
  ASSUME TypeOK, NEW w \in Workers, NEW kind, Arrive(w, kind)
  PROVE  /\ kind \in AllKinds
         /\ nRequests' \in 0 .. MaxRequests
         /\ nRequests' \in Request
         /\ ReqMoves(w)
         /\ req'[w] \in Request
<1>1. kind \in AllKinds
  BY KindsType DEF Arrive
<1>2. nRequests' \in 0 .. MaxRequests /\ nRequests' \in Request
  BY BatchFacts DEF TypeOK, LogType, Arrive
<1>3. req' = [req EXCEPT ![w] = nRequests']
  BY DEF Arrive
<1>4. ReqMoves(w) /\ req'[w] \in Request
  <2>1. req \in [Workers -> 0 .. MaxRequests]
    BY DEF TypeOK, SessionType
  <2>2. req' \in [Workers -> 0 .. MaxRequests] /\ req'[w] = nRequests'
    BY <1>2, <1>3, <2>1
  <2>3. \A v \in Workers : req'[v] = req[v] \/ v = w
    BY <1>3, <2>1
  <2>4. QED
    BY <1>2, <2>2, <2>3 DEF ReqMoves
<1>5. QED
  BY <1>1, <1>2, <1>4

LEMMA LogAsType ==
  ASSUME LogType, NEW r, NEW kind \in AllKinds \cup {"none"},
         NEW status \in Statuses, LogAs(r, kind, status)
  PROVE  log' \in [Request -> LogEntry]
BY DEF LogType, LogEntry, LogAs

LEMMA TouchType ==
  ASSUME NEW w, NEW S, Touch(w, S), HistoryType
  PROVE  fresh' \in [Workers -> BOOLEAN]
BY DEF HistoryType, Touch

LEMMA NewBatchType ==
  ASSUME DbType, NEW i \in Items, NEW q \in Nat,
         NEW rem \in [Batch -> Int], NEW mov \in [Batch -> Int],
         NewBatch(i, q, rem, mov), stored' \in [Items -> Int]
  PROVE  DbType'
<1>1. nBatches' \in 0 .. MaxBatches
  BY BatchFacts DEF DbType, NewBatch
<1>2. itemOf' \in [Batch -> Items \cup {NoItem}]
  BY DEF DbType, NewBatch
<1>3. initial' \in [Batch -> Nat]
  BY DEF DbType, NewBatch
<1>4. remaining' \in [Batch -> Int] /\ moved' \in [Batch -> Int]
  <2>1. /\ remaining' = [rem EXCEPT ![nBatches + 1] = q]
        /\ moved' = [mov EXCEPT ![nBatches + 1] = q]
        /\ q \in Int
    BY DEF NewBatch
  <2>2. QED
    BY <2>1
<1>5. QED
  BY <1>1, <1>2, <1>3, <1>4 DEF DbType

(***************************************************************************)
(* A session that takes a request on an item to its next statement.        *)
(***************************************************************************)
LEMMA SessionStartType ==
  ASSUME SessionType, NEW w \in Workers, NEW next \in PCs,
         NEW o \in Operation, o.item \in Items, o.kind \in AllKinds,
         pc' = [pc EXCEPT ![w] = next],
         op' = [op EXCEPT ![w] = o],
         ReqMoves(w), req'[w] \in Request,
         base' \in [Workers -> Int],
         UNCHANGED <<seen, taken, line>>
  PROVE  SessionType'
<1>1. pc' \in [Workers -> PCs] /\ op' \in [Workers -> Operation]
  BY DEF SessionType
<1>2. \A v \in Workers : \/ pc'[v] \in {"idle", "journal"}
                         \/ op'[v].item \in Items /\ op'[v].kind \in AllKinds
  BY DEF SessionType
<1>3. \A v \in Workers : pc'[v] = "idle" \/ req'[v] \in Request
  BY DEF SessionType, ReqMoves
<1>4. QED
  BY <1>1, <1>2, <1>3 DEF SessionType, ReqMoves

(***************************************************************************)
(* A step of any action keeps the types.                                   *)
(***************************************************************************)
LEMMA PurchaseType ==
  ASSUME TypeOK, NEW w \in Workers, NEW i \in Items, NEW q \in Qtys,
         NEW kind, Purchase(w, kind, i, q)
  PROVE  TypeOK'
<1>1. /\ kind \in AllKinds
      /\ nRequests' \in 0 .. MaxRequests
      /\ ReqMoves(w) /\ req'[w] \in Request
      /\ q \in Nat
  BY ArriveType, RequestAssumption DEF Purchase
<1>2. DbType'
  <2>1. stored' \in [Items -> Int]
    BY <1>1 DEF TypeOK, DbType, Purchase
  <2>2. /\ NewBatch(i, q, remaining, moved)
        /\ remaining \in [Batch -> Int]
        /\ moved \in [Batch -> Int]
    BY DEF TypeOK, DbType, Purchase
  <2>3. QED
    BY <1>1, <2>1, <2>2, NewBatchType DEF TypeOK
<1>3. LogType'
  <2>1. log' \in [Request -> LogEntry]
    BY <1>1, LogAsType DEF TypeOK, Purchase, Statuses
  <2>2. QED
    BY <1>1, <2>1 DEF TypeOK, LogType, Purchase
<1>4. SessionType'
  BY <1>1, ToJournalType DEF TypeOK, Purchase
<1>5. HistoryType'
  <2>1. fresh' \in [Workers -> BOOLEAN]
    BY TouchType DEF TypeOK, Purchase
  <2>2. acked' \in [Items -> Int]
    BY <1>1 DEF TypeOK, HistoryType, Purchase
  <2>3. QED
    BY <2>1, <2>2 DEF TypeOK, HistoryType, Purchase
<1>6. QED
  BY <1>2, <1>3, <1>4, <1>5 DEF TypeOK

LEMMA SumStockType ==
  ASSUME TypeOK, NEW w \in Workers, NEW i \in Items, NEW q \in Qtys,
         NEW kind, SumStock(w, kind, i, q)
  PROVE  TypeOK'
<1>1. /\ kind \in AllKinds
      /\ nRequests' \in 0 .. MaxRequests
      /\ ReqMoves(w) /\ req'[w] \in Request
      /\ q \in Nat
  BY ArriveType, RequestAssumption DEF SumStock
<1>2. DbType'
  BY DEF TypeOK, DbType, SumStock, db
<1>3. LogType'
  <2>1. log' \in [Request -> LogEntry]
    BY <1>1, LogAsType DEF TypeOK, SumStock, Statuses
  <2>2. QED
    BY <1>1, <2>1 DEF TypeOK, LogType, SumStock
<1>4. SessionType'
  <2>1. CASE OnHand(i) < q
    BY <1>1, <2>1 DEF TypeOK, SessionType, ReqMoves, SumStock
  <2>2. CASE ~(OnHand(i) < q)
    <3> DEFINE o == Body(kind, i, q)
    <3>1. o \in Operation /\ o.item = i /\ o.kind = kind
      BY <1>1, BodyType
    <3>2. /\ pc' = [pc EXCEPT ![w] = "batches"]
          /\ op' = [op EXCEPT ![w] = o]
          /\ UNCHANGED <<seen, taken, base, line>>
      BY <2>2 DEF SumStock
    <3>3. base' \in [Workers -> Int] /\ "batches" \in PCs
      BY <3>2 DEF TypeOK, SessionType, PCs
    <3> HIDE DEF o
    <3>4. QED
      BY <1>1, <3>1, <3>2, <3>3, SessionStartType DEF TypeOK
  <2>3. QED
    BY <2>1, <2>2
<1>5. HistoryType'
  BY DEF TypeOK, HistoryType, SumStock
<1>6. QED
  BY <1>2, <1>3, <1>4, <1>5 DEF TypeOK

LEMMA StockInReadType ==
  ASSUME TypeOK, NEW w \in Workers, NEW i \in Items, NEW q \in Qtys,
         StockInRead(w, i, q)
  PROVE  TypeOK'
<1>1. /\ "stock_in" \in AllKinds
      /\ nRequests' \in 0 .. MaxRequests
      /\ ReqMoves(w) /\ req'[w] \in Request
      /\ q \in Nat
  BY ArriveType, RequestAssumption DEF StockInRead
<1>2. DbType'
  BY DEF TypeOK, DbType, StockInRead, db
<1>3. LogType'
  <2>1. log' \in [Request -> LogEntry]
    BY <1>1, LogAsType DEF TypeOK, StockInRead, Statuses
  <2>2. QED
    BY <1>1, <2>1 DEF TypeOK, LogType, StockInRead
<1>4. SessionType'
  <2> DEFINE o == Body("stock_in", i, q)
  <2>1. o \in Operation /\ o.item = i /\ o.kind = "stock_in"
    BY <1>1, BodyType
  <2>2. /\ pc' = [pc EXCEPT ![w] = "insert"]
        /\ op' = [op EXCEPT ![w] = o]
        /\ UNCHANGED <<seen, taken, line>>
    BY DEF StockInRead
  <2>3. base' \in [Workers -> Int] /\ "insert" \in PCs
    BY DEF TypeOK, DbType, SessionType, PCs, StockInRead
  <2> HIDE DEF o
  <2>4. QED
    BY <1>1, <2>1, <2>2, <2>3, SessionStartType DEF TypeOK
<1>5. HistoryType'
  BY DEF TypeOK, HistoryType, StockInRead
<1>6. QED
  BY <1>2, <1>3, <1>4, <1>5 DEF TypeOK

LEMMA ItemPutReadType ==
  ASSUME TypeOK, NEW w \in Workers, NEW i \in Items, NEW q \in Qtys,
         ItemPutRead(w, i, q)
  PROVE  TypeOK'
<1>1. /\ "item_put" \in AllKinds
      /\ nRequests' \in 0 .. MaxRequests
      /\ ReqMoves(w) /\ req'[w] \in Request
      /\ q \in Nat
  BY ArriveType, RequestAssumption DEF ItemPutRead
<1>2. DbType'
  BY DEF TypeOK, DbType, ItemPutRead, db
<1>3. LogType'
  <2>1. log' \in [Request -> LogEntry]
    BY <1>1, LogAsType DEF TypeOK, ItemPutRead, Statuses
  <2>2. QED
    BY <1>1, <2>1 DEF TypeOK, LogType, ItemPutRead
<1>4. SessionType'
  <2> DEFINE o == Body("item_put", i, q)
  <2>1. o \in Operation /\ o.item = i /\ o.kind = "item_put"
    BY <1>1, BodyType
  <2>2. /\ pc' = [pc EXCEPT ![w] = "put"]
        /\ op' = [op EXCEPT ![w] = o]
        /\ UNCHANGED <<seen, taken, line>>
    BY DEF ItemPutRead
  <2>3. base' \in [Workers -> Int] /\ "put" \in PCs
    BY DEF TypeOK, DbType, SessionType, PCs, ItemPutRead
  <2> HIDE DEF o
  <2>4. QED
    BY <1>1, <2>1, <2>2, <2>3, SessionStartType DEF TypeOK
<1>5. HistoryType'
  BY DEF TypeOK, HistoryType, ItemPutRead
<1>6. QED
  BY <1>2, <1>3, <1>4, <1>5 DEF TypeOK

LEMMA InventoryRunType ==
  ASSUME TypeOK, NEW w \in Workers, NEW from \in Items, NEW to \in Items,
         NEW q \in Qtys, InventoryRun(w, from, to, q)
  PROVE  TypeOK'
<1>1. /\ "inventory_run" \in AllKinds
      /\ nRequests' \in 0 .. MaxRequests
      /\ ReqMoves(w) /\ req'[w] \in Request
      /\ q \in Nat
  BY ArriveType, RequestAssumption DEF InventoryRun
<1>2. DbType'
  <2>1. stored' \in [Items -> Int]
    BY <1>1 DEF TypeOK, DbType, InventoryRun
  <2>2. QED
    BY <2>1 DEF TypeOK, DbType, InventoryRun
<1>3. LogType'
  <2>1. log' \in [Request -> LogEntry]
    BY <1>1, LogAsType DEF TypeOK, InventoryRun, Statuses
  <2>2. QED
    BY <1>1, <2>1 DEF TypeOK, LogType, InventoryRun
<1>4. SessionType'
  BY <1>1, ToJournalType DEF TypeOK, InventoryRun
<1>5. HistoryType'
  BY DEF TypeOK, HistoryType, InventoryRun
<1>6. QED
  BY <1>2, <1>3, <1>4, <1>5 DEF TypeOK

LEMMA ValidateRunType ==
  ASSUME TypeOK, NEW w \in Workers, NEW run \in Runs, ValidateRun(w, run)
  PROVE  TypeOK'
<1>1. /\ "run" \in AllKinds
      /\ nRequests' \in 0 .. MaxRequests
      /\ ReqMoves(w) /\ req'[w] \in Request
  BY ArriveType DEF ValidateRun
<1>2. DbType'
  BY DEF TypeOK, DbType, ValidateRun, db
<1>3. LogType'
  <2>1. log' \in [Request -> LogEntry]
    BY <1>1, LogAsType DEF TypeOK, ValidateRun, Statuses
  <2>2. QED
    BY <1>1, <2>1 DEF TypeOK, LogType, ValidateRun
<1>4. SessionType'
  <2> DEFINE o == [kind |-> "run", item |-> run.item,
                   qty |-> run.qty, lines |-> run.lines]
  <2>1. o \in Operation /\ o.item \in Items /\ o.kind \in AllKinds
    BY <1>1, RunType DEF Operation
  <2>2. PICK next \in {"record", "begin"} : pc' = [pc EXCEPT ![w] = next]
    BY DEF ValidateRun
  <2>3. /\ op' = [op EXCEPT ![w] = o]
        /\ UNCHANGED <<seen, taken, base, line>>
    BY DEF ValidateRun
  <2>4. base' \in [Workers -> Int] /\ next \in PCs
    BY <2>3 DEF TypeOK, SessionType, PCs
  <2> HIDE DEF o
  <2>5. QED
    BY <1>1, <2>1, <2>2, <2>3, <2>4, SessionStartType DEF TypeOK
<1>5. HistoryType'
  BY DEF TypeOK, HistoryType, ValidateRun
<1>6. QED
  BY <1>2, <1>3, <1>4, <1>5 DEF TypeOK

LEMMA ReadsType ==
  ASSUME TypeOK, NEW w \in Workers, ReadBatches(w) \/ ReadItem(w)
  PROVE  TypeOK'
<1>1. DbType'
  BY DEF TypeOK, DbType, ReadBatches, ReadItem, db
<1>2. CASE ReadItem(w)
  <2>1. LogType' /\ HistoryType'
    BY <1>2 DEF TypeOK, LogType, HistoryType, ReadItem
  <2>2. base' \in [Workers -> Int] /\ pc' \in [Workers -> PCs]
    BY <1>2 DEF TypeOK, DbType, SessionType, ReadItem, PCs
  <2>3. \A v \in Workers : \/ pc'[v] \in {"idle", "journal"}
                           \/ op[v].item \in Items /\ op[v].kind \in AllKinds
    BY <1>2 DEF TypeOK, SessionType, ReadItem
  <2>4. \A v \in Workers : pc'[v] = "idle" \/ req[v] \in Request
    BY <1>2 DEF TypeOK, SessionType, ReadItem
  <2>5. SessionType'
    BY <1>2, <2>2, <2>3, <2>4 DEF TypeOK, SessionType, ReadItem
  <2>6. QED
    BY <1>1, <2>1, <2>5 DEF TypeOK
<1>3. CASE ReadBatches(w)
  <2> DEFINE avail == OfItem(remaining, op[w].item)
             short == Short(avail, op[w].qty)
             take  == FifoTake(avail, op[w].qty, MaxBatches)
  <2>1. avail \in [Batch -> Int]
    BY DEF TypeOK, DbType, OfItem
  <2>2. CASE short
    <3>1. /\ LogAs(req[w], op[w].kind, "rejected")
          /\ EndSession(w)
          /\ UNCHANGED fresh
      BY <1>3, <2>2 DEF ReadBatches
    <3>2. log' \in [Request -> LogEntry]
      <4>1. op[w].kind \in AllKinds \cup {"none"}
        BY DEF TypeOK, SessionType, Operation
      <4>2. QED
        BY <3>1, <4>1, LogAsType DEF TypeOK, Statuses
    <3>3. LogType' /\ HistoryType'
      BY <1>3, <3>1, <3>2 DEF TypeOK, LogType, HistoryType, ReadBatches
    <3>4. SessionType'
      <4>1. ReqMoves(w)
        BY <1>3, ReqStays DEF TypeOK, ReadBatches
      <4>2. QED
        BY <3>1, <4>1, EndSessionType DEF TypeOK
    <3>5. QED
      BY <1>1, <3>3, <3>4 DEF TypeOK
  <2>3. CASE ~short
    <3>1. /\ pc' = [pc EXCEPT ![w] = "item"]
          /\ seen' = [seen EXCEPT ![w] = avail]
          /\ taken' = [taken EXCEPT ![w] = take]
          /\ fresh' = [fresh EXCEPT ![w] = TRUE]
          /\ UNCHANGED <<log, op, base, line, req>>
      BY <1>3, <2>3 DEF ReadBatches
    <3>2. take \in [Batch -> Int]
      <4>1. \A b \in 1 .. MaxBatches : avail[b] \in Int
        BY <2>1 DEF Batch
      <4>2. op[w].qty \in Int
        BY DEF TypeOK, SessionType, Operation
      <4> HIDE DEF avail
      <4>3. QED
        BY <4>1, <4>2, TakeInt, BatchFacts
    <3>3. LogType' /\ HistoryType'
      BY <1>3, <3>1 DEF TypeOK, LogType, HistoryType, ReadBatches
    <3>4. SessionType'
      <4> HIDE DEF avail, take
      <4>1. /\ seen' \in [Workers -> [Batch -> Int]]
            /\ taken' \in [Workers -> [Batch -> Int]]
        BY <2>1, <3>1, <3>2 DEF TypeOK, SessionType
      <4>2. pc' \in [Workers -> PCs]
        BY <3>1 DEF TypeOK, SessionType, PCs
      <4>3. \A v \in Workers :
               \/ pc'[v] \in {"idle", "journal"}
               \/ op[v].item \in Items /\ op[v].kind \in AllKinds
        BY <1>3, <3>1 DEF TypeOK, SessionType, ReadBatches
      <4>4. \A v \in Workers : pc'[v] = "idle" \/ req[v] \in Request
        BY <1>3, <3>1 DEF TypeOK, SessionType, ReadBatches
      <4>5. QED
        BY <3>1, <4>1, <4>2, <4>3, <4>4 DEF TypeOK, SessionType
    <3>5. QED
      BY <1>1, <3>3, <3>4 DEF TypeOK
  <2>4. QED
    BY <2>2, <2>3
<1>4. QED
  BY <1>2, <1>3

LEMMA StockInCommitType ==
  ASSUME TypeOK, NEW w \in Workers, StockInCommit(w)
  PROVE  TypeOK'
<1> DEFINE i == op[w].item
           q == op[w].qty
<1>1. /\ i \in Items
      /\ q \in Nat
      /\ ReqMoves(w) /\ req'[w] \in Request
  <2>1. pc[w] \notin {"idle", "journal"} /\ UNCHANGED req
    BY DEF StockInCommit
  <2>2. i \in Items /\ q \in Nat
    BY <2>1 DEF TypeOK, SessionType, Operation
  <2>3. QED
    BY <2>1, <2>2, ReqStays DEF TypeOK
<1>2. DbType'
  <2>1. stored' \in [Items -> Int]
    BY <1>1 DEF TypeOK, DbType, SessionType, StockInCommit
  <2>2. /\ NewBatch(i, q, remaining, moved)
        /\ remaining \in [Batch -> Int]
        /\ moved \in [Batch -> Int]
    BY DEF TypeOK, DbType, StockInCommit
  <2> HIDE DEF i, q
  <2>3. QED
    BY <1>1, <2>1, <2>2, NewBatchType DEF TypeOK
<1>3. LogType'
  <2>1. log' \in [Request -> LogEntry]
    BY LogAsType, KindsType DEF TypeOK, StockInCommit, Statuses
  <2>2. QED
    BY <2>1 DEF TypeOK, LogType, StockInCommit
<1>4. SessionType'
  BY <1>1, EndSessionType DEF TypeOK, StockInCommit
<1>5. HistoryType'
  <2>1. fresh' \in [Workers -> BOOLEAN]
    BY TouchType DEF TypeOK, StockInCommit
  <2>2. acked' \in [Items -> Int] /\ clobbered' \subseteq Items
    BY <1>1 DEF TypeOK, HistoryType, StockInCommit
  <2>3. QED
    BY <2>1, <2>2 DEF TypeOK, HistoryType, StockInCommit
<1>6. QED
  BY <1>2, <1>3, <1>4, <1>5 DEF TypeOK

LEMMA IssueCommitType ==
  ASSUME TypeOK, NEW w \in Workers, IssueCommit(w)
  PROVE  TypeOK'
<1> DEFINE i == op[w].item
<1>1. /\ i \in Items
      /\ op[w].qty \in Nat
      /\ op[w].kind \in AllKinds
      /\ ReqMoves(w) /\ req'[w] \in Request
  <2>1. pc[w] \notin {"idle", "journal"} /\ UNCHANGED req
    BY DEF IssueCommit
  <2>2. i \in Items /\ op[w].qty \in Nat /\ op[w].kind \in AllKinds
    BY <2>1 DEF TypeOK, SessionType, Operation
  <2>3. QED
    BY <2>1, <2>2, ReqStays DEF TypeOK
<1>2. DbType'
  <2>1. stored' \in [Items -> Int]
    BY <1>1 DEF TypeOK, DbType, SessionType, IssueCommit
  <2>2. remaining' \in [Batch -> Int]
    BY DEF TypeOK, DbType, SessionType, IssueCommit, Written
  <2>3. moved' \in [Batch -> Int]
    BY DEF TypeOK, DbType, SessionType, IssueCommit
  <2>4. QED
    BY <2>1, <2>2, <2>3 DEF TypeOK, DbType, IssueCommit
<1>3. LogType'
  <2>1. log' \in [Request -> LogEntry]
    BY <1>1, LogAsType DEF TypeOK, IssueCommit, Statuses
  <2>2. QED
    BY <2>1 DEF TypeOK, LogType, IssueCommit
<1>4. SessionType'
  BY <1>1, ToJournalType DEF TypeOK, IssueCommit
<1>5. HistoryType'
  <2>1. fresh' \in [Workers -> BOOLEAN]
    BY TouchType DEF TypeOK, IssueCommit
  <2>2. acked' \in [Items -> Int] /\ clobbered' \subseteq Items
    BY <1>1 DEF TypeOK, HistoryType, IssueCommit
  <2>3. QED
    BY <2>1, <2>2 DEF TypeOK, HistoryType, IssueCommit
<1>6. QED
  BY <1>2, <1>3, <1>4, <1>5 DEF TypeOK

LEMMA BeginRunType ==
  ASSUME TypeOK, NEW w \in Workers, BeginRun(w)
  PROVE  TypeOK'
<1>1. DbType'
  BY DEF TypeOK, DbType, BeginRun, db
<1>2. LogType' /\ HistoryType'
  BY DEF TypeOK, LogType, HistoryType, BeginRun, TakeLock,
         ReleaseLock
<1>3. SessionType'
  <2>1. pc' \in [Workers -> PCs] /\ line' \in [Workers -> Nat]
    BY DEF TypeOK, SessionType, BeginRun, PCs
  <2>2. seen' \in [Workers -> [Batch -> Int]]
    BY DEF TypeOK, SessionType, DbType, BeginRun
  <2>3. \A v \in Workers : \/ pc'[v] \in {"idle", "journal"}
                           \/ op[v].item \in Items /\ op[v].kind \in AllKinds
    BY DEF TypeOK, SessionType, BeginRun
  <2>4. \A v \in Workers : pc'[v] = "idle" \/ req[v] \in Request
    BY DEF TypeOK, SessionType, BeginRun
  <2>5. QED
    BY <2>1, <2>2, <2>3, <2>4 DEF TypeOK, SessionType, BeginRun
<1>4. QED
  BY <1>1, <1>2, <1>3 DEF TypeOK

(***************************************************************************)
(* The current line of a run is a line of its recipe.                      *)
(***************************************************************************)
LEMMA LineType ==
  ASSUME NEW lines \in Lines, NEW n \in DOMAIN lines
  PROVE  /\ lines[n].item \in Items
         /\ lines[n].qty \in Nat
         /\ lines[n].optional \in BOOLEAN
<1> DEFINE T == [item : Items, qty : Nat, optional : BOOLEAN]
<1>1. lines \in Seq(T)
  BY DEF Lines
<1> HIDE DEF T
<1>2. lines[n] \in T
  BY <1>1
<1>3. QED
  BY <1>2 DEF T

LEMMA AllocateLineType ==
  ASSUME TypeOK, NEW w \in Workers, AllocateLine(w)
  PROVE  TypeOK'
<1> DEFINE l     == op[w].lines[line[w]]
           avail == Unallocated(w, l.item)
           take  == FifoTake(avail, l.qty, MaxBatches)
<1>1. DbType'
  BY DEF TypeOK, DbType, AllocateLine, db
<1>2. LogType' /\ HistoryType'
  BY DEF TypeOK, LogType, HistoryType, AllocateLine, TakeLock,
         ReleaseLock
<1>3. l.qty \in Int
  <2>1. op[w].lines \in Lines /\ line[w] \in DOMAIN op[w].lines
    BY DEF TypeOK, SessionType, Operation, AllocateLine
  <2>2. QED
    BY <2>1, LineType
<1>4. take \in [Batch -> Int]
  <2>1. \A b \in Batch : avail[b] \in Int
    <3>1. seen[w] \in [Batch -> Int] /\ taken[w] \in [Batch -> Int]
      BY DEF TypeOK, SessionType
    <3>2. QED
      BY <3>1 DEF Unallocated
  <2> HIDE DEF avail
  <2>2. QED
    BY <1>3, <2>1, TakeInt, BatchFacts
<1>5. SessionType'
  <2>1. /\ \/ UNCHANGED pc
           \/ pc' = [pc EXCEPT ![w] = "record"]
        /\ \/ line' = [line EXCEPT ![w] = @ + 1]
           \/ line' = [line EXCEPT ![w] = 0]
        /\ \/ UNCHANGED seen
           \/ seen' = [seen EXCEPT ![w] = Zero]
        /\ UNCHANGED <<op, req, base>>
        /\ pc[w] = "alloc"
    BY DEF AllocateLine
  <2>2. line' \in [Workers -> Nat] /\ pc' \in [Workers -> PCs]
    <3>1. line \in [Workers -> Nat] /\ pc \in [Workers -> PCs]
      BY DEF TypeOK, SessionType
    <3>2. line' \in [Workers -> Nat]
      BY <2>1, <3>1
    <3>3. pc' \in [Workers -> PCs]
      BY <2>1, <3>1 DEF PCs
    <3>4. QED
      BY <3>2, <3>3
  <2>3. seen' \in [Workers -> [Batch -> Int]]
    BY <2>1, ZeroType DEF TypeOK, SessionType
  <2>4. ASSUME NEW v \in Workers
        PROVE  /\ \/ pc'[v] \in {"idle", "journal"}
                  \/ op[v].item \in Items /\ op[v].kind \in AllKinds
               /\ pc'[v] = "idle" \/ req[v] \in Request
    <3>1. \/ pc'[v] = pc[v]
          \/ v = w /\ pc[v] = "alloc"
      BY <2>1 DEF TypeOK, SessionType
    <3>2. QED
      BY <3>1 DEF TypeOK, SessionType
  <2>5. taken' \in [Workers -> [Batch -> Int]]
    <3>1. \/ UNCHANGED taken
          \/ taken' = [taken EXCEPT ![w] = Zero]
          \/ taken' = [taken EXCEPT ![w] =
                         [b \in Batch |-> taken[w][b] + take[b]]]
      BY DEF AllocateLine
    <3> HIDE DEF take
    <3>2. [b \in Batch |-> taken[w][b] + take[b]] \in [Batch -> Int]
      BY <1>4 DEF TypeOK, SessionType
    <3>3. QED
      BY <3>1, <3>2, ZeroType DEF TypeOK, SessionType
  <2>6. QED
    BY <2>1, <2>2, <2>3, <2>4, <2>5 DEF TypeOK, SessionType
<1>6. QED
  BY <1>1, <1>2, <1>5 DEF TypeOK

LEMMA RunCommitType ==
  ASSUME TypeOK, NEW w \in Workers, RunCommit(w)
  PROVE  TypeOK'
<1> DEFINE i    == op[w].item
           q    == op[w].qty
           rem  == Written(w)
           mov  == [b \in Batch |-> moved[b] - taken[w][b]]
           net  == NetOf(w)
<1>1. /\ i \in Items
      /\ q \in Nat
      /\ ReqMoves(w) /\ req'[w] \in Request
  <2>1. pc[w] \notin {"idle", "journal"} /\ UNCHANGED req
    BY DEF RunCommit
  <2>2. i \in Items /\ q \in Nat
    BY <2>1 DEF TypeOK, SessionType, Operation
  <2>3. QED
    BY <2>1, <2>2, ReqStays DEF TypeOK
<1>2. net \in [Items -> Int]
  <2>1. \A j \in Items : SumOf(taken[w], j) \in Int
    BY SumOfInt DEF TypeOK, SessionType
  <2>2. QED
    BY <1>1, <2>1 DEF NetOf
<1>3. /\ stored' = [j \in Items |-> stored[j] + net[j]]
      /\ acked' = [j \in Items |-> acked[j] + net[j]]
      /\ NewBatch(i, q, rem, mov)
  BY DEF RunCommit
<1>4. rem \in [Batch -> Int] /\ mov \in [Batch -> Int]
  BY DEF TypeOK, SessionType, DbType, Written
<1> HIDE DEF i, q, rem, mov, net
<1>5. DbType'
  <2>1. stored' \in [Items -> Int]
    BY <1>2, <1>3 DEF TypeOK, DbType
  <2>2. QED
    BY <1>1, <1>3, <1>4, <2>1, NewBatchType DEF TypeOK
<1>6. LogType'
  <2>1. log' \in [Request -> LogEntry]
    BY LogAsType, KindsType DEF TypeOK, RunCommit, Statuses
  <2>2. QED
    BY <2>1 DEF TypeOK, LogType, RunCommit, ReleaseLock
<1>7. SessionType'
  BY <1>1, ToJournalType DEF TypeOK, RunCommit
<1>8. HistoryType'
  <2>1. fresh' \in [Workers -> BOOLEAN]
    BY TouchType DEF TypeOK, RunCommit
  <2>2. acked' \in [Items -> Int]
    BY <1>2, <1>3 DEF TypeOK, HistoryType
  <2>3. QED
    BY <2>1, <2>2 DEF TypeOK, HistoryType, RunCommit
<1>9. QED
  BY <1>5, <1>6, <1>7, <1>8 DEF TypeOK

LEMMA EndsType ==
  ASSUME TypeOK, NEW w \in Workers,
         RecordFailedRun(w) \/ Busy(w) \/ AppendJournal(w) \/ ItemPutCommit(w)
  PROVE  TypeOK'
<1>1. /\ op[w].qty \in Nat
      /\ op[w].kind \in AllKinds \cup {"none"}
      /\ ReqMoves(w)
  <2>1. pc[w] # "idle" /\ UNCHANGED req
    BY DEF RecordFailedRun, Busy, AppendJournal, ItemPutCommit
  <2>2. op[w] \in Operation
    BY DEF TypeOK, SessionType
  <2>3. QED
    BY <2>1, <2>2, ReqStays DEF TypeOK, Operation
<1>2. SessionType'
  BY <1>1, EndSessionType
     DEF TypeOK, RecordFailedRun, Busy, AppendJournal, ItemPutCommit
<1>3. log' \in [Request -> LogEntry]
  <2>1. CASE AppendJournal(w)
    BY <2>1 DEF TypeOK, LogType, AppendJournal
  <2>2. CASE RecordFailedRun(w)
    BY <2>2, LogAsType, KindsType DEF TypeOK, RecordFailedRun, Statuses
  <2>3. CASE Busy(w)
    BY <2>3, <1>1, LogAsType DEF TypeOK, Busy, Statuses
  <2>4. CASE ItemPutCommit(w)
    BY <2>4, LogAsType, KindsType DEF TypeOK, ItemPutCommit, Statuses
  <2>5. QED
    BY <2>1, <2>2, <2>3, <2>4
<1>4. CASE ItemPutCommit(w)
  <2>1. op[w].item \in Items
    BY <1>4 DEF TypeOK, SessionType, ItemPutCommit
  <2>2. stored' \in [Items -> Int] /\ rewritten' \subseteq Items
    BY <1>1, <1>4, <2>1 DEF TypeOK, DbType, HistoryType, ItemPutCommit
  <2>3. DbType' /\ HistoryType'
    BY <1>4, <2>2 DEF TypeOK, DbType, HistoryType, ItemPutCommit
  <2>4. LogType'
    BY <1>3, <1>4 DEF TypeOK, LogType, ItemPutCommit
  <2>5. QED
    BY <1>2, <2>3, <2>4 DEF TypeOK
<1>5. CASE RecordFailedRun(w) \/ Busy(w) \/ AppendJournal(w)
  <2>1. DbType' /\ HistoryType'
    <3>1. CASE AppendJournal(w)
      <4>1. req[w] \in Request
        BY <3>1 DEF TypeOK, SessionType, AppendJournal
      <4>2. lost' \subseteq lost \cup {req[w]}
            /\ UNCHANGED <<db, acked, fresh, clobbered, rewritten>>
        BY <3>1 DEF AppendJournal
      <4>3. QED
        BY <4>1, <4>2 DEF TypeOK, DbType, HistoryType, db
    <3>2. QED
      BY <1>5, <3>1 DEF TypeOK, DbType, HistoryType, RecordFailedRun, Busy,
                        db
  <2>2. journal' \subseteq Request
    <3>1. CASE AppendJournal(w)
      <4>1. req[w] \in Request
        BY <3>1 DEF TypeOK, SessionType, AppendJournal
      <4>2. QED
        BY <3>1, <4>1 DEF TypeOK, LogType, AppendJournal
    <3>2. QED
      BY <1>5, <3>1 DEF TypeOK, LogType, RecordFailedRun, Busy
  <2>3. LogType'
    BY <1>3, <1>5, <2>2 DEF TypeOK, LogType, RecordFailedRun, Busy,
                            AppendJournal
  <2>4. QED
    BY <1>2, <2>1, <2>3 DEF TypeOK
<1>6. QED
  BY <1>4, <1>5

LEMMA CrashType ==
  ASSUME TypeOK, Crash
  PROVE  TypeOK'
<1>h. HistoryType'
  <2>1. /\ lost' \subseteq Request
        /\ UNCHANGED <<acked, fresh, clobbered, rewritten>>
    BY DEF TypeOK, SessionType, HistoryType, Crash
  <2>2. QED
    BY <2>1 DEF TypeOK, HistoryType
<1>1. DbType' /\ HistoryType' /\ LogType'
  BY <1>h DEF TypeOK, DbType, LogType, Crash, db
<1>2. SessionType'
  BY NoOpType, ZeroType DEF TypeOK, SessionType, Crash, PCs
<1>3. QED
  BY <1>1, <1>2 DEF TypeOK

LEMMA TypeStep == TypeOK /\ [Next]_vars => TypeOK'
<1> SUFFICES ASSUME TypeOK, [Next]_vars PROVE TypeOK'
  OBVIOUS
<1>1. ASSUME NEW w \in Workers, NewRequest(w) PROVE TypeOK'
  BY <1>1, PurchaseType, SumStockType, StockInReadType, ItemPutReadType,
     InventoryRunType, ValidateRunType DEF NewRequest
<1>2. ASSUME NEW w \in Workers, Continue(w) PROVE TypeOK'
  BY <1>2, StockInCommitType, ReadsType, IssueCommitType, BeginRunType,
     AllocateLineType, RunCommitType, EndsType DEF Continue
<1>3. CASE UNCHANGED vars
  BY <1>3 DEF vars, db, sess, TypeOK, DbType, LogType, SessionType,
              HistoryType
<1>4. QED
  BY <1>1, <1>2, <1>3, CrashType DEF Next

(***************************************************************************)
(* Every variable of the ledger keeps its type, whatever the requests and  *)
(* their interleaving.                                                     *)
(***************************************************************************)
THEOREM TypeCorrect == Spec => []TypeOK
BY TypeInit, TypeStep, PTL DEF Spec
-----------------------------------------------------------------------------
(***************************************************************************)
(* The journal.  JournalAfterCommit is not inductive: that the request     *)
(* about to be journaled was committed, and that no request that is still  *)
(* open or yet to come has a line, are LogInv.                             *)
(***************************************************************************)
JournalInv == LogInv /\ JournalAfterCommit

\* Where the helpers that end a session leave its worker.
LEMMA EndSessionPc ==
  ASSUME SessionType, NEW w \in Workers, EndSession(w)
  PROVE  pc'[w] = "idle" /\ \A v \in Workers : v # w => pc'[v] = pc[v]
BY DEF SessionType, EndSession

LEMMA ToJournalPc ==
  ASSUME SessionType, NEW w \in Workers, ToJournal(w)
  PROVE  pc'[w] = "journal" /\ \A v \in Workers : v # w => pc'[v] = pc[v]
BY DEF SessionType, ToJournal

LEMMA JournalInit == Init => JournalInv
BY DEF Init, JournalInv, LogInv, JournalAfterCommit, Active

\* A request arrives; the status it is logged with fits where w goes.
LEMMA JournalArrive ==
  ASSUME TypeOK, JournalInv, NEW w \in Workers, NEW kind, NEW status,
         Arrive(w, kind), LogAs(nRequests + 1, kind, status),
         UNCHANGED journal,
         \A v \in Workers : v # w => pc'[v] = pc[v],
         \/ pc'[w] = "idle"
         \/ pc'[w] = "journal" /\ status = "committed"
         \/ pc'[w] \notin {"idle", "journal"} /\ status = "open"
  PROVE  JournalInv'
<1> DEFINE n == nRequests + 1
<1>1. /\ nRequests \in Nat /\ nRequests' = n /\ n \in Request
      /\ req'[w] = n
      /\ \A v \in Workers : v # w => req'[v] = req[v]
  BY BatchFacts DEF Arrive, TypeOK, LogType, SessionType
<1>2. /\ log'[n].status = status
      /\ \A r \in Request : r # n => log'[r] = log[r]
  BY <1>1 DEF LogAs, TypeOK, LogType
<1>3. \A v \in Workers : v # w /\ Active(v) => req[v] \in 1 .. nRequests
  BY DEF JournalInv, LogInv
<1>4. 1 .. nRequests \subseteq Request /\ 1 .. nRequests \subseteq 1 .. n
      /\ n \notin 1 .. nRequests /\ n \in 1 .. n
  BY <1>1, BatchFacts DEF TypeOK, LogType
<1> HIDE DEF n
<1>5. ASSUME NEW v \in Workers, Active(v)'
      PROVE  /\ req'[v] \in 1 .. nRequests'
             /\ log'[req'[v]].status = IF pc'[v] = "journal" THEN "committed"
                                                             ELSE "open"
  <2>1. CASE v = w
    BY <2>1, <1>1, <1>2, <1>4, <1>5 DEF Active
  <2>2. CASE v # w
    <3>1. Active(v) /\ pc'[v] = pc[v] /\ req'[v] = req[v]
      BY <2>2, <1>1, <1>5 DEF Active
    <3>2. req[v] \in 1 .. nRequests /\ log'[req[v]] = log[req[v]]
      BY <2>2, <3>1, <1>2, <1>3, <1>4
    <3>3. QED
      BY <3>1, <3>2, <1>1, <1>4 DEF JournalInv, LogInv
  <2>3. QED
    BY <2>1, <2>2
<1>6. ASSUME NEW u \in Workers, NEW v \in Workers, u # v,
             Active(u)', Active(v)'
      PROVE  req'[u] # req'[v]
  <2>1. CASE u # w /\ v # w
    BY <2>1, <1>1, <1>6 DEF Active, JournalInv, LogInv
  <2>2. CASE u = w \/ v = w
    BY <2>2, <1>1, <1>3, <1>4, <1>6 DEF Active
  <2>3. QED
    BY <2>1, <2>2
<1>7. journal' \subseteq 1 .. nRequests' /\ JournalAfterCommit'
  BY <1>1, <1>2, <1>4 DEF JournalInv, LogInv, JournalAfterCommit
<1>8. QED
  BY <1>5, <1>6, <1>7 DEF JournalInv, LogInv

\* Worker w logs the outcome of its own open request.
LEMMA JournalOutcome ==
  ASSUME TypeOK, JournalInv, NEW w \in Workers, NEW kind, NEW status,
         pc[w] \notin {"idle", "journal"},
         LogAs(req[w], kind, status),
         UNCHANGED <<journal, nRequests, req>>,
         \A v \in Workers : v # w => pc'[v] = pc[v],
         pc'[w] \in {"idle", "journal"},
         pc'[w] = "journal" => status = "committed"
  PROVE  JournalInv'
<1>1. /\ req[w] \in Request /\ req[w] \in 1 .. nRequests
      /\ log[req[w]].status = "open"
  BY DEF TypeOK, SessionType, JournalInv, LogInv, Active
<1>2. /\ log'[req[w]].status = status
      /\ \A r \in Request : r # req[w] => log'[r] = log[r]
  BY <1>1 DEF LogAs, TypeOK, LogType
<1>3. ASSUME NEW v \in Workers, Active(v)'
      PROVE  /\ req'[v] \in 1 .. nRequests'
             /\ log'[req'[v]].status = IF pc'[v] = "journal" THEN "committed"
                                                             ELSE "open"
  <2>1. CASE v = w
    BY <2>1, <1>1, <1>2, <1>3 DEF Active
  <2>2. CASE v # w
    <3>1. Active(v) /\ Active(w) /\ pc'[v] = pc[v] /\ req'[v] = req[v]
      BY <2>2, <1>3 DEF Active
    <3>2. req[v] # req[w] /\ req[v] \in Request
      BY <2>2, <3>1 DEF JournalInv, LogInv, TypeOK, SessionType, Active
    <3>3. QED
      BY <3>1, <3>2, <1>2 DEF JournalInv, LogInv
  <2>3. QED
    BY <2>1, <2>2
<1>4. ASSUME NEW u \in Workers, NEW v \in Workers, u # v,
             Active(u)', Active(v)'
      PROVE  req'[u] # req'[v]
  <2>1. Active(u) /\ Active(v)
    BY <1>4 DEF Active
  <2>2. QED
    BY <2>1, <1>4 DEF JournalInv, LogInv
<1>5. journal' \subseteq 1 .. nRequests' /\ JournalAfterCommit'
  <2>1. ASSUME NEW r \in journal PROVE log'[r].status = "committed"
    <3>1. log[r].status = "committed" /\ r \in Request
      BY DEF JournalInv, JournalAfterCommit, TypeOK, LogType
    <3>2. QED
      BY <3>1, <1>1, <1>2
  <2>2. QED
    BY <2>1 DEF JournalInv, LogInv, JournalAfterCommit
<1>6. QED
  BY <1>3, <1>4, <1>5 DEF JournalInv, LogInv

\* Worker w goes from one statement of its handler to another.
LEMMA JournalMove ==
  ASSUME TypeOK, JournalInv, NEW w \in Workers,
         UNCHANGED <<log, journal, nRequests, req>>,
         \A v \in Workers : v # w => pc'[v] = pc[v],
         pc[w] \notin {"idle", "journal"},
         pc'[w] \notin {"idle", "journal"}
  PROVE  JournalInv'
<1>1. \A v \in Workers : /\ Active(v)' <=> Active(v)
                         /\ pc'[v] = "journal" <=> pc[v] = "journal"
  BY DEF Active
<1>2. QED
  BY <1>1 DEF JournalInv, LogInv, JournalAfterCommit, Active

LEMMA JournalAppend ==
  ASSUME TypeOK, JournalInv, NEW w \in Workers, AppendJournal(w)
  PROVE  JournalInv'
<1>1. \A v \in Workers : Active(v)' => Active(v) /\ pc'[v] = pc[v]
  BY DEF Active, AppendJournal, EndSession, TypeOK, SessionType
<1>2. log[req[w]].status = "committed" /\ req[w] \in 1 .. nRequests
  BY DEF JournalInv, LogInv, Active, AppendJournal
<1>3. /\ journal' \subseteq journal \cup {req[w]}
      /\ UNCHANGED <<log, req, nRequests>>
  BY DEF AppendJournal
<1>4. journal' \subseteq 1 .. nRequests' /\ JournalAfterCommit'
  BY <1>2, <1>3 DEF JournalInv, LogInv, JournalAfterCommit
<1>5. QED
  BY <1>1, <1>3, <1>4 DEF JournalInv, LogInv

LEMMA JournalStep == TypeOK /\ JournalInv /\ [Next]_vars => JournalInv'
<1> SUFFICES ASSUME TypeOK, JournalInv, [Next]_vars PROVE JournalInv'
  OBVIOUS
<1>p. pc \in [Workers -> PCs]
  BY DEF TypeOK, SessionType
<1>t. SessionType
  BY DEF TypeOK
<1>1. ASSUME NEW w \in Workers, NewRequest(w) PROVE JournalInv'
  <2>1. ASSUME NEW i \in Items, NEW q \in Qtys, NEW kind,
               Purchase(w, kind, i, q)
        PROVE  JournalInv'
    BY <1>t, <2>1, ToJournalPc, JournalArrive DEF Purchase
  <2>2. ASSUME NEW i \in Items, NEW q \in Qtys, NEW kind,
               SumStock(w, kind, i, q)
        PROVE  JournalInv'
    <3>1. CASE OnHand(i) < q
      BY <1>p, <2>2, <3>1, JournalArrive DEF SumStock, Arrive
    <3>2. CASE ~(OnHand(i) < q)
      BY <1>p, <2>2, <3>2, JournalArrive DEF SumStock
    <3>3. QED
      BY <3>1, <3>2
  <2>3. ASSUME NEW i \in Items, NEW q \in Qtys, StockInRead(w, i, q)
        PROVE  JournalInv'
    BY <1>p, <2>3, JournalArrive DEF StockInRead
  <2>4. ASSUME NEW i \in Items, NEW q \in Qtys, ItemPutRead(w, i, q)
        PROVE  JournalInv'
    BY <1>p, <2>4, JournalArrive DEF ItemPutRead
  <2>5. ASSUME NEW i \in Items, NEW to \in Items, NEW q \in Qtys,
               InventoryRun(w, i, to, q)
        PROVE  JournalInv'
    BY <1>t, <2>5, ToJournalPc, JournalArrive DEF InventoryRun
  <2>6. ASSUME NEW run \in Runs, ValidateRun(w, run)
        PROVE  JournalInv'
    <3>1. pc'[w] \in {"record", "begin"}
          /\ \A v \in Workers : v # w => pc'[v] = pc[v]
      BY <1>p, <2>6 DEF ValidateRun
    <3>2. /\ Arrive(w, "run") /\ LogAs(nRequests + 1, "run", "open")
          /\ UNCHANGED journal
      BY <2>6 DEF ValidateRun
    <3>3. QED
      BY <3>1, <3>2, JournalArrive
  <2>7. QED
    BY <1>1, <2>1, <2>2, <2>3, <2>4, <2>5, <2>6 DEF NewRequest
<1>2. ASSUME NEW w \in Workers, Continue(w) PROVE JournalInv'
  <2>1. CASE StockInCommit(w)
    BY <1>t, <2>1, EndSessionPc, JournalOutcome DEF StockInCommit
  <2>2. CASE IssueCommit(w)
    BY <1>t, <2>2, ToJournalPc, JournalOutcome DEF IssueCommit
  <2>3. CASE RunCommit(w)
    BY <1>t, <2>3, ToJournalPc, JournalOutcome DEF RunCommit
  <2>4. CASE RecordFailedRun(w)
    <3>1. /\ LogAs(req[w], "run", "failed_insufficient_stock")
          /\ UNCHANGED <<journal, nRequests, req>>
          /\ pc[w] \notin {"idle", "journal"}
      BY <2>4 DEF RecordFailedRun
    <3>2. pc'[w] = "idle" /\ \A v \in Workers : v # w => pc'[v] = pc[v]
      BY <1>t, <2>4, EndSessionPc DEF RecordFailedRun
    <3>3. QED
      BY <3>1, <3>2, JournalOutcome
  <2>5. CASE ItemPutCommit(w)
    BY <1>t, <2>5, EndSessionPc, JournalOutcome DEF ItemPutCommit
  <2>6. CASE Busy(w)
    <3>1. /\ LogAs(req[w], op[w].kind, "aborted")
          /\ UNCHANGED <<journal, nRequests, req>>
          /\ pc[w] \notin {"idle", "journal"}
          /\ EndSession(w)
      BY <2>6 DEF Busy
    <3>2. pc'[w] = "idle" /\ \A v \in Workers : v # w => pc'[v] = pc[v]
      BY <1>t, <3>1, EndSessionPc
    <3>3. QED
      BY <3>1, <3>2, JournalOutcome
  <2>7. CASE ReadBatches(w)
    <3>1. CASE Short(OfItem(remaining, op[w].item), op[w].qty)
      <4>1. /\ LogAs(req[w], op[w].kind, "rejected")
            /\ UNCHANGED <<journal, nRequests, req>>
            /\ pc[w] \notin {"idle", "journal"}
            /\ EndSession(w)
        BY <2>7, <3>1 DEF ReadBatches
      <4>2. pc'[w] = "idle" /\ \A v \in Workers : v # w => pc'[v] = pc[v]
        BY <1>t, <4>1, EndSessionPc
      <4>3. QED
        BY <4>1, <4>2, JournalOutcome
    <3>2. CASE ~Short(OfItem(remaining, op[w].item), op[w].qty)
      BY <1>p, <2>7, <3>2, JournalMove DEF ReadBatches
    <3>3. QED
      BY <3>1, <3>2
  <2>8. CASE ReadItem(w)
    BY <1>p, <2>8, JournalMove DEF ReadItem
  <2>9. CASE BeginRun(w)
    BY <1>p, <2>9, JournalMove DEF BeginRun
  <2>10. CASE AllocateLine(w)
    <3>1. /\ pc[w] = "alloc" /\ pc'[w] \in {"alloc", "record"}
          /\ \A v \in Workers : v # w => pc'[v] = pc[v]
      BY <1>p, <2>10 DEF AllocateLine
    <3>2. UNCHANGED <<log, journal, nRequests, req>>
      BY <2>10 DEF AllocateLine
    <3>3. QED
      BY <3>1, <3>2, JournalMove
  <2>11. CASE AppendJournal(w)
    BY <2>11, JournalAppend
  <2>12. QED
    BY <1>2, <2>1, <2>2, <2>3, <2>4, <2>5, <2>6, <2>7, <2>8, <2>9, <2>10,
       <2>11 DEF Continue
<1>3. CASE Crash
  BY <1>3 DEF Crash, JournalInv, LogInv, JournalAfterCommit, Active
<1>4. CASE UNCHANGED vars
  BY <1>4 DEF vars, sess, JournalInv, LogInv, JournalAfterCommit, Active
<1>5. QED
  BY <1>1, <1>2, <1>3, <1>4 DEF Next

(***************************************************************************)
(* A journal line is a receipt of a committed request, whatever crashes,   *)
(* failed appends and lock timeouts come between a commit and its line.    *)
(***************************************************************************)
THEOREM JournalSafe == Spec => []JournalAfterCommit
<1>1. JournalInv => JournalAfterCommit
  BY DEF JournalInv
<1>2. QED
  BY <1>1, JournalInit, JournalStep, TypeCorrect, PTL DEF Spec

(***************************************************************************)
(* Every line has its change and every change its line: the requests that  *)
(* changed stock, but for a stock_in, are those with a line, those that    *)
(* lost it to a crash or a failing append, and those of the workers that   *)
(* are about to append.                                                    *)
(***************************************************************************)
Covered(r) ==
  \/ r \in journal \cup lost
  \/ \E w \in Workers : pc[w] = "journal" /\ req[w] = r

\* The kinds of request that never append.
Unwritten == {"item_put", "stock_in"}

\* Request r changed the stock and is to have its line.
StockChanged(r) == log[r].status = "committed" /\ log[r].kind \notin Unwritten

CoversInv ==
  /\ \A r \in Request : r > nRequests => ~StockChanged(r)
  /\ \A r \in Request : StockChanged(r) <=> Covered(r)

\* A worker at the statements of an issue serves one.
IssueKindInv ==
  \A w \in Workers :
     pc[w] \in {"batches", "item", "commit"} => op[w].kind \in OutKinds

LEMMA IssueKindStep ==
  ASSUME SessionType, IssueKindInv, [Next]_vars
  PROVE  IssueKindInv'
<1> USE DEF SessionType, IssueKindInv
<1>1. ASSUME NEW w \in Workers, NewRequest(w) PROVE IssueKindInv'
  <2>1. ASSUME NEW i \in Items, NEW q \in Qtys, NEW kind,
               Purchase(w, kind, i, q)
        PROVE  IssueKindInv'
    BY <2>1 DEF Purchase, ToJournal
  <2>2. ASSUME NEW i \in Items, NEW q \in Qtys, NEW kind,
               SumStock(w, kind, i, q)
        PROVE  IssueKindInv'
    BY <2>2 DEF SumStock, Body
  <2>3. ASSUME NEW i \in Items, NEW q \in Qtys, StockInRead(w, i, q)
        PROVE  IssueKindInv'
    BY <2>3 DEF StockInRead
  <2>4. ASSUME NEW i \in Items, NEW q \in Qtys, ItemPutRead(w, i, q)
        PROVE  IssueKindInv'
    BY <2>4 DEF ItemPutRead
  <2>5. ASSUME NEW i \in Items, NEW to \in Items, NEW q \in Qtys,
               InventoryRun(w, i, to, q)
        PROVE  IssueKindInv'
    BY <2>5 DEF InventoryRun, ToJournal
  <2>6. ASSUME NEW run \in Runs, ValidateRun(w, run)
        PROVE  IssueKindInv'
    BY <2>6 DEF ValidateRun
  <2>7. QED
    BY <1>1, <2>1, <2>2, <2>3, <2>4, <2>5, <2>6 DEF NewRequest
<1>2. ASSUME NEW w \in Workers, Continue(w) PROVE IssueKindInv'
  <2>1. CASE StockInCommit(w) \/ RecordFailedRun(w) \/ ItemPutCommit(w)
             \/ AppendJournal(w) \/ Busy(w)
    BY <2>1 DEF StockInCommit, RecordFailedRun, ItemPutCommit, AppendJournal,
                Busy, EndSession
  <2>2. CASE IssueCommit(w) \/ RunCommit(w)
    BY <2>2 DEF IssueCommit, RunCommit, ToJournal
  <2>3. CASE ReadBatches(w)
    BY <2>3 DEF ReadBatches, EndSession
  <2>4. CASE ReadItem(w)
    BY <2>4 DEF ReadItem
  <2>5. CASE BeginRun(w)
    BY <2>5 DEF BeginRun
  <2>6. CASE AllocateLine(w)
    <3>1. /\ UNCHANGED op
          /\ pc' = pc \/ pc' = [pc EXCEPT ![w] = "record"]
      BY <2>6 DEF AllocateLine
    <3>2. QED
      BY <3>1
  <2>7. QED
    BY <1>2, <2>1, <2>2, <2>3, <2>4, <2>5, <2>6 DEF Continue
<1>3. CASE Crash
  BY <1>3 DEF Crash
<1>4. CASE UNCHANGED vars
  BY <1>4 DEF vars, sess
<1>5. QED
  BY <1>1, <1>2, <1>3, <1>4 DEF Next

\* A request arrives; it goes to the append exactly if it commits at once.
LEMMA CoversArrive ==
  ASSUME TypeOK, CoversInv, NEW w \in Workers, NEW kind, NEW status,
         Arrive(w, kind), LogAs(nRequests + 1, kind, status),
         UNCHANGED <<journal, lost>>,
         \A v \in Workers : v # w => pc'[v] = pc[v],
         status = "committed" => kind \notin Unwritten,
         status = "committed" <=> pc'[w] = "journal"
  PROVE  CoversInv'
<1> DEFINE n == nRequests + 1
<1>1. /\ n \in Request /\ req'[w] = n /\ pc[w] = "idle"
      /\ \A v \in Workers : v # w => req'[v] = req[v]
  BY BatchFacts DEF Arrive, TypeOK, LogType, SessionType
<1>2. /\ log'[n].status = status /\ log'[n].kind = kind
      /\ \A r \in Request : r # n => log'[r] = log[r]
  BY <1>1 DEF LogAs, TypeOK, LogType
<1>3. /\ nRequests \in Nat /\ nRequests' = n
      /\ \A r \in Request : r > nRequests' => r > nRequests /\ r # n
      /\ n > nRequests
  BY BatchFacts DEF Arrive, TypeOK, LogType, Request
<1> HIDE DEF n
<1>4. ~Covered(n)
  BY <1>1, <1>3 DEF CoversInv
<1>5. ASSUME NEW r \in Request
      PROVE  StockChanged(r)' <=> Covered(r)'
  <2>1. CASE r = n
    <3>1. StockChanged(r)' <=> status = "committed"
      BY <2>1, <1>2 DEF StockChanged
    <3>2. Covered(r)' <=> pc'[w] = "journal"
      BY <2>1, <1>1, <1>4 DEF Covered
    <3>3. QED
      BY <3>1, <3>2
  <2>2. CASE r # n
    <3>1. StockChanged(r)' <=> StockChanged(r)
      BY <2>2, <1>2 DEF StockChanged
    <3>2. Covered(r)' <=> Covered(r)
      BY <2>2, <1>1 DEF Covered
    <3>3. QED
      BY <3>1, <3>2 DEF CoversInv
  <2>3. QED
    BY <2>1, <2>2
<1>6. \A r \in Request : r > nRequests' => ~StockChanged(r)'
  BY <1>2, <1>3 DEF CoversInv, StockChanged
<1>7. QED
  BY <1>5, <1>6 DEF CoversInv

\* Worker w logs the outcome of its own open request, and goes to the append
\* exactly if that is a change of stock with a line.
LEMMA CoversOutcome ==
  ASSUME TypeOK, JournalInv, CoversInv,
         NEW w \in Workers, NEW kind, NEW status,
         pc[w] \notin {"idle", "journal"},
         LogAs(req[w], kind, status),
         UNCHANGED <<nRequests, journal, lost, req>>,
         \A v \in Workers : v # w => pc'[v] = pc[v],
         status = "committed" /\ kind \notin Unwritten <=> pc'[w] = "journal"
  PROVE  CoversInv'
<1>1. req[w] \in Request /\ req[w] <= nRequests /\ nRequests \in Nat
  BY DEF TypeOK, SessionType, LogType, JournalInv, LogInv, Active
<1>2. /\ log'[req[w]].status = status /\ log'[req[w]].kind = kind
      /\ \A r \in Request : r # req[w] => log'[r] = log[r]
  BY <1>1 DEF LogAs, TypeOK, LogType
<1>3. ~Covered(req[w])
  <2>1. log[req[w]].status = "open"
    BY DEF JournalInv, LogInv, Active
  <2>2. QED
    BY <1>1, <2>1 DEF CoversInv, StockChanged
<1>4. ASSUME NEW r \in Request
      PROVE  StockChanged(r)' <=> Covered(r)'
  <2>1. CASE r = req[w]
    BY <2>1, <1>2, <1>3 DEF Covered, StockChanged
  <2>2. CASE r # req[w]
    <3>1. StockChanged(r)' <=> StockChanged(r)
      BY <2>2, <1>2 DEF StockChanged
    <3>2. Covered(r)' <=> Covered(r)
      BY <2>2 DEF Covered
    <3>3. QED
      BY <3>1, <3>2 DEF CoversInv
  <2>3. QED
    BY <2>1, <2>2
<1>5. \A r \in Request : r > nRequests => r # req[w]
  BY <1>1 DEF Request
<1>6. \A r \in Request : r > nRequests' => ~StockChanged(r)'
  BY <1>2, <1>5 DEF CoversInv, StockChanged
<1>7. QED
  BY <1>4, <1>6 DEF CoversInv

\* Worker w goes from one statement of its handler to another.
LEMMA CoversMove ==
  ASSUME CoversInv, NEW w \in Workers,
         UNCHANGED <<log, nRequests, journal, lost, req>>,
         \A v \in Workers : v # w => pc'[v] = pc[v],
         pc[w] # "journal", pc'[w] # "journal"
  PROVE  CoversInv'
<1>1. \A r \in Request : /\ StockChanged(r)' <=> StockChanged(r)
                         /\ Covered(r)' <=> Covered(r)
  BY DEF Covered, StockChanged
<1>2. QED
  BY <1>1 DEF CoversInv

\* An append writes the line of its worker's request, or loses it.
LEMMA CoversAppend ==
  ASSUME TypeOK, CoversInv, NEW w \in Workers, AppendJournal(w)
  PROVE  CoversInv'
<1>1. /\ (journal \cup lost)' = (journal \cup lost) \cup {req[w]}
      /\ UNCHANGED <<log, nRequests, req>>
      /\ EndSession(w) /\ pc[w] = "journal"
  BY DEF AppendJournal
<1>2. pc'[w] = "idle" /\ \A v \in Workers : v # w => pc'[v] = pc[v]
  BY <1>1, EndSessionPc DEF TypeOK
<1>3. \A r \in Request : /\ StockChanged(r)' <=> StockChanged(r)
                         /\ Covered(r)' <=> Covered(r)
  BY <1>1, <1>2 DEF Covered, StockChanged
<1>4. QED
  BY <1>1, <1>3 DEF CoversInv

\* A crash loses the lines of the workers that were about to append.
LEMMA CoversCrash ==
  ASSUME CoversInv, Crash
  PROVE  CoversInv'
<1>1. \A r \in Request : StockChanged(r)' <=> StockChanged(r)
  BY DEF Crash, StockChanged
<1>2. \A r \in Request : Covered(r)' <=> Covered(r)
  <2>1. /\ \A w \in Workers : pc'[w] = "idle"
        /\ journal' = journal
        /\ \A r : r \in lost' <=>
              \/ r \in lost
              \/ \E w \in Workers : pc[w] = "journal" /\ req[w] = r
    BY DEF Crash
  <2>2. QED
    BY <2>1 DEF Covered
<1>3. QED
  BY <1>1, <1>2 DEF CoversInv, Crash

\* A step keeps every committed stock change covered.
LEMMA CoversStep ==
  ASSUME TypeOK, JournalInv, IssueKindInv, CoversInv, [Next]_vars
  PROVE  CoversInv'
<1>p. pc \in [Workers -> PCs]
  BY DEF TypeOK, SessionType
<1>t. SessionType
  BY DEF TypeOK
<1>1. ASSUME NEW w \in Workers, NewRequest(w) PROVE CoversInv'
  <2>1. ASSUME NEW i \in Items, NEW q \in Qtys, NEW kind,
               Purchase(w, kind, i, q)
        PROVE  CoversInv'
    BY <1>t, <2>1, ToJournalPc, CoversArrive DEF Purchase, InKinds, Unwritten
  <2>2. ASSUME NEW i \in Items, NEW q \in Qtys, NEW kind,
               SumStock(w, kind, i, q)
        PROVE  CoversInv'
    <3>1. CASE OnHand(i) < q
      BY <1>p, <2>2, <3>1, CoversArrive DEF SumStock, Arrive
    <3>2. CASE ~(OnHand(i) < q)
      BY <1>p, <2>2, <3>2, CoversArrive DEF SumStock
    <3>3. QED
      BY <3>1, <3>2
  <2>3. ASSUME NEW i \in Items, NEW q \in Qtys, StockInRead(w, i, q)
        PROVE  CoversInv'
    BY <1>p, <2>3, CoversArrive DEF StockInRead
  <2>4. ASSUME NEW i \in Items, NEW q \in Qtys, ItemPutRead(w, i, q)
        PROVE  CoversInv'
    BY <1>p, <2>4, CoversArrive DEF ItemPutRead
  <2>5. ASSUME NEW i \in Items, NEW to \in Items, NEW q \in Qtys,
               InventoryRun(w, i, to, q)
        PROVE  CoversInv'
    BY <1>t, <2>5, ToJournalPc, CoversArrive DEF InventoryRun, Unwritten
  <2>6. ASSUME NEW run \in Runs, ValidateRun(w, run)
        PROVE  CoversInv'
    <3>1. pc'[w] \in {"record", "begin"}
          /\ \A v \in Workers : v # w => pc'[v] = pc[v]
      BY <1>p, <2>6 DEF ValidateRun
    <3>2. /\ Arrive(w, "run") /\ LogAs(nRequests + 1, "run", "open")
          /\ UNCHANGED <<journal, lost>>
      BY <2>6 DEF ValidateRun
    <3>3. QED
      BY <3>1, <3>2, CoversArrive
  <2>7. QED
    BY <1>1, <2>1, <2>2, <2>3, <2>4, <2>5, <2>6 DEF NewRequest
<1>2. ASSUME NEW w \in Workers, Continue(w) PROVE CoversInv'
  <2>1. CASE StockInCommit(w)
    BY <1>t, <2>1, EndSessionPc, CoversOutcome DEF StockInCommit, Unwritten
  <2>2. CASE IssueCommit(w)
    <3>1. op[w].kind \notin Unwritten /\ pc[w] = "commit"
      BY <2>2 DEF IssueCommit, IssueKindInv, OutKinds, Unwritten
    <3>2. /\ LogAs(req[w], op[w].kind, "committed")
          /\ UNCHANGED <<nRequests, journal, lost, req>>
          /\ ToJournal(w)
      BY <2>2 DEF IssueCommit
    <3>3. QED
      BY <1>t, <3>1, <3>2, ToJournalPc, CoversOutcome
  <2>3. CASE RunCommit(w)
    <3>1. /\ LogAs(req[w], "run", "committed")
          /\ UNCHANGED <<nRequests, journal, lost, req>>
          /\ ToJournal(w) /\ pc[w] = "alloc"
      BY <2>3 DEF RunCommit
    <3>2. QED
      BY <1>t, <3>1, ToJournalPc, CoversOutcome DEF Unwritten
  <2>4. CASE RecordFailedRun(w)
    <3>1. /\ LogAs(req[w], "run", "failed_insufficient_stock")
          /\ UNCHANGED <<nRequests, journal, lost, req>>
          /\ pc[w] \notin {"idle", "journal"}
      BY <2>4 DEF RecordFailedRun
    <3>2. pc'[w] = "idle" /\ \A v \in Workers : v # w => pc'[v] = pc[v]
      BY <1>t, <2>4, EndSessionPc DEF RecordFailedRun
    <3>3. QED
      BY <3>1, <3>2, CoversOutcome
  <2>5. CASE ItemPutCommit(w)
    BY <1>t, <2>5, EndSessionPc, CoversOutcome DEF ItemPutCommit, Unwritten
  <2>6. CASE Busy(w)
    <3>1. /\ LogAs(req[w], op[w].kind, "aborted")
          /\ UNCHANGED <<nRequests, journal, lost, req>>
          /\ pc[w] \notin {"idle", "journal"}
          /\ EndSession(w)
      BY <2>6 DEF Busy
    <3>2. pc'[w] = "idle" /\ \A v \in Workers : v # w => pc'[v] = pc[v]
      BY <1>t, <3>1, EndSessionPc
    <3>3. QED
      BY <3>1, <3>2, CoversOutcome
  <2>7. CASE ReadBatches(w)
    <3>1. CASE Short(OfItem(remaining, op[w].item), op[w].qty)
      <4>1. /\ LogAs(req[w], op[w].kind, "rejected")
            /\ UNCHANGED <<nRequests, journal, lost, req>>
            /\ pc[w] \notin {"idle", "journal"}
            /\ EndSession(w)
        BY <2>7, <3>1 DEF ReadBatches
      <4>2. pc'[w] = "idle" /\ \A v \in Workers : v # w => pc'[v] = pc[v]
        BY <1>t, <4>1, EndSessionPc
      <4>3. QED
        BY <4>1, <4>2, CoversOutcome
    <3>2. CASE ~Short(OfItem(remaining, op[w].item), op[w].qty)
      BY <1>p, <2>7, <3>2, CoversMove DEF ReadBatches
    <3>3. QED
      BY <3>1, <3>2
  <2>8. CASE ReadItem(w)
    BY <1>p, <2>8, CoversMove DEF ReadItem
  <2>9. CASE BeginRun(w)
    BY <1>p, <2>9, CoversMove DEF BeginRun
  <2>10. CASE AllocateLine(w)
    <3>1. /\ pc[w] = "alloc" /\ pc'[w] \in {"alloc", "record"}
          /\ \A v \in Workers : v # w => pc'[v] = pc[v]
      BY <1>p, <2>10 DEF AllocateLine
    <3>2. UNCHANGED <<log, nRequests, journal, lost, req>>
      BY <2>10 DEF AllocateLine
    <3>3. QED
      BY <3>1, <3>2, CoversMove
  <2>11. CASE AppendJournal(w)
    BY <2>11, CoversAppend
  <2>12. QED
    BY <1>2, <2>1, <2>2, <2>3, <2>4, <2>5, <2>6, <2>7, <2>8, <2>9, <2>10,
       <2>11 DEF Continue
<1>3. CASE Crash
  BY <1>3, CoversCrash
<1>4. CASE UNCHANGED vars
  BY <1>4 DEF vars, sess, CoversInv, Covered, StockChanged
<1>5. QED
  BY <1>1, <1>2, <1>3, <1>4 DEF Next

(***************************************************************************)
(* Whatever requests are served, however they interleave, fail and give up *)
(* the wait for the write lock, and whenever the process dies: when        *)
(* nothing is in flight, the lines of the journals are those of the        *)
(* committed changes of stock, but for stock_in and the PUT of a quantity, *)
(* which write none, and for the lines lost between a commit and its       *)
(* append.                                                                 *)
(***************************************************************************)
THEOREM JournalCoversSafe ==
  Spec => []JournalCoversStockChanges
<1>1. Init => CoversInv
  BY DEF Init, CoversInv, StockChanged, Covered
<1>k. Init => IssueKindInv
  BY DEF Init, IssueKindInv
<1>l. TypeOK /\ IssueKindInv /\ [Next]_vars => IssueKindInv'
  BY IssueKindStep DEF TypeOK
<1>2. TypeOK /\ JournalInv /\ IssueKindInv /\ CoversInv /\ [Next]_vars
        => CoversInv'
  BY CoversStep
<1>3. TypeOK /\ CoversInv => JournalCoversStockChanges
  <2>1. SUFFICES ASSUME TypeOK, CoversInv, \A w \in Workers : pc[w] = "idle"
                 PROVE  journal \cup lost =
                          {r \in Request : StockChanged(r)}
    BY DEF JournalCoversStockChanges, StockChanged, Unwritten
  <2>2. journal \cup lost \subseteq Request
    BY <2>1 DEF TypeOK, LogType, HistoryType
  <2>3. QED
    BY <2>1, <2>2 DEF CoversInv, Covered
<1>4. QED
  BY <1>1, <1>2, <1>3, <1>k, <1>l, TypeCorrect, JournalInit, JournalStep, PTL
     DEF Spec

(***************************************************************************)
(* The write lock: only a run in its transaction holds it between steps.   *)
(***************************************************************************)
LEMMA LockInit == Init => LockInv
BY BoundsAssumption DEF Init, LockInv

LEMMA LockStep == TypeOK /\ LockInv /\ [Next]_vars => LockInv'
<1> SUFFICES ASSUME TypeOK, LockInv, [Next]_vars PROVE LockInv'
  OBVIOUS
<1> USE BoundsAssumption
<1>p. pc \in [Workers -> PCs] /\ SessionType
  BY DEF TypeOK, SessionType
\* A step that neither takes nor frees the lock, of a worker without it.
<1>s. ASSUME NEW w \in Workers, UNCHANGED writer,
             \A v \in Workers : v # w => pc'[v] = pc[v],
             pc[w] # "alloc", pc'[w] # "alloc"
      PROVE  LockInv'
  BY <1>s DEF LockInv
<1>1. ASSUME NEW w \in Workers, NewRequest(w) PROVE LockInv'
  <2>1. ASSUME NEW i \in Items, NEW q \in Qtys, NEW kind,
               Purchase(w, kind, i, q)
        PROVE  LockInv'
    BY <1>p, <1>s, <2>1, ToJournalPc DEF Purchase, Arrive
  <2>2. ASSUME NEW i \in Items, NEW q \in Qtys, NEW kind,
               SumStock(w, kind, i, q)
        PROVE  LockInv'
    <3>1. /\ UNCHANGED writer /\ pc[w] = "idle"
          /\ pc' = pc \/ pc' = [pc EXCEPT ![w] = "batches"]
      BY <2>2 DEF SumStock, Arrive
    <3>2. QED
      BY <1>p, <1>s, <3>1
  <2>3. ASSUME NEW i \in Items, NEW q \in Qtys, StockInRead(w, i, q)
        PROVE  LockInv'
    BY <1>p, <1>s, <2>3 DEF StockInRead, Arrive
  <2>4. ASSUME NEW i \in Items, NEW q \in Qtys, ItemPutRead(w, i, q)
        PROVE  LockInv'
    BY <1>p, <1>s, <2>4 DEF ItemPutRead, Arrive
  <2>5. ASSUME NEW i \in Items, NEW to \in Items, NEW q \in Qtys,
               InventoryRun(w, i, to, q)
        PROVE  LockInv'
    BY <1>p, <1>s, <2>5, ToJournalPc DEF InventoryRun, Arrive
  <2>6. ASSUME NEW run \in Runs, ValidateRun(w, run)
        PROVE  LockInv'
    <3>1. /\ UNCHANGED writer /\ pc[w] = "idle"
          /\ pc'[w] \in {"record", "begin"}
          /\ \A v \in Workers : v # w => pc'[v] = pc[v]
      BY <1>p, <2>6 DEF ValidateRun, Arrive
    <3>2. QED
      BY <1>s, <3>1
  <2>7. QED
    BY <1>1, <2>1, <2>2, <2>3, <2>4, <2>5, <2>6 DEF NewRequest
<1>2. ASSUME NEW w \in Workers, Continue(w) PROVE LockInv'
  <2>1. CASE \/ StockInCommit(w) \/ RecordFailedRun(w) \/ ItemPutCommit(w)
             \/ Busy(w) \/ AppendJournal(w)
    <3>1. EndSession(w) /\ UNCHANGED writer /\ pc[w] # "alloc"
      BY <2>1 DEF StockInCommit, RecordFailedRun, ItemPutCommit, Busy,
                  AppendJournal
    <3>2. QED
      BY <1>p, <1>s, <3>1, EndSessionPc
  <2>2. CASE IssueCommit(w)
    BY <1>p, <1>s, <2>2, ToJournalPc DEF IssueCommit
  <2>3. CASE RunCommit(w)
    <3>1. /\ pc[w] = "alloc" /\ writer' = Nobody /\ pc'[w] = "journal"
          /\ \A v \in Workers : v # w => pc'[v] = pc[v]
      BY <1>p, <2>3, ToJournalPc DEF RunCommit, ReleaseLock
    <3>2. QED
      BY <3>1 DEF LockInv
  <2>4. CASE ReadBatches(w)
    <3>1. CASE Short(OfItem(remaining, op[w].item), op[w].qty)
      BY <1>p, <1>s, <2>4, <3>1, EndSessionPc DEF ReadBatches
    <3>2. CASE ~Short(OfItem(remaining, op[w].item), op[w].qty)
      BY <1>p, <1>s, <2>4, <3>2 DEF ReadBatches
    <3>3. QED
      BY <3>1, <3>2
  <2>5. CASE ReadItem(w)
    BY <1>p, <1>s, <2>5 DEF ReadItem
  <2>6. CASE BeginRun(w)
    <3>1. /\ writer = Nobody /\ writer' = w /\ pc'[w] = "alloc"
          /\ \A v \in Workers : v # w => pc'[v] = pc[v]
      BY <1>p, <2>6 DEF BeginRun, TakeLock
    <3>2. QED
      BY <3>1 DEF LockInv
  <2>7. CASE AllocateLine(w)
    <3>1. /\ pc[w] = "alloc"
          /\ \/ UNCHANGED <<pc, writer>>
             \/ pc' = [pc EXCEPT ![w] = "record"] /\ writer' = Nobody
      BY <2>7 DEF AllocateLine, ReleaseLock
    <3>2. QED
      BY <1>p, <3>1 DEF LockInv
  <2>8. QED
    BY <1>2, <2>1, <2>2, <2>3, <2>4, <2>5, <2>6, <2>7 DEF Continue
<1>3. CASE Crash
  BY <1>3 DEF Crash, LockInv
<1>4. CASE UNCHANGED vars
  BY <1>4 DEF vars, sess, LockInv
<1>5. QED
  BY <1>1, <1>2, <1>3, <1>4 DEF Next

(***************************************************************************)
(* From one step to the next only a run past its first flush (BeginRun of  *)
(* service.py's transaction) holds SQLite's write lock, and it always does. *)
(***************************************************************************)
THEOREM LockSafe == Spec => []LockInv
BY LockInit, LockStep, TypeCorrect, PTL DEF Spec

(***************************************************************************)
(* What a batch may hold.  The bounds of the committed rows follow from    *)
(* those of what sessions have in memory, and these from the bounds of the *)
(* rows they were loaded from: the two are proved together.                *)
(***************************************************************************)
BoundsInv == RowInv /\ LoadInv /\ RunInv /\ CleanInv /\ BatchBounds

LEMMA BoundsInit == Init => BoundsInv
<1> SUFFICES ASSUME Init PROVE BoundsInv
  OBVIOUS
<1>1. \A w \in Workers : pc[w] = "idle" /\ taken[w] = Zero
  BY DEF Init
<1>2. LoadInv /\ RunInv /\ CleanInv
  BY <1>1 DEF LoadInv, RunInv, CleanInv
<1>3. \A b \in Batch : /\ b <= Len(Opening) => b \in 1 .. Len(Opening)
                       /\ initial[b] \in Nat
  <2>1. \A b \in Batch : b <= Len(Opening) => b \in 1 .. Len(Opening)
    BY BatchFacts, OpeningType
  <2>2. \A b \in Batch : initial[b] \in Nat
    BY <2>1, OpeningType DEF Init
  <2>3. QED
    BY <2>1, <2>2
<1>4. BatchBounds
  BY <1>3 DEF Init, BatchBounds
<1>5. RowInv
  <2>1. ASSUME NEW b \in Batch, b > nBatches
        PROVE  itemOf[b] = NoItem /\ initial[b] = 0
    BY <2>1, OpeningType, BatchFacts DEF Init
  <2>2. QED
    BY <2>1 DEF Init, RowInv
<1>6. QED
  BY <1>2, <1>4, <1>5 DEF BoundsInv

\* The sessions of the other workers are left alone by a step of w.
Others(w) ==
  \A v \in Workers : v # w => /\ pc'[v] = pc[v] /\ op'[v] = op[v]
                              /\ seen'[v] = seen[v] /\ taken'[v] = taken[v]

\* Rows keep their item and are received once.
RowsGrow ==
  \A b \in Batch : /\ initial[b] <= initial'[b]
                   /\ b <= nBatches => itemOf'[b] = itemOf[b]

LEMMA NewBatchRows ==
  ASSUME DbType, RowInv, NEW i \in Items, NEW q \in Nat,
         NEW rem \in [Batch -> Int], NEW mov \in [Batch -> Int],
         NewBatch(i, q, rem, mov),
         \A b \in Batch : 0 <= rem[b] /\ rem[b] <= initial[b],
         \A b \in Batch : b > nBatches => mov[b] = 0
  PROVE  RowInv' /\ BatchBounds' /\ RowsGrow
<1> DEFINE n == nBatches + 1
<1>1. /\ nBatches' = n /\ n \in Batch /\ nBatches \in Nat
      /\ \A b \in Batch : b > n => b > nBatches
      /\ ~(n <= nBatches) /\ n > nBatches
  BY BatchFacts DEF DbType, NewBatch
<1>2. /\ itemOf'[n] = i /\ initial'[n] = q /\ remaining'[n] = q
      /\ \A b \in Batch : b # n =>
            /\ itemOf'[b] = itemOf[b] /\ initial'[b] = initial[b]
            /\ remaining'[b] = rem[b] /\ moved'[b] = mov[b]
  BY <1>1 DEF DbType, NewBatch
<1>3. initial \in [Batch -> Nat]
  BY DEF DbType
<1>4. initial[n] = 0
  BY <1>1 DEF RowInv
<1> HIDE DEF n
<1>5. ASSUME NEW b \in Batch, b > nBatches'
      PROVE  /\ itemOf'[b] = NoItem /\ initial'[b] = 0
             /\ remaining'[b] = 0 /\ moved'[b] = 0
  <2>1. b # n /\ b > nBatches
    BY <1>1, <1>5, BatchFacts
  <2>2. itemOf[b] = NoItem /\ initial[b] = 0 /\ rem[b] = 0 /\ mov[b] = 0
    BY <2>1 DEF RowInv
  <2>3. QED
    BY <2>1, <2>2, <1>2
<1>6. \A b \in Batch : 0 <= remaining'[b] /\ remaining'[b] <= initial'[b]
  BY <1>2
<1>7. RowsGrow
  <2>1. \A b \in Batch : initial[b] <= initial'[b]
    BY <1>2, <1>3, <1>4
  <2>2. \A b \in Batch : b <= nBatches => itemOf'[b] = itemOf[b]
    BY <1>1, <1>2
  <2>3. QED
    BY <2>1, <2>2 DEF RowsGrow
<1>8. QED
  BY <1>5, <1>6, <1>7 DEF RowInv, BatchBounds

LEMMA WrittenBounds ==
  ASSUME TypeOK, BoundsInv, NEW w \in Workers, pc[w] \in {"commit", "alloc"}
  PROVE  /\ Written(w) \in [Batch -> Int]
         /\ \A b \in Batch : 0 <= Written(w)[b] /\ Written(w)[b] <= initial[b]
         /\ \A b \in Batch : b > nBatches => taken[w][b] = 0
         /\ \A b \in Batch : 0 <= taken[w][b] /\ taken[w][b] <= seen[w][b]
<1>1. /\ seen[w] \in [Batch -> Int] /\ taken[w] \in [Batch -> Int]
      /\ remaining \in [Batch -> Int] /\ initial \in [Batch -> Nat]
  BY DEF TypeOK, DbType, SessionType
<1>2. \A b \in Batch : /\ 0 <= remaining[b] /\ remaining[b] <= initial[b]
                       /\ b > nBatches => initial[b] = 0
  BY DEF BoundsInv, BatchBounds, RowInv
<1>3. \A b \in Batch : /\ 0 <= taken[w][b] /\ taken[w][b] <= seen[w][b]
                       /\ seen[w][b] <= initial[b]
  <2>1. CASE pc[w] = "commit"
    BY <2>1 DEF BoundsInv, LoadInv, Loaded
  <2>2. CASE pc[w] = "alloc"
    BY <1>2, <2>2 DEF BoundsInv, RunInv, Allocating
  <2>3. QED
    BY <2>1, <2>2
<1>4. Written(w) \in [Batch -> Int]
  BY <1>1 DEF Written
<1>5. \A b \in Batch : 0 <= Written(w)[b] /\ Written(w)[b] <= initial[b]
  BY <1>1, <1>2, <1>3 DEF Written
<1>6. \A b \in Batch : b > nBatches => taken[w][b] = 0
  <2>1. ASSUME NEW b \in Batch, b > nBatches PROVE taken[w][b] = 0
    <3>1. /\ 0 <= taken[w][b] /\ taken[w][b] <= seen[w][b]
          /\ seen[w][b] <= 0
          /\ taken[w][b] \in Int /\ seen[w][b] \in Int
      BY <1>1, <1>2, <1>3, <2>1
    <3>2. QED
      BY <3>1
  <2>2. QED
    BY <2>1
<1>7. QED
  BY <1>3, <1>4, <1>5, <1>6

\* What the other sessions have in memory stays within bounds; that of w is
\* left to show.
LEMMA SessionsSettle ==
  ASSUME TypeOK, LockInv, BoundsInv, NEW w \in Workers, Others(w), RowsGrow,
         TypeOK',
         UNCHANGED remaining \/ writer \in {Nobody, w},
         pc'[w] \in {"item", "commit"} => Loaded(w)',
         pc'[w] = "alloc" => Allocating(w)',
         pc'[w] \notin {"item", "commit", "alloc"} => taken'[w] = Zero
  PROVE  LoadInv' /\ RunInv' /\ CleanInv'
<1>1. ASSUME NEW v \in Workers, v # w
      PROVE  /\ pc'[v] = pc[v] /\ op'[v] = op[v]
             /\ seen'[v] = seen[v] /\ taken'[v] = taken[v]
  BY <1>1 DEF Others
<1>2. ASSUME NEW v \in Workers, v # w, pc[v] \in {"item", "commit"}
      PROVE  Loaded(v)'
  <2>1. Loaded(v)
    BY <1>2 DEF BoundsInv, LoadInv
  <2>2. /\ seen[v] \in [Batch -> Int] /\ taken[v] \in [Batch -> Int]
        /\ initial \in [Batch -> Nat] /\ initial' \in [Batch -> Nat]
        /\ nBatches \in Nat
    BY DEF TypeOK, DbType, SessionType
  <2>3. ASSUME NEW b \in Batch
        PROVE  /\ 0 <= taken[v][b] /\ taken[v][b] <= seen[v][b]
               /\ seen[v][b] <= initial'[b]
               /\ taken[v][b] > 0 => itemOf'[b] = op[v].item
    <3>1. /\ 0 <= taken[v][b] /\ taken[v][b] <= seen[v][b]
          /\ seen[v][b] <= initial[b] /\ initial[b] <= initial'[b]
      BY <2>1 DEF Loaded, RowsGrow
    <3>2. ASSUME taken[v][b] > 0 PROVE b <= nBatches
      <4>1. initial[b] > 0
        BY <2>2, <3>1, <3>2
      <4>2. QED
        BY <2>2, <4>1, BatchFacts DEF BoundsInv, RowInv
    <3>3. taken[v][b] > 0 => itemOf'[b] = op[v].item
      BY <3>2, <2>1 DEF Loaded, RowsGrow
    <3>4. QED
      BY <2>2, <3>1, <3>3
  <2>4. QED
    BY <1>1, <1>2, <2>3 DEF Loaded
<1>3. ASSUME NEW v \in Workers, v # w, pc[v] = "alloc"
      PROVE  Allocating(v)'
  <2>1. writer = v /\ v # Nobody
    BY <1>3, BoundsAssumption DEF LockInv
  <2>2. Allocating(v) /\ UNCHANGED remaining
    BY <1>3, <2>1 DEF BoundsInv, RunInv
  <2>3. QED
    BY <1>1, <1>3, <2>2 DEF Allocating
<1>4. QED
  BY <1>1, <1>2, <1>3 DEF LoadInv, RunInv, CleanInv, BoundsInv

\* A step that writes no batch.
LEMMA RowsStay ==
  ASSUME BoundsInv, DbType,
         UNCHANGED <<nBatches, itemOf, initial, remaining, moved>>
  PROVE  RowInv' /\ BatchBounds' /\ RowsGrow
<1>1. RowInv' /\ BatchBounds'
  BY DEF BoundsInv, RowInv, BatchBounds
<1>2. QED
  BY <1>1 DEF RowsGrow, DbType

\* Where the helpers that end a session leave the sessions.
LEMMA EndedSession ==
  ASSUME SessionType, NEW w \in Workers, EndSession(w) \/ ToJournal(w)
  PROVE  /\ Others(w)
         /\ pc'[w] \in {"idle", "journal"}
         /\ taken'[w] = Zero
<1>1. /\ pc' = [pc EXCEPT ![w] = "idle"] \/ pc' = [pc EXCEPT ![w] = "journal"]
      /\ op' = [op EXCEPT ![w] = NoOp]
      /\ seen' = [seen EXCEPT ![w] = Zero]
      /\ taken' = [taken EXCEPT ![w] = Zero]
  BY DEF EndSession, ToJournal
<1>2. QED
  BY <1>1 DEF SessionType, Others

\* A new request has no batches in memory.
LEMMA BoundsNewRequest ==
  ASSUME TypeOK, LockInv, BoundsInv, TypeOK', NEW w \in Workers, NewRequest(w)
  PROVE  BoundsInv'
<1>t. /\ SessionType /\ DbType /\ pc \in [Workers -> PCs]
      /\ remaining \in [Batch -> Int] /\ moved \in [Batch -> Int]
  BY DEF TypeOK, SessionType, DbType
<1>c. pc[w] = "idle" => taken[w] = Zero
  BY DEF BoundsInv, CleanInv
\* A step that writes no batch and loads none.
<1>s. ASSUME UNCHANGED <<nBatches, itemOf, initial, remaining, moved>>,
             Others(w), pc'[w] \notin {"item", "commit", "alloc"},
             taken'[w] = Zero
      PROVE  BoundsInv'
  <2>1. RowInv' /\ BatchBounds' /\ RowsGrow /\ UNCHANGED remaining
    BY <1>t, <1>s, RowsStay
  <2>2. LoadInv' /\ RunInv' /\ CleanInv'
    BY <1>s, <2>1, SessionsSettle
  <2>3. QED
    BY <2>1, <2>2 DEF BoundsInv
<1>1. ASSUME NEW i \in Items, NEW q \in Qtys, NEW kind,
             Purchase(w, kind, i, q)
      PROVE  BoundsInv'
  <2>1. /\ NewBatch(i, q, remaining, moved) /\ q \in Nat
        /\ writer \in {Nobody, w} /\ ToJournal(w)
    BY <1>1, RequestAssumption DEF Purchase
  <2>2. RowInv' /\ BatchBounds' /\ RowsGrow
    BY <1>t, <2>1, NewBatchRows DEF BoundsInv, BatchBounds, RowInv
  <2>3. LoadInv' /\ RunInv' /\ CleanInv'
    BY <1>t, <2>1, <2>2, EndedSession, SessionsSettle
  <2>4. QED
    BY <2>2, <2>3 DEF BoundsInv
<1>2. ASSUME NEW i \in Items, NEW q \in Qtys, NEW kind,
             SumStock(w, kind, i, q)
      PROVE  BoundsInv'
  <2>1. /\ pc' = pc \/ pc' = [pc EXCEPT ![w] = "batches"]
        /\ op' = op \/ op' = [op EXCEPT ![w] = Body(kind, i, q)]
        /\ pc[w] = "idle" /\ UNCHANGED <<seen, taken>>
    BY <1>2 DEF SumStock, Arrive
  <2>2. Others(w) /\ pc'[w] \in {"idle", "batches"} /\ taken'[w] = Zero
    BY <1>t, <1>c, <2>1 DEF Others, SessionType
  <2>3. QED
    BY <1>s, <1>2, <2>2 DEF SumStock, db
<1>3. ASSUME NEW i \in Items, NEW q \in Qtys, StockInRead(w, i, q)
      PROVE  BoundsInv'
  <2>1. Others(w) /\ pc'[w] = "insert" /\ taken'[w] = Zero
    BY <1>t, <1>c, <1>3 DEF Others, SessionType, StockInRead, Arrive
  <2>2. QED
    BY <1>s, <1>3, <2>1 DEF StockInRead, db
<1>4. ASSUME NEW i \in Items, NEW q \in Qtys, ItemPutRead(w, i, q)
      PROVE  BoundsInv'
  <2>1. Others(w) /\ pc'[w] = "put" /\ taken'[w] = Zero
    BY <1>t, <1>c, <1>4 DEF Others, SessionType, ItemPutRead, Arrive
  <2>2. QED
    BY <1>s, <1>4, <2>1 DEF ItemPutRead, db
<1>5. ASSUME NEW i \in Items, NEW to \in Items, NEW q \in Qtys,
             InventoryRun(w, i, to, q)
      PROVE  BoundsInv'
  <2>1. ToJournal(w)
    BY <1>5 DEF InventoryRun
  <2>2. Others(w) /\ pc'[w] \in {"idle", "journal"} /\ taken'[w] = Zero
    BY <1>t, <2>1, EndedSession
  <2>3. QED
    BY <1>s, <1>5, <2>2 DEF InventoryRun
<1>6. ASSUME NEW run \in Runs, ValidateRun(w, run)
      PROVE  BoundsInv'
  <2>1. Others(w) /\ pc'[w] \in {"record", "begin"} /\ taken'[w] = Zero
    BY <1>t, <1>c, <1>6 DEF Others, SessionType, ValidateRun, Arrive
  <2>2. QED
    BY <1>s, <1>6, <2>1 DEF ValidateRun, db
<1>7. QED
  BY <1>1, <1>2, <1>3, <1>4, <1>5, <1>6 DEF NewRequest

\* The commits that write batches.
LEMMA BoundsCommits ==
  ASSUME TypeOK, LockInv, BoundsInv, TypeOK', NEW w \in Workers,
         StockInCommit(w) \/ IssueCommit(w) \/ RunCommit(w)
  PROVE  BoundsInv'
<1>t. /\ SessionType /\ DbType
      /\ remaining \in [Batch -> Int] /\ moved \in [Batch -> Int]
      /\ taken[w] \in [Batch -> Int]
      /\ op[w].qty \in Nat /\ op[w].item \in Items
  <2>1. op[w] \in Operation /\ op[w].item \in Items
    BY DEF TypeOK, SessionType, StockInCommit, IssueCommit, RunCommit
  <2>2. QED
    BY <2>1 DEF TypeOK, SessionType, DbType, Operation
<1>e. /\ Others(w) /\ pc'[w] \in {"idle", "journal"} /\ taken'[w] = Zero
  <2>1. EndSession(w) \/ ToJournal(w)
    BY DEF StockInCommit, IssueCommit, RunCommit
  <2>2. QED
    BY <1>t, <2>1, EndedSession
<1>w. writer \in {Nobody, w}
  BY DEF StockInCommit, IssueCommit, RunCommit, CanWrite, LockInv
<1>1. SUFFICES RowInv' /\ BatchBounds' /\ RowsGrow
  BY <1>e, <1>w, SessionsSettle DEF BoundsInv
<1>2. CASE StockInCommit(w)
  <2>1. NewBatch(op[w].item, op[w].qty, remaining, moved)
    BY <1>2 DEF StockInCommit
  <2>2. QED
    BY <1>t, <2>1, NewBatchRows DEF BoundsInv, BatchBounds, RowInv
<1>3. CASE IssueCommit(w)
  <2>1. /\ remaining' = Written(w)
        /\ moved' = [b \in Batch |-> moved[b] - taken[w][b]]
        /\ UNCHANGED <<nBatches, itemOf, initial>>
        /\ pc[w] = "commit"
    BY <1>3 DEF IssueCommit
  <2>2. BatchBounds'
    BY <2>1, WrittenBounds DEF BatchBounds
  <2>3. ASSUME NEW b \in Batch, b > nBatches
        PROVE  /\ itemOf'[b] = NoItem /\ initial'[b] = 0
               /\ remaining'[b] = 0 /\ moved'[b] = 0
    <3>1. /\ itemOf[b] = NoItem /\ initial[b] = 0
          /\ remaining[b] = 0 /\ moved[b] = 0
      BY <2>3 DEF BoundsInv, RowInv
    <3>2. taken[w][b] = 0
      BY <2>1, <2>3, WrittenBounds
    <3>3. QED
      BY <2>1, <3>1, <3>2 DEF Written
  <2>4. RowInv'
    BY <2>1, <2>3 DEF RowInv
  <2>5. RowsGrow
    BY <1>t, <2>1 DEF RowsGrow, DbType
  <2>6. QED
    BY <2>2, <2>4, <2>5
<1>4. CASE RunCommit(w)
  <2> DEFINE mov == [b \in Batch |-> moved[b] - taken[w][b]]
  <2>1. /\ NewBatch(op[w].item, op[w].qty, Written(w), mov)
        /\ pc[w] = "alloc"
    BY <1>4 DEF RunCommit
  <2>2. mov \in [Batch -> Int]
    BY <1>t
  <2>3. \A b \in Batch : b > nBatches => mov[b] = 0
    <3>1. \A b \in Batch : b > nBatches => moved[b] = 0 /\ taken[w][b] = 0
      BY <2>1, WrittenBounds DEF BoundsInv, RowInv
    <3>2. QED
      BY <3>1
  <2> HIDE DEF mov
  <2>4. QED
    BY <1>t, <2>1, <2>2, <2>3, WrittenBounds, NewBatchRows DEF BoundsInv
<1>5. QED
  BY <1>2, <1>3, <1>4

\* The walk takes from the batches of the item, and no more than they hold.
LEMMA WalkBounds ==
  ASSUME NEW f, f \in [Batch -> Int], NEW q \in Nat,
         \A b \in Batch : 0 <= f[b]
  PROVE  /\ FifoTake(f, q, MaxBatches) \in [Batch -> Nat]
         /\ \A b \in Batch : FifoTake(f, q, MaxBatches)[b] \in 0 .. f[b]
<1>1. \A b \in 1 .. MaxBatches : f[b] \in Nat
  BY BatchFacts
<1>2. QED
  BY <1>1, BatchFacts, TakeBounds

\* What fifo_consume loads of item i, and what its walk takes of it.
LEMMA WalkOfItem ==
  ASSUME DbType, BatchBounds, NEW i, NEW q \in Nat
  PROVE  /\ OfItem(remaining, i) \in [Batch -> Nat]
         /\ FifoTake(OfItem(remaining, i), q, MaxBatches) \in [Batch -> Nat]
         /\ \A b \in Batch :
              LET held == OfItem(remaining, i)[b]
                  take == FifoTake(OfItem(remaining, i), q, MaxBatches)[b]
              IN  /\ 0 <= take /\ take <= held /\ held <= initial[b]
                  /\ take > 0 => itemOf[b] = i
<1>1. PICK f : f = OfItem(remaining, i)
  OBVIOUS
<1>2. f \in [Batch -> Int]
  BY <1>1 DEF OfItem, DbType
<1>3. \A b \in Batch : 0 <= f[b] /\ f[b] <= initial[b]
  BY <1>1 DEF OfItem, DbType, BatchBounds
<1>4. \A b \in Batch : f[b] > 0 => itemOf[b] = i
  BY <1>1 DEF OfItem, DbType
<1>5. PICK g : g = FifoTake(f, q, MaxBatches)
  OBVIOUS
<1>6. g \in [Batch -> Nat] /\ \A b \in Batch : g[b] \in 0 .. f[b]
  BY <1>2, <1>3, <1>5, WalkBounds
<1>7. f \in [Batch -> Nat]
  BY <1>2, <1>3
<1>8. \A b \in Batch : /\ 0 <= g[b] /\ g[b] <= f[b] /\ f[b] <= initial[b]
                       /\ g[b] > 0 => itemOf[b] = i
  BY <1>3, <1>4, <1>6, <1>7
<1>9. QED
  BY <1>1, <1>5, <1>6, <1>7, <1>8

LEMMA BoundsReadBatches ==
  ASSUME TypeOK, LockInv, BoundsInv, TypeOK', NEW w \in Workers, ReadBatches(w)
  PROVE  BoundsInv'
<1> DEFINE i == op[w].item
           avail == OfItem(remaining, i)
<1>t. SessionType /\ DbType /\ op[w].qty \in Nat
  <2>1. op[w] \in Operation
    BY DEF TypeOK, SessionType
  <2>2. QED
    BY <2>1 DEF TypeOK, Operation
<1>1. UNCHANGED <<nBatches, itemOf, initial, remaining, moved>>
  BY DEF ReadBatches, db
<1>2. RowInv' /\ BatchBounds' /\ RowsGrow /\ UNCHANGED remaining
  BY <1>t, <1>1, RowsStay
<1>3. CASE Short(avail, op[w].qty)
  <2>1. EndSession(w)
    BY <1>3 DEF ReadBatches
  <2>2. QED
    BY <1>t, <1>2, <2>1, EndedSession, SessionsSettle DEF BoundsInv
<1>4. CASE ~Short(avail, op[w].qty)
  <2>1. /\ pc' = [pc EXCEPT ![w] = "item"]
        /\ seen' = [seen EXCEPT ![w] = avail]
        /\ taken' = [taken EXCEPT ![w] = FifoTake(avail, op[w].qty, MaxBatches)]
        /\ op' = op
    BY <1>4 DEF ReadBatches
  <2>2. /\ Others(w) /\ pc'[w] = "item" /\ op'[w] = op[w]
        /\ seen'[w] = avail
        /\ taken'[w] = FifoTake(avail, op[w].qty, MaxBatches)
    BY <1>t, <2>1 DEF SessionType, Others
  <2>3. BatchBounds
    BY DEF BoundsInv
  <2>4. Loaded(w)'
    BY <1>t, <1>1, <2>2, <2>3, WalkOfItem DEF Loaded
  <2>5. QED
    BY <1>2, <2>2, <2>4, SessionsSettle DEF BoundsInv
<1>5. QED
  BY <1>3, <1>4

LEMMA BoundsAllocateLine ==
  ASSUME TypeOK, LockInv, BoundsInv, TypeOK', NEW w \in Workers,
         AllocateLine(w)
  PROVE  BoundsInv'
<1> DEFINE l == op[w].lines[line[w]]
           avail == Unallocated(w, l.item)
           take == FifoTake(avail, l.qty, MaxBatches)
<1>t. /\ SessionType /\ DbType /\ pc[w] = "alloc"
      /\ seen[w] \in [Batch -> Int] /\ taken[w] \in [Batch -> Int]
  BY DEF TypeOK, SessionType, AllocateLine
<1>q. l.qty \in Nat
  <2>1. op[w] \in Operation /\ line[w] \in DOMAIN op[w].lines
    BY DEF TypeOK, SessionType, AllocateLine
  <2>2. op[w].lines \in Lines
    BY <2>1 DEF Operation
  <2>3. QED
    BY <2>1, <2>2, LineType
<1> HIDE DEF l
<1>1. UNCHANGED <<nBatches, itemOf, initial, remaining, moved>>
  BY DEF AllocateLine, db
<1>2. RowInv' /\ BatchBounds' /\ RowsGrow /\ UNCHANGED remaining
  BY <1>t, <1>1, RowsStay
<1>3. Allocating(w)
  BY <1>t DEF BoundsInv, RunInv
<1>4. avail \in [Batch -> Int]
      /\ \A b \in Batch : 0 <= avail[b] /\ avail[b] <= seen[w][b] - taken[w][b]
  BY <1>t, <1>3 DEF Unallocated, Allocating, DbType
<1> HIDE DEF avail
<1>5. take \in [Batch -> Nat] /\ \A b \in Batch : take[b] \in 0 .. avail[b]
  BY <1>q, <1>4, WalkBounds
<1> HIDE DEF take
<1>6. \/ UNCHANGED <<pc, taken, seen>>
      \/ /\ pc' = [pc EXCEPT ![w] = "record"]
         /\ seen' = [seen EXCEPT ![w] = Zero]
         /\ taken' = [taken EXCEPT ![w] = Zero]
      \/ /\ taken' = [taken EXCEPT ![w] =
                        [b \in Batch |-> taken[w][b] + take[b]]]
         /\ UNCHANGED <<pc, seen>>
  BY DEF AllocateLine, l, avail, take
<1>7. Others(w)
  BY <1>t, <1>6 DEF AllocateLine, Others, SessionType
<1>8. CASE UNCHANGED <<pc, taken, seen>>
  BY <1>t, <1>2, <1>3, <1>7, <1>8, SessionsSettle DEF BoundsInv, Allocating
<1>9. CASE /\ pc' = [pc EXCEPT ![w] = "record"]
           /\ taken' = [taken EXCEPT ![w] = Zero]
  <2>1. pc'[w] = "record" /\ taken'[w] = Zero
    BY <1>t, <1>9 DEF SessionType
  <2>2. QED
    BY <1>2, <1>7, <2>1, SessionsSettle DEF BoundsInv
<1>10. CASE /\ taken' = [taken EXCEPT ![w] =
                           [b \in Batch |-> taken[w][b] + take[b]]]
            /\ UNCHANGED <<pc, seen>>
  <2>1. taken'[w] = [b \in Batch |-> taken[w][b] + take[b]]
    BY <1>t, <1>10 DEF SessionType
  <2>2. ASSUME NEW b \in Batch
        PROVE  0 <= taken'[w][b] /\ taken'[w][b] <= remaining[b]
    <3>1. /\ 0 <= take[b] /\ take[b] <= seen[w][b] - taken[w][b]
          /\ take[b] \in Int /\ seen[w][b] \in Int /\ taken[w][b] \in Int
          /\ 0 <= taken[w][b] /\ seen[w] = remaining
      BY <1>t, <1>3, <1>4, <1>5 DEF Allocating
    <3>2. QED
      BY <2>1, <3>1
  <2>3. Allocating(w)'
    BY <1>2, <1>3, <1>10, <2>2 DEF Allocating
  <2>4. pc'[w] = "alloc"
    BY <1>t, <1>10
  <2>5. QED
    BY <1>2, <1>7, <2>3, <2>4, SessionsSettle DEF BoundsInv
<1>11. QED
  BY <1>6, <1>8, <1>9, <1>10

LEMMA BoundsContinue ==
  ASSUME TypeOK, LockInv, BoundsInv, TypeOK', NEW w \in Workers, Continue(w)
  PROVE  BoundsInv'
<1>t. SessionType /\ DbType
  BY DEF TypeOK
<1>1. CASE \/ RecordFailedRun(w) \/ ItemPutCommit(w) \/ AppendJournal(w)
           \/ Busy(w)
  <2>1. /\ UNCHANGED <<nBatches, itemOf, initial, remaining, moved>>
        /\ EndSession(w)
    BY <1>1 DEF RecordFailedRun, ItemPutCommit, AppendJournal, Busy, db
  <2>2. RowInv' /\ BatchBounds' /\ RowsGrow /\ UNCHANGED remaining
    BY <1>t, <2>1, RowsStay
  <2>3. QED
    BY <1>t, <2>1, <2>2, EndedSession, SessionsSettle DEF BoundsInv
<1>2. CASE ReadItem(w)
  <2>1. /\ UNCHANGED <<nBatches, itemOf, initial, remaining, moved>>
        /\ UNCHANGED <<op, seen, taken>>
        /\ pc[w] = "item" /\ pc' = [pc EXCEPT ![w] = "commit"]
    BY <1>2 DEF ReadItem, db
  <2>2. RowInv' /\ BatchBounds' /\ RowsGrow /\ UNCHANGED remaining
    BY <1>t, <2>1, RowsStay
  <2>3. Others(w) /\ pc'[w] = "commit"
    BY <1>t, <2>1 DEF Others, SessionType
  <2>4. Loaded(w)'
    BY <2>1 DEF BoundsInv, LoadInv, Loaded
  <2>5. QED
    BY <2>2, <2>3, <2>4, SessionsSettle DEF BoundsInv
<1>3. CASE BeginRun(w)
  <2>1. /\ UNCHANGED <<nBatches, itemOf, initial, remaining, moved>>
        /\ UNCHANGED <<op, taken>> /\ seen' = [seen EXCEPT ![w] = remaining]
        /\ pc[w] = "begin" /\ pc' = [pc EXCEPT ![w] = "alloc"]
    BY <1>3 DEF BeginRun, db
  <2>2. RowInv' /\ BatchBounds' /\ RowsGrow /\ UNCHANGED remaining
    BY <1>t, <2>1, RowsStay
  <2>3. Others(w) /\ pc'[w] = "alloc" /\ seen'[w] = remaining
    BY <1>t, <2>1 DEF Others, SessionType
  <2>4. \A b \in Batch : taken[w][b] = 0
    BY <2>1, BatchFacts DEF BoundsInv, CleanInv
  <2>5. Allocating(w)'
    BY <2>1, <2>3, <2>4 DEF Allocating, BoundsInv, BatchBounds
  <2>6. QED
    BY <2>2, <2>3, <2>5, SessionsSettle DEF BoundsInv
<1>4. QED
  BY <1>1, <1>2, <1>3, BoundsCommits, BoundsReadBatches, BoundsAllocateLine
     DEF Continue

LEMMA BoundsStep ==
  TypeOK /\ LockInv /\ BoundsInv /\ [Next]_vars => BoundsInv'
<1> SUFFICES ASSUME TypeOK, LockInv, BoundsInv, [Next]_vars PROVE BoundsInv'
  OBVIOUS
<1>1. TypeOK'
  BY TypeStep
<1>2. ASSUME NEW w \in Workers, NewRequest(w) \/ Continue(w) PROVE BoundsInv'
  BY <1>1, <1>2, BoundsNewRequest, BoundsContinue
<1>3. CASE Crash
  <2>1. /\ UNCHANGED <<nBatches, itemOf, initial, remaining, moved>>
        /\ \A w \in Workers : pc'[w] = "idle" /\ taken'[w] = Zero
    BY <1>3 DEF Crash, db
  <2>2. RowInv' /\ BatchBounds'
    BY <2>1, RowsStay DEF TypeOK
  <2>3. LoadInv' /\ RunInv' /\ CleanInv'
    BY <2>1 DEF LoadInv, RunInv, CleanInv
  <2>4. QED
    BY <2>2, <2>3 DEF BoundsInv
<1>4. CASE UNCHANGED vars
  BY <1>4 DEF vars, db, sess, BoundsInv, RowInv, LoadInv, Loaded, RunInv,
              Allocating, CleanInv, BatchBounds
<1>5. QED
  BY <1>2, <1>3, <1>4 DEF Next

(***************************************************************************)
(* The inductive invariant behind the bounds of batches and runs: what rows, *)
(* sessions of fifo_consume and runs hold in memory stays within what was  *)
(* received, and only a handler between load and commit has taken anything. *)
(***************************************************************************)
THEOREM BoundsSafe == Spec => []BoundsInv
BY BoundsInit, BoundsStep, TypeCorrect, LockSafe, PTL DEF Spec

(***************************************************************************)
(* However requests interleave, no batch goes below zero or above what was *)
(* received.                                                               *)
(***************************************************************************)
THEOREM BatchesBounded == Spec => []BatchBounds
<1>1. BoundsInv => BatchBounds
  BY DEF BoundsInv
<1>2. QED
  BY <1>1, BoundsSafe, PTL

(***************************************************************************)
(* A manufacturing run takes only stock that is there when it commits.     *)
(***************************************************************************)
THEOREM RunsNeverOversell == Spec => []RunNeverOversells
<1>1. BoundsInv => RunNeverOversells
  BY DEF BoundsInv, RunInv, Allocating, RunNeverOversells
<1>2. QED
  BY <1>1, BoundsSafe, PTL
=============================================================================
