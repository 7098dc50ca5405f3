------------------------- MODULE AllocationLemmas --------------------------
(***************************************************************************)
(* What one price level promises, proved for every level and every         *)
(* quantity.  The recursive functions of Allocation are unfolded once and  *)
(* for all, in the ...Def lemmas.                                          *)
(***************************************************************************)
EXTENDS Allocation, ListLemmas

-----------------------------------------------------------------------------
(* The recursive functions of Allocation satisfy their equations.          *)

(* RunningSum: the code's accumulations, in which every addition wraps.    *)
LEMMA RunningSumDef ==
  ASSUME NEW q \in Seq(Nat)
  PROVE  /\ RunningSum(q) \in [0 .. Len(q) -> Quantity]
         /\ RunningSum(q)[0] = 0
         /\ \A i \in 1 .. Len(q) :
              RunningSum(q)[i] = (RunningSum(q)[i - 1] + q[i]) % Word
<1> DEFINE n == Len(q)
           step == [i \in 1 .. n |-> [x \in Quantity |-> (x + q[i]) % Word]]
           D(f) == f = [i \in 0 .. n |->
                          IF i = 0 THEN 0 ELSE (f[i - 1] + q[i]) % Word]
<1>0. n \in Nat
  OBVIOUS
<1>1. 0 \in Quantity /\ step \in [1 .. n -> [Quantity -> Quantity]]
  <2>1. ASSUME NEW i \in 1 .. n, NEW x \in Quantity
        PROVE  (x + q[i]) % Word \in Quantity
    BY WordAssumption DEF Quantity
  <2> QED BY <2>1, WordAssumption, SMTT(60) DEF Quantity
<1>2. PICK f : Iterates(f, n, Quantity, 0, step)
  <2> HIDE DEF step, n
  <2> QED BY <1>0, <1>1, Iteration
<1>3. D(f)
  <2>1. f \in [0 .. n -> Quantity] /\ f[0] = 0
    BY <1>2 DEF Iterates
  <2>2. \A i \in 1 .. n : f[i] = (f[i - 1] + q[i]) % Word
    <3> SUFFICES ASSUME NEW i \in 1 .. n PROVE f[i] = (f[i - 1] + q[i]) % Word
      OBVIOUS
    <3>1. f[i - 1] \in Quantity
      BY <2>1, SMTT(60)
    <3>2. f[i] = step[i][f[i - 1]]
      BY <1>2 DEF Iterates
    <3> QED BY <3>1, <3>2
  <2> QED BY <2>1, <2>2
<1>4. RunningSum(q) = CHOOSE g : D(g)
  BY DEF RunningSum
<1>5. D(RunningSum(q))
  <2> HIDE DEF D
  <2> QED BY <1>3, <1>4
<1>6. ASSUME NEW g, D(g)
      PROVE  /\ g = [i \in 0 .. n |-> g[i]] /\ g[0] = 0
             /\ \A i \in 1 .. n : g[i] = (g[i - 1] + q[i]) % Word
  <2> HIDE DEF n
  <2>1. g = [i \in 0 .. n |-> g[i]]
    BY <1>6
  <2>2. g[0] = 0
    BY <1>6, <1>0
  <2>3. \A i \in 1 .. n : g[i] = (g[i - 1] + q[i]) % Word
    BY <1>6, <1>0
  <2> QED BY <2>1, <2>2, <2>3, Zenon
<1>7. ASSUME NEW g, D(g) PROVE Iterates(g, n, Quantity, 0, step)
  <2>1. Follows(g, n, Quantity, 0, step)
    BY <1>6, <1>7 DEF Follows
  <2> HIDE DEF step, n
  <2> QED BY <1>0, <1>1, <2>1, FollowsIterates
<1> HIDE DEF D
<1> QED BY <1>5, <1>6, <1>7 DEF Iterates

(* LeftOver: what the slots, each taking what it can, leave of an amount.  *)
LEMMA LeftOverDef ==
  ASSUME NEW cap \in Seq(Nat), NEW amount \in Nat
  PROVE  /\ LeftOver(cap, amount) \in [0 .. Len(cap) -> 0 .. amount]
         /\ LeftOver(cap, amount)[0] = amount
         /\ \A i \in 1 .. Len(cap) :
              LeftOver(cap, amount)[i] =
                LeftOver(cap, amount)[i - 1] - MinOf(cap[i], LeftOver(cap, amount)[i - 1])
<1> DEFINE n == Len(cap)
           S == 0 .. amount
           step == [i \in 1 .. n |-> [x \in S |-> x - MinOf(cap[i], x)]]
           D(f) == f = [i \in 0 .. n |->
                          IF i = 0 THEN amount ELSE f[i - 1] - MinOf(cap[i], f[i - 1])]
<1>0. n \in Nat
  OBVIOUS
<1>1. amount \in S /\ step \in [1 .. n -> [S -> S]]
  <2>1. ASSUME NEW i \in 1 .. n, NEW x \in S PROVE x - MinOf(cap[i], x) \in S
    BY DEF MinOf
  <2>2. amount \in S
    OBVIOUS
  <2> HIDE DEF S
  <2> QED BY <2>1, <2>2
<1>2. PICK f : Iterates(f, n, S, amount, step)
  <2> HIDE DEF step, n, S
  <2> QED BY <1>0, <1>1, Iteration, Zenon
<1>3. D(f)
  <2> HIDE DEF S
  <2>1. f \in [0 .. n -> S] /\ f[0] = amount
    BY <1>2 DEF Iterates
  <2>2. \A i \in 1 .. n : f[i] = f[i - 1] - MinOf(cap[i], f[i - 1])
    <3> SUFFICES ASSUME NEW i \in 1 .. n
                 PROVE  f[i] = f[i - 1] - MinOf(cap[i], f[i - 1])
      OBVIOUS
    <3>1. f[i - 1] \in S
      BY <2>1, SMTT(60)
    <3>2. f[i] = step[i][f[i - 1]]
      BY <1>2 DEF Iterates
    <3> QED BY <3>1, <3>2
  <2> QED BY <2>1, <2>2
<1>4. LeftOver(cap, amount) = CHOOSE g : D(g)
  BY DEF LeftOver
<1>5. D(LeftOver(cap, amount))
  <2> HIDE DEF D
  <2> QED BY <1>3, <1>4
<1>6. ASSUME NEW g, D(g)
      PROVE  /\ g = [i \in 0 .. n |-> g[i]] /\ g[0] = amount
             /\ \A i \in 1 .. n : g[i] = g[i - 1] - MinOf(cap[i], g[i - 1])
  <2> HIDE DEF n
  <2>1. g = [i \in 0 .. n |-> g[i]]
    BY <1>6
  <2>2. g[0] = amount
    BY <1>6, <1>0
  <2>3. \A i \in 1 .. n : g[i] = g[i - 1] - MinOf(cap[i], g[i - 1])
    BY <1>6, <1>0
  <2> QED BY <2>1, <2>2, <2>3, Zenon
<1>7. ASSUME NEW g, D(g) PROVE Iterates(g, n, S, amount, step)
  <2>1. Follows(g, n, S, amount, step)
    <3> HIDE DEF S
    <3> QED BY <1>6, <1>7, SMTT(60) DEF Follows
  <2> HIDE DEF step, n, S
  <2> QED BY <1>0, <1>1, <2>1, FollowsIterates, Zenon
<1> HIDE DEF D
<1> QED BY <1>5, <1>6, <1>7 DEF Iterates

-----------------------------------------------------------------------------
(* Sums.                                                                   *)

(* Reducing a Quantity modulo Word changes nothing.                        *)
LEMMA WrapIdentity ==
  ASSUME NEW x \in Nat, NEW w \in Nat, x < w
  PROVE  x % w = x
  OBVIOUS

(* While the exact sum is below Word the code's sum is exact.              *)
LEMMA TotalExact ==
  ASSUME NEW q \in Seq(Nat), Sum(q) < Word
  PROVE  Total(q) = Sum(q)
<1> DEFINE n == Len(q)
           P == PartialSums(q)
           R == RunningSum(q)
           T == {i \in 0 .. n : R[i] = P[i]}
<1>0. n \in Nat /\ Total(q) = R[n] /\ Sum(q) = P[n]
  BY DEF Sum, Total
<1>1. /\ P \in [0 .. n -> Nat] /\ P[0] = 0
      /\ \A i \in 1 .. n : P[i] = P[i - 1] + q[i]
  BY PartialSumsDef
<1>2. R[0] = 0 /\ \A i \in 1 .. n : R[i] = (R[i - 1] + q[i]) % Word
  BY RunningSumDef
<1>3. \A i \in 0 .. n : P[i] \in 0 .. Sum(q)
  BY PartialSumsBound
<1>4. Sum(q) \in Nat
  BY PartialSumsBound
<1> HIDE DEF P, R, n
<1>5. 0 \in T
  BY <1>0, <1>1, <1>2
<1>6. \A i \in 1 .. n : i - 1 \in T => i \in T
  <2> SUFFICES ASSUME NEW i \in 1 .. n, R[i - 1] = P[i - 1] PROVE R[i] = P[i]
    BY <1>0
  <2>1. R[i] = P[i] % Word
    BY <1>1, <1>2
  <2>2. P[i] \in Nat /\ P[i] < Word
    BY <1>0, <1>3, <1>4, WordAssumption
  <2> QED BY <2>1, <2>2, WordAssumption, WrapIdentity
<1>7. \A i \in 0 .. n : i \in T
  <2>1. n \in Nat
    BY <1>0
  <2> HIDE DEF T
  <2> QED BY <2>1, <1>5, <1>6, UpToInduction, Zenon
<1> QED BY <1>0, <1>7

(* Products of naturals.                                                   *)
LEMMA Products ==
  \A a, b, c \in Nat : /\ a * b \in Nat /\ a * b = b * a
                       /\ a * (b + c) = a * b + a * c
                       /\ b <= c => b * a <= c * a
  OBVIOUS

(* A product distributes over a sum.                                       *)
LEMMA Distributes ==
  ASSUME NEW a \in Nat, NEW b \in Nat, NEW c \in Nat
  PROVE  a * (b + c) = a * b + a * c
  OBVIOUS

(* Two bounds added up.                                                    *)
LEMMA BoundsAdd ==
  \A a, b, c, d, e, f \in Nat :
    a <= c + e /\ b <= d + f => a + b <= (c + d) + (e + f)
  OBVIOUS

-----------------------------------------------------------------------------
(* Slots that take what they can.                                          *)

(* The amount left after i slots is the amount less their capacities, or   *)
(* nothing; and what slot i takes is at most its capacity.                 *)
LEMMA LeftOverClosedForm ==
  ASSUME NEW cap \in Seq(Nat), NEW amount \in Nat
  PROVE  \A i \in 0 .. Len(cap) :
           LeftOver(cap, amount)[i] =
             IF PartialSums(cap)[i] <= amount THEN amount - PartialSums(cap)[i] ELSE 0
<1> DEFINE n == Len(cap)
           L == LeftOver(cap, amount)
           P == PartialSums(cap)
           T == {i \in 0 .. n : L[i] = IF P[i] <= amount THEN amount - P[i] ELSE 0}
<1>0. n \in Nat
  OBVIOUS
<1>1. L[0] = amount /\ \A i \in 1 .. n : L[i] = L[i - 1] - MinOf(cap[i], L[i - 1])
  BY LeftOverDef
<1>2. P \in [0 .. n -> Nat] /\ P[0] = 0 /\ \A i \in 1 .. n : P[i] = P[i - 1] + cap[i]
  BY PartialSumsDef
<1>3. \A i \in 1 .. n : cap[i] \in Nat
  OBVIOUS
<1> HIDE DEF L, P, n
<1>4. 0 \in T
  BY <1>0, <1>1, <1>2
<1>5. \A i \in 1 .. n : i - 1 \in T => i \in T
  <2> SUFFICES ASSUME NEW i \in 1 .. n,
                      L[i - 1] = IF P[i - 1] <= amount THEN amount - P[i - 1] ELSE 0
               PROVE  L[i] = IF P[i] <= amount THEN amount - P[i] ELSE 0
    BY <1>0
  <2>1. P[i - 1] \in Nat /\ cap[i] \in Nat /\ P[i] = P[i - 1] + cap[i]
    BY <1>0, <1>2, <1>3, SMTT(60)
  <2>2. L[i] = L[i - 1] - MinOf(cap[i], L[i - 1])
    BY <1>1
  <2> QED BY <2>1, <2>2, SMTT(60) DEF MinOf
<1>6. \A i \in 0 .. n : i \in T
  <2> HIDE DEF T
  <2> QED BY <1>0, <1>4, <1>5, UpToInduction, Zenon
<1> QED BY <1>6 DEF L, P, n

(* A slot that leaves something has taken its whole capacity.              *)
LEMMA LeftOverStep ==
  ASSUME NEW cap \in Seq(Nat), NEW amount \in Nat, NEW k \in 1 .. Len(cap)
  PROVE  LET L == LeftOver(cap, amount)
         IN  /\ L[k - 1] \in Nat /\ L[k] \in Nat /\ L[k] <= L[k - 1]
             /\ L[k] > 0 => L[k - 1] - L[k] = cap[k]
<1> DEFINE L == LeftOver(cap, amount)
<1>1. L[k - 1] \in Nat /\ L[k] = L[k - 1] - MinOf(cap[k], L[k - 1])
  <2>1. k - 1 \in 0 .. Len(cap)
    OBVIOUS
  <2>2. L \in [0 .. Len(cap) -> 0 .. amount]
    BY LeftOverDef, Zenon
  <2>3. L[k] = L[k - 1] - MinOf(cap[k], L[k - 1])
    BY LeftOverDef
  <2> QED BY <2>1, <2>2, <2>3, SMTT(60)
<1>2. cap[k] \in Nat
  OBVIOUS
<1> HIDE DEF L
<1>3. L[k] \in Nat /\ L[k] <= L[k - 1] /\ (L[k] > 0 => L[k - 1] - L[k] = cap[k])
  BY <1>1, <1>2 DEF MinOf
<1> QED BY <1>1, <1>3 DEF L

(* A slot takes something only when every slot before it is full.          *)
LEMMA FirstComeFirst ==
  ASSUME NEW cap \in Seq(Nat), NEW amount \in Nat,
         NEW i \in 1 .. Len(cap), NEW j \in 1 .. Len(cap), i < j,
         LeftOver(cap, amount)[j - 1] - LeftOver(cap, amount)[j] > 0
  PROVE  LeftOver(cap, amount)[i - 1] - LeftOver(cap, amount)[i] = cap[i]
<1> DEFINE L == LeftOver(cap, amount)
           n == Len(cap)
<1>1. n \in Nat
  OBVIOUS
<1>2. \A k \in 1 .. n : /\ L[k] <= L[k - 1] /\ L[k] \in Nat /\ L[k - 1] \in Nat
                        /\ L[k] > 0 => L[k - 1] - L[k] = cap[k]
  BY LeftOverStep
<1>3. i \in 1 .. n /\ j \in 1 .. n /\ i < j /\ L[j - 1] - L[j] > 0
  OBVIOUS
<1> HIDE DEF L, n
<1>4. L[j - 1] > 0
  BY <1>2, <1>3
<1> DEFINE T == {k \in 0 .. (j - 1) - i : L[(j - 1) - k] > 0}
<1>5. (j - 1) - i \in Nat
  BY <1>1, <1>3
<1>6. 0 \in T
  BY <1>3, <1>4, <1>5
<1>7. \A k \in 1 .. (j - 1) - i : k - 1 \in T => k \in T
  <2> SUFFICES ASSUME NEW k \in 1 .. (j - 1) - i, L[(j - 1) - (k - 1)] > 0
               PROVE  L[(j - 1) - k] > 0
    BY <1>5
  <2>1. (j - 1) - (k - 1) \in 1 .. n /\ ((j - 1) - (k - 1)) - 1 = (j - 1) - k
    BY <1>1, <1>3, <1>5
  <2>2. /\ L[(j - 1) - (k - 1)] <= L[(j - 1) - k]
        /\ L[(j - 1) - (k - 1)] \in Nat /\ L[(j - 1) - k] \in Nat
    BY <1>2, <2>1
  <2> QED BY <2>2, SMTT(30)
<1>8. \A k \in 0 .. (j - 1) - i : k \in T
  <2> HIDE DEF T
  <2> QED BY <1>5, <1>6, <1>7, UpToInduction, Zenon
<1>9. (j - 1) - i \in 0 .. (j - 1) - i /\ (j - 1) - ((j - 1) - i) = i
  BY <1>1, <1>3, <1>5
<1>10. L[(j - 1) - ((j - 1) - i)] > 0
  BY <1>8, <1>9, Zenon
<1>11. L[i] > 0
  BY <1>9, <1>10
<1> QED BY <1>2, <1>3, <1>11, Zenon DEF L

(* The takes of the slots.                                                 *)
Takes(cap, amount) ==
  [i \in 1 .. Len(cap) |-> LeftOver(cap, amount)[i - 1] - LeftOver(cap, amount)[i]]

(* Each take is within the slot's capacity; together they are what the     *)
(* slots did not leave; and they exhaust an amount the slots can hold.     *)
LEMMA TakesAddUp ==
  ASSUME NEW cap \in Seq(Nat), NEW amount \in Nat
  PROVE  /\ Takes(cap, amount) \in Seq(Nat)
         /\ Len(Takes(cap, amount)) = Len(cap)
         /\ \A i \in 1 .. Len(cap) : Takes(cap, amount)[i] \in 0 .. cap[i]
         /\ Sum(Takes(cap, amount)) = MinOf(amount, Sum(cap))
<1> DEFINE n == Len(cap)
           L == LeftOver(cap, amount)
           t == Takes(cap, amount)
           P == PartialSums(t)
           T == {i \in 0 .. n : P[i] = amount - L[i]}
<1>0. n \in Nat
  OBVIOUS
<1>1. /\ L \in [0 .. n -> 0 .. amount] /\ L[0] = amount
      /\ \A i \in 1 .. n : L[i] = L[i - 1] - MinOf(cap[i], L[i - 1])
  BY LeftOverDef, ZenonT(60)
<1>2. L[n] = IF Sum(cap) <= amount THEN amount - Sum(cap) ELSE 0
  BY LeftOverClosedForm, <1>0 DEF Sum
<1>3. \A i \in 1 .. n : cap[i] \in Nat
  OBVIOUS
<1>4. \A i \in 1 .. n : t[i] = L[i - 1] - L[i] /\ t[i] \in 0 .. cap[i]
  <2> SUFFICES ASSUME NEW i \in 1 .. n PROVE t[i] = L[i - 1] - L[i] /\ t[i] \in 0 .. cap[i]
    OBVIOUS
  <2>1. t[i] = L[i - 1] - L[i]
    BY DEF Takes
  <2> HIDE DEF L, t, n
  <2>2. L[i - 1] \in Nat /\ L[i] = L[i - 1] - MinOf(cap[i], L[i - 1]) /\ cap[i] \in Nat
    BY <1>0, <1>1, <1>3
  <2> QED BY <2>1, <2>2 DEF MinOf
<1>5. t \in Seq(Nat) /\ Len(t) = n
  <2>1. t = [i \in 1 .. n |-> t[i]]
    BY DEF Takes
  <2>2. \A i \in 1 .. n : t[i] \in Nat
    BY <1>3, <1>4
  <2> HIDE DEF t, n
  <2> QED BY <1>0, <2>1, <2>2, SMTT(60)
<1>6. P[0] = 0 /\ \A i \in 1 .. n : P[i] = P[i - 1] + t[i]
  <2> HIDE DEF t
  <2> QED BY <1>5, PartialSumsDef
<1>7. Sum(t) = P[n]
  BY <1>5 DEF Sum
<1>8. Sum(cap) \in Nat
  BY PartialSumsBound
<1> HIDE DEF L, t, P, n
<1>9. 0 \in T
  BY <1>0, <1>1, <1>6
<1>10. \A i \in 1 .. n : i - 1 \in T => i \in T
  <2> SUFFICES ASSUME NEW i \in 1 .. n, P[i - 1] = amount - L[i - 1]
               PROVE  P[i] = amount - L[i]
    BY <1>0
  <2>1. L[i - 1] \in Nat /\ L[i] \in Nat
    BY <1>0, <1>1
  <2> QED BY <1>4, <1>6, <2>1
<1>11. \A i \in 0 .. n : i \in T
  <2> HIDE DEF T
  <2> QED BY <1>0, <1>9, <1>10, UpToInduction, Zenon
<1>12. Sum(t) = MinOf(amount, Sum(cap))
  <2>1. P[n] = amount - L[n]
    BY <1>0, <1>11
  <2> QED BY <1>2, <1>7, <1>8, <2>1 DEF MinOf
<1> QED BY <1>4, <1>5, <1>12 DEF t, n

-----------------------------------------------------------------------------
(* The two allocation algorithms.                                          *)

(* What a correct split of an offer over a level is: a fill per order, no  *)
(* more than the order has, and min(offer, total) altogether.              *)
ExactSplit(q, available, fills) ==
  /\ fills \in Seq(Nat)
  /\ Len(fills) = Len(q)
  /\ \A i \in 1 .. Len(q) : fills[i] \in 0 .. q[i]
  /\ Sum(fills) = MinOf(available, Sum(q))

(* fill_level_fifo splits exactly.                                         *)
LEMMA FifoSplits ==
  ASSUME NEW q \in Seq(Nat), NEW available \in Nat
  PROVE  ExactSplit(q, available, Fifo(q, available))
<1>1. Fifo(q, available) = Takes(q, available)
  BY DEF Fifo, Takes
<1> QED BY <1>1, TakesAddUp DEF ExactSplit

(* A floor share is at most the order's size, even if the product wraps.   *)
LEMMA FloorShareBound ==
  ASSUME NEW t \in Nat, NEW x \in Nat, NEW total \in Nat, 0 < total, t <= total
  PROVE  /\ ((t * x) % Word) \div total \in Nat
         /\ total * (((t * x) % Word) \div total) <= t * x
         /\ ((t * x) % Word) \div total <= x
<1> DEFINE y == (t * x) % Word
           d == y \div total
<1>1. t * x \in Nat
  OBVIOUS
<1>2. y \in Nat /\ y <= t * x
  <2>1. ASSUME NEW z \in Nat PROVE z % Word \in Nat /\ z % Word <= z
    BY WordAssumption
  <2> QED BY <1>1, <2>1
<1> HIDE DEF y
<1>3. d \in Nat /\ total * d <= y
  BY <1>2
<1> HIDE DEF d
<1>4. total * d <= t * x
  BY <1>1, <1>2, <1>3
<1>5. t * x <= total * x
  OBVIOUS
<1>6. d <= x
  <2> SUFFICES ASSUME x + 1 <= d PROVE FALSE
    BY <1>3
  <2>1. total * (x + 1) <= total * d
    BY <1>3
  <2>2. total * (x + 1) = total * x + total
    OBVIOUS
  <2>3. total * d \in Nat /\ total * x \in Nat
    BY <1>3
  <2> QED BY <1>1, <1>4, <1>5, <2>1, <2>2, <2>3
<1> QED BY <1>3, <1>4, <1>6 DEF y, d

(* The floor shares of a level add up to at most the quantity to fill.     *)
LEMMA FloorShareSum ==
  ASSUME NEW q \in Seq(Nat), NEW t \in Nat, 0 < Sum(q), t <= Sum(q)
  PROVE  /\ FloorShare(q, t, Sum(q)) \in Seq(Nat)
         /\ Len(FloorShare(q, t, Sum(q))) = Len(q)
         /\ \A i \in 1 .. Len(q) : FloorShare(q, t, Sum(q))[i] \in 0 .. q[i]
         /\ Sum(FloorShare(q, t, Sum(q))) \in 0 .. t
<1> DEFINE n == Len(q)
           total == Sum(q)
           s == FloorShare(q, t, total)
           P == PartialSums(q)
           A == PartialSums(s)
           T == {i \in 0 .. n : total * A[i] <= t * P[i]}
<1>0. n \in Nat
  OBVIOUS
<1>1. total \in Nat
  BY PartialSumsBound
<1>2. \A i \in 1 .. n : /\ s[i] \in Nat /\ s[i] <= q[i] /\ q[i] \in Nat
                        /\ total * s[i] <= t * q[i]
  <2> SUFFICES ASSUME NEW i \in 1 .. n
               PROVE  /\ s[i] \in Nat /\ s[i] <= q[i] /\ q[i] \in Nat
                      /\ total * s[i] <= t * q[i]
    OBVIOUS
  <2>1. q[i] \in Nat
    OBVIOUS
  <2>2. s[i] = ((t * q[i]) % Word) \div total
    BY DEF FloorShare
  <2> HIDE DEF s, total
  <2> QED BY <1>1, <2>1, <2>2, FloorShareBound, ZenonT(60) DEF total
<1>3. s \in Seq(Nat) /\ Len(s) = n
  <2>1. s = [i \in 1 .. n |-> s[i]]
    BY DEF FloorShare
  <2> HIDE DEF s, n
  <2> QED BY <1>0, <1>2, <2>1
<1>4. P \in [0 .. n -> Nat] /\ P[0] = 0 /\ \A i \in 1 .. n : P[i] = P[i - 1] + q[i]
  BY PartialSumsDef
<1>5. A \in [0 .. n -> Nat] /\ A[0] = 0 /\ \A i \in 1 .. n : A[i] = A[i - 1] + s[i]
  <2> HIDE DEF s
  <2> QED BY <1>3, PartialSumsDef
<1>6. total = P[n] /\ Sum(s) = A[n]
  BY <1>3 DEF Sum
<1> HIDE DEF n, total, s, P, A
<1>7. 0 \in T
  BY <1>0, <1>1, <1>4, <1>5
<1>8. \A i \in 1 .. n : i - 1 \in T => i \in T
  <2> SUFFICES ASSUME NEW i \in 1 .. n, total * A[i - 1] <= t * P[i - 1]
               PROVE  total * A[i] <= t * P[i]
    BY <1>0
  <2>1. A[i - 1] \in Nat /\ P[i - 1] \in Nat /\ s[i] \in Nat /\ q[i] \in Nat
    BY <1>0, <1>2, <1>4, <1>5, SMTT(60)
  <2>2. A[i] = A[i - 1] + s[i] /\ P[i] = P[i - 1] + q[i]
    BY <1>4, <1>5
  <2>3. total * A[i] = total * A[i - 1] + total * s[i]
    BY <1>1, <2>1, <2>2, SMTT(60)
  <2>4. t * P[i] = t * P[i - 1] + t * q[i]
    BY <2>1, <2>2, SMTT(60)
  <2>5. total * s[i] <= t * q[i]
    BY <1>2
  <2>6. ASSUME NEW a \in Nat, NEW b \in Nat PROVE a * b \in Nat
    OBVIOUS
  <2>7. /\ total * A[i - 1] \in Nat /\ total * s[i] \in Nat
        /\ t * P[i - 1] \in Nat /\ t * q[i] \in Nat
    BY <1>1, <2>1, <2>6, Zenon
  <2> QED BY <2>3, <2>4, <2>5, <2>7, SMTT(60)
<1>9. \A i \in 0 .. n : i \in T
  <2> HIDE DEF T
  <2> QED BY <1>0, <1>7, <1>8, UpToInduction, SMTT(60)
<1>10. total * A[n] <= t * total
  BY <1>0, <1>6, <1>9
<1>11. A[n] \in Nat
  BY <1>0, <1>5
<1>12. A[n] <= t
  <2> SUFFICES ASSUME t + 1 <= A[n] PROVE FALSE
    BY <1>11
  <2>1. total * (t + 1) <= total * A[n]
    BY <1>1, <1>11, SMTT(60)
  <2>2. total * (t + 1) = t * total + total /\ t * total \in Nat
    BY <1>1
  <2>3. total * A[n] \in Nat /\ 0 < total
    BY <1>1, <1>11 DEF total
  <2> QED BY <1>1, <1>10, <2>1, <2>2, <2>3
<1> QED BY <1>2, <1>3, <1>6, <1>11, <1>12 DEF s, n, total

(* How fill_level_prorata comes to its fills f on a level q with something *)
(* to fill: the floor shares s of the quantity t, what they leave open of  *)
(* each order, cap, and the residual R, which the slots take in order.     *)
Slots(q, available, t, s, cap, R, f) ==
  /\ t = MinOf(available, Sum(q)) /\ t \in Nat /\ t <= Sum(q)
  /\ s \in Seq(Nat) /\ Len(s) = Len(q)
  /\ cap \in Seq(Nat) /\ Len(cap) = Len(q)
  /\ R = Residual(q, available) /\ R \in Nat /\ R = t - Sum(s)
  /\ Sum(s) \in Nat /\ Sum(Takes(cap, R)) = R
  /\ f = [i \in 1 .. Len(q) |-> s[i] + Takes(cap, R)[i]]
  /\ \A i \in 1 .. Len(q) : /\ s[i] = ((t * q[i]) % Word) \div Sum(q)
                             /\ s[i] \in 0 .. q[i] /\ cap[i] = q[i] - s[i]
                             /\ s[i] + Takes(cap, R)[i] \in 0 .. q[i]

(* As long as the level's total does not wrap, the code does just that;    *)
(* the products may wrap.                                                  *)
LEMMA ProRataSlots ==
  ASSUME NEW q \in Seq(Nat), NEW available \in Quantity, Sum(q) < Word,
         ~(Sum(q) = 0 \/ available = 0)
  PROVE  \E t, s, cap, R : Slots(q, available, t, s, cap, R, ProRata(q, available))
<1> DEFINE n == Len(q)
           total == Sum(q)
           t == MinOf(available, total)
           s == FloorShare(q, t, total)
           cap == [i \in 1 .. n |-> (q[i] - s[i]) % Word]
           R == (t - Total(s)) % Word
           fills == ProRata(q, available)
<1>0. n \in Nat /\ total \in Nat /\ available \in Nat /\ Total(q) = total
  BY PartialSumsBound, TotalExact DEF Quantity
<1>01. \A i \in 1 .. n : q[i] \in Nat /\ q[i] < Word
  <2> SUFFICES ASSUME NEW i \in 1 .. n PROVE q[i] \in Nat /\ q[i] < Word
    OBVIOUS
  <2>1. q[i] \in 0 .. total
    BY ElementBound
  <2> HIDE DEF total
  <2> QED BY <1>0, <2>1, WordAssumption DEF total
<1>1. t \in Nat /\ t <= total /\ 0 < total /\ t < Word
  <2> HIDE DEF total
  <2> QED BY <1>0, WordAssumption DEF MinOf, total
<1>2. /\ s \in Seq(Nat) /\ Len(s) = n
      /\ \A i \in 1 .. n : s[i] \in 0 .. q[i]
      /\ Sum(s) \in 0 .. t
  <2> HIDE DEF t
  <2> QED BY <1>1, FloorShareSum
<1>3. Total(s) = Sum(s)
  <2>1. Sum(s) < Word
    <3> HIDE DEF s, t
    <3> QED BY <1>1, <1>2, WordAssumption
  <2> HIDE DEF s
  <2> QED BY <1>2, <2>1, TotalExact
<1>4. R = t - Sum(s) /\ R \in Nat
  <2>1. t - Sum(s) \in Nat /\ t - Sum(s) < Word
    <3> HIDE DEF s, t
    <3> QED BY <1>1, <1>2, WordAssumption
  <2>2. R = (t - Sum(s)) % Word
    BY <1>3
  <2> HIDE DEF R, s, t
  <2> QED BY <2>1, <2>2, WordAssumption, WrapIdentity
<1>5. \A i \in 1 .. n : cap[i] = q[i] - s[i] /\ cap[i] \in Nat
  <2> SUFFICES ASSUME NEW i \in 1 .. n PROVE cap[i] = q[i] - s[i] /\ cap[i] \in Nat
    OBVIOUS
  <2>1. cap[i] = (q[i] - s[i]) % Word
    OBVIOUS
  <2> HIDE DEF cap, s, n
  <2>2. q[i] - s[i] \in Nat /\ q[i] - s[i] < Word
    BY <1>01, <1>2, WordAssumption, SMTT(60)
  <2> QED BY <2>1, <2>2, WordAssumption, WrapIdentity
<1>6. cap \in Seq(Nat) /\ Len(cap) = n
  <2>1. cap = [i \in 1 .. n |-> cap[i]]
    OBVIOUS
  <2> HIDE DEF cap, n
  <2> QED BY <1>0, <1>5, <2>1, SMTT(60)
<1>7. Sum(q) = Sum(cap) + Sum(s)
  <2> HIDE DEF cap, s
  <2>1. \A i \in 1 .. n : q[i] = cap[i] + s[i]
    <3> HIDE DEF n
    <3> QED BY <1>01, <1>2, <1>5, SMTT(60)
  <2> QED BY <1>2, <1>6, <2>1, SumOfSums
<1> DEFINE k == Takes(cap, R)
<1>8. /\ k \in Seq(Nat) /\ Len(k) = n
      /\ \A i \in 1 .. n : k[i] \in 0 .. cap[i]
      /\ Sum(k) = MinOf(R, Sum(cap))
  <2> HIDE DEF cap, R
  <2> QED BY <1>4, <1>6, TakesAddUp
<1>9. Sum(k) = t - Sum(s)
  <2>1. Sum(cap) \in Nat
    <3> HIDE DEF cap
    <3> QED BY <1>6, PartialSumsBound
  <2> HIDE DEF cap, k, s, R, t
  <2> QED BY <1>0, <1>1, <1>2, <1>4, <1>7, <1>8, <2>1 DEF MinOf
<1>10. fills = [i \in 1 .. n |-> (s[i] + k[i]) % Word]
  <2>1. \A i \in 1 .. n : k[i] = LeftOver(cap, R)[i - 1] - LeftOver(cap, R)[i]
    BY <1>6, ZenonT(60) DEF Takes
  <2>2. fills = [i \in 1 .. n |->
                   (s[i] + (LeftOver(cap, R)[i - 1] - LeftOver(cap, R)[i])) % Word]
    BY <1>0 DEF ProRata, Residual
  <2> HIDE DEF fills, k, s, cap, R, n
  <2> QED BY <2>1, <2>2
<1> HIDE DEF k, cap, s, R, t, n, fills
<1>11. \A i \in 1 .. n : fills[i] = s[i] + k[i] /\ fills[i] \in 0 .. q[i]
  <2> SUFFICES ASSUME NEW i \in 1 .. n
               PROVE  fills[i] = s[i] + k[i] /\ fills[i] \in 0 .. q[i]
    OBVIOUS
  <2>1. /\ q[i] \in Nat /\ q[i] < Word
        /\ s[i] \in 0 .. q[i] /\ cap[i] = q[i] - s[i] /\ k[i] \in 0 .. cap[i]
    BY <1>01, <1>2, <1>5, <1>8
  <2>2. s[i] + k[i] \in 0 .. q[i] /\ s[i] + k[i] \in Nat /\ s[i] + k[i] < Word
    BY <2>1, WordAssumption, SMTT(60)
  <2>3. (s[i] + k[i]) % Word = s[i] + k[i]
    BY <2>2, WordAssumption, WrapIdentity, Zenon
  <2>4. fills[i] = (s[i] + k[i]) % Word
    BY <1>10
  <2> QED BY <2>2, <2>3, <2>4
<1>12. fills = [i \in 1 .. n |-> s[i] + k[i]]
  BY <1>10, <1>11
<1>13. \A i \in 1 .. n : s[i] = ((t * q[i]) % Word) \div total
  BY DEF FloorShare, s, n
<1>14. R = Residual(q, available)
  BY <1>0, Zenon DEF Residual, R, t, s
<1>15. \A i \in 1 .. n : s[i] + k[i] \in 0 .. q[i]
  BY <1>11
<1>16. Sum(s) \in Nat /\ Sum(k) = R
  BY <1>1, <1>2, <1>4, <1>9
<1>17. Slots(q, available, t, s, cap, R, fills)
  BY <1>1, <1>2, <1>4, <1>5, <1>6, <1>12, <1>13, <1>14, <1>15, <1>16, Zenon DEF Slots, k, n, t
<1> QED BY <1>17, Zenon DEF fills

(* fill_level_prorata splits exactly as long as the level's total does not *)
(* wrap; the products may.                                                 *)
LEMMA ProRataSplits ==
  ASSUME NEW q \in Seq(Nat), NEW available \in Quantity, Sum(q) < Word
  PROVE  ExactSplit(q, available, ProRata(q, available))
<1> DEFINE n == Len(q)
           total == Sum(q)
           fills == ProRata(q, available)
<1>0. n \in Nat /\ total \in Nat /\ available \in Nat /\ Total(q) = total
  BY PartialSumsBound, TotalExact DEF Quantity
<1>1. \A i \in 1 .. n : q[i] \in Nat /\ q[i] < Word
  <2> SUFFICES ASSUME NEW i \in 1 .. n PROVE q[i] \in Nat /\ q[i] < Word
    OBVIOUS
  <2>1. q[i] \in 0 .. total
    BY ElementBound
  <2> HIDE DEF total
  <2> QED BY <1>0, <2>1, WordAssumption DEF total
<1>2. CASE total = 0 \/ available = 0
  <2> DEFINE z == [i \in 1 .. n |-> 0]
  <2>1. fills = z
    BY <1>0, <1>2 DEF ProRata
  <2>2. z \in Seq(Nat) /\ Len(z) = n
    BY <1>0
  <2>3. \A i \in 1 .. n : z[i] = 0
    OBVIOUS
  <2>4. Sum(z) = 0
    <3> DEFINE P == PartialSums(z)
               T == {i \in 0 .. n : P[i] = 0}
    <3>1. P[0] = 0 /\ \A i \in 1 .. n : P[i] = P[i - 1] + z[i]
      <4> HIDE DEF z
      <4> QED BY <2>2, PartialSumsDef
    <3>2. Sum(z) = P[n]
      BY <2>2 DEF Sum
    <3> HIDE DEF P, n, z
    <3>3. 0 \in T
      BY <1>0, <3>1
    <3>4. \A i \in 1 .. n : i - 1 \in T => i \in T
      <4> SUFFICES ASSUME NEW i \in 1 .. n, P[i - 1] = 0 PROVE P[i] = 0
        BY <1>0
      <4>1. P[i] = P[i - 1] + z[i] /\ z[i] = 0
        BY <2>3, <3>1
      <4> QED BY <4>1
    <3>5. n \in Nat
      BY <1>0
    <3>6. \A i \in 0 .. n : i \in T
      <4> HIDE DEF T
      <4> QED BY <3>3, <3>4, <3>5, UpToInduction, Zenon
    <3> QED BY <3>2, <3>5, <3>6
  <2>5. MinOf(available, total) = 0
    BY <1>0, <1>2 DEF MinOf
  <2> HIDE DEF z, total, fills
  <2>6. \A i \in 1 .. n : z[i] \in 0 .. q[i]
    BY <1>1, <2>3
  <2> QED BY <2>1, <2>2, <2>4, <2>5, <2>6 DEF ExactSplit, total, fills
<1>3. CASE ~(total = 0 \/ available = 0)
  <2>1. PICK t, s, cap, R : Slots(q, available, t, s, cap, R, fills)
    BY <1>3, ProRataSlots
  <2> DEFINE k == Takes(cap, R)
  <2> HIDE DEF n, fills
  <2>2. /\ t = MinOf(available, total) /\ t \in Nat /\ s \in Seq(Nat) /\ Len(s) = n
        /\ cap \in Seq(Nat) /\ Len(cap) = n /\ R \in Nat /\ R = t - Sum(s) /\ Sum(s) \in Nat
        /\ Sum(k) = R
    BY <2>1 DEF Slots, n
  <2>3. k \in Seq(Nat) /\ Len(k) = n
    BY <2>2, TakesAddUp
  <2>10. fills = [i \in 1 .. n |-> s[i] + k[i]]
    BY <2>1 DEF Slots, n
  <2>11. \A i \in 1 .. n : fills[i] = s[i] + k[i] /\ fills[i] \in 0 .. q[i]
    BY <2>1, <2>10, Zenon DEF Slots, n
  <2> HIDE DEF k
  <2>12. fills \in Seq(Nat) /\ Len(fills) = n
    <3>1. \A i \in 1 .. n : fills[i] \in Nat
      BY <1>1, <2>11
    <3>2. fills = [i \in 1 .. n |-> fills[i]]
      BY <2>10
    <3> QED BY <1>0, <3>1, <3>2
  <2>13. Sum(fills) = Sum(s) + Sum(k)
    <3>1. Len(k) = Len(s) /\ Len(fills) = Len(s)
      BY <2>2, <2>3, <2>12
    <3>2. \A i \in 1 .. Len(s) : fills[i] = s[i] + k[i]
      BY <2>2, <2>11
    <3> QED BY <2>2, <2>3, <2>12, <3>1, <3>2, SumOfSums, ZenonT(60)
  <2>14. Sum(fills) = t
    BY <2>2, <2>13
  <2> QED BY <2>2, <2>11, <2>12, <2>14 DEF ExactSplit, fills, n
<1> QED BY <1>2, <1>3

(* The code's sum is a Quantity.                                           *)
LEMMA TotalType ==
  ASSUME NEW q \in Seq(Nat)
  PROVE  Total(q) \in Quantity
<1>1. Len(q) \in 0 .. Len(q)
  OBVIOUS
<1>2. RunningSum(q) \in [0 .. Len(q) -> Quantity]
  BY RunningSumDef
<1> QED BY <1>1, <1>2 DEF Total

(* Whatever wraps, each algorithm returns a Quantity per order.            *)
LEMMA ProRataType ==
  ASSUME NEW q \in Seq(Quantity), NEW available \in Quantity
  PROVE  ProRata(q, available) \in Seq(Quantity) /\ Len(ProRata(q, available)) = Len(q)
<1> DEFINE n == Len(q)
           total == Total(q)
           t == MinOf(available, total)
           s == FloorShare(q, t, total)
           cap == [i \in 1 .. n |-> (q[i] - s[i]) % Word]
           R == (t - Total(s)) % Word
           L == LeftOver(cap, R)
           fills == ProRata(q, available)
<1>0. n \in Nat /\ q \in Seq(Nat) /\ Quantity \subseteq Nat /\ 0 \in Quantity
  BY WordAssumption DEF Quantity
<1>1. total \in Quantity
  BY <1>0, TotalType
<1>2. ASSUME NEW x \in Int PROVE x % Word \in Quantity
  BY WordAssumption DEF Quantity
<1>3. CASE total = 0 \/ available = 0
  <2>1. fills = [i \in 1 .. n |-> 0]
    BY <1>3 DEF ProRata
  <2> HIDE DEF fills, n
  <2> QED BY <1>0, <2>1 DEF fills, n
<1>4. CASE ~(total = 0 \/ available = 0)
  <2>1. t \in Nat /\ total \in Nat /\ total > 0
    <3>1. total \in Nat /\ available \in Nat
      BY <1>0, <1>1, Zenon
    <3> HIDE DEF total
    <3> QED BY <1>4, <3>1 DEF MinOf
  <2> HIDE DEF t, total
  <2>2. s \in Seq(Nat) /\ Len(s) = n
    <3>1. ASSUME NEW i \in 1 .. n PROVE ((t * q[i]) % Word) \div total \in Nat
      <4>1. q[i] \in Nat
        BY <1>0
      <4>2. t * q[i] \in Int
        BY <2>1, <4>1
      <4>3. (t * q[i]) % Word \in Nat
        BY <1>0, <1>2, <4>2, Zenon
      <4>4. ASSUME NEW y \in Nat PROVE y \div total \in Nat
        BY <2>1
      <4> QED BY <4>3, <4>4
    <3> QED BY <1>0, <3>1 DEF FloorShare
  <2>3. \A i \in 1 .. n : s[i] \in Nat
    BY <1>0, <2>2
  <2> HIDE DEF s
  <2>4. R \in Nat
    <3>1. Total(s) \in Quantity
      BY <2>2, TotalType
    <3>2. Total(s) \in Nat
      BY <1>0, <3>1, Zenon
    <3>3. t - Total(s) \in Int
      BY <2>1, <3>2
    <3> QED BY <1>0, <1>2, <3>3, Zenon
  <2>5. cap \in Seq(Nat) /\ Len(cap) = n
    <3>1. ASSUME NEW i \in 1 .. n PROVE (q[i] - s[i]) % Word \in Nat
      <4>1. q[i] - s[i] \in Int
        BY <1>0, <2>3
      <4> QED BY <1>0, <1>2, <4>1, Zenon
    <3> HIDE DEF n
    <3> QED BY <1>0, <3>1
  <2> HIDE DEF cap, R
  <2>6. fills = [i \in 1 .. n |-> (s[i] + (L[i - 1] - L[i])) % Word]
    BY <1>4 DEF ProRata, Residual, cap, R, s, t, total
  <2>7. ASSUME NEW i \in 1 .. n
        PROVE  (s[i] + (L[i - 1] - L[i])) % Word \in Quantity
    <3>1. L[i - 1] \in Nat /\ L[i] \in Nat
      BY <2>4, <2>5, LeftOverStep
    <3> HIDE DEF L
    <3>2. s[i] + (L[i - 1] - L[i]) \in Int
      BY <2>3, <3>1
    <3> QED BY <1>2, <3>2
  <2> HIDE DEF fills, L, n
  <2> QED BY <1>0, <2>6, <2>7 DEF fills, n
<1> QED BY <1>3, <1>4

(* The same of fill_level_fifo.                                            *)
LEMMA FifoType ==
  ASSUME NEW q \in Seq(Quantity), NEW available \in Quantity
  PROVE  Fifo(q, available) \in Seq(Quantity) /\ Len(Fifo(q, available)) = Len(q)
<1>1. q \in Seq(Nat) /\ available \in Nat /\ \A i \in 1 .. Len(q) : q[i] \in Quantity
  BY WordAssumption DEF Quantity
<1>2. ExactSplit(q, available, Fifo(q, available))
  BY <1>1, FifoSplits
<1> DEFINE f == Fifo(q, available)
<1>3. f \in Seq(Nat) /\ Len(f) = Len(q) /\ \A i \in 1 .. Len(q) : f[i] \in 0 .. q[i]
  BY <1>2 DEF ExactSplit
<1> HIDE DEF f
<1>4. \A i \in 1 .. Len(f) : f[i] \in Quantity
  <2> SUFFICES ASSUME NEW i \in 1 .. Len(f) PROVE f[i] \in Quantity
    OBVIOUS
  <2>1. f[i] \in 0 .. q[i] /\ q[i] \in Quantity
    BY <1>1, <1>3
  <2> QED BY <2>1, WordAssumption DEF Quantity
<1>5. f = [i \in 1 .. Len(f) |-> f[i]] /\ Len(f) \in Nat
  BY <1>3
<1>6. f \in Seq(Quantity)
  BY <1>4, <1>5
<1> QED BY <1>3, <1>6 DEF f

-----------------------------------------------------------------------------
(* What the exact sums do as lists change.                                 *)

(* The sum of a list of bounded numbers.                                   *)
LEMMA SumBound ==
  ASSUME NEW q \in Seq(Nat), NEW M \in Nat, \A i \in 1 .. Len(q) : q[i] <= M
  PROVE  Sum(q) <= Len(q) * M
<1> DEFINE n == Len(q)
           P == PartialSums(q)
           T == {i \in 0 .. n : P[i] <= i * M}
<1>0. n \in Nat /\ Sum(q) = P[n]
  BY DEF Sum
<1>1. P \in [0 .. n -> Nat] /\ P[0] = 0 /\ \A i \in 1 .. n : P[i] = P[i - 1] + q[i]
  BY PartialSumsDef
<1>2. \A i \in 1 .. n : q[i] \in Nat /\ q[i] <= M
  OBVIOUS
<1> HIDE DEF P, n
<1>3. 0 \in T
  BY <1>0, <1>1
<1>4. \A i \in 1 .. n : i - 1 \in T => i \in T
  <2> SUFFICES ASSUME NEW i \in 1 .. n, i - 1 \in T PROVE i \in T
    OBVIOUS
  <2>1. P[i] = P[i - 1] + q[i] /\ P[i - 1] \in Nat /\ P[i - 1] <= (i - 1) * M
    BY <1>0, <1>1
  <2>2. q[i] \in Nat /\ q[i] <= M
    BY <1>2
  <2>3. ASSUME NEW a \in Nat, NEW b \in Nat, a <= (i - 1) * M, b <= M
        PROVE  a + b <= i * M
    <3>1. i * M = (i - 1) * M + M
      BY <1>0
    <3>2. (i - 1) * M \in Int /\ i * M \in Int
      BY <1>0
    <3> QED BY <2>3, <3>1, <3>2
  <2>4. P[i] <= i * M
    BY <2>1, <2>2, <2>3, SMTT(60)
  <2>5. i \in 0 .. n
    BY <1>0
  <2> QED BY <2>4, <2>5
<1>5. \A i \in 0 .. n : i \in T
  <2> HIDE DEF T
  <2> QED BY <1>0, <1>3, <1>4, UpToInduction, Zenon
<1>6. n \in 0 .. n
  BY <1>0
<1>7. P[n] <= n * M
  BY <1>5, <1>6
<1> QED BY <1>0, <1>7 DEF n

(* Fills that add up to the whole level fill every order of it.            *)
LEMMA FullFill ==
  ASSUME NEW q \in Seq(Nat), NEW f \in Seq(Nat), Len(f) = Len(q),
         \A i \in 1 .. Len(q) : f[i] <= q[i], Sum(f) = Sum(q)
  PROVE  \A i \in 1 .. Len(q) : f[i] = q[i]
<1> DEFINE g == [i \in 1 .. Len(q) |-> q[i] - f[i]]
<1>1. /\ Len(q) \in Nat /\ \A i \in 1 .. Len(q) : q[i] \in Nat
      /\ \A i \in 1 .. Len(q) : f[i] \in Nat
  BY SMTT(60)
<1>2. \A i \in 1 .. Len(q) : q[i] - f[i] \in Nat
  BY <1>1
<1>3. g \in Seq(Nat) /\ Len(g) = Len(f)
  BY <1>1, <1>2
<1>4. \A i \in 1 .. Len(f) : q[i] = f[i] + g[i]
  BY <1>1
<1> HIDE DEF g
<1>5. Sum(q) = Sum(f) + Sum(g)
  BY <1>3, <1>4, SumOfSums, ZenonT(60)
<1>6. Sum(f) \in Nat /\ Sum(g) \in Nat
  BY <1>3, PartialSumsBound
<1>7. Sum(g) = 0
  BY <1>5, <1>6
<1>8. \A i \in 1 .. Len(g) : g[i] \in 0 .. 0
  BY <1>3, <1>7, ElementBound, SMTT(60)
<1> QED BY <1>1, <1>3, <1>4, <1>8

=============================================================================
