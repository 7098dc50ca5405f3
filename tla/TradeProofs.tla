----------------------------- MODULE TradeProofs ----------------------------
(***************************************************************************)
(* While the quantities of the book cannot wrap (NoWrap), no fill exceeds  *)
(* what an order has left, the book is never crossed between calls, and    *)
(* the trades of a submit come out in priority and account for what the    *)
(* book lost: for every number of prices, orders and keys, and both        *)
(* algorithms.                                                             *)
(***************************************************************************)
EXTENDS MatcherProofs

-----------------------------------------------------------------------------
(* A level's total quantity fits in a Quantity.                            *)

OrigBound == \A o \in DOMAIN orders : orders[o].orig <= MaxQty

(* A sound book whose quantities cannot wrap.                              *)
Fits == Sound /\ NoWrap /\ TimePriority /\ OpenOrders /\ OrigBound

(* A level holds less than Word altogether.                                *)
LEMMA LevelSum ==
  ASSUME Fits, NEW s \in Sides, NEW p \in Prices
  PROVE  /\ Leaves(Queue(s, p)) \in Seq(Nat)
         /\ Sum(Leaves(Queue(s, p))) < Word
<1> DEFINE q == Leaves(Queue(s, p))
           n == Len(Queue(s, p))
<1>1. /\ q \in Seq(Quantity) /\ Len(q) = n
      /\ \A i \in 1 .. n : q[i] = orders[Queue(s, p)[i]].leaves
  BY LeavesType DEF Fits
<1>2. q \in Seq(Nat)
  BY <1>1, WordAssumption DEF Quantity
<1>3. n \in 0 .. MaxOrders
  <2>1. Queue(s, p) \in Seq(1 .. MaxOrders)
    BY QueueType DEF Fits, Sound, OrderIds
  <2>2. Ascending(Queue(s, p))
    BY DEF Fits, TimePriority
  <2> QED BY <2>1, <2>2, MatcherAssumption, AscendingLength
<1>4. MaxQty \in Nat /\ MaxOrders \in Nat /\ MaxOrders * MaxQty < Word /\ Word \in Nat
  BY MatcherAssumption, WordAssumption DEF Quantity, Fits, NoWrap
<1>5. \A i \in 1 .. n : q[i] <= MaxQty
  <2> SUFFICES ASSUME NEW i \in 1 .. n PROVE q[i] <= MaxQty
    OBVIOUS
  <2> DEFINE o == Queue(s, p)[i]
  <2>1. o \in DOMAIN orders
    BY QueueOrders DEF Fits
  <2>2. orders[o].leaves \in 1 .. orders[o].orig /\ orders[o].orig <= MaxQty
    BY <2>1 DEF Fits, OpenOrders, OrigBound
  <2>3. orders[o].orig \in Nat
    BY <2>1, OrderType, WordAssumption DEF Fits, Sound, Quantity
  <2>4. q[i] = orders[o].leaves
    BY <1>1
  <2> HIDE DEF q, o
  <2> QED BY <1>4, <2>2, <2>3, <2>4
<1> HIDE DEF q, n
<1>6. Sum(q) <= n * MaxQty
  BY <1>1, <1>2, <1>4, <1>5, SumBound, ZenonT(60)
<1>7. n * MaxQty <= MaxOrders * MaxQty
  <2>1. ASSUME NEW a \in Nat, NEW b \in Nat, NEW c \in Nat, a <= b PROVE a * c <= b * c
    <3>1. PICK d \in Nat : b = a + d
      <4>1. b - a \in Nat /\ b = a + (b - a)
        BY <2>1
      <4> QED BY <4>1
    <3>2. b * c = a * c + d * c
      BY <3>1
    <3>3. a * c \in Nat /\ d * c \in Nat
      BY <3>1
    <3> QED BY <3>2, <3>3
  <2> QED BY <1>3, <1>4, <2>1
<1>8. Sum(q) \in Nat /\ n * MaxQty \in Nat /\ MaxOrders * MaxQty \in Nat
  BY <1>2, <1>3, <1>4, PartialSumsBound
<1>9. Sum(q) < Word
  <2>1. ASSUME NEW a \in Nat, NEW b \in Nat, NEW c \in Nat, NEW d \in Nat,
               a <= b, b <= c, c < d
        PROVE  a < d
    BY <2>1
  <2> QED BY <1>4, <1>6, <1>7, <1>8, <2>1
<1> QED BY <1>2, <1>9 DEF q

LevelExact(side, limit, r, available) ==
  LET q == Leaves(Queue(Opposite(side), Rank(side, r)))
      f == FillsAt(side, limit, r, available)
  IN  /\ f \in Seq(Nat) /\ Len(f) = Len(q)
      /\ \A i \in 1 .. Len(q) : f[i] \in 0 .. q[i]
      /\ Sum(f) \in 0 .. available
      /\ Total(f) = Sum(f)
      /\ Crosses(side, limit, Rank(side, r)) /\ available > 0
           => Sum(f) = MinOf(available, Sum(q))

(* At every level the fills are exact: no order is filled beyond its       *)
(* leaves_qty, and the level is exhausted unless the aggressor is.         *)
LEMMA FillsAtExact ==
  ASSUME Fits, NEW side \in Sides, NEW limit, NEW r \in Prices,
         NEW available \in Quantity
  PROVE  LevelExact(side, limit, r, available)
<1> DEFINE price == Rank(side, r)
           q == Leaves(Queue(Opposite(side), price))
           f == FillsAt(side, limit, r, available)
           z == [i \in 1 .. Len(q) |-> 0]
           C == Crosses(side, limit, price)
<1>1. q \in Seq(Nat) /\ Sum(q) < Word
  BY LevelSum, RankFacts, OppositeFacts
<1>2. f = IF available = 0 \/ ~C THEN z
          ELSE IF algo = "ProRata" THEN ProRata(q, available) ELSE Fifo(q, available)
  BY DEF FillsAt
<1>3. available \in Nat /\ Sum(q) \in Nat /\ Word \in Nat /\ available < Word
  BY <1>1, PartialSumsBound, WordAssumption DEF Quantity
<1> HIDE DEF q, f, C, price
<1>4. /\ z \in Seq(Nat) /\ Len(z) = Len(q) /\ Sum(z) = 0
      /\ \A i \in 1 .. Len(q) : z[i] \in 0 .. q[i]
  <2>1. Len(q) \in Nat /\ \A i \in 1 .. Len(q) : q[i] \in Nat
    BY <1>1
  <2>2. z \in Seq(Nat) /\ Len(z) = Len(q) /\ \A i \in 1 .. Len(q) : z[i] = 0
    BY <2>1
  <2> HIDE DEF z
  <2>3. Sum(z) <= Len(z) * 0
    BY <2>2, SumBound
  <2>4. Sum(z) \in Nat
    BY <2>2, PartialSumsBound
  <2>5. Sum(z) = 0
    BY <2>1, <2>2, <2>3, <2>4
  <2> QED BY <2>1, <2>2, <2>5
<1>5. ExactSplit(q, available, ProRata(q, available))
  BY <1>1, ProRataSplits
<1>6. ExactSplit(q, available, Fifo(q, available))
  BY <1>1, <1>3, FifoSplits
<1> HIDE DEF z
<1>7. CASE available = 0 \/ ~C
  <2>1. f = z
    BY <1>2, <1>7
  <2>2. Total(z) = Sum(z)
    BY <1>3, <1>4, TotalExact, WordAssumption
  <2>3. ~(C /\ available > 0)
    BY <1>3, <1>7
  <2> QED BY <1>3, <1>4, <2>1, <2>2, <2>3, SMTT(60) DEF LevelExact, q, f, C, price
<1>8. CASE ~(available = 0 \/ ~C)
  <2>1. ExactSplit(q, available, f)
    BY <1>2, <1>5, <1>6, <1>8
  <2>2. /\ f \in Seq(Nat) /\ Len(f) = Len(q)
        /\ \A i \in 1 .. Len(q) : f[i] \in 0 .. q[i]
        /\ Sum(f) = MinOf(available, Sum(q))
    BY <2>1 DEF ExactSplit
  <2>3. Sum(f) \in 0 .. available
    BY <1>3, <2>2 DEF MinOf
  <2>4. Total(f) = Sum(f)
    BY <1>3, <2>2, <2>3, TotalExact
  <2> QED BY <2>2, <2>3, <2>4 DEF LevelExact, q, f, C, price
<1> QED BY <1>7, <1>8

(* The aggressor's leaves_qty never grows along the walk.                  *)
LEMMA LeftDecreases ==
  ASSUME Fits, NEW side \in Sides, NEW limit, NEW qty \in Quantity
  PROVE  LET left == LeftAfter(side, limit, qty)
         IN  /\ \A r \in Prices :
                  left[r] = left[r - 1] - Sum(FillsAt(side, limit, r, left[r - 1]))
             /\ \A r \in 0 .. MaxPrice : left[r] <= qty
             /\ \A m \in 0 .. MaxPrice : \A r \in 0 .. m : left[m] <= left[r]
<1> DEFINE n == MaxPrice
           L == LeftAfter(side, limit, qty)
           S(r) == Sum(FillsAt(side, limit, r, L[r - 1]))
<1>0. n \in Nat
  BY MatcherAssumption
<1>1. /\ L \in [0 .. n -> Quantity] /\ L[0] = qty
      /\ \A r \in Prices : L[r] = (L[r - 1] - Total(FillsAt(side, limit, r, L[r - 1]))) % Word
  BY LeftAfterDef DEF Fits
<1>2. \A r \in 0 .. n : L[r] \in Nat /\ L[r] < Word
  BY <1>1, WordAssumption DEF Quantity
<1>3. \A r \in Prices : L[r] = L[r - 1] - S(r) /\ S(r) \in 0 .. L[r - 1]
  <2> SUFFICES ASSUME NEW r \in Prices PROVE L[r] = L[r - 1] - S(r) /\ S(r) \in 0 .. L[r - 1]
    OBVIOUS
  <2>1. r - 1 \in 0 .. n
    BY <1>0 DEF Prices
  <2>2. L[r - 1] \in Quantity /\ L[r - 1] \in Nat /\ L[r - 1] < Word
    BY <1>1, <1>2, <2>1
  <2>3. LevelExact(side, limit, r, L[r - 1])
    <3> HIDE DEF L
    <3> QED BY <2>2, FillsAtExact
  <2>4. S(r) \in 0 .. L[r - 1] /\ Total(FillsAt(side, limit, r, L[r - 1])) = S(r)
    BY <2>3 DEF LevelExact
  <2>5. L[r] = (L[r - 1] - S(r)) % Word
    BY <1>1, <2>4
  <2> HIDE DEF S, L
  <2>6. L[r - 1] - S(r) \in Nat /\ L[r - 1] - S(r) < Word /\ Word \in Nat
    BY <2>2, <2>4, WordAssumption
  <2>7. (L[r - 1] - S(r)) % Word = L[r - 1] - S(r)
    BY <2>6, WrapIdentity
  <2> QED BY <2>4, <2>5, <2>7
<1> HIDE DEF L, S, n
<1>4. \A r \in 1 .. n : L[r] <= L[r - 1]
  <2> SUFFICES ASSUME NEW r \in 1 .. n PROVE L[r] <= L[r - 1]
    OBVIOUS
  <2>1. L[r] = L[r - 1] - S(r) /\ S(r) \in 0 .. L[r - 1]
    BY <1>3 DEF Prices, n
  <2>2. L[r - 1] \in Nat
    BY <1>0, <1>2
  <2> QED BY <2>1, <2>2
<1>5. \A r \in 0 .. n : L[r] <= qty
  <2> DEFINE T == {r \in 0 .. n : L[r] <= qty}
  <2>1. 0 \in T
    BY <1>0, <1>1, <1>2
  <2>2. \A r \in 1 .. n : r - 1 \in T => r \in T
    <3> SUFFICES ASSUME NEW r \in 1 .. n, r - 1 \in T PROVE r \in T
      OBVIOUS
    <3>1. L[r] <= L[r - 1] /\ L[r - 1] <= qty
      BY <1>4
    <3>2. L[r] \in Nat /\ L[r - 1] \in Nat /\ qty \in Nat
      BY <1>0, <1>2, WordAssumption DEF Quantity
    <3>3. r \in 0 .. n
      BY <1>0
    <3> QED BY <3>1, <3>2, <3>3
  <2>3. \A r \in 0 .. n : r \in T
    <3> HIDE DEF T
    <3> QED BY <1>0, <2>1, <2>2, UpToInduction
  <2> QED BY <2>3
<1>6. ASSUME NEW m \in 0 .. n, NEW r \in 0 .. m PROVE L[m] <= L[r]
  <2> DEFINE T == {k \in 0 .. m : L[m] <= L[m - k]}
  <2>0. m \in Nat /\ r \in Nat /\ \A k \in 0 .. m : k \in 0 .. n
    BY <1>0
  <2>1. 0 \in T
    BY <1>2, <2>0
  <2>2. \A k \in 1 .. m : k - 1 \in T => k \in T
    <3> SUFFICES ASSUME NEW k \in 1 .. m, k - 1 \in T PROVE k \in T
      OBVIOUS
    <3>1. /\ m - k + 1 \in 1 .. n /\ m - (k - 1) = m - k + 1 /\ (m - k + 1) - 1 = m - k
          /\ m - k \in 0 .. n /\ m - k + 1 \in 0 .. n
      BY <1>0
    <3>2. L[m - k + 1] <= L[m - k]
      BY <1>4, <3>1
    <3>3. L[m] <= L[m - k + 1]
      BY <3>1
    <3>4. L[m] \in Nat /\ L[m - k] \in Nat /\ L[m - k + 1] \in Nat
      BY <1>2, <3>1
    <3>5. k \in 0 .. m
      BY <2>0, SMTT(60)
    <3> QED BY <3>2, <3>3, <3>4, <3>5
  <2>3. \A k \in 0 .. m : k \in T
    <3> HIDE DEF T
    <3> QED BY <2>0, <2>1, <2>2, UpToInduction
  <2>4. m - r \in 0 .. m /\ m - (m - r) = r
    BY <2>0, SMTT(60)
  <2> QED BY <2>3, <2>4
<1> QED BY <1>3, <1>5, <1>6 DEF L, S, n

(* A resting order's leaves_qty after the fills is not more than before,   *)
(* and an aggressor with something left after its level has exhausted it.  *)
LEMMA LeavesAfterExact ==
  ASSUME Fits, NEW side \in Sides, NEW limit, NEW qty \in Quantity,
         NEW o \in DOMAIN orders, orders[o].side = Opposite(side)
  PROVE  LET after == LeavesAfter(side, Fills(side, limit, qty), o)
         IN  /\ after \in 0 .. orders[o].leaves
             /\ LeftAfter(side, limit, qty)[Rank(side, orders[o].price)] > 0
                  /\ Crosses(side, limit, orders[o].price) => after = 0
             /\ after = orders[o].leaves
                        - Fills(side, limit, qty)[Rank(side, orders[o].price)]
                               [Position(Queue(Opposite(side), orders[o].price), o)]
<1> DEFINE p == orders[o].price
           r == Rank(side, p)
           Q == Queue(Opposite(side), p)
           q == Leaves(Q)
           left == LeftAfter(side, limit, qty)
           f == FillsAt(side, limit, r, left[r - 1])
           i == Position(Q, o)
           after == LeavesAfter(side, Fills(side, limit, qty), o)
<1>1. p \in Prices /\ orders[o].leaves \in Quantity
  BY OrderType DEF Fits, Sound
<1>2. r \in Prices /\ Rank(side, r) = p
  BY <1>1, RankFacts
<1>3. /\ Fills(side, limit, qty)[r] = f /\ left[r - 1] \in Quantity
  <2> HIDE DEF r
  <2> QED BY <1>2, FillsType, ZenonT(60) DEF Fits
<1>4. i \in 1 .. Len(Q) /\ Q[i] = o /\ after = (orders[o].leaves - f[i]) % Word
  <2>1. /\ i \in 1 .. Len(Q) /\ Q[i] = o
        /\ after = (orders[o].leaves - Fills(side, limit, qty)[r][i]) % Word
    BY LeavesAfterType, SMTT(60) DEF Fits
  <2> QED BY <1>3, <2>1, SMTT(60)
<1>5. Len(q) = Len(Q) /\ q[i] = orders[o].leaves
  <2>1. /\ Len(q) = Len(Q)
        /\ \A k \in 1 .. Len(Q) : q[k] = orders[Q[k]].leaves
    BY <1>1, LeavesType, OppositeFacts DEF Fits
  <2> QED BY <1>4, <2>1, SMTT(60)
<1>6. LevelExact(side, limit, r, left[r - 1])
  <2> HIDE DEF r, left
  <2> QED BY <1>2, <1>3, FillsAtExact, SMTT(60)
<1>7. /\ f \in Seq(Nat) /\ Len(f) = Len(q)
      /\ \A k \in 1 .. Len(q) : f[k] \in 0 .. q[k]
      /\ Crosses(side, limit, p) /\ left[r - 1] > 0 => Sum(f) = MinOf(left[r - 1], Sum(q))
  BY <1>2, <1>6, ZenonT(60) DEF LevelExact
<1>8. q \in Seq(Nat)
  BY <1>1, LevelSum, OppositeFacts, SMTT(60)
<1>9. /\ left[r] = left[r - 1] - Sum(f)
      /\ left[r] <= left[r - 1] /\ left[r] \in Nat /\ left[r - 1] \in Nat
  <2>1. r \in 0 .. MaxPrice /\ r - 1 \in 0 .. MaxPrice /\ r - 1 \in 0 .. r
    <3> HIDE DEF r
    <3> QED BY <1>2, MatcherAssumption DEF Prices
  <2>2. \A k \in 0 .. MaxPrice : left[k] \in Nat
    <3>1. left \in [0 .. MaxPrice -> Quantity]
      BY LeftAfterDef DEF Fits
    <3> HIDE DEF left
    <3> QED BY <3>1, WordAssumption DEF Quantity
  <2>3. /\ \A k \in Prices : left[k] = left[k - 1] - Sum(FillsAt(side, limit, k, left[k - 1]))
        /\ \A m \in 0 .. MaxPrice : \A k \in 0 .. m : left[m] <= left[k]
    BY LeftDecreases
  <2> HIDE DEF left, r
  <2>4. left[r] = left[r - 1] - Sum(f)
    BY <1>2, <2>3, Zenon
  <2>5. left[r] <= left[r - 1]
    BY <2>1, <2>3, Zenon
  <2>6. left[r] \in Nat /\ left[r - 1] \in Nat
    BY <2>1, <2>2, ZenonT(60)
  <2> QED BY <2>4, <2>5, <2>6
<1> HIDE DEF p, r, Q, q, left, f, i, after
<1>10. after = orders[o].leaves - f[i] /\ after \in 0 .. orders[o].leaves
  <2>1. f[i] \in 0 .. orders[o].leaves
    BY <1>4, <1>5, <1>7, SMTT(60)
  <2>2. orders[o].leaves \in Nat /\ orders[o].leaves < Word /\ Word \in Nat
    BY <1>1, WordAssumption DEF Quantity
  <2>3. orders[o].leaves - f[i] \in Nat /\ orders[o].leaves - f[i] < Word
    BY <2>1, <2>2
  <2>4. (orders[o].leaves - f[i]) % Word = orders[o].leaves - f[i]
    BY <2>2, <2>3, WrapIdentity
  <2>5. after = orders[o].leaves - f[i]
    BY <1>4, <2>4
  <2>6. orders[o].leaves - f[i] \in 0 .. orders[o].leaves
    BY <2>1, <2>2
  <2> QED BY <2>5, <2>6, SMTT(60)
<1>11. ASSUME left[r] > 0, Crosses(side, limit, p) PROVE after = 0
  <2>1. Sum(q) \in Nat /\ Sum(f) \in Nat
    BY <1>7, <1>8, PartialSumsBound, SMTT(60)
  <2>2. Sum(f) = MinOf(left[r - 1], Sum(q))
    BY <1>7, <1>9, <1>11
  <2>3. Sum(f) # left[r - 1]
    BY <1>9, <1>11
  <2>4. Sum(f) = Sum(q)
    BY <2>2, <2>3 DEF MinOf
  <2>5. \A k \in 1 .. Len(q) : f[k] <= q[k]
    <3>1. \A k \in 1 .. Len(q) : q[k] \in Nat
      BY <1>8
    <3> QED BY <1>7, <3>1
  <2>6. f[i] = q[i]
    BY <1>4, <1>5, <1>7, <1>8, <2>4, <2>5, FullFill, ZenonT(60)
  <2>7. orders[o].leaves \in Int
    BY <1>1, WordAssumption DEF Quantity
  <2> QED BY <1>5, <1>10, <2>6, <2>7, SMTT(60)
<1>12. after = orders[o].leaves - Fills(side, limit, qty)[r][i]
  BY <1>3, <1>10, Zenon
<1> QED BY <1>10, <1>11, <1>12 DEF p, r, Q, i, left, after

-----------------------------------------------------------------------------
(* The inductive invariant: the structure of the book, and quantities that *)
(* stay within what was ordered.                                           *)
Uncrossed == Struct /\ OpenOrders /\ NotCrossed /\ OrigBound

(* A submit leaves only open orders, and no two that cross.                *)
LEMMA SubmitUncrossed ==
  ASSUME NoWrap, Sound, Uncrossed, NEW key \in Keys, NEW side \in Sides,
         NEW price \in Prices, NEW qty \in 0 .. MaxQty, Submit(key, side, price, qty)
  PROVE  OpenOrders' /\ NotCrossed' /\ OrigBound'
<1> DEFINE opp == Opposite(side)
           fills == Fills(side, price, qty)
           gone == Gone(side, fills)
           left == LeftAfter(side, price, qty)[MaxPrice]
           kept == Remaining(side, fills)
           new == [key |-> key, side |-> side, price |-> price,
                   orig |-> qty, leaves |-> left]
           after(o) == LeavesAfter(side, fills, o)
<1>1. Fits
  BY DEF Fits, Uncrossed, Struct
<1>2. qty \in Quantity /\ qty \in Nat /\ qty <= MaxQty /\ left \in Quantity
  <2>1. SubmitEffect(side, price, qty)
    BY SubmitLevels
  <2>2. qty \in Quantity /\ left \in Quantity
    BY <2>1 DEF SubmitEffect
  <2> HIDE DEF left
  <2> QED BY <2>2, WordAssumption, MatcherAssumption DEF Quantity
<1>3. KeptOrders(side, fills, kept)
  BY <1>2, RemainingFacts, ZenonT(60)
<1>4. /\ DOMAIN kept = DOMAIN orders \ gone
      /\ \A o \in DOMAIN kept :
           /\ kept[o].side = orders[o].side /\ kept[o].price = orders[o].price
           /\ kept[o].orig = orders[o].orig
           /\ kept[o].leaves = IF orders[o].side = opp THEN after(o) ELSE orders[o].leaves
  BY <1>3 DEF KeptOrders
<1>5. \A o \in DOMAIN orders : orders[o].side = opp =>
        /\ after(o) \in 0 .. orders[o].leaves
        /\ left > 0 /\ Crosses(side, price, orders[o].price) => after(o) = 0
        /\ after(o) = 0 => o \in gone
  <2> SUFFICES ASSUME NEW o \in DOMAIN orders, orders[o].side = opp
               PROVE  /\ after(o) \in 0 .. orders[o].leaves
                      /\ left > 0 /\ Crosses(side, price, orders[o].price) => after(o) = 0
                      /\ after(o) = 0 => o \in gone
    BY Zenon
  <2> DEFINE L == LeftAfter(side, price, qty)
             r == Rank(side, orders[o].price)
  <2>1. /\ after(o) \in 0 .. orders[o].leaves
        /\ L[r] > 0 /\ Crosses(side, price, orders[o].price) => after(o) = 0
    BY <1>1, <1>2, LeavesAfterExact
  <2>2. r \in 0 .. MaxPrice /\ MaxPrice \in 0 .. MaxPrice
    <3>1. r \in Prices
      BY OrderType, RankFacts DEF Sound
    <3> HIDE DEF r
    <3> QED BY <3>1, MatcherAssumption DEF Prices
  <2>3. L[MaxPrice] <= L[r] /\ L[r] \in Nat /\ L[MaxPrice] \in Nat
    <3>1. L[MaxPrice] <= L[r]
      <4>1. \A m \in 0 .. MaxPrice : \A k \in 0 .. m : L[m] <= L[k]
        BY <1>1, <1>2, LeftDecreases
      <4> HIDE DEF L, r
      <4> QED BY <2>2, <4>1, Zenon
    <3>2. L \in [0 .. MaxPrice -> Quantity]
      BY <1>2, LeftAfterDef
    <3> HIDE DEF L, r
    <3> QED BY <2>2, <3>1, <3>2, WordAssumption DEF Quantity
  <2>4. left > 0 => L[r] > 0
    <3> HIDE DEF r
    <3> QED BY <2>3 DEF L
  <2> QED BY <2>1, <2>4, Zenon DEF Gone
<1>6. left > 0 => left \in 1 .. qty
  <2>1. left <= qty
    <3>1. MaxPrice \in 0 .. MaxPrice
      BY MatcherAssumption, SMTT(60)
    <3> QED BY <1>1, <1>2, <3>1, LeftDecreases
  <2> HIDE DEF left
  <2> QED BY <1>2, <2>1, WordAssumption, SMTT(60) DEF Quantity
<1>7. \/ orders' = kept
      \/ left > 0 /\ orders' = With(kept, nextId, new)
  BY ZenonT(60) DEF Submit
<1>8. /\ new.side = side /\ new.price = price /\ new.orig = qty /\ new.leaves = left
  OBVIOUS
<1>9. \A o \in DOMAIN orders :
        /\ orders[o].leaves \in 1 .. orders[o].orig /\ orders[o].orig <= MaxQty
        /\ orders[o].orig \in Nat /\ orders[o].leaves \in Nat
        /\ orders[o].side \in Sides /\ orders[o].price \in Prices
  BY OrderType, WordAssumption, SMTT(60) DEF Sound, Uncrossed, OpenOrders, OrigBound, Quantity
<1> HIDE DEF opp, fills, gone, left, kept, new, after
<1>10. \A o \in DOMAIN kept :
         /\ o \in DOMAIN orders /\ kept[o].leaves \in 1 .. kept[o].orig
         /\ kept[o].orig <= MaxQty
  <2> SUFFICES ASSUME NEW o \in DOMAIN kept
               PROVE  /\ o \in DOMAIN orders /\ kept[o].leaves \in 1 .. kept[o].orig
                      /\ kept[o].orig <= MaxQty
    OBVIOUS
  <2>1. o \in DOMAIN orders /\ o \notin gone
    BY <1>4
  <2>2. CASE orders[o].side = opp
    <3>1. after(o) \in 0 .. orders[o].leaves /\ after(o) # 0
      BY <1>5, <2>1, <2>2
    <3>2. kept[o].leaves = after(o) /\ kept[o].orig = orders[o].orig
      BY <1>4, <2>2
    <3>3. orders[o].leaves \in 1 .. orders[o].orig /\ orders[o].orig <= MaxQty
          /\ orders[o].orig \in Nat /\ orders[o].leaves \in Nat
      BY <1>9, <2>1, SMTT(60)
    <3> QED BY <2>1, <3>1, <3>2, <3>3, SMTT(60)
  <2>3. CASE orders[o].side # opp
    BY <1>4, <1>9, <2>1, <2>3, SMTT(60)
  <2> QED BY <2>2, <2>3, SMTT(60)
<1>11. \A o \in DOMAIN orders' :
         \/ o \in DOMAIN kept /\ orders'[o] = kept[o]
         \/ left > 0 /\ orders'[o] = new
  BY <1>7, SMTT(60) DEF With
<1>12. OpenOrders' /\ OrigBound'
  BY <1>2, <1>6, <1>8, <1>10, <1>11, SMTT(60) DEF OpenOrders, OrigBound
<1>13. NotCrossed'
  <2> SUFFICES ASSUME NEW b \in DOMAIN orders', NEW a \in DOMAIN orders',
                      orders'[b].side = "Buy", orders'[a].side = "Sell"
               PROVE  orders'[b].price < orders'[a].price
    BY SMTT(60) DEF NotCrossed
  <2>1. ASSUME NEW o \in DOMAIN kept, left > 0, orders[o].side = opp
        PROVE  ~Crosses(side, price, orders[o].price)
    BY <1>4, <1>5, <1>10, <2>1, SMTT(60)
  <2>2. CASE b \in DOMAIN kept /\ orders'[b] = kept[b] /\ a \in DOMAIN kept /\ orders'[a] = kept[a]
    BY <1>4, <1>10, <2>2, SMTT(60) DEF Uncrossed, NotCrossed
  <2>3. CASE left > 0 /\ orders'[b] = new /\ a \in DOMAIN kept /\ orders'[a] = kept[a]
    <3>1. side = "Buy" /\ opp = "Sell" /\ orders[a].side = opp /\ orders'[a].price = orders[a].price
      BY <1>4, <1>8, <2>3, SMTT(60) DEF opp, Opposite
    <3>2. ~(orders[a].price <= price)
      BY <2>1, <2>3, <3>1, SMTT(60) DEF Crosses
    <3>3. orders[a].price \in Int /\ price \in Int
      BY <1>9, <1>10, <2>3, SMTT(60) DEF Prices
    <3> QED BY <1>8, <2>3, <3>1, <3>2, <3>3, SMTT(60)
  <2>4. CASE left > 0 /\ orders'[a] = new /\ b \in DOMAIN kept /\ orders'[b] = kept[b]
    <3>1. side = "Sell" /\ opp = "Buy" /\ orders[b].side = opp /\ orders'[b].price = orders[b].price
      BY <1>4, <1>8, <2>4, SMTT(60) DEF opp, Opposite
    <3>2. ~(orders[b].price >= price)
      BY <2>1, <2>4, <3>1, SMTT(60) DEF Crosses
    <3>3. orders[b].price \in Int /\ price \in Int
      BY <1>9, <1>10, <2>4, SMTT(60) DEF Prices
    <3> QED BY <1>8, <2>4, <3>1, <3>2, <3>3, SMTT(60)
  <2> QED BY <1>8, <1>11, <2>2, <2>3, <2>4, SMTT(60)
<1> QED BY <1>12, <1>13

(* Every step keeps the invariant.                                         *)
LEMMA UncrossedStep ==
  ASSUME NoWrap, Uncrossed, [Next]_vars
  PROVE  Uncrossed'
<1>1. Struct'
  BY StructStep DEF Uncrossed
<1>2. ASSUME NEW key \in Keys, NEW side \in Sides, NEW price \in Prices,
             NEW qty \in 0 .. MaxQty, Submit(key, side, price, qty)
      PROVE  Uncrossed'
  <2>1. Sound
    BY <1>2, ZenonT(60) DEF Submit, Uncrossed, Struct, Sound
  <2>2. OpenOrders' /\ NotCrossed' /\ OrigBound'
    BY <1>2, <2>1, SubmitUncrossed
  <2> QED BY <1>1, <2>2, SMTT(60) DEF Uncrossed
<1>3. ASSUME DOMAIN orders' \subseteq DOMAIN orders,
             \A o \in DOMAIN orders' : orders'[o] = orders[o]
      PROVE  Uncrossed'
  BY <1>1, <1>3 DEF Uncrossed, OpenOrders, NotCrossed, OrigBound
<1>4. ASSUME NEW key \in Keys, Cancel(key) PROVE Uncrossed'
  <2>1. orders' = Without(orders, {index[key]})
    BY <1>4 DEF Cancel
  <2> QED BY <1>3, <2>1, ZenonT(60) DEF Without
<1>5. ASSUME orders' = orders PROVE Uncrossed'
  BY <1>3, <1>5
<1> QED BY <1>2, <1>4, <1>5 DEF Next, CancelUnknown, SetAlgo, vars

(* If MaxOrders orders of at most MaxQty each cannot add up to Word, then  *)
(* after every submit and cancel each resting order has a leaves_qty       *)
(* between 1 and its original quantity, and no resting bid reaches a       *)
(* resting ask: the matcher has traded everything that can trade.          *)
THEOREM NeverCrossed == NoWrap => (Spec => [](OpenOrders /\ NotCrossed))
<1> SUFFICES ASSUME NoWrap PROVE Spec => [](OpenOrders /\ NotCrossed)
  OBVIOUS
<1>1. Init => Uncrossed
  BY StructInit DEF Init, Uncrossed, OpenOrders, NotCrossed, OrigBound
<1>2. Uncrossed /\ [Next]_vars => Uncrossed'
  BY UncrossedStep
<1>3. Uncrossed => OpenOrders /\ NotCrossed
  BY DEF Uncrossed
<1> QED BY <1>1, <1>2, <1>3, PTL DEF Spec

(* Under the same bound, no order rests with nothing left to trade, and    *)
(* none with more than it came with.                                       *)
THEOREM RestingIsOpen == NoWrap => (Spec => []OpenOrders)
<1> SUFFICES ASSUME NoWrap PROVE Spec => []OpenOrders
  OBVIOUS
<1> QED BY NeverCrossed, PTL

-----------------------------------------------------------------------------
(* The trades of a submit.                                                 *)

Trade == [type: {"Trade"}, aggressor: OrderIds, resting: OrderIds,
          price: Prices, qty: Quantity]

(* t lists the slots of the queue q, filled with f at a price, that got    *)
(* something; pos tells the slot of each trade.                            *)
TradeList(t, pos, q, price, f) ==
  /\ t \in Seq(Event)
  /\ pos \in [1 .. Len(t) -> 1 .. Len(q)]
  /\ \A k, l \in 1 .. Len(t) : k < l => pos[k] < pos[l]
  /\ \A k \in 1 .. Len(t) :
       /\ t[k].type = "Trade" /\ t[k].price = price /\ t[k].resting = q[pos[k]]
       /\ t[k].qty = f[pos[k]] /\ f[pos[k]] # 0
  /\ \A j \in 1 .. Len(q) : f[j] # 0 => \E k \in 1 .. Len(t) : pos[k] = j

Quantities(t) == [k \in 1 .. Len(t) |-> t[k].qty]

(* The trades of one level list its filled slots in order, and their       *)
(* quantities add up to the fills.                                         *)
LEMMA TradesAtFacts ==
  ASSUME Sound, NEW side \in Sides, NEW limit, NEW qty \in Quantity,
         NEW r \in Prices, NEW id \in OrderIds
  PROVE  LET price == Rank(side, r)
             q     == Queue(Opposite(side), price)
             f     == Fills(side, limit, qty)[r]
             t     == TradesAt(side, Fills(side, limit, qty), r, id)
         IN  /\ \E pos : TradeList(t, pos, q, price, f)
             /\ Quantities(t) \in Seq(Nat) /\ Sum(Quantities(t)) = Sum(f)
<1> DEFINE fills == Fills(side, limit, qty)
           price == Rank(side, r)
           q == Queue(Opposite(side), price)
           f == fills[r]
           trade(i) == [type |-> "Trade", aggressor |-> id, resting |-> q[i],
                        price |-> price, qty |-> f[i]]
           trades == [i \in 1 .. Len(q) |-> trade(i)]
           S == {t \in Elems(trades) : t.qty # 0}
           t == Keep(trades, S)
<1>1. price \in Prices /\ q \in Seq(OrderIds) /\ Len(q) \in Nat
  BY RankFacts, OppositeFacts, QueueType DEF Sound
<1>2. f \in Seq(Quantity) /\ Len(f) = Len(q) /\ \A i \in 1 .. Len(q) : f[i] \in Quantity
  <2>1. f \in Seq(Quantity) /\ Len(f) = Len(q)
    BY FillsType, SMTT(60)
  <2> HIDE DEF f, q
  <2> QED BY <2>1
<1>3. TradesAt(side, fills, r, id) = t
  BY DEF TradesAt
<1> HIDE DEF fills, price, q, f
<1>4. \A i \in 1 .. Len(q) :
        /\ trade(i) \in Trade /\ trade(i).type = "Trade" /\ trade(i).price = price
        /\ trade(i).resting = q[i] /\ trade(i).qty = f[i]
  BY <1>1, <1>2 DEF Trade
<1> HIDE DEF trade
<1>5. /\ trades \in Seq(Trade) /\ Len(trades) = Len(q)
      /\ \A i \in 1 .. Len(q) : trades[i] = trade(i)
  BY <1>1, <1>4
<1> HIDE DEF trades
<1>6. \A i \in 1 .. Len(q) : trades[i] \in S <=> f[i] # 0
  BY <1>4, <1>5, Zenon DEF Elems
<1> HIDE DEF S
<1>7. PICK pos : Embeds(pos, t, trades, Len(q), S)
  BY <1>5, KeepEmbeds
<1>8. t \in Seq(Trade)
  BY <1>5, KeepElems
<1> HIDE DEF t
<1>9. t \in Seq(Event) /\ \A k \in 1 .. Len(t) : t[k] \in Trade
  <2>1. Trade \subseteq Event
    BY Zenon DEF Trade, Event
  <2> QED BY <1>8, <2>1, SMTT(30)
<1>10. TradeList(t, pos, q, price, f)
  <2>1. /\ pos \in [1 .. Len(t) -> 1 .. Len(q)]
        /\ \A k, l \in 1 .. Len(t) : k < l => pos[k] < pos[l]
        /\ \A k \in 1 .. Len(t) : t[k] = trades[pos[k]] /\ trades[pos[k]] \in S
        /\ \A j \in 1 .. Len(q) : trades[j] \in S => \E k \in 1 .. Len(t) : pos[k] = j
    BY <1>7, Zenon DEF Embeds
  <2>2. \A k \in 1 .. Len(t) : pos[k] \in 1 .. Len(q)
    BY <2>1, Zenon
  <2>3. ASSUME NEW k \in 1 .. Len(t)
        PROVE  /\ t[k].type = "Trade" /\ t[k].price = price /\ t[k].resting = q[pos[k]]
               /\ t[k].qty = f[pos[k]] /\ f[pos[k]] # 0
    <3>1. pos[k] \in 1 .. Len(q) /\ t[k] = trades[pos[k]] /\ trades[pos[k]] \in S
      BY <2>1, <2>2, Zenon
    <3>2. t[k] = trade(pos[k]) /\ f[pos[k]] # 0
      BY <1>5, <1>6, <3>1, Zenon
    <3> QED BY <1>4, <3>1, <3>2, Zenon
  <2> QED BY <1>6, <1>9, <2>1, <2>3, Zenon DEF TradeList
<1>11. Quantities(t) \in Seq(Nat) /\ Sum(Quantities(t)) = Sum(f)
  <2> DEFINE v == [x \in Trade |-> x.qty]
  <2>1. v \in [Trade -> Nat]
    BY WordAssumption DEF Trade, Quantity
  <2>2. f \in Seq(Nat)
    BY <1>2, WordAssumption DEF Quantity
  <2>3. Values(v, t) = Quantities(t)
    BY <1>9, Zenon DEF Values, Quantities
  <2>4. \A i \in 1 .. Len(q) : v[trades[i]] = f[i]
    BY <1>4, <1>5, Zenon
  <2> HIDE DEF v
  <2>5. \A i \in 1 .. Len(f) : /\ trades[i] \in S => v[trades[i]] = f[i]
                               /\ trades[i] \notin S => f[i] = 0
    BY <1>2, <1>6, <2>4, Zenon
  <2>6. Sum(Values(v, Keep(trades, S))) = Sum(f)
    BY <1>2, <1>5, <2>1, <2>2, <2>5, SumOfOthers DEF SumKept
  <2>7. Values(v, t) \in Seq(Nat)
    BY <1>8, <2>1, ValuesAppend, Zenon
  <2> QED BY <2>3, <2>6, <2>7, Zenon DEF t
<1>12. \E p : TradeList(t, p, q, price, f)
  BY <1>10
<1> QED BY <1>3, <1>11, <1>12, Zenon DEF fills, price, q, f

(* e is a trade of a filled slot of one of the R best levels.              *)
TradeOf(e, R, side, fills) ==
  LET q == Queue(Opposite(side), e.price)
      r == Rank(side, e.price)
  IN  /\ e.type = "Trade" /\ e.price \in Prices /\ r \in 1 .. R
      /\ \E j \in 1 .. Len(q) : e.resting = q[j] /\ e.qty = fills[r][j] /\ e.qty # 0

(* d comes before e: at a better level, or earlier in the same queue.      *)
Before(d, e, side) ==
  \/ Rank(side, d.price) < Rank(side, e.price)
  \/ d.price = e.price /\ d.resting < e.resting

(* There is a trade for the slot j of the level of rank r.                 *)
SlotTraded(ev, r, j, side, fills) ==
  \E i \in 2 .. Len(ev) : /\ ev[i].price = Rank(side, r)
                          /\ ev[i].resting = Queue(Opposite(side), Rank(side, r))[j]
                          /\ ev[i].qty = fills[r][j]

(* ev is an event list of the R best levels: the Ack, then exactly the     *)
(* trades of the filled slots, in order of priority.                       *)
Listed(ev, R, side, fills) ==
  /\ ev \in Seq(Event) /\ Len(ev) >= 1 /\ ev[1].type = "Ack"
  /\ \A i \in 2 .. Len(ev) : TradeOf(ev[i], R, side, fills)
  /\ \A i, j \in 2 .. Len(ev) : i < j => Before(ev[i], ev[j], side)
  /\ \A r \in 1 .. R : \A j \in 1 .. Len(Queue(Opposite(side), Rank(side, r))) :
       fills[r][j] # 0 => SlotTraded(ev, r, j, side, fills)

(* The next level's trades go at the end.                                  *)
LEMMA ListedGrows ==
  ASSUME Sound, TimePriority, NEW side \in Sides, NEW fills, NEW r \in Prices,
         NEW a, Listed(a, r - 1, side, fills), NEW t, NEW pos,
         TradeList(t, pos, Queue(Opposite(side), Rank(side, r)), Rank(side, r), fills[r])
  PROVE  Listed(a \o t, r, side, fills)
<1> DEFINE price == Rank(side, r)
           q == Queue(Opposite(side), price)
           f == fills[r]
           ev == a \o t
           m == Len(a)
<1>1. price \in Prices /\ Rank(side, price) = r /\ r \in Nat /\ r >= 1
  BY RankFacts, MatcherAssumption DEF Prices
<1>2. /\ q \in Seq(Nat) /\ \A i, j \in 1 .. Len(q) : i < j => q[i] < q[j]
  <2>1. q \in Seq(OrderIds) /\ Ascending(q)
    BY <1>1, OppositeFacts, QueueType, Zenon DEF Sound, TimePriority
  <2> HIDE DEF q
  <2> QED BY <2>1, MatcherAssumption DEF OrderIds, Ascending
<1>3. /\ a \in Seq(Event) /\ m >= 1 /\ a[1].type = "Ack"
      /\ \A i \in 2 .. m : TradeOf(a[i], r - 1, side, fills)
      /\ \A i, j \in 2 .. m : i < j => Before(a[i], a[j], side)
      /\ \A k \in 1 .. r - 1 : \A j \in 1 .. Len(Queue(Opposite(side), Rank(side, k))) :
           fills[k][j] # 0 => SlotTraded(a, k, j, side, fills)
  BY Zenon DEF Listed
<1>4. /\ t \in Seq(Event) /\ pos \in [1 .. Len(t) -> 1 .. Len(q)]
      /\ \A k, l \in 1 .. Len(t) : k < l => pos[k] < pos[l]
      /\ \A k \in 1 .. Len(t) :
           /\ t[k].type = "Trade" /\ t[k].price = price /\ t[k].resting = q[pos[k]]
           /\ t[k].qty = f[pos[k]] /\ f[pos[k]] # 0
      /\ \A j \in 1 .. Len(q) : f[j] # 0 => \E k \in 1 .. Len(t) : pos[k] = j
  BY Zenon DEF TradeList
<1> HIDE DEF price, q, f
<1>5. /\ ev \in Seq(Event) /\ Len(ev) = m + Len(t) /\ m \in Nat /\ Len(t) \in Nat
      /\ \A i \in 1 .. m : ev[i] = a[i]
      /\ \A k \in 1 .. Len(t) : ev[m + k] = t[k]
  BY <1>3, <1>4
<1> HIDE DEF ev, m
<1>6. /\ Len(ev) >= 1 /\ ev[1] = a[1] /\ 2 .. m \subseteq 2 .. Len(ev) /\ 2 .. m \subseteq 1 .. m
      /\ \A k \in 1 .. Len(t) : m + k \in 2 .. Len(ev)
  BY <1>3, <1>5
<1>7. ASSUME NEW i \in 2 .. Len(ev)
      PROVE  i \in 2 .. m \/ \E k \in 1 .. Len(t) : i = m + k
  <2>1. i \in 2 .. m \/ (i - m \in 1 .. Len(t) /\ i = m + (i - m))
    BY <1>3, <1>5
  <2> QED BY <2>1
<1>8. \A k \in 1 .. Len(t) : pos[k] \in 1 .. Len(q)
  BY <1>4, Zenon
<1>9. ASSUME NEW k \in 1 .. Len(t) PROVE TradeOf(t[k], r, side, fills)
  <2>1. /\ t[k].type = "Trade" /\ t[k].price = price /\ t[k].resting = q[pos[k]]
        /\ t[k].qty = f[pos[k]] /\ f[pos[k]] # 0 /\ pos[k] \in 1 .. Len(q)
    BY <1>4, <1>8, Zenon
  <2>2. r \in 1 .. r
    BY <1>1
  <2> QED BY <1>1, <2>1, <2>2, Zenon DEF TradeOf, q, f
<1>10. \A e : TradeOf(e, r - 1, side, fills) => TradeOf(e, r, side, fills) /\ Rank(side, e.price) < r
  <2>1. \A x \in 1 .. r - 1 : x \in 1 .. r /\ x < r
    BY <1>1
  <2> QED BY <2>1, Zenon DEF TradeOf
<1>11. \A i \in 2 .. Len(ev) : TradeOf(ev[i], r, side, fills)
  <2> SUFFICES ASSUME NEW i \in 2 .. Len(ev) PROVE TradeOf(ev[i], r, side, fills)
    BY Zenon
  <2>1. CASE i \in 2 .. m
    BY <1>3, <1>5, <1>6, <1>10, <2>1, Zenon
  <2>2. ASSUME NEW k \in 1 .. Len(t), i = m + k PROVE TradeOf(ev[i], r, side, fills)
    BY <1>5, <1>9, <2>2, Zenon
  <2> QED BY <1>7, <2>1, <2>2, Zenon
<1>12. \A i, j \in 2 .. Len(ev) : i < j => Before(ev[i], ev[j], side)
  <2> SUFFICES ASSUME NEW i \in 2 .. Len(ev), NEW j \in 2 .. Len(ev), i < j
               PROVE  Before(ev[i], ev[j], side)
    BY Zenon
  <2>1. CASE j \in 2 .. m
    <3>1. i \in 2 .. m
      BY <1>5, <2>1
    <3> QED BY <1>3, <1>5, <1>6, <2>1, <3>1, ZenonT(60)
  <2>2. ASSUME NEW l \in 1 .. Len(t), j = m + l PROVE Before(ev[i], ev[j], side)
    <3>1. ev[j] = t[l] /\ t[l].price = price /\ t[l].resting = q[pos[l]]
      BY <1>4, <1>5, <2>2, Zenon
    <3>2. CASE i \in 2 .. m
      <4>1. ev[i] = a[i] /\ Rank(side, a[i].price) < r
        BY <1>3, <1>5, <1>6, <1>10, <3>2, Zenon
      <4> QED BY <1>1, <3>1, <4>1, Zenon DEF Before
    <3>3. ASSUME NEW k \in 1 .. Len(t), i = m + k PROVE Before(ev[i], ev[j], side)
      <4>1. ev[i] = t[k] /\ t[k].price = price /\ t[k].resting = q[pos[k]]
        BY <1>4, <1>5, <3>3, Zenon
      <4>2. k < l
        BY <1>5, <2>2, <3>3
      <4>3. q[pos[k]] < q[pos[l]]
        BY <1>2, <1>4, <1>8, <4>2, Zenon
      <4> QED BY <3>1, <4>1, <4>3, Zenon DEF Before
    <3> QED BY <1>7, <3>2, <3>3, Zenon
  <2> QED BY <1>7, <2>1, <2>2, Zenon
<1>13. \A k \in 1 .. r : \A j \in 1 .. Len(Queue(Opposite(side), Rank(side, k))) :
         fills[k][j] # 0 => SlotTraded(ev, k, j, side, fills)
  <2> SUFFICES ASSUME NEW k \in 1 .. r,
                      NEW j \in 1 .. Len(Queue(Opposite(side), Rank(side, k))),
                      fills[k][j] # 0
               PROVE  SlotTraded(ev, k, j, side, fills)
    BY Zenon
  <2>1. CASE k \in 1 .. r - 1
    <3>1. SlotTraded(a, k, j, side, fills)
      BY <1>3, <2>1, Zenon
    <3>2. PICK i \in 2 .. m : /\ a[i].price = Rank(side, k)
                              /\ a[i].resting = Queue(Opposite(side), Rank(side, k))[j]
                              /\ a[i].qty = fills[k][j]
      BY <3>1, Zenon DEF SlotTraded, m
    <3>3. i \in 2 .. Len(ev) /\ ev[i] = a[i]
      BY <1>5, <1>6, Zenon
    <3> QED BY <3>2, <3>3, Zenon DEF SlotTraded
  <2>2. CASE k = r
    <3>1. j \in 1 .. Len(q) /\ f[j] # 0
      BY <2>2, Zenon DEF q, price, f
    <3>2. PICK l \in 1 .. Len(t) : pos[l] = j
      BY <1>4, <3>1, Zenon
    <3>3. m + l \in 2 .. Len(ev) /\ ev[m + l] = t[l]
      BY <1>5, <1>6, Zenon
    <3>4. t[l].price = price /\ t[l].resting = q[j] /\ t[l].qty = f[j]
      BY <1>4, <3>2, Zenon
    <3> QED BY <2>2, <3>3, <3>4, Zenon DEF SlotTraded, q, price, f
  <2>3. k \in 1 .. r - 1 \/ k = r
    BY <1>1
  <2> QED BY <2>1, <2>2, <2>3, Zenon
<1> QED BY <1>3, <1>5, <1>6, <1>11, <1>12, <1>13, Zenon DEF Listed, ev

(* The event list of a submit is one of all the levels.                    *)
LEMMA EventsListed ==
  ASSUME Sound, TimePriority, NEW side \in Sides, NEW limit, NEW qty \in Quantity,
         NEW id \in OrderIds
  PROVE  Listed(Events(side, Fills(side, limit, qty), id), MaxPrice, side,
                Fills(side, limit, qty))
<1> DEFINE n == MaxPrice
           fills == Fills(side, limit, qty)
<1>1. PICK ev : EventsGrow(ev, side, fills, id)
  BY EventsUnfold, Zenon
<1> DEFINE T == {r \in 0 .. n : Listed(ev[r], r, side, fills)}
<1>2. n \in Nat
  BY MatcherAssumption
<1>3. Listed(ev[0], 0, side, fills)
  <2> DEFINE ack == [type |-> "Ack", id |-> id]
             e == <<ack>>
  <2>1. ev[0] = e
    BY <1>1, Zenon DEF EventsGrow
  <2>2. ack \in Event /\ ack.type = "Ack"
    BY DEF Event
  <2> HIDE DEF ack
  <2>3. e \in Seq(Event) /\ Len(e) = 1 /\ e[1].type = "Ack" /\ Len(e) >= 1
    BY <2>2
  <2>4. 2 .. Len(e) = {} /\ 1 .. 0 = {}
    BY <2>3
  <2> HIDE DEF e, fills
  <2> QED BY <2>1, <2>3, <2>4, Zenon DEF Listed
<1>4. ASSUME NEW r \in 1 .. n, Listed(ev[r - 1], r - 1, side, fills)
      PROVE  Listed(ev[r], r, side, fills)
  <2>1. r \in Prices /\ ev[r] = ev[r - 1] \o TradesAt(side, fills, r, id)
    BY <1>1, Zenon DEF EventsGrow, Prices
  <2>2. PICK pos : TradeList(TradesAt(side, fills, r, id), pos,
                             Queue(Opposite(side), Rank(side, r)), Rank(side, r), fills[r])
    BY <2>1, TradesAtFacts, Zenon
  <2> HIDE DEF fills
  <2> QED BY <1>4, <2>1, <2>2, ListedGrows, Zenon
<1> HIDE DEF fills
<1>5. 0 \in T
  BY <1>2, <1>3
<1>6. \A r \in 1 .. n : r - 1 \in T => r \in T
  BY <1>2, <1>4
<1>7. \A r \in 0 .. n : r \in T
  <2> HIDE DEF T
  <2> QED BY <1>2, <1>5, <1>6, UpToInduction
<1>8. n \in 0 .. n
  BY <1>2
<1>9. Listed(ev[n], n, side, fills)
  BY <1>7, <1>8
<1>10. ev[n] = Events(side, fills, id)
  BY <1>1, Zenon DEF EventsGrow
<1> QED BY <1>9, <1>10, Zenon DEF fills, n

(* In such a list the trades are the events after the Ack.                 *)
LEMMA TradesAreLater ==
  ASSUME NEW ev, NEW R, NEW side, NEW fills, Listed(ev, R, side, fills)
  PROVE  TradesOf(ev) = 2 .. Len(ev)
<1>1. Len(ev) \in Nat /\ Len(ev) >= 1 /\ ev[1].type = "Ack"
  BY DEF Listed
<1>2. \A i \in 2 .. Len(ev) : ev[i].type = "Trade"
  BY Zenon DEF Listed, TradeOf
<1>3. \A i \in 1 .. Len(ev) : i = 1 \/ i \in 2 .. Len(ev)
  BY <1>1
<1>4. \A i \in 2 .. Len(ev) : i \in 1 .. Len(ev)
  BY <1>1
<1>5. \A i \in 1 .. Len(ev) : ev[i].type = "Trade" <=> i \in 2 .. Len(ev)
  <2>1. 1 \notin 2 .. Len(ev) /\ "Ack" # "Trade"
    BY <1>1
  <2> QED BY <1>1, <1>2, <1>3, <2>1, Zenon
<1> QED BY <1>4, <1>5, Zenon DEF TradesOf

(* Of two prices the better one has the lower rank.                        *)
LEMMA BetterIsLower ==
  ASSUME NEW side \in Sides, NEW p \in Prices, NEW q \in Prices
  PROVE  /\ Better(side, p, q) <=> Rank(side, p) < Rank(side, q)
         /\ \A limit \in Prices :
              Crosses(side, limit, q) /\ Better(side, p, q) => Crosses(side, limit, p)
  BY MatcherAssumption DEF Rank, Crosses, Prices, Sides, Better

(* A trade: a fill of an open order within the limit, by an aggressor that *)
(* had something left when it came to the level.                           *)
TradeWithin(e, side, limit, qty) ==
  /\ e.price \in Prices /\ Rank(side, e.price) \in Prices
  /\ Rank(side, Rank(side, e.price)) = e.price
  /\ e.resting \in DOMAIN orders /\ orders[e.resting].side = Opposite(side)
  /\ orders[e.resting].price = e.price
  /\ Crosses(side, limit, e.price)
  /\ LeftAfter(side, limit, qty)[Rank(side, e.price) - 1] > 0

(* Every trade of a submit is one.                                         *)
LEMMA TradeFacts ==
  ASSUME Fits, NEW side \in Sides, NEW limit, NEW qty \in Quantity, NEW e,
         TradeOf(e, MaxPrice, side, Fills(side, limit, qty))
  PROVE  TradeWithin(e, side, limit, qty)
<1> DEFINE p == e.price
           r == Rank(side, p)
           q == Queue(Opposite(side), p)
           fills == Fills(side, limit, qty)
           left == LeftAfter(side, limit, qty)[r - 1]
<1>1. PICK j \in 1 .. Len(q) : e.resting = q[j] /\ e.qty = fills[r][j] /\ e.qty # 0
  BY Zenon DEF TradeOf
<1>2. p \in Prices
  BY Zenon DEF TradeOf
<1>3. r \in Prices /\ Rank(side, r) = p
  <2> HIDE DEF p
  <2> QED BY <1>2, RankFacts
<1>4. e.resting \in DOMAIN orders /\ orders[e.resting].side = Opposite(side)
      /\ orders[e.resting].price = p
  <2> HIDE DEF p
  <2> QED BY <1>1, <1>2, QueueOrders, OppositeFacts, SMTT(60) DEF Fits
<1>5. fills[r] = FillsAt(side, limit, r, left) /\ left \in Quantity
      /\ Len(fills[r]) = Len(Queue(Opposite(side), Rank(side, r)))
  <2> HIDE DEF r
  <2> QED BY <1>3, FillsType, SMTT(60) DEF Fits
<1>6. left # 0 /\ Crosses(side, limit, p)
  <2> SUFFICES ASSUME left = 0 \/ ~Crosses(side, limit, p) PROVE FALSE
    BY Zenon
  <2> DEFINE w == Leaves(Queue(Opposite(side), Rank(side, r)))
             z == [i \in 1 .. Len(w) |-> 0]
  <2>1. fills[r] = z
    BY <1>3, <1>5, Zenon DEF FillsAt
  <2>2. Len(w) = Len(q)
    <3> HIDE DEF r, p
    <3> QED BY <1>2, <1>3, LeavesType, OppositeFacts, SMTT(60) DEF Fits
  <2> HIDE DEF w, r, q, fills
  <2>3. z[j] = 0
    BY <2>2, Zenon
  <2> HIDE DEF z
  <2> QED BY <1>1, <2>1, <2>3, Zenon
<1>7. left > 0
  <2> HIDE DEF left
  <2> QED BY <1>5, <1>6, WordAssumption DEF Quantity
<1> QED BY <1>2, <1>3, <1>4, <1>6, <1>7, Zenon DEF TradeWithin

-----------------------------------------------------------------------------
(* A submit trades in order of price and time, and leaves nothing open at  *)
(* a price better than one it traded at.                                   *)
LEMMA PriorityStep ==
  ASSUME NoWrap, Sound, Uncrossed, NEW key \in Keys, NEW side \in Sides,
         NEW price \in Prices, NEW qty \in 0 .. MaxQty, Submit(key, side, price, qty)
  PROVE  SubmitInPriority
<1> DEFINE opp == Opposite(side)
           fills == Fills(side, price, qty)
           gone == Gone(side, fills)
           left == LeftAfter(side, price, qty)
           kept == Remaining(side, fills)
           ev == out'
           T == TradesOf(out')
<1>1. Fits /\ TimePriority
  BY DEF Fits, Uncrossed, Struct
<1>2. qty \in Quantity /\ nextId \in OrderIds
  <2>1. SubmitEffect(side, price, qty)
    BY SubmitLevels
  <2> QED BY <2>1, Zenon DEF SubmitEffect
<1>3. ev = Events(side, fills, nextId) /\ call'.side = side
  <2>1. /\ out' = Events(side, fills, nextId)
        /\ call' = [op |-> "Submit", key |-> key, side |-> side, price |-> price, qty |-> qty]
    BY Zenon DEF Submit
  <2> HIDE DEF fills
  <2> QED BY <2>1
<1>4. Listed(ev, MaxPrice, side, fills)
  BY <1>1, <1>2, <1>3, EventsListed, Zenon
<1>5. T = 2 .. Len(ev)
  <2> HIDE DEF fills
  <2> QED BY <1>4, TradesAreLater, Zenon
<1>6. \A i \in T : TradeOf(ev[i], MaxPrice, side, fills)
  BY <1>4, <1>5, Zenon DEF Listed
<1>7. ASSUME NEW i \in T
      PROVE  LET r == Rank(side, ev[i].price)
             IN  /\ ev[i].price \in Prices /\ r \in Prices
                 /\ Crosses(side, price, ev[i].price) /\ left[r - 1] > 0
  <2>1. TradeOf(ev[i], MaxPrice, side, fills)
    BY <1>6, Zenon
  <2> DEFINE e == ev[i]
  <2> HIDE DEF e, T, ev
  <2>2. TradeOf(e, MaxPrice, side, fills)
    BY <2>1, Zenon DEF e
  <2>3. LET r == Rank(side, e.price)
        IN  /\ e.price \in Prices /\ r \in Prices
            /\ Crosses(side, price, e.price) /\ left[r - 1] > 0
    BY <1>1, <1>2, <2>2, TradeFacts, Zenon DEF TradeWithin
  <2> QED BY <2>3, Zenon DEF e
<1>8. ASSUME NEW i \in T, NEW j \in T, i < j
      PROVE  \/ Better(side, ev[i].price, ev[j].price)
             \/ ev[i].price = ev[j].price /\ ev[i].resting < ev[j].resting
  <2>1. Before(ev[i], ev[j], side)
    BY <1>4, <1>5, <1>8, Zenon DEF Listed
  <2>2. ev[i].price \in Prices /\ ev[j].price \in Prices
    BY <1>7, Zenon
  <2> DEFINE pi == ev[i].price
             pj == ev[j].price
  <2>3. Rank(side, pi) < Rank(side, pj) => Better(side, pi, pj)
    <3>1. pi \in Prices /\ pj \in Prices
      BY <2>2, Zenon
    <3> HIDE DEF pi, pj
    <3> QED BY <3>1, BetterIsLower
  <2> QED BY <2>1, <2>3, Zenon DEF Before
<1>9. KeptOrders(side, fills, kept)
  BY <1>2, RemainingFacts, ZenonT(60)
<1>10. \A o \in DOMAIN orders' \ {nextId} : o \in DOMAIN kept /\ orders'[o] = kept[o]
  <2>1. \/ orders' = kept
        \/ \E new : orders' = With(kept, nextId, new)
    BY ZenonT(60) DEF Submit
  <2> HIDE DEF kept
  <2> QED BY <2>1, Zenon DEF With
<1>11. ASSUME NEW i \in T, NEW o \in DOMAIN orders' \ {nextId}, orders'[o].side # side,
              Better(side, orders'[o].price, ev[i].price)
       PROVE  FALSE
  <2> DEFINE p == orders[o].price
             pi == ev[i].price
             r == Rank(side, p)
             ri == Rank(side, pi)
  <2>1. /\ o \in DOMAIN orders /\ o \notin gone
        /\ orders'[o].side = orders[o].side /\ orders'[o].price = orders[o].price
    BY <1>9, <1>10, <1>11, Zenon DEF KeptOrders
  <2>2. orders[o].side = opp /\ p \in Prices
    <3>1. orders[o].side \in Sides /\ p \in Prices
      BY <2>1, OrderType, SMTT(60) DEF Sound
    <3> QED BY <1>11, <2>1, <3>1, Zenon DEF Sides, Opposite
  <2>3. Better(side, p, pi) /\ pi \in Prices /\ ri \in Prices /\ left[ri - 1] > 0
        /\ Crosses(side, price, pi)
    BY <1>7, <1>11, <2>1, Zenon
  <2>4. r < ri /\ Crosses(side, price, p) /\ r \in Prices
    <3> HIDE DEF pi, p
    <3> QED BY <2>2, <2>3, BetterIsLower, RankFacts
  <2>5. left[r] > 0
    <3> HIDE DEF r, ri
    <3>1. ri - 1 \in 0 .. MaxPrice /\ r \in 0 .. (ri - 1) /\ r \in 0 .. MaxPrice
      <4>1. ri \in Prices /\ r \in Prices /\ r < ri
        BY <2>3, <2>4, Zenon
      <4> QED BY <4>1, MatcherAssumption DEF Prices
    <3>2. \A m \in 0 .. MaxPrice : \A k \in 0 .. m : left[m] <= left[k]
      BY <1>1, <1>2, LeftDecreases
    <3>3. left[ri - 1] <= left[r]
      BY <3>1, <3>2, Zenon
    <3>4. left \in [0 .. MaxPrice -> Quantity]
      BY <1>2, LeftAfterDef
    <3> HIDE DEF left
    <3>5. left[ri - 1] \in Nat /\ left[r] \in Nat
      BY <3>1, <3>4, WordAssumption DEF Quantity
    <3> QED BY <2>3, <3>3, <3>5
  <2>6. LeavesAfter(side, fills, o) = 0
    BY <1>1, <1>2, <2>1, <2>2, <2>4, <2>5, LeavesAfterExact, Zenon
  <2> QED BY <2>1, <2>2, <2>6, Zenon DEF Gone
<1>12. \A i, j \in T : i < j =>
         \/ Better(side, ev[i].price, ev[j].price)
         \/ ev[i].price = ev[j].price /\ ev[i].resting < ev[j].resting
  BY <1>8, Zenon
<1>13. \A i \in T : \A o \in DOMAIN orders' \ {nextId} :
         orders'[o].side # side => ~Better(side, orders'[o].price, ev[i].price)
  BY <1>11, Zenon
<1> HIDE DEF T
<1>14. /\ \A i, j \in T : i < j =>
            \/ Better(call'.side, out'[i].price, out'[j].price)
            \/ out'[i].price = out'[j].price /\ out'[i].resting < out'[j].resting
       /\ \A i \in T : \A o \in DOMAIN orders' \ {nextId} :
            orders'[o].side # call'.side => ~Better(call'.side, orders'[o].price, out'[i].price)
  BY <1>3, <1>12, <1>13, Zenon
<1> QED BY <1>14, Zenon DEF SubmitInPriority, T

(* Whenever the quantities cannot wrap, every submit trades best price     *)
(* first and oldest order first, and never at a price while an order of a  *)
(* better one stays open.                                                  *)
THEOREM PriorityKept == NoWrap => (Spec => TradesInPriority)
<1> SUFFICES ASSUME NoWrap PROVE Spec => TradesInPriority
  OBVIOUS
<1>1. Init => Uncrossed
  BY StructInit DEF Init, Uncrossed, OpenOrders, NotCrossed, OrigBound
<1>2. Uncrossed /\ [Next]_vars => Uncrossed'
  BY UncrossedStep
<1>3. Uncrossed /\ [Next]_vars => [SubmitInPriority]_vars
  <2> SUFFICES ASSUME Uncrossed, Next PROVE SubmitInPriority
    OBVIOUS
  <2>1. ASSUME NEW key \in Keys, NEW side \in Sides, NEW price \in Prices,
               NEW qty \in 0 .. MaxQty, Submit(key, side, price, qty)
        PROVE  SubmitInPriority
    <3>1. Sound
      BY <2>1, ZenonT(60) DEF Submit, Uncrossed, Struct, Sound
    <3> QED BY <2>1, <3>1, PriorityStep
  <2>2. ASSUME nextId' = nextId PROVE SubmitInPriority
    BY <2>2, Zenon DEF SubmitInPriority
  <2> QED BY <2>1, <2>2, Zenon DEF Next, Cancel, CancelUnknown, SetAlgo
<1> QED BY <1>1, <1>2, <1>3, PTL DEF Spec, TradesInPriority

-----------------------------------------------------------------------------
(* What the trades of a submit add up to.                                  *)

Amounts(ev) == [i \in 1 .. Len(ev) |-> IF ev[i].type = "Trade" THEN ev[i].qty ELSE 0]

(* Trades at the end add what they add up to.                              *)
LEMMA AmountsGrow ==
  ASSUME NEW a \in Seq(Event), Amounts(a) \in Seq(Nat), NEW t \in Seq(Event),
         \A k \in 1 .. Len(t) : t[k].type = "Trade", Quantities(t) \in Seq(Nat)
  PROVE  /\ Amounts(a \o t) \in Seq(Nat)
         /\ Sum(Amounts(a \o t)) = Sum(Amounts(a)) + Sum(Quantities(t))
<1> DEFINE ev == a \o t
           u == Amounts(a)
           v == Quantities(t)
<1>1. /\ Len(a) \in Nat /\ Len(t) \in Nat /\ Len(ev) = Len(a) + Len(t)
      /\ \A i \in 1 .. Len(a) : ev[i] = a[i]
      /\ \A i \in 1 .. Len(ev) : i \notin 1 .. Len(a) => ev[i] = t[i - Len(a)]
  OBVIOUS
<1>2. Len(u) = Len(a) /\ \A i \in 1 .. Len(a) : u[i] = IF a[i].type = "Trade" THEN a[i].qty ELSE 0
  BY <1>1 DEF Amounts
<1>3. Len(v) = Len(t) /\ \A i \in 1 .. Len(t) : v[i] = t[i].qty
  BY <1>1 DEF Quantities
<1> HIDE DEF ev, u, v
<1>4. ASSUME NEW i \in 1 .. Len(ev)
      PROVE  (IF ev[i].type = "Trade" THEN ev[i].qty ELSE 0) = (u \o v)[i]
  <2>1. CASE i \in 1 .. Len(a)
    <3>1. (u \o v)[i] = u[i]
      BY <1>1, <1>2, <1>3, <2>1 DEF u, v
    <3> QED BY <1>1, <1>2, <2>1, <3>1, Zenon
  <2>2. CASE i \notin 1 .. Len(a)
    <3>1. i - Len(a) \in 1 .. Len(t)
      BY <1>1, <2>2
    <3>2. (u \o v)[i] = v[i - Len(a)]
      <4>1. u \in Seq(Nat) /\ v \in Seq(Nat)
        BY DEF u, v
      <4> QED BY <1>1, <1>2, <1>3, <2>2, <4>1
    <3> QED BY <1>1, <1>3, <2>2, <3>1, <3>2, Zenon
  <2> QED BY <2>1, <2>2, Zenon
<1>5. u \in Seq(Nat) /\ v \in Seq(Nat)
  BY DEF u, v
<1>6. u \o v = [i \in 1 .. Len(ev) |-> (u \o v)[i]]
  <2> DEFINE w == u \o v
  <2>1. w \in Seq(Nat) /\ Len(w) = Len(u) + Len(v)
    BY <1>5
  <2> HIDE DEF w
  <2>2. w = [i \in 1 .. Len(w) |-> w[i]]
    BY <2>1
  <2> QED BY <1>1, <1>2, <1>3, <2>1, <2>2, Zenon DEF w
<1>7. Amounts(ev) = u \o v
  BY <1>4, <1>6, Zenon DEF Amounts
<1>8. u \o v \in Seq(Nat) /\ Sum(u \o v) = Sum(u) + Sum(v)
  BY <1>5, SumConcat
<1> QED BY <1>7, <1>8, Zenon DEF ev, u, v

(* The trades of a submit add up to what its aggressor lost.               *)
LEMMA EventsAddUp ==
  ASSUME Fits, NEW side \in Sides, NEW limit, NEW qty \in Quantity, NEW id \in OrderIds
  PROVE  LET ev == Events(side, Fills(side, limit, qty), id)
         IN  /\ Amounts(ev) \in Seq(Nat)
             /\ Sum(Amounts(ev)) = qty - LeftAfter(side, limit, qty)[MaxPrice]
<1> DEFINE n == MaxPrice
           fills == Fills(side, limit, qty)
           left == LeftAfter(side, limit, qty)
<1>1. PICK ev : EventsGrow(ev, side, fills, id)
  BY EventsUnfold, Zenon DEF Fits
<1> DEFINE P(r) == Amounts(ev[r]) \in Seq(Nat) /\ Sum(Amounts(ev[r])) = qty - left[r]
           T == {r \in 0 .. n : P(r)}
<1>2. n \in Nat /\ left[0] = qty /\ qty \in Nat
  BY MatcherAssumption, LeftAfterDef, WordAssumption DEF Fits, Quantity
<1>3. P(0)
  <2> DEFINE ack == [type |-> "Ack", id |-> id]
             e == <<ack>>
  <2>1. ev[0] = e
    BY <1>1, Zenon DEF EventsGrow
  <2>2. ack.type = "Ack"
    OBVIOUS
  <2> HIDE DEF ack
  <2>3. Len(e) = 1 /\ e[1] = ack
    OBVIOUS
  <2>4. Amounts(e) = <<0>>
    <3>1. \A i \in 1 .. 1 : (IF e[i].type = "Trade" THEN e[i].qty ELSE 0) = 0
      BY <2>2, <2>3
    <3> HIDE DEF e
    <3>2. Amounts(e) = [i \in 1 .. 1 |-> 0]
      BY <2>3, <3>1, Zenon DEF Amounts
    <3> QED BY <3>2
  <2>5. <<0>> \in Seq(Nat) /\ Len(<<0>>) = 1 /\ <<0>>[1] = 0
    OBVIOUS
  <2>6. Sum(<<0>>) = 0
    <3>1. 1 \in 1 .. Len(<<0>>) /\ \A i \in 1 .. Len(<<0>>) : i # 1 => <<0>>[i] = 0
      OBVIOUS
    <3> QED BY <2>5, <3>1, SumSingle, Zenon
  <2>7. qty - left[0] = 0
    <3> HIDE DEF left
    <3> QED BY <1>2
  <2> QED BY <2>1, <2>4, <2>5, <2>6, <2>7, Zenon
<1>4. ASSUME NEW r \in 1 .. n, P(r - 1) PROVE P(r)
  <2> DEFINE t == TradesAt(side, fills, r, id)
  <2>1. r \in Prices /\ ev[r] = ev[r - 1] \o t
    BY <1>1, Zenon DEF EventsGrow, Prices
  <2>2. PICK pos : TradeList(t, pos, Queue(Opposite(side), Rank(side, r)), Rank(side, r), fills[r])
    BY <2>1, TradesAtFacts, Zenon DEF Fits
  <2>3. Quantities(t) \in Seq(Nat) /\ Sum(Quantities(t)) = Sum(fills[r])
    BY <2>1, TradesAtFacts, Zenon DEF Fits
  <2>4. t \in Seq(Event) /\ \A k \in 1 .. Len(t) : t[k].type = "Trade"
    BY <2>2, Zenon DEF TradeList
  <2>5. ev[r - 1] \in Seq(Event)
    <3>1. r - 1 \in 0 .. n
      BY <1>2
    <3> QED BY <1>1, <3>1, Zenon DEF EventsGrow
  <2>6. left[r] = left[r - 1] - Sum(fills[r])
    <3>1. fills[r] = FillsAt(side, limit, r, left[r - 1])
      BY <2>1, FillsType, Zenon DEF Fits
    <3>2. left[r] = left[r - 1] - Sum(FillsAt(side, limit, r, left[r - 1]))
      BY <2>1, LeftDecreases, Zenon
    <3> QED BY <3>1, <3>2, Zenon
  <2>7. left[r] \in Nat /\ left[r - 1] \in Nat
    <3>1. left \in [0 .. n -> Quantity]
      BY LeftAfterDef DEF Fits
    <3> HIDE DEF left
    <3> QED BY <1>2, <3>1, WordAssumption DEF Quantity
  <2> HIDE DEF t, fills, left
  <2>8. /\ Amounts(ev[r - 1] \o t) \in Seq(Nat)
        /\ Sum(Amounts(ev[r - 1] \o t)) = Sum(Amounts(ev[r - 1])) + Sum(Quantities(t))
    BY <1>4, <2>3, <2>4, <2>5, AmountsGrow, Zenon
  <2>9. Sum(Quantities(t)) \in Nat
    BY <2>3, PartialSumsBound
  <2>10. Sum(Amounts(ev[r - 1])) = qty - left[r - 1]
    BY <1>4
  <2>11. Sum(Amounts(ev[r])) = qty - left[r]
    BY <1>2, <2>1, <2>3, <2>6, <2>7, <2>8, <2>9, <2>10
  <2> QED BY <2>1, <2>8, <2>11, Zenon
<1> HIDE DEF P, fills
<1>5. 0 \in T
  BY <1>2, <1>3
<1>6. \A r \in 1 .. n : r - 1 \in T => r \in T
  BY <1>2, <1>4
<1>7. \A r \in 0 .. n : r \in T
  <2> HIDE DEF T
  <2> QED BY <1>2, <1>5, <1>6, UpToInduction
<1>8. n \in 0 .. n
  BY <1>2
<1>9. P(n)
  BY <1>7, <1>8
<1>10. ev[n] = Events(side, fills, id)
  BY <1>1, Zenon DEF EventsGrow
<1> QED BY <1>9, <1>10, Zenon DEF fills, n, P, left

(* The fill of an order: none on the aggressor's own side.                 *)
FilledOf(side, fills, o) ==
  IF orders[o].side = Opposite(side)
  THEN fills[Rank(side, orders[o].price)]
            [Position(Queue(Opposite(side), orders[o].price), o)]
  ELSE 0

(* What the trades of ev that name an order add up to is its fill.         *)
TradedFill(ev, side, fills, o) ==
  Traded(ev, {i \in TradesOf(ev) : ev[i].resting = o}) = FilledOf(side, fills, o)

(* The trades that name an order add up to the fill of its slot, and none  *)
(* names an order of the aggressor's side.                                 *)
LEMMA TradedOf ==
  ASSUME Fits, NEW side \in Sides, NEW limit, NEW qty \in Quantity, NEW ev,
         Listed(ev, MaxPrice, side, Fills(side, limit, qty)), Amounts(ev) \in Seq(Nat),
         NEW o \in DOMAIN orders
  PROVE  TradedFill(ev, side, Fills(side, limit, qty), o)
<1> DEFINE fills == Fills(side, limit, qty)
           p == orders[o].price
           r == Rank(side, p)
           q == Queue(Opposite(side), p)
           j == Position(q, o)
           n == Len(ev)
           I == {i \in TradesOf(ev) : ev[i].resting = o}
           w == [i \in 1 .. n |-> IF i \in I THEN ev[i].qty ELSE 0]
<1>1. p \in Prices /\ o \in OrderIds /\ r \in Prices /\ Rank(side, r) = p
  <2>1. p \in Prices /\ o \in OrderIds
    BY OrderType DEF Fits, Sound
  <2> HIDE DEF p
  <2> QED BY <2>1, RankFacts
<1>2. /\ n \in Nat /\ n >= 1 /\ 1 \in 1 .. n /\ 1 \notin I
      /\ TradesOf(ev) = 2 .. n /\ \A i \in 2 .. n : i \in 1 .. n
  <2>1. TradesOf(ev) = 2 .. n
    <3> HIDE DEF fills
    <3> QED BY TradesAreLater, Zenon
  <2>2. ev \in Seq(Event) /\ n >= 1
    BY Zenon DEF Listed
  <2>3. n \in Nat
    BY <2>2
  <2> HIDE DEF n
  <2> QED BY <2>1, <2>2, <2>3
<1>3. Traded(ev, I) = Sum(w)
  BY Zenon DEF Traded
<1>4. w \in Seq(Nat) /\ Len(w) = n
  <2>1. /\ Len(Amounts(ev)) = n
        /\ \A i \in 1 .. n : Amounts(ev)[i] = IF ev[i].type = "Trade" THEN ev[i].qty ELSE 0
    BY <1>2 DEF Amounts
  <2>2. \A i \in 1 .. n : Amounts(ev)[i] \in Nat
    BY <2>1
  <2>3. \A i \in 1 .. n : i \in I => ev[i].type = "Trade"
    BY Zenon DEF TradesOf
  <2>4. \A i \in 1 .. n : i \in I => ev[i].qty \in Nat
    BY <2>1, <2>2, <2>3, Zenon
  <2>5. \A i \in 1 .. n : (IF i \in I THEN ev[i].qty ELSE 0) \in Nat
    BY <2>4
  <2> HIDE DEF I, n
  <2> QED BY <1>2, <2>5
<1>5. \A i \in 1 .. n : w[i] = IF i \in I THEN ev[i].qty ELSE 0
  BY Zenon
<1> HIDE DEF w
<1>6. ASSUME \A i \in 1 .. n : i \notin I PROVE Sum(w) = 0
  <2>1. \A i \in 1 .. n : w[i] = 0
    BY <1>5, <1>6, Zenon
  <2>2. Sum(w) = w[1]
    BY <1>2, <1>4, <2>1, SumSingle, Zenon
  <2> QED BY <1>2, <2>1, <2>2, Zenon
<1>7. ASSUME NEW i \in I
      PROVE  /\ ev[i].resting = o /\ orders[o].side = Opposite(side) /\ ev[i].price = p
             /\ \E k \in 1 .. Len(q) : q[k] = o /\ ev[i].qty = fills[r][k] /\ ev[i].qty # 0
  <2> DEFINE e == ev[i]
  <2>1. i \in 2 .. n /\ e.resting = o
    BY <1>2, Zenon
  <2>2. TradeOf(e, MaxPrice, side, fills)
    BY <2>1, Zenon DEF Listed
  <2> HIDE DEF e
  <2>3. orders[e.resting].side = Opposite(side) /\ orders[e.resting].price = e.price
    <3>1. TradeWithin(e, side, limit, qty)
      BY <2>2, TradeFacts, Zenon DEF fills
    <3> QED BY <3>1, Zenon DEF TradeWithin
  <2>4. e.price = p
    BY <2>1, <2>3, Zenon
  <2>5. \E k \in 1 .. Len(q) : q[k] = o /\ e.qty = fills[r][k] /\ e.qty # 0
    BY <2>1, <2>2, <2>4, Zenon DEF TradeOf
  <2> QED BY <2>1, <2>3, <2>4, <2>5, Zenon DEF e
<1>8. CASE orders[o].side # Opposite(side)
  <2>1. Sum(w) = 0
    BY <1>6, <1>7, <1>8, Zenon
  <2> QED BY <1>3, <1>8, <2>1, Zenon DEF FilledOf, TradedFill
<1>9. CASE orders[o].side = Opposite(side)
  <2>1. j \in 1 .. Len(q) /\ q[j] = o
    BY <1>9, LeavesAfterType, Zenon DEF Fits
  <2>2. \A k \in 1 .. Len(q) : q[k] = o => k = j
    <3>1. q \in Seq(OrderIds) /\ Ascending(q)
      BY <1>1, OppositeFacts, QueueType, Zenon DEF Fits, Sound, TimePriority
    <3> HIDE DEF q, j
    <3>2. q \in Seq(Nat)
      BY <3>1, MatcherAssumption DEF OrderIds
    <3> QED BY <2>1, <3>1, <3>2, OnePosition
  <2>3. CASE fills[r][j] = 0
    <3>1. \A i \in I : FALSE
      BY <1>7, <2>2, <2>3, Zenon
    <3>2. Sum(w) = 0
      BY <1>6, <3>1, Zenon
    <3> QED BY <1>3, <1>9, <2>3, <3>2, Zenon DEF FilledOf, TradedFill
  <2>4. CASE fills[r][j] # 0
    <3>0. r \in 1 .. MaxPrice
      BY <1>1, Zenon DEF Prices
    <3>1. SlotTraded(ev, r, j, side, fills)
      BY <1>1, <2>1, <2>4, <3>0, Zenon DEF Listed
    <3>2. PICK i \in 2 .. n : ev[i].price = p /\ ev[i].resting = q[j] /\ ev[i].qty = fills[r][j]
      BY <1>1, <3>1, Zenon DEF SlotTraded
    <3>3. i \in I /\ i \in 1 .. n
      BY <1>2, <2>1, <3>2, Zenon
    <3>4. ASSUME NEW k \in 1 .. n, k # i, k \in I PROVE FALSE
      <4>1. k \in 2 .. n /\ ev[k].price = p /\ ev[k].resting = o
        BY <1>2, <1>7, <3>4, Zenon
      <4>2. ~Before(ev[i], ev[k], side) /\ ~Before(ev[k], ev[i], side)
        <5>1. ~(r < r) /\ ~(o < o)
          <6> HIDE DEF r
          <6> QED BY <1>1, MatcherAssumption DEF Prices, OrderIds
        <5> QED BY <2>1, <3>2, <4>1, <5>1, ZenonT(60) DEF Before
      <4>3. i < k \/ k < i
        BY <3>4, <4>1
      <4> QED BY <3>2, <4>1, <4>2, <4>3, Zenon DEF Listed
    <3>5. \A k \in 1 .. n : k # i => w[k] = 0
      BY <1>5, <3>4, Zenon
    <3>6. Sum(w) = w[i]
      BY <1>4, <3>3, <3>5, SumSingle, Zenon
    <3>7. w[i] = fills[r][j]
      BY <1>5, <3>2, <3>3, Zenon
    <3> QED BY <1>3, <1>9, <3>6, <3>7, Zenon DEF FilledOf, TradedFill
  <2> QED BY <2>3, <2>4, Zenon
<1> QED BY <1>8, <1>9, Zenon

(* A submit's event list accounts for every change of the book.            *)
LEMMA ExplainedStep ==
  ASSUME NoWrap, Sound, Uncrossed, NEW key \in Keys, NEW side \in Sides,
         NEW price \in Prices, NEW qty \in 0 .. MaxQty, Submit(key, side, price, qty)
  PROVE  SubmitExplained
<1> DEFINE opp == Opposite(side)
           fills == Fills(side, price, qty)
           gone == Gone(side, fills)
           left == LeftAfter(side, price, qty)[MaxPrice]
           kept == Remaining(side, fills)
           after(o) == LeavesAfter(side, fills, o)
           fill(o) == fills[Rank(side, orders[o].price)]
                           [Position(Queue(opp, orders[o].price), o)]
           new == [key |-> key, side |-> side, price |-> price,
                   orig |-> qty, leaves |-> left]
           ev == out'
           T == TradesOf(out')
<1>1. Fits /\ TimePriority /\ IdsBelow
  BY DEF Fits, Uncrossed, Struct
<1>2. qty \in Quantity /\ left \in Quantity /\ nextId \in OrderIds
  <2>1. SubmitEffect(side, price, qty)
    BY SubmitLevels
  <2> QED BY <2>1, Zenon DEF SubmitEffect
<1>3. /\ ev = Events(side, fills, nextId)
      /\ call'.side = side /\ call'.price = price /\ call'.qty = qty
  <2>1. /\ out' = Events(side, fills, nextId)
        /\ call' = [op |-> "Submit", key |-> key, side |-> side, price |-> price, qty |-> qty]
    BY Zenon DEF Submit
  <2> HIDE DEF fills
  <2> QED BY <2>1
<1>4. Listed(ev, MaxPrice, side, fills) /\ Amounts(ev) \in Seq(Nat)
      /\ Sum(Amounts(ev)) = qty - left
  BY <1>1, <1>2, <1>3, EventsListed, EventsAddUp, Zenon
<1>5. T = 2 .. Len(ev)
  <2> HIDE DEF fills
  <2> QED BY <1>4, TradesAreLater, Zenon
<1>6. ASSUME NEW i \in T
      PROVE  /\ ev[i].resting \in DOMAIN orders /\ ev[i].price = orders[ev[i].resting].price
             /\ Crosses(side, price, ev[i].price)
  <2> DEFINE e == ev[i]
  <2>1. TradeOf(e, MaxPrice, side, fills)
    BY <1>4, <1>5, Zenon DEF Listed
  <2> HIDE DEF e, T, ev
  <2>2. /\ e.resting \in DOMAIN orders /\ e.price = orders[e.resting].price
        /\ Crosses(side, price, e.price)
    <3>1. TradeWithin(e, side, price, qty)
      BY <1>1, <1>2, <2>1, TradeFacts, Zenon DEF fills
    <3> QED BY <3>1, Zenon DEF TradeWithin
  <2> QED BY <2>2, Zenon DEF e
<1>7. KeptOrders(side, fills, kept)
  BY <1>2, RemainingFacts, ZenonT(60)
<1>8. nextId \notin DOMAIN orders
  BY <1>1, NewId
<1>9. ASSUME NEW o \in DOMAIN orders
      PROVE  Traded(ev, {i \in T : ev[i].resting = o}) = FilledOf(side, fills, o)
  <2> DEFINE x == ev
  <2>1. Listed(x, MaxPrice, side, fills) /\ Amounts(x) \in Seq(Nat)
    BY <1>4, Zenon
  <2> HIDE DEF x
  <2>2. TradedFill(x, side, fills, o)
    BY <1>1, <1>2, <2>1, TradedOf, Zenon DEF fills
  <2> QED BY <2>2, Zenon DEF x, TradedFill
<1>10. /\ \A o \in DOMAIN orders : o \in gone => orders[o].side = opp /\ after(o) = 0
       /\ \A o \in DOMAIN orders : orders[o].side = opp => after(o) = orders[o].leaves - fill(o)
  <2>1. \A o \in DOMAIN orders : orders[o].side = opp => after(o) = orders[o].leaves - fill(o)
    BY <1>1, <1>2, LeavesAfterExact, Zenon
  <2> QED BY <2>1, Zenon DEF Gone
<1>11. /\ \A o \in DOMAIN kept : o # nextId => o \in DOMAIN orders' /\ orders'[o] = kept[o]
       /\ \A o \in DOMAIN orders' : o # nextId => o \in DOMAIN kept
  <2>1. \/ orders' = kept
        \/ orders' = With(kept, nextId, new)
    BY ZenonT(60) DEF Submit
  <2> HIDE DEF kept, new
  <2> QED BY <2>1, Zenon DEF With
<1>12. ASSUME NEW o \in DOMAIN orders
       PROVE  orders[o].leaves = LeftIn(orders', o) + Traded(ev, {i \in T : ev[i].resting = o})
  <2>0. orders[o].leaves \in Nat /\ o # nextId
    BY <1>8, OrderType, WordAssumption DEF Sound, Quantity
  <2>1. orders[o].side = opp => fill(o) \in Nat
    <3>1. orders[o].side = opp => fill(o) \in Quantity
      BY <1>2, LeavesAfterType, Zenon
    <3> HIDE DEF fill
    <3> QED BY <3>1, WordAssumption DEF Quantity
  <2>2. LeftIn(orders', o) = IF orders[o].side = opp THEN after(o) ELSE orders[o].leaves
    <3>1. CASE o \in gone
      <4>1. o \notin DOMAIN orders'
        BY <1>7, <1>11, <2>0, <3>1, Zenon DEF KeptOrders
      <4> QED BY <1>10, <3>1, <4>1, Zenon DEF LeftIn
    <3>2. CASE o \notin gone
      <4>1. o \in DOMAIN orders' /\ orders'[o] = kept[o]
        BY <1>7, <1>11, <2>0, <3>2, Zenon DEF KeptOrders
      <4>2. kept[o].leaves = IF orders[o].side = opp THEN after(o) ELSE orders[o].leaves
        BY <1>7, <3>2, Zenon DEF KeptOrders
      <4> QED BY <4>1, <4>2, Zenon DEF LeftIn
    <3> QED BY <3>1, <3>2
  <2> DEFINE x == Traded(ev, {i \in T : ev[i].resting = o})
             y == LeftIn(orders', o)
             a == after(o)
             f == fill(o)
             l == orders[o].leaves
             c == orders[o].side = opp
  <2>3. x = (IF c THEN f ELSE 0) /\ y = (IF c THEN a ELSE l)
    BY <1>9, <2>2, Zenon DEF FilledOf
  <2>4. l \in Nat /\ (c => f \in Nat /\ a = l - f)
    BY <1>10, <2>0, <2>1, Zenon
  <2> HIDE DEF x, y, a, f, l, c
  <2>5. l = y + x
    BY <2>3, <2>4
  <2> QED BY <2>5, Zenon DEF l, x, y
<1>13. ASSUME freed' = {} PROVE qty = Traded(ev, T) + LeftIn(orders', nextId)
  <2>1. Traded(ev, T) = Sum(Amounts(ev))
    <3>1. \A i \in 1 .. Len(ev) : (IF i \in T THEN ev[i].qty ELSE 0) =
                                 (IF ev[i].type = "Trade" THEN ev[i].qty ELSE 0)
      BY Zenon DEF TradesOf
    <3>2. [i \in 1 .. Len(ev) |-> IF i \in T THEN ev[i].qty ELSE 0] = Amounts(ev)
      <4> HIDE DEF T
      <4> QED BY <3>1, Zenon DEF Amounts
    <3> HIDE DEF T
    <3> QED BY <3>2, Zenon DEF Traded
  <2>2. LeftIn(orders', nextId) = left
    <3>1. nextId \notin DOMAIN kept
      BY <1>7, <1>8, Zenon DEF KeptOrders
    <3>2. orders' = IF left > 0 THEN With(kept, nextId, new) ELSE kept
      BY <1>13, Zenon DEF Submit
    <3>3. new.leaves = left
      OBVIOUS
    <3> HIDE DEF kept, new, left
    <3>4. CASE left > 0
      <4>1. nextId \in DOMAIN orders' /\ orders'[nextId] = new
        BY <3>2, <3>4, Zenon DEF With
      <4> QED BY <3>3, <4>1, Zenon DEF LeftIn
    <3>5. CASE ~(left > 0)
      <4>1. left = 0
        BY <1>2, <3>5, WordAssumption DEF Quantity
      <4> QED BY <3>1, <3>2, <3>5, <4>1, Zenon DEF LeftIn
    <3> QED BY <3>4, <3>5
  <2> DEFINE x == Traded(ev, T)
             y == LeftIn(orders', nextId)
  <2>3. x = qty - left /\ y = left
    BY <1>4, <2>1, <2>2, Zenon
  <2>4. qty \in Nat /\ left \in Nat
    <3> HIDE DEF left
    <3> QED BY <1>2, WordAssumption DEF Quantity
  <2> HIDE DEF x, y, left
  <2>5. qty = x + y
    BY <2>3, <2>4
  <2> QED BY <2>5, Zenon DEF x, y
<1>14. \A i \in T : /\ ev[i].resting \in DOMAIN orders
                     /\ ev[i].price = orders[ev[i].resting].price
                     /\ Crosses(side, price, ev[i].price)
  BY <1>6, Zenon
<1> HIDE DEF T
<1>15. /\ \A o \in DOMAIN orders :
            orders[o].leaves = LeftIn(orders', o) + Traded(out', {i \in T : out'[i].resting = o})
       /\ freed' = {} => call'.qty = Traded(out', T) + LeftIn(orders', nextId)
       /\ \A i \in T : /\ out'[i].resting \in DOMAIN orders
                       /\ out'[i].price = orders[out'[i].resting].price
                       /\ Crosses(call'.side, call'.price, out'[i].price)
  BY <1>3, <1>12, <1>13, <1>14, Zenon
<1> QED BY <1>15, Zenon DEF SubmitExplained, T

(* Whenever the quantities cannot wrap, the trades of every submit add up, *)
(* order by order, to what the book lost and to what the aggressor got,    *)
(* and each is within the limit and at the resting order's price.          *)
THEOREM BookExplained == NoWrap => (Spec => TradesExplainBook)
<1> SUFFICES ASSUME NoWrap PROVE Spec => TradesExplainBook
  OBVIOUS
<1>1. Init => Uncrossed
  BY StructInit DEF Init, Uncrossed, OpenOrders, NotCrossed, OrigBound
<1>2. Uncrossed /\ [Next]_vars => Uncrossed'
  BY UncrossedStep
<1>3. Uncrossed /\ [Next]_vars => [SubmitExplained]_vars
  <2> SUFFICES ASSUME Uncrossed, Next PROVE SubmitExplained
    OBVIOUS
  <2>1. ASSUME NEW key \in Keys, NEW side \in Sides, NEW price \in Prices,
               NEW qty \in 0 .. MaxQty, Submit(key, side, price, qty)
        PROVE  SubmitExplained
    <3>1. Sound
      BY <2>1, ZenonT(60) DEF Submit, Uncrossed, Struct, Sound
    <3> QED BY <2>1, <3>1, ExplainedStep
  <2>2. ASSUME nextId' = nextId PROVE SubmitExplained
    BY <2>2, Zenon DEF SubmitExplained
  <2> QED BY <2>1, <2>2, Zenon DEF Next, Cancel, CancelUnknown, SetAlgo
<1> QED BY <1>1, <1>2, <1>3, PTL DEF Spec, TradesExplainBook

=============================================================================
