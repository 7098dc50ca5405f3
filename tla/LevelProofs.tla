----------------------------- MODULE LevelProofs ----------------------------
(***************************************************************************)
(* What a price level does with quantities.  count_ and total_qty_, which  *)
(* it keeps beside the queue they summarise, stay exact in the book,       *)
(* wrapping included; and one call of the matcher on a level hands out     *)
(* quantity as the two algorithms promise.  For every number of prices,    *)
(* orders and keys, and every level and quantity.                          *)
(***************************************************************************)
EXTENDS MatcherProofs, LevelFill

-----------------------------------------------------------------------------
(* Reductions modulo Word.                                                 *)

(* Quotient and remainder.                                                 *)
LEMMA DivMod ==
  ASSUME NEW z \in Int, NEW w \in Nat, w > 0
  PROVE  /\ z \div w \in Int /\ w * (z \div w) \in Int /\ z % w \in 0 .. w - 1
         /\ z % w = z - w * (z \div w)
<1>1. z \div w \in Int
  OBVIOUS
<1>2. z % w \in 0 .. w - 1
  OBVIOUS
<1>3. z % w = z - w * (z \div w)
  OBVIOUS
<1>4. \A d \in Int : w * d \in Int
  OBVIOUS
<1> QED BY <1>1, <1>2, <1>3, <1>4, Zenon

(* There is only one remainder.                                            *)
LEMMA OneRemainder ==
  ASSUME NEW w \in Nat, w > 0, NEW d \in Int, NEW r \in 0 .. w - 1, NEW s \in 0 .. w - 1,
         r - s = w * d
  PROVE  r = s
<1>1. CASE d >= 1
  <2>1. w * d >= w
    BY <1>1
  <2>2. w * d \in Int
    OBVIOUS
  <2> QED BY <2>1, <2>2
<1>2. CASE d <= -1
  <2>1. w * d <= -w
    BY <1>2
  <2>2. w * d \in Int
    OBVIOUS
  <2> QED BY <2>1, <2>2
<1>3. CASE d = 0
  <2>1. w * d = 0
    BY <1>3
  <2> QED BY <2>1
<1> QED BY <1>1, <1>2, <1>3

(* A multiple of Word makes no difference.                                 *)
LEMMA ModMultiple ==
  ASSUME NEW x \in Int, NEW y \in Int, NEW k \in Int, y = x + Word * k
  PROVE  y % Word = x % Word
<1> DEFINE a == x \div Word
           b == y \div Word
           d == (k + a) - b
<1>1. Word \in Nat /\ Word > 0
  BY WordAssumption
<1>2. /\ a \in Int /\ Word * a \in Int /\ x % Word \in 0 .. Word - 1
      /\ x % Word = x - Word * a
  BY <1>1, DivMod
<1>3. /\ b \in Int /\ Word * b \in Int /\ y % Word \in 0 .. Word - 1
      /\ y % Word = y - Word * b
  BY <1>1, DivMod
<1> HIDE DEF a, b
<1>4. Word * k \in Int
  BY <1>1
<1>5. Word * d = (Word * k + Word * a) - Word * b /\ d \in Int
  <2>1. \A e, f, g \in Int : Word * ((e + f) - g) = (Word * e + Word * f) - Word * g
    BY <1>1
  <2> QED BY <1>2, <1>3, <2>1
<1>6. (y % Word) - (x % Word) = Word * d
  BY <1>2, <1>3, <1>4, <1>5
<1> HIDE DEF d
<1> QED BY <1>1, <1>2, <1>3, <1>5, <1>6, OneRemainder

(* So that only the last reduction counts.                                 *)
LEMMA ModSums ==
  ASSUME NEW x \in Int, NEW y \in Int
  PROVE  /\ x % Word \in Quantity
         /\ ((x % Word) + y) % Word = (x + y) % Word
         /\ ((x % Word) - y) % Word = (x - y) % Word
         /\ (x - (y % Word)) % Word = (x - y) % Word
         /\ (x + (y % Word)) % Word = (x + y) % Word
<1>1. Word \in Nat /\ Word > 0
  BY WordAssumption
<1> DEFINE a == x \div Word
           b == y \div Word
<1>2. a \in Int /\ Word * a \in Int /\ x % Word \in 0 .. Word - 1 /\ x % Word = x - Word * a
  BY <1>1, DivMod
<1>3. b \in Int /\ Word * b \in Int /\ y % Word \in 0 .. Word - 1 /\ y % Word = y - Word * b
  BY <1>1, DivMod
<1> HIDE DEF a, b
<1>4. Word * (-a) = -(Word * a) /\ Word * (-b) = -(Word * b) /\ -a \in Int /\ -b \in Int
  <2>1. \A e \in Int : Word * (-e) = -(Word * e) /\ -e \in Int
    BY <1>1
  <2> QED BY <1>2, <1>3, <2>1
<1>5. /\ (x % Word) + y \in Int /\ (x % Word) - y \in Int /\ x - (y % Word) \in Int
      /\ x + (y % Word) \in Int /\ x + y \in Int /\ x - y \in Int
  BY <1>1, <1>2, <1>3
<1>6. /\ (x % Word) + y = (x + y) + Word * (-a)
      /\ (x % Word) - y = (x - y) + Word * (-a)
      /\ x - (y % Word) = (x - y) + Word * b
      /\ x + (y % Word) = (x + y) + Word * (-b)
  BY <1>1, <1>2, <1>3, <1>4
<1>7. x % Word \in Quantity
  BY <1>2 DEF Quantity
<1>8. ((x % Word) + y) % Word = (x + y) % Word /\ ((x % Word) - y) % Word = (x - y) % Word
  BY <1>2, <1>4, <1>5, <1>6, ModMultiple
<1>9. (x - (y % Word)) % Word = (x - y) % Word /\ (x + (y % Word)) % Word = (x + y) % Word
  BY <1>3, <1>4, <1>5, <1>6, ModMultiple
<1> QED BY <1>7, <1>8, <1>9

(* A Quantity is its own remainder.                                        *)
LEMMA ModSmall ==
  \A x \in Quantity : /\ x % Word = x /\ (x + 0) % Word = x /\ (0 + x) % Word = x
                       /\ (x - 0) % Word = x /\ (x - x) % Word = 0
  BY WordAssumption DEF Quantity

(* The sum of two differences is the difference of the sums.               *)
SumOfDifferences(g, h, u, v) ==
  (((g - h) % Word) + ((u - v) % Word)) % Word
    = (((g + u) % Word) - ((h + v) % Word)) % Word

(* That is, wherever the reductions are.                                   *)
LEMMA ModDifference ==
  ASSUME NEW g \in Int, NEW h \in Int, NEW u \in Int, NEW v \in Int
  PROVE  SumOfDifferences(g, h, u, v)
<1> DEFINE x == g - h
           y == u - v
           b == g + u
           c == h + v
<1>1. x \in Int /\ y \in Int /\ b \in Int /\ c \in Int /\ x + y = b - c
  OBVIOUS
<1> HIDE DEF x, y, b, c
<1>2. x % Word \in Int /\ b % Word \in Int
  BY <1>1, WordAssumption
<1>3. ((x % Word) + (y % Word)) % Word = ((x % Word) + y) % Word
  BY <1>1, <1>2, ModSums, ZenonT(60)
<1>4. ((x % Word) + y) % Word = (x + y) % Word
  BY <1>1, ModSums, Zenon
<1>5. ((b % Word) - (c % Word)) % Word = ((b % Word) - c) % Word
  BY <1>1, <1>2, ModSums, Zenon
<1>6. ((b % Word) - c) % Word = (b - c) % Word
  BY <1>1, ModSums, Zenon
<1> QED BY <1>1, <1>3, <1>4, <1>5, <1>6, Zenon DEF x, y, b, c, SumOfDifferences

-----------------------------------------------------------------------------
(* What the wrapping sums do as lists change.                              *)

(* A sum is a Quantity, and the empty sum is 0.                            *)
LEMMA TotalIsQuantity ==
  ASSUME NEW q \in Seq(Nat)
  PROVE  Total(q) \in Quantity /\ (Len(q) = 0 => Total(q) = 0)
<1>1. Len(q) \in Nat /\ Len(q) \in 0 .. Len(q)
  OBVIOUS
<1> QED BY <1>1, RunningSumDef, Zenon DEF Total

(* Sums of lists that agree as far as n agree as far as n.                 *)
LEMMA SamePrefix ==
  ASSUME NEW p \in Seq(Nat), NEW q \in Seq(Nat), NEW n \in Nat,
         n <= Len(p), n <= Len(q), \A i \in 1 .. n : p[i] = q[i]
  PROVE  RunningSum(p)[n] = RunningSum(q)[n]
<1> DEFINE P == RunningSum(p)
           Q == RunningSum(q)
           T == {i \in 0 .. n : P[i] = Q[i]}
<1>1. Len(p) \in Nat /\ Len(q) \in Nat
  OBVIOUS
<1>2. P[0] = 0 /\ \A i \in 1 .. Len(p) : P[i] = (P[i - 1] + p[i]) % Word
  BY RunningSumDef, Zenon
<1>3. Q[0] = 0 /\ \A i \in 1 .. Len(q) : Q[i] = (Q[i - 1] + q[i]) % Word
  BY RunningSumDef, Zenon
<1> HIDE DEF P, Q
<1>4. 0 \in T
  BY <1>2, <1>3
<1>5. \A i \in 1 .. n : i - 1 \in T => i \in T
  <2> SUFFICES ASSUME NEW i \in 1 .. n, P[i - 1] = Q[i - 1] PROVE P[i] = Q[i]
    OBVIOUS
  <2>1. i \in 1 .. Len(p) /\ i \in 1 .. Len(q)
    BY <1>1
  <2> QED BY <1>2, <1>3, <2>1, Zenon
<1>6. \A i \in 0 .. n : i \in T
  <2> HIDE DEF T
  <2> QED BY <1>4, <1>5, UpToInduction, Zenon
<1>7. n \in 0 .. n
  OBVIOUS
<1> QED BY <1>6, <1>7, Zenon DEF P, Q

(* push_back adds to the sum.                                              *)
LEMMA TotalAppend ==
  ASSUME NEW q \in Seq(Nat), NEW x \in Nat
  PROVE  Total(Append(q, x)) = (Total(q) + x) % Word
<1> DEFINE n == Len(q)
           r == Append(q, x)
<1>1. /\ r \in Seq(Nat) /\ Len(r) = n + 1 /\ n \in Nat /\ r[n + 1] = x
      /\ \A i \in 1 .. n : r[i] = q[i]
  OBVIOUS
<1> HIDE DEF r, n
<1>2. n <= n + 1 /\ n <= n /\ n + 1 \in 1 .. n + 1 /\ (n + 1) - 1 = n
  BY <1>1
<1>3. RunningSum(r)[n] = RunningSum(q)[n]
  BY <1>1, <1>2, SamePrefix, Zenon DEF n
<1>4. RunningSum(r)[n + 1] = (RunningSum(r)[(n + 1) - 1] + r[n + 1]) % Word
  BY <1>1, <1>2, RunningSumDef, Zenon
<1> QED BY <1>1, <1>2, <1>3, <1>4, Zenon DEF Total, r, n

(* Taking f from l slot by slot takes the sum of f from the sum of l.      *)
LEMMA TotalLess ==
  ASSUME NEW l \in Seq(Nat), NEW f \in Seq(Nat), NEW a \in Seq(Nat),
         Len(f) = Len(l), Len(a) = Len(l),
         \A i \in 1 .. Len(l) : a[i] = (l[i] - f[i]) % Word
  PROVE  Total(a) = (Total(l) - Total(f)) % Word
<1> DEFINE n == Len(l)
           A == RunningSum(a)
           F == RunningSum(f)
           L == RunningSum(l)
           T == {i \in 0 .. n : A[i] = (L[i] - F[i]) % Word}
<1>0. n \in Nat
  OBVIOUS
<1>1. /\ A[0] = 0 /\ \A i \in 1 .. n : A[i] = (A[i - 1] + a[i]) % Word
      /\ A \in [0 .. n -> Quantity]
  BY RunningSumDef, Zenon
<1>2. /\ F[0] = 0 /\ \A i \in 1 .. n : F[i] = (F[i - 1] + f[i]) % Word
      /\ F \in [0 .. n -> Quantity]
  BY RunningSumDef, Zenon
<1>3. /\ L[0] = 0 /\ \A i \in 1 .. n : L[i] = (L[i - 1] + l[i]) % Word
      /\ L \in [0 .. n -> Quantity]
  BY RunningSumDef, Zenon
<1> HIDE DEF A, F, L
<1>4. 0 \in T
  <2>1. (0 - 0) % Word = 0
    BY WordAssumption
  <2> QED BY <1>0, <1>1, <1>2, <1>3, <2>1
<1>5. \A i \in 1 .. n : i - 1 \in T => i \in T
  <2> SUFFICES ASSUME NEW i \in 1 .. n, A[i - 1] = (L[i - 1] - F[i - 1]) % Word
               PROVE  A[i] = (L[i] - F[i]) % Word
    OBVIOUS
  <2>1. i - 1 \in 0 .. n /\ l[i] \in Int /\ f[i] \in Int
    BY <1>0, SMTT(30)
  <2>2. L[i - 1] \in Int /\ F[i - 1] \in Int
    <3>1. Quantity \subseteq Int
      BY WordAssumption DEF Quantity
    <3> QED BY <1>2, <1>3, <2>1, <3>1, Zenon
  <2>3. (((L[i - 1] - F[i - 1]) % Word) + ((l[i] - f[i]) % Word)) % Word
          = (((L[i - 1] + l[i]) % Word) - ((F[i - 1] + f[i]) % Word)) % Word
    <3>1. SumOfDifferences(L[i - 1], F[i - 1], l[i], f[i])
      BY <2>1, <2>2, ModDifference, Zenon
    <3> QED BY <3>1, Zenon DEF SumOfDifferences
  <2> QED BY <1>1, <1>2, <1>3, <2>3, Zenon
<1>6. \A i \in 0 .. n : i \in T
  <2> HIDE DEF T
  <2> QED BY <1>0, <1>4, <1>5, UpToInduction, Zenon
<1>7. n \in 0 .. n
  BY <1>0
<1> QED BY <1>6, <1>7, Zenon DEF A, F, L, Total

(* The sum of a list with one element other than 0 is that element.        *)
LEMMA TotalSingle ==
  ASSUME NEW q \in Seq(Quantity), NEW j \in 1 .. Len(q),
         \A i \in 1 .. Len(q) : i # j => q[i] = 0
  PROVE  Total(q) = q[j]
<1> DEFINE n == Len(q)
           Q == RunningSum(q)
           T == {i \in 0 .. n : Q[i] = IF i < j THEN 0 ELSE q[j]}
<1>0. n \in Nat /\ n >= j /\ j \in 1 .. n
  OBVIOUS
<1>1. q \in Seq(Nat) /\ \A i \in 1 .. n : q[i] \in Quantity
  BY WordAssumption DEF Quantity
<1>2. Q[0] = 0 /\ \A i \in 1 .. n : Q[i] = (Q[i - 1] + q[i]) % Word
  BY <1>1, RunningSumDef, Zenon
<1>3. \A x \in Quantity : (x + 0) % Word = x /\ (0 + x) % Word = x /\ 0 \in Quantity
  <2>1. 0 \in Quantity
    BY WordAssumption DEF Quantity
  <2> QED BY <2>1, ModSmall, Zenon
<1> HIDE DEF Q, n
<1>4. 0 \in T
  BY <1>0, <1>2
<1>5. \A i \in 1 .. n : i - 1 \in T => i \in T
  <2> SUFFICES ASSUME NEW i \in 1 .. n, Q[i - 1] = IF i - 1 < j THEN 0 ELSE q[j]
               PROVE  Q[i] = IF i < j THEN 0 ELSE q[j]
    BY <1>0
  <2>1. i < j \/ i = j \/ i > j
    BY <1>0
  <2>2. CASE i < j
    <3>1. i - 1 < j /\ i # j
      BY <1>0, <2>2
    <3>2. Q[i] = (0 + 0) % Word
      BY <1>2, <3>1, Zenon DEF n
    <3> QED BY <1>3, <2>2, <3>2
  <2>3. CASE i = j
    <3>1. i - 1 < j /\ ~(i < j)
      BY <1>0, <2>3
    <3>2. Q[i] = (0 + q[j]) % Word
      BY <1>2, <2>3, <3>1, Zenon
    <3> QED BY <1>0, <1>1, <1>3, <3>1, <3>2, Zenon
  <2>4. CASE i > j
    <3>1. ~(i - 1 < j) /\ ~(i < j) /\ i # j
      BY <1>0, <2>4
    <3>2. Q[i] = (q[j] + 0) % Word
      BY <1>2, <3>1, Zenon DEF n
    <3> QED BY <1>0, <1>1, <1>3, <3>1, <3>2, Zenon
  <2> QED BY <2>1, <2>2, <2>3, <2>4, Zenon
<1>6. \A i \in 0 .. n : i \in T
  <2> HIDE DEF T
  <2> QED BY <1>0, <1>4, <1>5, UpToInduction, Zenon
<1>7. n \in 0 .. n /\ ~(n < j)
  BY <1>0
<1> QED BY <1>6, <1>7, Zenon DEF Q, n, Total

(* Elements are taken off a list: the sum of what stays is that of the     *)
(* list with 0 for the values of those that go.                            *)
LEMMA KeepTotal ==
  ASSUME NEW X, NEW s \in Seq(X), NEW S, NEW v \in [X -> Nat],
         NEW m \in Seq(Nat), Len(m) = Len(s),
         \A i \in 1 .. Len(s) : m[i] = IF s[i] \in S THEN v[s[i]] ELSE 0
  PROVE  Total(Values(v, Keep(s, S))) = Total(m)
<1> DEFINE n == Len(s)
           K == KeptPrefix(s, S)
           M == RunningSum(m)
           T == {i \in 0 .. n : Total(Values(v, K[i])) = M[i]}
<1>0. n \in Nat
  OBVIOUS
<1>1. /\ K \in [0 .. n -> Seq(X)] /\ K[0] = <<>>
      /\ \A i \in 1 .. n : K[i] = IF s[i] \in S THEN Append(K[i - 1], s[i]) ELSE K[i - 1]
  <2>1. Keeps(K, s, S, X)
    BY KeptPrefixKeeps, Zenon
  <2> HIDE DEF K
  <2> QED BY <2>1, Zenon DEF Keeps
<1>2. /\ M[0] = 0 /\ \A i \in 1 .. n : M[i] = (M[i - 1] + m[i]) % Word
      /\ M \in [0 .. n -> Quantity]
  BY RunningSumDef, Zenon
<1>3. \A i \in 1 .. n : s[i] \in X /\ v[s[i]] \in Nat
  OBVIOUS
<1>4. \A i \in 1 .. n : m[i] = IF s[i] \in S THEN v[s[i]] ELSE 0
  OBVIOUS
<1>5. \A x \in Quantity : (x + 0) % Word = x
  BY WordAssumption DEF Quantity
<1>6. \A t \in Seq(X) : Values(v, t) \in Seq(Nat) /\ Len(Values(v, t)) = Len(t)
  BY ValuesAppend, ZenonT(60)
<1> HIDE DEF K, M, n
<1>7. 0 \in T
  <2>1. Values(v, K[0]) \in Seq(Nat) /\ Len(Values(v, K[0])) = 0
    <3>1. <<>> \in Seq(X) /\ Len(<<>>) = 0
      OBVIOUS
    <3> QED BY <1>1, <1>6, <3>1, Zenon
  <2>2. Total(Values(v, K[0])) = 0
    BY <2>1, TotalIsQuantity, Zenon
  <2> QED BY <1>0, <1>2, <2>2
<1>8. \A i \in 1 .. n : i - 1 \in T => i \in T
  <2> SUFFICES ASSUME NEW i \in 1 .. n, Total(Values(v, K[i - 1])) = M[i - 1]
               PROVE  Total(Values(v, K[i])) = M[i]
    BY <1>0
  <2>1. i - 1 \in 0 .. n
    BY <1>0
  <2>2. K[i - 1] \in Seq(X) /\ M[i - 1] \in Quantity
    BY <1>1, <1>2, <2>1, Zenon
  <2>3. CASE s[i] \in S
    <3>1. Values(v, Append(K[i - 1], s[i])) = Append(Values(v, K[i - 1]), v[s[i]])
      <4> DEFINE t == K[i - 1]
      <4>1. t \in Seq(X)
        BY <2>2, Zenon
      <4> HIDE DEF t
      <4>2. \A e \in X : Values(v, Append(t, e)) = Append(Values(v, t), v[e])
        BY <4>1, ValuesAppend, Zenon
      <4> QED BY <1>3, <4>2, Zenon DEF t
    <3>2. Total(Append(Values(v, K[i - 1]), v[s[i]]))
            = (Total(Values(v, K[i - 1])) + v[s[i]]) % Word
      BY <1>3, <1>6, <2>2, TotalAppend, Zenon
    <3> QED BY <1>1, <1>2, <1>4, <2>3, <3>1, <3>2, Zenon
  <2>4. CASE s[i] \notin S
    <3>1. K[i] = K[i - 1] /\ m[i] = 0
      BY <1>1, <1>4, <2>4, Zenon
    <3> QED BY <1>2, <1>5, <2>2, <3>1, Zenon
  <2> QED BY <2>3, <2>4
<1>9. \A i \in 0 .. n : i \in T
  <2> HIDE DEF T
  <2> QED BY <1>0, <1>7, <1>8, UpToInduction, Zenon
<1>10. n \in 0 .. n
  BY <1>0
<1> QED BY <1>9, <1>10, Zenon DEF Keep, K, M, n, Total

-----------------------------------------------------------------------------
(* count_ and total_qty_ of a level, against the leaves_qty v gives each   *)
(* of its orders.                                                          *)
Counted(lv, v) ==
  lv.count = Len(lv.queue) /\ lv.total = Total(Values(v, lv.queue))

LevelOf(X) == [queue: Seq(X), count: Int, total: Quantity]

(* push_back keeps them right.                                             *)
LEMMA PushCounted ==
  ASSUME NEW X, NEW v \in [X -> Nat], NEW lv \in LevelOf(X), Counted(lv, v), NEW e \in X
  PROVE  Counted(PushBack(lv, e, v[e]), v)
<1> DEFINE q == lv.queue
<1>1. q \in Seq(X) /\ v[e] \in Nat
  BY DEF LevelOf
<1>2. /\ PushBack(lv, e, v[e]).queue = Append(q, e)
      /\ PushBack(lv, e, v[e]).count = lv.count + 1
      /\ PushBack(lv, e, v[e]).total = (lv.total + v[e]) % Word
  BY DEF PushBack
<1>3. lv.count = Len(q) /\ lv.total = Total(Values(v, q))
  BY Zenon DEF Counted
<1> HIDE DEF q
<1>4. Values(v, q) \in Seq(Nat) /\ Values(v, Append(q, e)) = Append(Values(v, q), v[e])
  BY <1>1, ValuesAppend, Zenon
<1>5. Total(Append(Values(v, q), v[e])) = (Total(Values(v, q)) + v[e]) % Word
  BY <1>1, <1>4, TotalAppend, Zenon
<1>6. Len(Append(q, e)) = Len(q) + 1
  BY <1>1, AppendFacts
<1> QED BY <1>2, <1>3, <1>4, <1>5, <1>6, Zenon DEF Counted

(* unlink changes them as the list changes.                                *)
LEMMA UnlinkCounted ==
  ASSUME NEW X, NEW v \in [X -> Nat], NEW lv \in LevelOf(X), NEW gone, NEW qty,
         lv.count = Len(lv.queue), NEW m \in Seq(Nat), Len(m) = Len(lv.queue),
         \A i \in 1 .. Len(m) : m[i] = IF lv.queue[i] \in gone THEN 0 ELSE v[lv.queue[i]],
         (lv.total - qty) % Word = Total(m)
  PROVE  Counted(Unlink(lv, gone, qty), v)
<1> DEFINE q == lv.queue
           S == Elems(q) \ gone
<1>1. q \in Seq(X) /\ Len(q) \in Nat
  BY DEF LevelOf
<1>2. /\ Unlink(lv, gone, qty).queue = Keep(q, S)
      /\ Unlink(lv, gone, qty).count = lv.count - (Len(q) - Len(Keep(q, S)))
      /\ Unlink(lv, gone, qty).total = (lv.total - qty) % Word
  BY DEF Unlink
<1>3. \A i \in 1 .. Len(q) : q[i] \in S <=> q[i] \notin gone
  BY Zenon DEF Elems
<1> HIDE DEF q, S
<1>4. \A i \in 1 .. Len(q) : m[i] = IF q[i] \in S THEN v[q[i]] ELSE 0
  BY <1>3, Zenon DEF q
<1>5. Total(Values(v, Keep(q, S))) = Total(m)
  BY <1>1, <1>4, KeepTotal DEF q
<1>6. Len(Keep(q, S)) \in Nat
  BY <1>1, KeepElems
<1>7. lv.count - (Len(q) - Len(Keep(q, S))) = Len(Keep(q, S))
  <2>1. lv.count = Len(q)
    BY Zenon DEF q
  <2> QED BY <1>1, <1>6, <2>1
<1> QED BY <1>2, <1>5, <1>7, Zenon DEF Counted

(* The sweep: f is filled slot by slot, w is left, and the orders in gone  *)
(* are the filled ones.                                                    *)
LEMMA SweepCounted ==
  ASSUME NEW X, NEW v \in [X -> Nat], NEW w \in [X -> Nat], NEW lv \in LevelOf(X),
         Counted(lv, v), NEW f \in Seq(Nat), Len(f) = Len(lv.queue),
         \A i \in 1 .. Len(f) : w[lv.queue[i]] = (v[lv.queue[i]] - f[i]) % Word,
         NEW gone, \A i \in 1 .. Len(f) : lv.queue[i] \in gone => w[lv.queue[i]] = 0
  PROVE  Counted(Unlink(NoteQtyDelta(lv, Total(f)), gone, 0), w)
<1> DEFINE q == lv.queue
           noted == NoteQtyDelta(lv, Total(f))
           m == Values(w, q)
<1>1. q \in Seq(X) /\ Len(q) \in Nat /\ lv.total \in Int
  BY WordAssumption DEF LevelOf, Quantity
<1>2. Total(f) \in Quantity /\ Total(f) \in Int
  BY TotalIsQuantity, WordAssumption DEF Quantity
<1>3. /\ noted.queue = q /\ noted.count = lv.count
      /\ noted.total = (lv.total - Total(f)) % Word
  BY DEF NoteQtyDelta, LevelOf
<1>4. lv.total - Total(f) \in Int
  BY <1>1, <1>2
<1>5. (lv.total - Total(f)) % Word \in Quantity
  BY <1>4, ModSums, Zenon
<1>6. noted \in LevelOf(X)
  BY <1>5, Zenon DEF NoteQtyDelta, LevelOf
<1>7. /\ m \in Seq(Nat) /\ Len(m) = Len(q)
      /\ Values(v, q) \in Seq(Nat) /\ Len(Values(v, q)) = Len(q)
  <2> HIDE DEF q
  <2> QED BY <1>1, ValuesAppend, Zenon
<1>8. \A i \in 1 .. Len(q) : m[i] = w[q[i]] /\ Values(v, q)[i] = v[q[i]]
  BY DEF Values
<1>9. Total(m) = (Total(Values(v, q)) - Total(f)) % Word
  <2>1. \A i \in 1 .. Len(q) : m[i] = (Values(v, q)[i] - f[i]) % Word
    BY <1>8, Zenon
  <2> HIDE DEF m
  <2> QED BY <1>7, <2>1, TotalLess
<1>10. lv.count = Len(q) /\ lv.total = Total(Values(v, q))
  BY Zenon DEF Counted
<1>11. (noted.total - 0) % Word = Total(m)
  BY <1>3, <1>5, <1>9, <1>10, ModSmall, Zenon
<1>12. \A i \in 1 .. Len(q) : m[i] = IF q[i] \in gone THEN 0 ELSE w[q[i]]
  BY <1>8, Zenon
<1> HIDE DEF q, noted, m
<1>13. Counted(Unlink(noted, gone, 0), w)
  BY <1>3, <1>6, <1>7, <1>10, <1>11, <1>12, UnlinkCounted, Zenon
<1> QED BY <1>13, Zenon DEF noted

(* A cancel: the one order id goes, with its leaves_qty.                   *)
LEMMA CancelCounted ==
  ASSUME NEW X, NEW v \in [X -> Quantity], NEW lv \in LevelOf(X), Counted(lv, v),
         NEW j \in 1 .. Len(lv.queue),
         \A i \in 1 .. Len(lv.queue) : lv.queue[i] = lv.queue[j] => i = j
  PROVE  Counted(Unlink(lv, {lv.queue[j]}, v[lv.queue[j]]), v)
<1> DEFINE q == lv.queue
           id == q[j]
           m == [i \in 1 .. Len(q) |-> IF q[i] \in {id} THEN 0 ELSE v[q[i]]]
           u == [i \in 1 .. Len(q) |-> IF q[i] = id THEN v[id] ELSE 0]
<1>1. q \in Seq(X) /\ Len(q) \in Nat /\ id \in X
  BY DEF LevelOf
<1>2. Quantity \subseteq Nat /\ 0 \in Quantity
  BY WordAssumption DEF Quantity
<1>3. v \in [X -> Nat]
  BY <1>2, Zenon
<1>4. \A i \in 1 .. Len(q) : q[i] \in X /\ v[q[i]] \in Quantity
  BY <1>1
<1>5. lv.count = Len(q) /\ lv.total = Total(Values(v, q))
  BY Zenon DEF Counted
<1>6. u \in Seq(Quantity) /\ Len(u) = Len(q) /\ m \in Seq(Nat) /\ Len(m) = Len(q)
  <2> HIDE DEF q, id
  <2>1. \A i \in 1 .. Len(q) : (IF q[i] = id THEN v[id] ELSE 0) \in Quantity
    BY <1>1, <1>2
  <2>2. \A i \in 1 .. Len(q) : (IF q[i] \in {id} THEN 0 ELSE v[q[i]]) \in Nat
    BY <1>2, <1>4, Zenon
  <2> QED BY <1>1, <2>1, <2>2
<1>7. /\ \A i \in 1 .. Len(q) : m[i] = IF q[i] \in {id} THEN 0 ELSE v[q[i]]
      /\ \A i \in 1 .. Len(q) : u[i] = IF q[i] = id THEN v[id] ELSE 0
  BY Zenon
<1>8. Total(u) = v[id]
  <2>1. j \in 1 .. Len(u) /\ u[j] = v[id] /\ \A i \in 1 .. Len(u) : i # j => u[i] = 0
    BY <1>6, <1>7, Zenon
  <2> HIDE DEF u
  <2>2. Total(u) = u[j]
    BY <1>6, <2>1, TotalSingle
  <2> QED BY <2>1, <2>2, Zenon
<1>9. Total(m) = (Total(Values(v, q)) - Total(u)) % Word
  <2> DEFINE l == Values(v, q)
  <2>1. l \in Seq(Nat) /\ Len(l) = Len(q)
    <3> HIDE DEF q
    <3> QED BY <1>1, <1>3, ValuesAppend, ZenonT(60)
  <2>2. \A i \in 1 .. Len(q) : l[i] = v[q[i]]
    BY DEF Values
  <2>3. ASSUME NEW i \in 1 .. Len(q) PROVE m[i] = (l[i] - u[i]) % Word
    <3>2. l[i] = v[q[i]] /\ l[i] \in Quantity
      BY <1>4, <2>2, Zenon
    <3> HIDE DEF l, m, u
    <3>3. CASE q[i] = id
      <4>1. m[i] = 0 /\ u[i] = l[i]
        BY <1>7, <3>2, <3>3, Zenon
      <4> QED BY ModSmall, <3>2, <4>1, Zenon
    <3>4. CASE q[i] # id
      <4>1. m[i] = l[i] /\ u[i] = 0
        BY <1>7, <3>2, <3>4, Zenon
      <4> QED BY ModSmall, <3>2, <4>1, Zenon
    <3> QED BY <3>3, <3>4, Zenon
  <2> HIDE DEF m, u, l, q
  <2>4. u \in Seq(Nat)
    BY <1>6, WordAssumption DEF Quantity
  <2>5. Total(m) = (Total(l) - Total(u)) % Word
    <3>1. Len(u) = Len(l) /\ Len(m) = Len(l)
      BY <1>6, <2>1, Zenon
    <3>2. \A i \in 1 .. Len(l) : m[i] = (l[i] - u[i]) % Word
      BY <2>1, <2>3, Zenon
    <3> QED BY <1>6, <2>1, <2>4, <3>1, <3>2, TotalLess, ZenonT(60)
  <2> QED BY <2>5, Zenon DEF l
<1>10. (lv.total - v[id]) % Word = Total(m)
  BY <1>5, <1>8, <1>9, Zenon
<1> HIDE DEF q, id, m
<1>11. Counted(Unlink(lv, {id}, v[id]), v)
  <2>1. \A i \in 1 .. Len(m) : m[i] = IF lv.queue[i] \in {id} THEN 0 ELSE v[lv.queue[i]]
    BY <1>6, <1>7, Zenon DEF q
  <2>2. lv.count = Len(lv.queue) /\ Len(m) = Len(lv.queue)
    BY <1>5, <1>6, Zenon DEF q
  <2> QED BY <1>3, <1>6, <1>10, <2>1, <2>2, UnlinkCounted, ZenonT(30)
<1> QED BY <1>11, Zenon DEF q, id

-----------------------------------------------------------------------------
(* The leaves_qty of the book's orders, as a function.                     *)
Open(book) == [o \in DOMAIN book |-> book[o].leaves]

(* The caches of every level are right.                                    *)
AllCounted == \A s \in Sides : \A p \in DOMAIN levels[s] : Counted(levels[s][p], Open(orders))

(* Which is what CacheAgrees says of a book that has lost no order.        *)
LEMMA CountedAgrees ==
  ASSUME Sound
  PROVE  /\ AllCounted <=> CacheAgrees
         /\ Open(orders) \in [DOMAIN orders -> Quantity]
         /\ \A s \in Sides : \A p \in DOMAIN levels[s] :
              /\ p \in Prices /\ levels[s][p].queue = Queue(s, p)
              /\ levels[s][p] \in LevelOf(DOMAIN orders)
<1>1. Open(orders) \in [DOMAIN orders -> Quantity]
  BY OrderType DEF Sound, Open
<1>2. ASSUME NEW s \in Sides, NEW p \in DOMAIN levels[s]
      PROVE  /\ p \in Prices /\ levels[s][p].queue = Queue(s, p)
             /\ levels[s][p] \in LevelOf(DOMAIN orders)
             /\ Values(Open(orders), levels[s][p].queue) = Leaves(levels[s][p].queue)
  <2>1. p \in Prices /\ levels[s][p] \in Level
    BY DEF Sound, TypeOK, IsMap
  <2>2. levels[s][p].queue = Queue(s, p)
    BY DEF Queue
  <2>3. \A i \in 1 .. Len(Queue(s, p)) : Queue(s, p)[i] \in DOMAIN orders
    BY <2>1, QueueOrders
  <2>4. levels[s][p] \in LevelOf(DOMAIN orders)
    BY <2>1, <2>2, <2>3 DEF Level, LevelOf
  <2>5. Values(Open(orders), Queue(s, p)) = Leaves(Queue(s, p))
    BY <2>3, Zenon DEF Values, Open, Leaves
  <2> QED BY <2>1, <2>2, <2>4, <2>5, Zenon
<1>3. AllCounted <=> CacheAgrees
  BY <1>2, Zenon DEF Sound, AllCounted, CacheAgrees, Counted
<1> QED BY <1>1, <1>2, <1>3, Zenon

(* The leaves_qty of the orders after a submit that loses none.            *)
LeavesEffect(side, price, qty) ==
  LET fills == Fills(side, price, qty)
      left  == LeftAfter(side, price, qty)[MaxPrice]
  IN  /\ nextId \notin DOMAIN orders
      /\ \A o \in DOMAIN orders : orders[o].side # Opposite(side) =>
           o \in DOMAIN orders' /\ orders'[o].leaves = orders[o].leaves
      /\ \A o \in DOMAIN orders : orders[o].side = Opposite(side) /\ o \notin Gone(side, fills) =>
           o \in DOMAIN orders' /\ orders'[o].leaves = LeavesAfter(side, fills, o)
      /\ left > 0 => nextId \in DOMAIN orders' /\ orders'[nextId].leaves = left

(* What a submit does to the leaves_qty of the orders.                     *)
LEMMA SubmitLeaves ==
  ASSUME Sound, IdsBelow, NEW key \in Keys, NEW side \in Sides, NEW price \in Prices,
         NEW qty \in 0 .. MaxQty, Submit(key, side, price, qty), freed' = {}
  PROVE  LeavesEffect(side, price, qty)
<1> DEFINE fills == Fills(side, price, qty)
           gone == Gone(side, fills)
           left == LeftAfter(side, price, qty)[MaxPrice]
           kept == Remaining(side, fills)
           new == [key |-> key, side |-> side, price |-> price,
                   orig |-> qty, leaves |-> left]
<1>1. nextId \notin DOMAIN orders
  BY NewId
<1>2. qty \in Quantity
  BY MatcherAssumption, WordAssumption DEF Quantity
<1>3. KeptOrders(side, fills, kept)
  BY <1>2, RemainingFacts, SMTT(60)
<1>4. /\ DOMAIN kept = DOMAIN orders \ gone
      /\ \A o \in DOMAIN kept :
           kept[o].leaves = IF orders[o].side = Opposite(side)
                            THEN LeavesAfter(side, fills, o) ELSE orders[o].leaves
  BY <1>3, ZenonT(60) DEF KeptOrders
<1>5. orders' = IF left > 0 THEN With(kept, nextId, new) ELSE kept
  BY Zenon DEF Submit
<1>6. new.leaves = left
  OBVIOUS
<1>7. \A o \in gone : orders[o].side = Opposite(side)
  BY DEF Gone
<1> HIDE DEF fills, gone, left, kept, new
<1>8. /\ \A o \in DOMAIN kept : o \in DOMAIN orders' /\ orders'[o] = kept[o]
      /\ left > 0 => nextId \in DOMAIN orders' /\ orders'[nextId] = new
  BY <1>1, <1>4, <1>5, Zenon DEF With
<1> QED BY <1>1, <1>4, <1>6, <1>7, <1>8, Zenon DEF LeavesEffect, fills, gone, left

(* A level stays right while the leaves_qty of its orders stay the same.   *)
LEMMA StillCounted ==
  ASSUME NEW lv, NEW v, NEW w, Counted(lv, v),
         \A i \in 1 .. Len(lv.queue) : v[lv.queue[i]] = w[lv.queue[i]]
  PROVE  Counted(lv, w)
<1>1. Values(v, lv.queue) = Values(w, lv.queue)
  BY Zenon DEF Values
<1> QED BY <1>1, Zenon DEF Counted

(* The levels a submit matches against: total_qty_ loses what the fills    *)
(* take, and the sweep takes off only orders with nothing left.            *)
LEMMA SweptCounted ==
  ASSUME Sound, TimePriority, IdsBelow, AllCounted, NEW key \in Keys, NEW side \in Sides,
         NEW price \in Prices, NEW qty \in 0 .. MaxQty,
         Submit(key, side, price, qty), freed' = {},
         NEW p \in DOMAIN levels'[Opposite(side)]
  PROVE  Counted(levels'[Opposite(side)][p], Open(orders'))
<1> DEFINE opp == Opposite(side)
           fills == Fills(side, price, qty)
           gone == Gone(side, fills)
           f == fills[Rank(side, p)]
           lv == levels[opp][p]
           q == Queue(opp, p)
           X == DOMAIN orders
           v == Open(orders)
           w == [o \in X |-> IF orders[o].side = opp THEN LeavesAfter(side, fills, o) ELSE 0]
           swept == Unlink(NoteQtyDelta(lv, Total(f)), gone, 0)
<1>1. opp \in Sides /\ qty \in Quantity
  BY MatcherAssumption, WordAssumption DEF Sides, Opposite, Quantity
<1>2. levels'[opp] = SweptSide(side, fills, gone)
  <2>1. SubmitEffect(side, price, qty)
    BY SubmitLevels, ZenonT(60)
  <2> QED BY <2>1, Zenon DEF SubmitEffect
<1>3. p \in DOMAIN levels[opp] /\ levels'[opp][p] = swept
  BY <1>2, Zenon DEF SweptSide
<1>4. /\ p \in Prices /\ lv.queue = q /\ lv \in LevelOf(X) /\ v \in [X -> Quantity]
  BY <1>1, <1>3, CountedAgrees, Zenon
<1>5. f \in Seq(Quantity) /\ Len(f) = Len(q)
  <2>1. Rank(side, p) \in Prices /\ Rank(side, Rank(side, p)) = p
    BY <1>4, RankFacts
  <2> QED BY <1>1, <2>1, FillsType
<1>6. Counted(lv, v)
  BY <1>1, <1>3, Zenon DEF AllCounted
<1>7. \A i \in 1 .. Len(q) : q[i] \in X /\ orders[q[i]].side = opp /\ orders[q[i]].price = p
  BY <1>1, <1>4, QueueOrders
<1>8. q \in Seq(Nat) /\ Ascending(q)
  <2>1. q \in Seq(OrderIds)
    BY <1>1, <1>4, QueueType, Zenon DEF Sound
  <2> QED BY <1>1, <1>4, <2>1, MatcherAssumption, SMTT(60) DEF OrderIds, TimePriority
<1>9. Quantity \subseteq Nat
  BY WordAssumption DEF Quantity
<1>10. \A o \in X : orders[o].side = opp => LeavesAfter(side, fills, o) \in Quantity
  BY <1>1, LeavesAfterType
<1>11. w \in [X -> Nat]
  BY <1>9, <1>10, Zenon
<1>12. ASSUME NEW i \in 1 .. Len(q) PROVE w[q[i]] = (v[q[i]] - f[i]) % Word
  <2>1. q[i] \in X /\ orders[q[i]].side = opp /\ orders[q[i]].price = p
    BY <1>7
  <2>2. w[q[i]] = LeavesAfter(side, fills, q[i]) /\ v[q[i]] = orders[q[i]].leaves
    BY <2>1, Zenon DEF Open
  <2>3. Position(q, q[i]) = i
    BY <1>8, OnePosition
  <2>4. LeavesAfter(side, fills, q[i]) = (orders[q[i]].leaves - f[Position(q, q[i])]) % Word
    BY <2>1, Zenon DEF LeavesAfter
  <2> QED BY <2>2, <2>3, <2>4, Zenon
<1>13. \A i \in 1 .. Len(q) : q[i] \in gone => w[q[i]] = 0
  BY <1>7, Zenon DEF Gone
<1>14. \A i \in 1 .. Len(swept.queue) : w[swept.queue[i]] = Open(orders')[swept.queue[i]]
  <2>1. swept.queue = Keep(q, Elems(q) \ gone)
    BY <1>4, Zenon DEF Unlink, NoteQtyDelta, LevelOf
  <2>2. Elems(Keep(q, Elems(q) \ gone)) \subseteq Elems(q) \ gone
    <3> HIDE DEF q, gone
    <3>1. Elems(Keep(q, Elems(q) \ gone)) = Elems(q) \cap (Elems(q) \ gone)
      BY <1>8, KeepElems
    <3> QED BY <3>1, Zenon
  <2>3. LeavesEffect(side, price, qty)
    BY SubmitLeaves
  <2>4. \A o \in X : orders[o].side = opp /\ o \notin gone =>
           o \in DOMAIN orders' /\ orders'[o].leaves = LeavesAfter(side, fills, o)
    BY <2>3, Zenon DEF LeavesEffect
  <2>5. \A o \in Elems(q) \ gone : w[o] = Open(orders')[o]
    <3> HIDE DEF gone, fills, q, opp
    <3> QED BY <1>7, <2>4, Zenon DEF Elems, Open
  <2> HIDE DEF swept, w, q
  <2> QED BY <2>1, <2>2, <2>5, Zenon DEF Elems
<1> HIDE DEF opp, fills, gone, f, lv, q, X, v, w
<1>15. Counted(swept, w)
  <2>1. v \in [X -> Nat] /\ f \in Seq(Nat)
    BY <1>4, <1>5, <1>9, WordAssumption DEF Quantity
  <2> QED BY <1>4, <1>5, <1>6, <1>11, <1>12, <1>13, <2>1, SweepCounted, Zenon
<1> HIDE DEF swept
<1>16. Counted(swept, Open(orders'))
  <2> DEFINE y == Open(orders')
  <2>1. \A i \in 1 .. Len(swept.queue) : w[swept.queue[i]] = y[swept.queue[i]]
    BY <1>14, Zenon
  <2> HIDE DEF y
  <2>2. Counted(swept, y)
    BY <1>15, <2>1, StillCounted
  <2> QED BY <2>2, Zenon DEF y
<1> QED BY <1>3, <1>16, Zenon DEF opp

(* The levels of the order's own side: one may have one more at its tail.  *)
LEMMA RestCounted ==
  ASSUME Sound, IdsBelow, AllCounted, NEW key \in Keys, NEW side \in Sides,
         NEW price \in Prices, NEW qty \in 0 .. MaxQty,
         Submit(key, side, price, qty), freed' = {},
         NEW p \in DOMAIN levels'[side]
  PROVE  Counted(levels'[side][p], Open(orders'))
<1> DEFINE left == LeftAfter(side, price, qty)[MaxPrice]
           u == Open(orders')
           X == DOMAIN orders'
           base == IF p \in DOMAIN levels[side] THEN levels[side][p] ELSE EmptyLevel
<1>1. /\ levels'[side] = IF left > 0 THEN RestOn(levels[side], price, nextId, left)
                                     ELSE levels[side]
      /\ left \in Quantity
  <2>1. SubmitEffect(side, price, qty)
    BY SubmitLevels, ZenonT(60)
  <2> QED BY <2>1, Zenon DEF SubmitEffect
<1>2. /\ \A o \in DOMAIN orders : orders[o].side = side =>
           o \in X /\ orders'[o].leaves = orders[o].leaves
      /\ left > 0 => nextId \in X /\ orders'[nextId].leaves = left
  <2>1. LeavesEffect(side, price, qty)
    BY SubmitLeaves
  <2>2. side # Opposite(side)
    BY DEF Sides, Opposite
  <2> QED BY <2>1, <2>2, Zenon DEF LeavesEffect
<1>3. u \in [X -> Nat]
  <2>1. TypeOK'
    BY SubmitType
  <2>2. \A o \in X : orders'[o] \in Order
    BY <2>1 DEF TypeOK, IsMap
  <2>3. \A o \in X : orders'[o].leaves \in Nat
    BY <2>2, WordAssumption DEF Order, Quantity
  <2> QED BY <2>3 DEF Open
<1>4. base \in LevelOf(X) /\ Counted(base, u)
  <2>1. CASE p \in DOMAIN levels[side]
    <3> DEFINE lv == levels[side][p]
               q == Queue(side, p)
    <3>1. p \in Prices /\ lv.queue = q /\ lv \in LevelOf(DOMAIN orders)
      BY <2>1, CountedAgrees, Zenon
    <3>2. \A i \in 1 .. Len(q) : q[i] \in DOMAIN orders /\ orders[q[i]].side = side
      BY <3>1, QueueOrders
    <3>3. \A i \in 1 .. Len(q) : q[i] \in X /\ Open(orders)[q[i]] = u[q[i]]
      <4> HIDE DEF q, X
      <4> QED BY <1>2, <3>2, Zenon DEF Open, X
    <3>4. Counted(lv, Open(orders))
      BY <2>1, Zenon DEF AllCounted
    <3> HIDE DEF lv, q, X, u
    <3>5. lv \in LevelOf(X)
      BY <3>1, <3>3 DEF LevelOf
    <3>6. Counted(lv, u)
      BY <3>1, <3>3, <3>4, StillCounted, Zenon
    <3> QED BY <2>1, <3>5, <3>6, Zenon DEF lv
  <2>2. CASE p \notin DOMAIN levels[side]
    <3>1. EmptyLevel.queue = <<>> /\ EmptyLevel.count = 0 /\ EmptyLevel.total = 0
      BY DEF EmptyLevel
    <3>2. EmptyLevel \in LevelOf(X)
      BY WordAssumption DEF EmptyLevel, LevelOf, Quantity
    <3> HIDE DEF X, u
    <3>3. Values(u, <<>>) \in Seq(Nat) /\ Len(Values(u, <<>>)) = 0
      <4>1. <<>> \in Seq(X) /\ Len(<<>>) = 0
        OBVIOUS
      <4> QED BY <1>3, <4>1, ValuesAppend, Zenon
    <3>4. Total(Values(u, <<>>)) = 0 /\ Len(<<>>) = 0
      BY <3>3, TotalIsQuantity
    <3>5. Counted(EmptyLevel, u)
      BY <3>1, <3>4, Zenon DEF Counted
    <3> QED BY <2>2, <3>2, <3>5, Zenon
  <2> QED BY <2>1, <2>2, Zenon
<1>5. CASE left > 0 /\ p = price
  <2>1. levels'[side][p] = PushBack(base, nextId, left)
    BY <1>1, <1>5, Zenon DEF RestOn, With
  <2>2. nextId \in X /\ u[nextId] = left
    BY <1>2, <1>5, Zenon DEF Open
  <2> HIDE DEF base, u, X
  <2>3. Counted(PushBack(base, nextId, u[nextId]), u)
    BY <1>3, <1>4, <2>2, PushCounted
  <2> QED BY <2>1, <2>2, <2>3, Zenon DEF u
<1>6. CASE ~(left > 0 /\ p = price)
  <2>1. p \in DOMAIN levels[side] /\ levels'[side][p] = levels[side][p]
    <3>1. CASE left > 0
      <4>1. p # price /\ levels'[side] = RestOn(levels[side], price, nextId, left)
        BY <1>1, <1>6, <3>1, Zenon
      <4> HIDE DEF left
      <4> QED BY <4>1, SMTT(30) DEF RestOn, With
    <3>2. CASE ~(left > 0)
      BY <1>1, <3>2, Zenon
    <3> QED BY <3>1, <3>2, Zenon
  <2> QED BY <1>4, <2>1, Zenon
<1> QED BY <1>5, <1>6, Zenon

(* A cancel: one level has one order less.                                 *)
LEMMA CancelKeepsCounts ==
  ASSUME Sound, TimePriority, AllCounted, NEW key \in Keys, Cancel(key)
  PROVE  AllCounted'
<1> DEFINE id == index[key]
           side == orders[id].side
           price == orders[id].price
           lv == levels[side][price]
           q == Queue(side, price)
           X == DOMAIN orders
           v == Open(orders)
           u == Open(orders')
<1>1. id \in X /\ CancelEffect(id)
  BY CancelLevels, Zenon
<1>2. side \in Sides /\ price \in Prices
  BY <1>1, OrderType, Zenon DEF Sound
<1>3. /\ price \in DOMAIN levels[side]
      /\ levels'[side] = [levels[side] EXCEPT ![price] = Unlink(@, {id}, orders[id].leaves)]
      /\ \A s \in Sides : s # side => levels'[s] = levels[s]
  BY <1>1, Zenon DEF CancelEffect
<1>4. DOMAIN orders' = X \ {id} /\ \A o \in X \ {id} : orders'[o] = orders[o]
  <2>1. orders' = Without(orders, {id})
    BY Zenon DEF Cancel
  <2> HIDE DEF id
  <2> QED BY <2>1, Zenon DEF Without
<1>5. \A o \in X \ {id} : v[o] = u[o]
  BY <1>4, Zenon DEF Open
<1>6. /\ lv.queue = q /\ lv \in LevelOf(X) /\ v \in [X -> Quantity] /\ Counted(lv, v)
  <2>1. lv.queue = q /\ lv \in LevelOf(X) /\ v \in [X -> Quantity]
    BY <1>2, <1>3, CountedAgrees, Zenon
  <2> QED BY <1>2, <1>3, <2>1, Zenon DEF AllCounted
<1>7. q \in Seq(Nat) /\ Ascending(q)
  <2>1. q \in Seq(OrderIds)
    BY <1>2, QueueType, Zenon DEF Sound
  <2> QED BY <1>2, <2>1, MatcherAssumption, SMTT(60) DEF OrderIds, TimePriority
<1>8. PICK j \in 1 .. Len(q) : q[j] = id
  BY <1>1, <1>2, OrderIsQueued, ZenonT(60)
<1>9. v[id] = orders[id].leaves
  BY <1>1, Zenon DEF Open
<1> HIDE DEF lv, q, X, v, u, side, price, id
<1>10. Counted(Unlink(lv, {id}, orders[id].leaves), v)
  <2>1. \A i \in 1 .. Len(q) : q[i] = q[j] => i = j
    BY <1>7, OnePosition
  <2>2. Counted(Unlink(lv, {lv.queue[j]}, v[lv.queue[j]]), v)
    BY <1>6, <2>1, CancelCounted, Zenon
  <2> QED BY <1>6, <1>8, <1>9, <2>2, Zenon
<1>11. Counted(Unlink(lv, {id}, orders[id].leaves), u)
  <2> DEFINE t == Unlink(lv, {id}, orders[id].leaves)
  <2>1. t.queue = Keep(q, Elems(q) \ {id})
    BY <1>6 DEF Unlink
  <2>2. Elems(Keep(q, Elems(q) \ {id})) = Elems(q) \cap (Elems(q) \ {id})
    BY <1>7, KeepElems
  <2>3. Elems(q) \subseteq X
    <3>1. q \in Seq(X)
      BY <1>6 DEF LevelOf
    <3> QED BY <3>1 DEF Elems
  <2> HIDE DEF t
  <2>4. \A i \in 1 .. Len(t.queue) : v[t.queue[i]] = u[t.queue[i]]
    <3>1. \A i \in 1 .. Len(t.queue) : t.queue[i] \in Elems(t.queue)
      BY Zenon DEF Elems
    <3> QED BY <1>5, <2>1, <2>2, <2>3, <3>1, Zenon
  <2>5. Counted(t, v)
    BY <1>10, Zenon DEF t
  <2>6. Counted(t, u)
    BY <2>4, <2>5, StillCounted
  <2> QED BY <2>6, Zenon DEF t
<1>12. ASSUME NEW s \in Sides, NEW p \in DOMAIN levels[s], ~(s = side /\ p = price)
       PROVE  Counted(levels[s][p], u)
  <2>1. /\ p \in Prices /\ levels[s][p].queue = Queue(s, p) /\ Counted(levels[s][p], v)
    BY <1>12, CountedAgrees, Zenon DEF AllCounted, v
  <2>2. \A i \in 1 .. Len(Queue(s, p)) :
          /\ Queue(s, p)[i] \in X /\ orders[Queue(s, p)[i]].side = s
          /\ orders[Queue(s, p)[i]].price = p
    BY <2>1, QueueOrders DEF X
  <2>3. \A i \in 1 .. Len(Queue(s, p)) : Queue(s, p)[i] # id
    BY <1>12, <2>2, Zenon DEF side, price
  <2>4. \A i \in 1 .. Len(levels[s][p].queue) : v[levels[s][p].queue[i]] = u[levels[s][p].queue[i]]
    BY <1>5, <2>1, <2>2, <2>3, Zenon
  <2> QED BY <2>1, <2>4, StillCounted
<1>13. ASSUME NEW s \in Sides, NEW p \in DOMAIN levels'[s]
       PROVE  Counted(levels'[s][p], u)
  <2>1. CASE s = side /\ p = price
    <3>1. levels'[s][p] = Unlink(lv, {id}, orders[id].leaves)
      BY <1>3, <2>1, Zenon DEF lv
    <3> QED BY <1>11, <3>1, Zenon
  <2>2. CASE ~(s = side /\ p = price)
    <3>1. p \in DOMAIN levels[s] /\ levels'[s][p] = levels[s][p]
      BY <1>3, <2>2, SMTT(30)
    <3> QED BY <1>12, <2>2, <3>1, Zenon
  <2> QED BY <2>1, <2>2, Zenon
<1> QED BY <1>13, Zenon DEF AllCounted, u

(* The caches, an inductive invariant together with the structure.         *)
Caches == Struct /\ (freed = {} => AllCounted)

(* Every step keeps it.                                                    *)
LEMMA CachesStep ==
  ASSUME Caches, [Next]_vars
  PROVE  Caches'
<1>1. Struct'
  BY StructStep, Zenon DEF Caches
<1>2. ASSUME NEW key \in Keys, NEW side \in Sides, NEW price \in Prices,
             NEW qty \in 0 .. MaxQty, Submit(key, side, price, qty), freed' = {}
      PROVE  AllCounted'
  <2>1. Sound /\ TimePriority /\ IdsBelow /\ AllCounted
    BY <1>2, Zenon DEF Submit, Caches, Struct, Sound
  <2>2. \A s \in Sides : s = Opposite(side) \/ s = side
    BY DEF Sides, Opposite
  <2>3. \A p \in DOMAIN levels'[Opposite(side)] :
          Counted(levels'[Opposite(side)][p], Open(orders'))
    BY <1>2, <2>1, SweptCounted
  <2>4. \A p \in DOMAIN levels'[side] : Counted(levels'[side][p], Open(orders'))
    BY <1>2, <2>1, RestCounted
  <2> QED BY <2>2, <2>3, <2>4, Zenon DEF AllCounted
<1>3. ASSUME NEW key \in Keys, Cancel(key) PROVE AllCounted'
  <2>1. Sound /\ TimePriority /\ AllCounted
    BY <1>3, Zenon DEF Cancel, Caches, Struct, Sound
  <2> QED BY <1>3, <2>1, CancelKeepsCounts, Zenon
<1>4. ASSUME UNCHANGED <<levels, orders, freed>>, freed' = {} PROVE AllCounted'
  BY <1>4 DEF Caches, AllCounted
<1> QED BY <1>1, <1>2, <1>3, <1>4 DEF Next, CancelUnknown, SetAlgo, vars, Caches

(* Whatever is submitted, filled, swept, cancelled or wraps: until an      *)
(* order is lost, count_ and total_qty_ of every level are what a walk of  *)
(* its list would compute.                                                 *)
THEOREM CachesExact == Spec => []CacheAgrees
<1>1. Init => Caches
  <2> SUFFICES ASSUME Init PROVE Caches
    OBVIOUS
  <2>1. \A s \in Sides : DOMAIN levels[s] = {}
    BY DEF Init
  <2> QED BY <2>1, StructInit, Zenon DEF Caches, AllCounted
<1>2. Caches /\ [Next]_vars => Caches'
  BY CachesStep
<1>3. Caches => CacheAgrees
  <2> SUFFICES ASSUME Caches PROVE CacheAgrees
    OBVIOUS
  <2>1. CASE freed = {}
    <3>1. Sound /\ AllCounted
      BY <2>1, Zenon DEF Caches, Struct, Sound
    <3> QED BY <3>1, CountedAgrees, Zenon
  <2>2. CASE freed # {}
    BY <2>2, Zenon DEF CacheAgrees
  <2> QED BY <2>1, <2>2
<1> QED BY <1>1, <1>2, <1>3, PTL DEF Spec

-----------------------------------------------------------------------------
(* What pro-rata loses by rounding down.                                   *)

(* A floor loses less than a unit, as long as the product does not wrap.   *)
LEMMA FloorLoses ==
  ASSUME NEW t \in Nat, NEW x \in Nat, NEW total \in Nat, 0 < total, t * x < Word
  PROVE  /\ ((t * x) % Word) \div total = (t * x) \div total
         /\ t * x <= total * ((t * x) \div total) + (total - 1)
<1>1. t * x \in Nat
  OBVIOUS
<1>2. (t * x) % Word = t * x
  BY <1>1, WordAssumption, WrapIdentity
<1>3. ASSUME NEW y \in Nat PROVE y <= total * (y \div total) + (total - 1)
  OBVIOUS
<1> QED BY <1>1, <1>2, <1>3

(* The floors of a level lose less than one unit each.                     *)
LEMMA FloorsLose ==
  ASSUME NEW q \in Seq(Nat), NEW s \in Seq(Nat), NEW t \in Nat, NEW w \in Nat,
         Len(s) = Len(q), \A i \in 1 .. Len(q) : t * q[i] <= (w + 1) * s[i] + w
  PROVE  t * Sum(q) <= (w + 1) * Sum(s) + Len(q) * w
<1> DEFINE n == Len(q)
           P == PartialSums(q)
           A == PartialSums(s)
           T == {i \in 0 .. n : t * P[i] <= (w + 1) * A[i] + i * w}
<1>0. n \in Nat
  OBVIOUS
<1>1. P \in [0 .. n -> Nat] /\ P[0] = 0 /\ \A i \in 1 .. n : P[i] = P[i - 1] + q[i]
  BY PartialSumsDef, Zenon
<1>2. A \in [0 .. n -> Nat] /\ A[0] = 0 /\ \A i \in 1 .. n : A[i] = A[i - 1] + s[i]
  BY PartialSumsDef
<1>3. \A i \in 1 .. n : /\ q[i] \in Nat /\ s[i] \in Nat
                        /\ t * q[i] <= (w + 1) * s[i] + w
  BY SMTT(30)
<1>4. Sum(q) = P[n] /\ Sum(s) = A[n]
  BY DEF Sum
<1> HIDE DEF n, P, A
<1>5. 0 \in T
  BY <1>0, <1>1, <1>2
<1>6. \A i \in 1 .. n : i - 1 \in T => i \in T
  <2> SUFFICES ASSUME NEW i \in 1 .. n, t * P[i - 1] <= (w + 1) * A[i - 1] + (i - 1) * w
               PROVE  t * P[i] <= (w + 1) * A[i] + i * w
    BY <1>0
  <2>1. /\ i \in Nat /\ i - 1 \in Nat /\ P[i - 1] \in Nat /\ A[i - 1] \in Nat
        /\ q[i] \in Nat /\ s[i] \in Nat
    <3>1. i \in Nat /\ i - 1 \in 0 .. n
      BY <1>0
    <3>2. P[i - 1] \in Nat
      BY <1>1, <3>1, Zenon
    <3>3. A[i - 1] \in Nat
      BY <1>2, <3>1, Zenon
    <3>4. i - 1 \in Nat
      OBVIOUS
    <3> QED BY <1>3, <3>1, <3>2, <3>3, <3>4, Zenon
  <2>2. P[i] = P[i - 1] + q[i] /\ A[i] = A[i - 1] + s[i]
    BY <1>1, <1>2
  <2>10. w + 1 \in Nat
    OBVIOUS
  <2>3. t * P[i] = t * P[i - 1] + t * q[i]
    <3>1. t * (P[i - 1] + q[i]) = t * P[i - 1] + t * q[i]
      BY <2>1, Distributes, ZenonT(60)
    <3> QED BY <2>2, <3>1, Zenon
  <2>4. (w + 1) * A[i] = (w + 1) * A[i - 1] + (w + 1) * s[i]
    <3>1. (w + 1) * (A[i - 1] + s[i]) = (w + 1) * A[i - 1] + (w + 1) * s[i]
      BY <2>1, <2>10, Distributes, ZenonT(60)
    <3> QED BY <2>2, <3>1, Zenon
  <2>5. i * w = (i - 1) * w + w
    BY <2>1
  <2>6. t * q[i] <= (w + 1) * s[i] + w
    BY <1>3
  <2>9. /\ t * P[i - 1] \in Nat /\ t * q[i] \in Nat /\ (w + 1) * A[i - 1] \in Nat
        /\ (w + 1) * s[i] \in Nat /\ (i - 1) * w \in Nat
    BY <2>1, <2>10, Products, Zenon
  <2>11. t * P[i - 1] + t * q[i]
           <= ((w + 1) * A[i - 1] + (w + 1) * s[i]) + ((i - 1) * w + w)
    BY <2>6, <2>9, BoundsAdd, Zenon
  <2> QED BY <2>3, <2>4, <2>5, <2>11, Zenon
<1>7. \A i \in 0 .. n : i \in T
  <2> HIDE DEF T
  <2> QED BY <1>0, <1>5, <1>6, UpToInduction, Zenon
<1>8. n \in 0 .. n
  BY <1>0
<1>9. t * P[n] <= (w + 1) * A[n] + n * w
  BY <1>7, <1>8, Zenon
<1> QED BY <1>4, <1>9, Zenon DEF n

(* No product to_fill * orig_leaves of the level wraps.                    *)
ProductsOf(q, amount) ==
  \A i \in 1 .. Len(q) : MinOf(amount, Sum(q)) * q[i] < Word

(* Then there are fewer units to hand out again than there are orders.     *)
LEMMA ResidualSmall ==
  ASSUME NEW q \in Seq(Nat), NEW amount \in Quantity, Sum(q) < Word, 0 < Sum(q),
         ProductsOf(q, amount)
  PROVE  Residual(q, amount) < Len(q)
<1> DEFINE n == Len(q)
           total == Sum(q)
           t == MinOf(amount, total)
           s == FloorShare(q, t, total)
           w == total - 1
<1>0. n \in Nat /\ total \in Nat /\ 0 < total /\ amount \in Nat /\ Total(q) = total
  BY PartialSumsBound, TotalExact DEF Quantity
<1>1. t \in Nat /\ t <= total /\ t < Word /\ w \in Nat /\ w + 1 = total
  <2> HIDE DEF total
  <2> QED BY <1>0, WordAssumption DEF MinOf, total
<1>2. \A i \in 1 .. n : t * q[i] < Word
  BY Zenon DEF ProductsOf
<1>3. s \in Seq(Nat) /\ Len(s) = n /\ Sum(s) \in 0 .. t
  <2> HIDE DEF t
  <2> QED BY <1>0, <1>1, FloorShareSum
<1>4. \A i \in 1 .. n : t * q[i] <= (w + 1) * s[i] + w
  <2> SUFFICES ASSUME NEW i \in 1 .. n PROVE t * q[i] <= (w + 1) * s[i] + w
    OBVIOUS
  <2>1. q[i] \in Nat /\ t * q[i] < Word
    BY <1>2
  <2>2. s[i] = ((t * q[i]) % Word) \div total
    BY DEF FloorShare
  <2> HIDE DEF s, t, total
  <2>3. s[i] = (t * q[i]) \div total /\ t * q[i] <= total * s[i] + (total - 1)
    <3>1. /\ ((t * q[i]) % Word) \div total = (t * q[i]) \div total
          /\ t * q[i] <= total * ((t * q[i]) \div total) + (total - 1)
      <4>1. t \in Nat /\ total \in Nat /\ 0 < total
        BY <1>0, <1>1, Zenon
      <4> QED BY <4>1, <2>1, FloorLoses, Zenon
    <3> QED BY <2>2, <3>1, Zenon
  <2>4. total * s[i] + (total - 1) = (w + 1) * s[i] + w
    BY <1>1, Zenon
  <2> QED BY <2>3, <2>4, Zenon
<1>5. Sum(s) \in Nat /\ Sum(s) <= t /\ Sum(s) < Word
  <2> HIDE DEF s, t
  <2> QED BY <1>1, <1>3, WordAssumption
<1>6. Residual(q, amount) = t - Sum(s)
  <2>1. Total(s) = Sum(s)
    <3> HIDE DEF s
    <3> QED BY <1>3, <1>5, TotalExact
  <2>2. Residual(q, amount) = (t - Sum(s)) % Word
    BY <1>0, <2>1, Zenon DEF Residual
  <2>3. t - Sum(s) \in Nat /\ t - Sum(s) < Word
    <3> HIDE DEF s, t
    <3> QED BY <1>1, <1>5, WordAssumption
  <2> QED BY <2>2, <2>3, WordAssumption, WrapIdentity
<1> HIDE DEF s, t, w
<1>7. t * total <= (w + 1) * Sum(s) + n * w
  BY <1>1, <1>3, <1>4, FloorsLose, Zenon
<1> HIDE DEF n, total
<1>8. n > 0
  <2> SUFFICES ASSUME n = 0 PROVE FALSE
    BY <1>0
  <2>1. total = PartialSums(q)[0] /\ PartialSums(q)[0] = 0
    BY PartialSumsDef, Zenon DEF Sum, total, n
  <2> QED BY <1>0, <2>1
<1> DEFINE r == t - Sum(s)
<1>9. r \in Nat /\ t = r + Sum(s)
  BY <1>1, <1>5
<1>10. t * total = r * total + Sum(s) * total /\ (w + 1) * Sum(s) = Sum(s) * total
  <2>1. t * total = total * t /\ r * total = total * r /\ Sum(s) * total = total * Sum(s)
    BY <1>0, <1>1, <1>5, <1>9, Products
  <2>2. total * (r + Sum(s)) = total * r + total * Sum(s)
    BY <1>0, <1>5, <1>9, Products
  <2> QED BY <1>1, <1>9, <2>1, <2>2, Zenon
<1>11. r * total \in Nat /\ Sum(s) * total \in Nat /\ n * w \in Nat
  BY <1>0, <1>1, <1>5, <1>9
<1>12. r * total <= n * w
  BY <1>7, <1>10, <1>11
<1>13. n * total = n * w + n
  BY <1>0, <1>1
<1>14. ASSUME n <= r PROVE FALSE
  <2>1. n * total <= r * total
    BY <1>0, <1>9, <1>14, Products, Zenon
  <2> QED BY <1>0, <1>8, <1>11, <1>12, <1>13, <2>1
<1> QED BY <1>0, <1>6, <1>9, <1>14 DEF n

(* No order gets less than its floor share, and one that gets more comes   *)
(* after orders that are completely filled.                                *)
LEMMA ProRataFair ==
  ASSUME NEW q \in Seq(Nat), NEW amount \in Quantity, Sum(q) < Word, 0 < Sum(q),
         ProductsOf(q, amount)
  PROVE  LET f == ProRata(q, amount)
             share(i) == (MinOf(amount, Sum(q)) * q[i]) \div Sum(q)
         IN  /\ \A i \in 1 .. Len(q) : f[i] >= share(i)
             /\ \A i, j \in 1 .. Len(q) : i < j /\ f[j] > share(j) => f[i] = q[i]
<1> DEFINE n == Len(q)
           total == Sum(q)
           m == MinOf(amount, total)
           f == ProRata(q, amount)
           share(i) == (m * q[i]) \div total
<1>0. n \in Nat /\ total \in Nat /\ 0 < total /\ amount \in Nat /\ Total(q) = total
  BY PartialSumsBound, TotalExact DEF Quantity
<1>1. m \in Nat /\ \A i \in 1 .. n : q[i] \in Nat /\ m * q[i] < Word
  <2>1. m \in Nat
    <3> HIDE DEF total
    <3> QED BY <1>0 DEF MinOf
  <2> QED BY <2>1 DEF ProductsOf
<1>2. CASE amount = 0
  <2>1. m = 0
    <3> HIDE DEF total
    <3> QED BY <1>0, <1>2 DEF MinOf
  <2>2. \A i \in 1 .. n : share(i) = 0
    <3> HIDE DEF total, m
    <3> QED BY <1>0, <1>1, <2>1
  <2>3. f = [i \in 1 .. n |-> 0]
    BY <1>2 DEF ProRata
  <2>4. \A i \in 1 .. n : f[i] = 0
    BY <2>3
  <2> HIDE DEF f, share
  <2>5. \A i \in 1 .. n : f[i] >= share(i) /\ ~(f[i] > share(i))
    BY <2>2, <2>4
  <2> QED BY <2>5, Zenon DEF f, share
<1>3. CASE amount # 0
  <2>1. PICK t, s, cap, R : Slots(q, amount, t, s, cap, R, f)
    BY <1>0, <1>3, ProRataSlots
  <2> DEFINE L == LeftOver(cap, R)
             k == Takes(cap, R)
  <2>2. /\ t = m /\ cap \in Seq(Nat) /\ Len(cap) = n /\ R \in Nat
        /\ f = [i \in 1 .. n |-> s[i] + k[i]]
        /\ \A i \in 1 .. n : /\ s[i] = ((t * q[i]) % Word) \div total
                             /\ s[i] \in 0 .. q[i] /\ cap[i] = q[i] - s[i]
    BY <2>1, Zenon DEF Slots
  <2>3. \A i \in 1 .. n : k[i] \in 0 .. cap[i] /\ k[i] = L[i - 1] - L[i]
    <3>1. \A i \in 1 .. n : k[i] \in 0 .. cap[i]
      BY <2>2, TakesAddUp
    <3>2. k = [i \in 1 .. n |-> L[i - 1] - L[i]]
      BY <2>2, Zenon DEF Takes
    <3> HIDE DEF L, k
    <3> QED BY <3>1, <3>2
  <2> HIDE DEF L, k, f, share, m, total, n
  <2>4. ASSUME NEW i \in 1 .. n
        PROVE  /\ f[i] = s[i] + k[i] /\ s[i] = share(i) /\ share(i) \in Nat
               /\ k[i] \in Nat /\ q[i] \in Nat /\ cap[i] = q[i] - s[i] /\ s[i] <= q[i]
    <3>1. q[i] \in Nat /\ m * q[i] < Word
      BY <1>1
    <3>2. s[i] = (m * q[i]) \div total
      <4>1. ((m * q[i]) % Word) \div total = (m * q[i]) \div total
        BY <1>0, <1>1, <3>1, FloorLoses, ZenonT(60)
      <4> QED BY <2>2, <4>1, Zenon
    <3>3. s[i] = share(i)
      BY <3>2, Zenon DEF share
    <3>4. s[i] \in 0 .. q[i] /\ cap[i] = q[i] - s[i] /\ k[i] \in 0 .. cap[i]
      BY <2>2, <2>3
    <3>5. f[i] = s[i] + k[i]
      BY <2>2
    <3> QED BY <3>1, <3>3, <3>4, <3>5
  <2>5. \A i \in 1 .. n : f[i] >= share(i)
    BY <2>4
  <2>6. ASSUME NEW i \in 1 .. n, NEW j \in 1 .. n, i < j, f[j] > share(j)
        PROVE  f[i] = q[i]
    <3>1. k[j] > 0
      BY <2>4, <2>6
    <3>2. L[j - 1] - L[j] > 0
      BY <2>3, <3>1, Zenon
    <3>3. i \in 1 .. Len(cap) /\ j \in 1 .. Len(cap)
      BY <2>2, Zenon
    <3>4. L[i - 1] - L[i] = cap[i]
      BY <2>2, <2>6, <3>2, <3>3, FirstComeFirst, Zenon DEF L
    <3>5. k[i] = cap[i]
      BY <2>3, <3>4, Zenon
    <3> QED BY <2>4, <3>5
  <2> QED BY <2>5, <2>6, Zenon DEF f, share, m, total, n
<1> QED BY <1>2, <1>3, Zenon

-----------------------------------------------------------------------------
(* One call on a level, module LevelFill.  The invariant only says that    *)
(* given, once there, is the result of the algorithm on the level; the     *)
(* substance is in AllocationLemmas and in the lemmas above.               *)

(* Before the call there are no fills; after it, the algorithm's.          *)
CallInv ==
  /\ queue \in Seq(Quantity)
  /\ available \in Quantity
  /\ allocator \in {"ProRata", "Fifo"}
  /\ given \in {<<>>, IF allocator = "ProRata" THEN ProRata(queue, available)
                      ELSE Fifo(queue, available)}

(* CallInv holds of every behaviour of LevelFill.                          *)
LEMMA CallInvariant == CallSpec => []CallInv
<1>1. CallInit => CallInv
  BY QueuesAssumption DEF CallInit, CallInv
<1>2. CallInv /\ [Fill]_callVars => CallInv'
  <2> SUFFICES ASSUME CallInv, [Fill]_callVars PROVE CallInv'
    OBVIOUS
  <2>1. CASE FillProRata
    BY <2>1, Zenon DEF FillProRata, CallInv
  <2>2. CASE FillFifo
    BY <2>2, Zenon DEF FillFifo, CallInv
  <2>3. CASE UNCHANGED callVars
    BY <2>3 DEF callVars, CallInv
  <2> QED BY <2>1, <2>2, <2>3 DEF Fill
<1> QED BY <1>1, <1>2, PTL DEF CallSpec

(* fill_level_prorata and fill_level_fifo hand out exactly min(aggressor,  *)
(* level total) and never more than an order has, for every level whose    *)
(* total fits in a Quantity, whether or not the products wrap.             *)
THEOREM FillsConserved == CallSpec => []FillsConserve
<1>1. CallInv => FillsConserve
  <2> SUFFICES ASSUME CallInv, Filled, TotalFits
               PROVE  /\ Sum(given) = MinOf(available, Sum(queue))
                      /\ \A i \in 1 .. Len(queue) : given[i] \in 0 .. queue[i]
    BY Zenon DEF FillsConserve
  <2>1. queue \in Seq(Nat) /\ available \in Quantity /\ available \in Nat
    BY WordAssumption DEF CallInv, Quantity
  <2>2. ExactSplit(queue, available, given)
    <3>1. CASE allocator = "ProRata"
      <4>1. given = ProRata(queue, available)
        BY <3>1 DEF CallInv, Filled
      <4> QED BY <2>1, <4>1, ProRataSplits DEF TotalFits
    <3>2. CASE allocator = "Fifo"
      <4>1. given = Fifo(queue, available)
        BY <3>2 DEF CallInv, Filled
      <4> QED BY <2>1, <4>1, FifoSplits
    <3> QED BY <3>1, <3>2 DEF CallInv
  <2> QED BY <2>2 DEF ExactSplit
<1> QED BY <1>1, CallInvariant, PTL

(* In FIFO mode an order gets something only when every older order of the *)
(* level is completely filled.                                             *)
THEOREM FifoStrict == CallSpec => []FifoIsStrict
<1>1. CallInv => FifoIsStrict
  <2> SUFFICES ASSUME CallInv, Filled, allocator = "Fifo",
                      NEW i \in 1 .. Len(queue), NEW j \in 1 .. Len(queue),
                      i < j, given[j] > 0
               PROVE  given[i] = queue[i]
    BY DEF FifoIsStrict
  <2> DEFINE L == LeftOver(queue, available)
             n == Len(queue)
  <2>1. queue \in Seq(Nat) /\ available \in Nat /\ n \in Nat
    BY WordAssumption DEF CallInv, Quantity
  <2>2. given[i] = L[i - 1] - L[i] /\ given[j] = L[j - 1] - L[j]
    BY <2>1, SMTT(60) DEF CallInv, Filled, Fifo
  <2>3. L[i - 1] - L[i] = queue[i]
    <3>1. L[j - 1] - L[j] > 0
      BY <2>2, Zenon
    <3> QED BY <2>1, <3>1, FirstComeFirst, Zenon
  <2> QED BY <2>2, <2>3, Zenon
<1> QED BY <1>1, CallInvariant, PTL

(* Where the call comes to hand out quantity pro rata and nothing wraps.   *)
LEMMA AtProRata ==
  ASSUME CallInv, Filled, allocator = "ProRata", ProductsFit
  PROVE  /\ queue \in Seq(Nat) /\ available \in Quantity
         /\ given = ProRata(queue, available) /\ ProductsOf(queue, available)
<1>1. queue \in Seq(Nat) /\ available \in Quantity
  BY WordAssumption DEF CallInv, Quantity
<1>2. given = ProRata(queue, available)
  BY DEF CallInv, Filled
<1> QED BY <1>1, <1>2, Zenon DEF ProductsFit, ProductsOf

(* In pro-rata mode nobody gets less than the floor of the exact share,    *)
(* and the units above it go to the oldest orders first.                   *)
THEOREM ProRataFairness == CallSpec => []ProRataIsFair
<1>1. CallInv => ProRataIsFair
  <2> SUFFICES ASSUME CallInv, Filled, allocator = "ProRata", TotalFits, ProductsFit, Sum(queue) > 0
               PROVE  LET share(i) == (MinOf(available, Sum(queue)) * queue[i]) \div Sum(queue)
                      IN  /\ \A i \in 1 .. Len(queue) : given[i] >= share(i)
                          /\ \A i, j \in 1 .. Len(queue) :
                               i < j /\ given[j] > share(j) => given[i] = queue[i]
    BY Zenon DEF ProRataIsFair
  <2>1. /\ queue \in Seq(Nat) /\ available \in Quantity
        /\ given = ProRata(queue, available) /\ ProductsOf(queue, available)
    BY AtProRata, Zenon
  <2>2. Sum(queue) < Word /\ 0 < Sum(queue)
    BY <2>1, PartialSumsBound DEF TotalFits
  <2> QED BY <2>1, <2>2, ProRataFair, Zenon
<1> QED BY <1>1, CallInvariant, PTL

(* "The residual (always < n, because each floor loses at most 1 unit and  *)
(* there are n floors)": so it is, for every level, while nothing wraps.   *)
THEOREM ResidualIsSmall == CallSpec => []ResidualBelowCountIfExact
<1>1. CallInv => ResidualBelowCountIfExact
  <2> SUFFICES ASSUME CallInv, Filled, allocator = "ProRata", TotalFits, ProductsFit, Sum(queue) > 0
               PROVE  Residual(queue, available) < Len(queue)
    BY Zenon DEF ResidualBelowCountIfExact
  <2>1. queue \in Seq(Nat) /\ available \in Quantity /\ ProductsOf(queue, available)
    BY AtProRata, Zenon
  <2>2. Sum(queue) < Word /\ 0 < Sum(queue)
    BY <2>1, PartialSumsBound DEF TotalFits
  <2> QED BY <2>1, <2>2, ResidualSmall, Zenon
<1> QED BY <1>1, CallInvariant, PTL

=============================================================================
