----------------------------- MODULE ListLemmas -----------------------------
(***************************************************************************)
(* Induction and recursion on the naturals, and what follows of the lists  *)
(* of module Lists: facts that the proofs of several components rest on.   *)
(* The library's induction theorems have an operator as a parameter; these *)
(* have a set in its place.                                                *)
(***************************************************************************)
EXTENDS Lists, WellFoundedInduction, TLAPS

-----------------------------------------------------------------------------
(* Induction and recursion on an initial segment of the naturals.          *)

(* A set of naturals with 0 that is closed under successor is Nat.         *)
LEMMA NatSetInduction ==
  ASSUME NEW T, T \subseteq Nat, 0 \in T, \A n \in T : n + 1 \in T
  PROVE  T = Nat
<1> DEFINE C == Nat \ T
<1> SUFFICES ASSUME C # {} PROVE FALSE
  BY Zenon
<1>1. PICK x \in C : \A y \in C : ~(<<y, x>> \in OpToRel(<, Nat))
  <2>1. C \subseteq Nat
    OBVIOUS
  <2> HIDE DEF C
  <2> QED BY <2>1, WFMin, NatLessThanWellFounded
<1>2. x \in Nat /\ x # 0
  OBVIOUS
<1>3. x - 1 \in Nat /\ x - 1 \in C
  <2>1. x - 1 \in Nat /\ (x - 1) + 1 = x
    BY <1>2
  <2> QED BY <2>1
<1>4. <<x - 1, x>> \in OpToRel(<, Nat)
  BY <1>2, <1>3 DEF OpToRel
<1> QED BY <1>1, <1>3, <1>4

(* The same up to a bound n.                                               *)
LEMMA UpToInduction ==
  ASSUME NEW n \in Nat, NEW T, 0 \in T,
         \A i \in 1 .. n : i - 1 \in T => i \in T
  PROVE  \A i \in 0 .. n : i \in T
<1> DEFINE U == {i \in Nat : i <= n => i \in T}
<1>1. U \subseteq Nat /\ 0 \in U
  OBVIOUS
<1>2. ASSUME NEW i \in U PROVE i + 1 \in U
  <2> SUFFICES ASSUME i + 1 <= n PROVE i + 1 \in T
    OBVIOUS
  <2>1. i + 1 \in 1 .. n /\ (i + 1) - 1 = i /\ i \in T
    OBVIOUS
  <2> QED BY <2>1
<1>3. U = Nat
  <2> HIDE DEF U
  <2> QED BY <1>1, <1>2, NatSetInduction, Zenon
<1> QED BY <1>3

(* f lists the values of step iterated from a: f[0] = a, then n steps.     *)
Iterates(f, n, S, a, step) ==
  /\ f \in [0 .. n -> S]
  /\ f[0] = a
  /\ \A i \in 1 .. n : f[i] = step[i][f[i - 1]]

(* A step function on S can be iterated n times.                           *)
LEMMA Iteration ==
  ASSUME NEW n \in Nat, NEW S, NEW a \in S, NEW step \in [1 .. n -> [S -> S]]
  PROVE  \E f : Iterates(f, n, S, a, step)
<1> DEFINE T == {k \in 0 .. n : \E f : Iterates(f, k, S, a, step)}
<1>1. 0 \in T
  <2>1. Iterates([i \in 0 .. 0 |-> a], 0, S, a, step)
    BY DEF Iterates
  <2> QED BY <2>1
<1>2. \A k \in 1 .. n : k - 1 \in T => k \in T
  <2> SUFFICES ASSUME NEW k \in 1 .. n, k - 1 \in T PROVE k \in T
    OBVIOUS
  <2>1. PICK f : Iterates(f, k - 1, S, a, step)
    OBVIOUS
  <2> DEFINE g == [i \in 0 .. k |-> IF i = k THEN step[k][f[k - 1]] ELSE f[i]]
  <2>2. step[k][f[k - 1]] \in S
    BY <2>1 DEF Iterates
  <2>3. g \in [0 .. k -> S] /\ g[0] = a
    BY <2>1, <2>2 DEF Iterates
  <2>4. \A i \in 1 .. k : g[i] = step[i][g[i - 1]]
    BY <2>1 DEF Iterates
  <2>5. Iterates(g, k, S, a, step)
    BY <2>3, <2>4, Zenon DEF Iterates
  <2> HIDE DEF g
  <2> QED BY <2>5
<1>3. \A k \in 0 .. n : k \in T
  <2> HIDE DEF T
  <2> QED BY <1>1, <1>2, UpToInduction, Zenon
<1> QED BY <1>3

(* g starts at a and follows step wherever its values are in S.            *)
Follows(g, n, S, a, step) ==
  /\ g = [i \in 0 .. n |-> g[i]]
  /\ g[0] = a
  /\ \A i \in 1 .. n : g[i - 1] \in S => g[i] = step[i][g[i - 1]]

(* Such a function is the iteration.                                       *)
LEMMA FollowsIterates ==
  ASSUME NEW n \in Nat, NEW S, NEW a \in S, NEW step \in [1 .. n -> [S -> S]],
         NEW g, Follows(g, n, S, a, step)
  PROVE  Iterates(g, n, S, a, step)
<1> DEFINE T == {i \in 0 .. n : g[i] \in S}
<1>1. 0 \in T
  BY DEF Follows
<1>2. \A i \in 1 .. n : i - 1 \in T => i \in T
  <2> SUFFICES ASSUME NEW i \in 1 .. n, g[i - 1] \in S PROVE g[i] \in S
    OBVIOUS
  <2>1. g[i] = step[i][g[i - 1]]
    BY Zenon DEF Follows
  <2> QED BY <2>1
<1>3. \A i \in 0 .. n : i \in T
  <2> HIDE DEF T
  <2> QED BY <1>1, <1>2, UpToInduction, Zenon
<1>4. \A i \in 1 .. n : i - 1 \in 0 .. n
  OBVIOUS
<1> QED BY <1>3, <1>4, Zenon DEF Iterates, Follows

-----------------------------------------------------------------------------
(* Lists with elements removed.                                            *)

(* The elements of a list with one more at the tail.                       *)
LEMMA ElemsAppend ==
  ASSUME NEW X, NEW s \in Seq(X), NEW e \in X
  PROVE  Elems(Append(s, e)) = Elems(s) \cup {e}
  BY SMTT(30) DEF Elems

(* A list with one more at the tail, element by element.                   *)
LEMMA AppendFacts ==
  ASSUME NEW X, NEW s \in Seq(X), NEW e \in X
  PROVE  /\ Len(Append(s, e)) = Len(s) + 1 /\ Len(s) \in Nat
         /\ Append(s, e)[Len(s) + 1] = e
         /\ \A i \in 1 .. Len(s) : Append(s, e)[i] = s[i]
  OBVIOUS

(* KeptPrefix: what unlinking leaves of the prefixes of a list.            *)
LEMMA KeptPrefixDef ==
  ASSUME NEW X, NEW s \in Seq(X), NEW S
  PROVE  /\ KeptPrefix(s, S) \in [0 .. Len(s) -> Seq(X)]
         /\ KeptPrefix(s, S)[0] = <<>>
         /\ \A i \in 1 .. Len(s) :
              KeptPrefix(s, S)[i] = IF s[i] \in S
                                    THEN Append(KeptPrefix(s, S)[i - 1], s[i])
                                    ELSE KeptPrefix(s, S)[i - 1]
<1> DEFINE n == Len(s)
           Z == Seq(X)
           Step(i, x) == IF s[i] \in S THEN Append(x, s[i]) ELSE x
           step == [i \in 1 .. n |-> [x \in Z |-> Step(i, x)]]
           D(f) == f = [i \in 0 .. n |-> IF i = 0 THEN <<>> ELSE Step(i, f[i - 1])]
<1>0. n \in Nat
  OBVIOUS
<1>1. <<>> \in Z /\ step \in [1 .. n -> [Z -> Z]]
  <2>1. ASSUME NEW i \in 1 .. n, NEW x \in Z PROVE Step(i, x) \in Z
    OBVIOUS
  <2>2. <<>> \in Z
    OBVIOUS
  <2> HIDE DEF Z, Step
  <2> QED BY <2>1, <2>2
<1>2. PICK f : Iterates(f, n, Z, <<>>, step)
  <2> HIDE DEF step, n, Z
  <2> QED BY <1>0, <1>1, Iteration
<1>3. D(f)
  <2> HIDE DEF Z, Step
  <2>1. f \in [0 .. n -> Z] /\ f[0] = <<>>
    BY <1>2 DEF Iterates
  <2>2. \A i \in 1 .. n : f[i] = Step(i, f[i - 1])
    <3> SUFFICES ASSUME NEW i \in 1 .. n PROVE f[i] = Step(i, f[i - 1])
      OBVIOUS
    <3>1. f[i - 1] \in Z
      BY <2>1
    <3>2. f[i] = step[i][f[i - 1]]
      BY <1>2 DEF Iterates
    <3> QED BY <3>1, <3>2
  <2> QED BY <2>1, <2>2
<1>4. KeptPrefix(s, S) = CHOOSE g : D(g)
  BY DEF KeptPrefix
<1>5. D(KeptPrefix(s, S))
  <2> HIDE DEF D
  <2> QED BY <1>3, <1>4
<1>6. ASSUME NEW g, D(g)
      PROVE  /\ g = [i \in 0 .. n |-> g[i]] /\ g[0] = <<>>
             /\ \A i \in 1 .. n : g[i] = Step(i, g[i - 1])
  <2> HIDE DEF n, Step
  <2>1. g = [i \in 0 .. n |-> g[i]]
    BY <1>6
  <2>2. g[0] = <<>>
    BY <1>6, <1>0
  <2>3. \A i \in 1 .. n : g[i] = Step(i, g[i - 1])
    BY <1>6, <1>0
  <2> QED BY <2>1, <2>2, <2>3, Zenon
<1>7. ASSUME NEW g, D(g) PROVE Iterates(g, n, Z, <<>>, step)
  <2>1. Follows(g, n, Z, <<>>, step)
    <3> HIDE DEF Z, Step
    <3> QED BY <1>6, <1>7, Zenon DEF Follows
  <2> HIDE DEF step, n, Z
  <2> QED BY <1>0, <1>1, <2>1, FollowsIterates
<1>8. /\ Iterates(KeptPrefix(s, S), n, Z, <<>>, step)
      /\ \A i \in 1 .. n : KeptPrefix(s, S)[i] = Step(i, KeptPrefix(s, S)[i - 1])
  <2> HIDE DEF D, step, n, Z, Step
  <2> QED BY <1>5, <1>6, <1>7
<1> QED BY <1>8 DEF Iterates

(* The same with a name for what it says: k lists the results of Keep on   *)
(* the prefixes of s.                                                      *)
Keeps(k, s, S, X) ==
  /\ k \in [0 .. Len(s) -> Seq(X)] /\ k[0] = <<>>
  /\ \A i \in 1 .. Len(s) : k[i] = IF s[i] \in S THEN Append(k[i - 1], s[i]) ELSE k[i - 1]

LEMMA KeptPrefixKeeps ==
  ASSUME NEW X, NEW s \in Seq(X), NEW S
  PROVE  Keeps(KeptPrefix(s, S), s, S, X)
  BY KeptPrefixDef DEF Keeps

(* Keep selects the elements of S.                                         *)
LEMMA KeepElems ==
  ASSUME NEW X, NEW s \in Seq(X), NEW S
  PROVE  Keep(s, S) \in Seq(X) /\ Elems(Keep(s, S)) = Elems(s) \cap S
<1> DEFINE n == Len(s)
           K == KeptPrefix(s, S)
           Z == Seq(X)
           Good(i) == Elems(K[i]) = {s[j] : j \in 1 .. i} \cap S
           T == {i \in 0 .. n : Good(i)}
<1>0. n \in Nat
  OBVIOUS
<1>1. /\ K \in [0 .. n -> Z] /\ K[0] = <<>>
      /\ \A i \in 1 .. n : K[i] = IF s[i] \in S THEN Append(K[i - 1], s[i]) ELSE K[i - 1]
  BY KeptPrefixDef
<1>2. \A i \in 1 .. n : s[i] \in X
  OBVIOUS
<1> HIDE DEF K, n, Z
<1>3. 0 \in T
  <2>1. Elems(<<>>) = {}
    BY DEF Elems
  <2>2. {s[j] : j \in 1 .. 0} = {}
    OBVIOUS
  <2>3. Elems(K[0]) = {s[j] : j \in 1 .. 0} \cap S
    BY <1>1, <2>1, <2>2
  <2> QED BY <1>0, <2>3
<1>4. \A i \in 1 .. n : i - 1 \in T => i \in T
  <2> SUFFICES ASSUME NEW i \in 1 .. n, Good(i - 1) PROVE Good(i)
    <3> HIDE DEF Good
    <3> QED BY <1>0
  <2>1. {s[j] : j \in 1 .. i} = {s[j] : j \in 1 .. i - 1} \cup {s[i]}
    <3>1. 1 .. i = (1 .. i - 1) \cup {i}
      BY <1>0
    <3> QED BY <3>1
  <2>2. K[i - 1] \in Z
    BY <1>0, <1>1
  <2>3. Elems(Append(K[i - 1], s[i])) = Elems(K[i - 1]) \cup {s[i]}
    BY <1>2, <2>2, ElemsAppend DEF Z
  <2>4. K[i] = IF s[i] \in S THEN Append(K[i - 1], s[i]) ELSE K[i - 1]
    BY <1>1
  <2> HIDE DEF T
  <2> QED BY <2>1, <2>3, <2>4, Zenon
<1>5. \A i \in 0 .. n : i \in T
  <2> HIDE DEF T
  <2> QED BY <1>0, <1>3, <1>4, UpToInduction, SMTT(60)
<1>6. n \in 0 .. n
  BY <1>0
<1>7. Elems(K[n]) = {s[j] : j \in 1 .. n} \cap S /\ K[n] \in Z
  BY <1>1, <1>5, <1>6
<1> QED BY <1>7 DEF Keep, Elems, K, n, Z

(* Keep preserves the order of an ascending list.                          *)
LEMMA KeepAscending ==
  ASSUME NEW s \in Seq(Nat), Ascending(s), NEW S
  PROVE  Ascending(Keep(s, S))
<1> DEFINE n == Len(s)
           K == KeptPrefix(s, S)
           Z == Seq(Nat)
           Good(i) == /\ Ascending(K[i])
                      /\ \A k \in 1 .. Len(K[i]) : \E j \in 1 .. i : K[i][k] = s[j]
           T == {i \in 0 .. n : Good(i)}
<1>0. n \in Nat
  OBVIOUS
<1>1. /\ K \in [0 .. n -> Z] /\ K[0] = <<>>
      /\ \A i \in 1 .. n : K[i] = IF s[i] \in S THEN Append(K[i - 1], s[i]) ELSE K[i - 1]
  BY KeptPrefixDef
<1>2. /\ \A i \in 1 .. n : s[i] \in Nat
      /\ \A i, j \in 1 .. n : i < j => s[i] < s[j]
  BY DEF Ascending
<1> HIDE DEF K, n, Z
<1>3. Good(0)
  BY <1>1 DEF Ascending
<1>4. ASSUME NEW i \in 1 .. n, Good(i - 1) PROVE Good(i)
  <2> DEFINE t == K[i - 1]
             u == Append(t, s[i])
  <2>1. t \in Seq(Nat) /\ s[i] \in Nat
    BY <1>0, <1>1, <1>2 DEF Z
  <2>2. /\ Ascending(t)
        /\ \A k \in 1 .. Len(t) : \E j \in 1 .. i - 1 : t[k] = s[j]
    BY <1>4, SMTT(60)
  <2>3. \A k \in 1 .. Len(t) : t[k] < s[i]
    <3> SUFFICES ASSUME NEW k \in 1 .. Len(t) PROVE t[k] < s[i]
      OBVIOUS
    <3>1. PICK j \in 1 .. i - 1 : t[k] = s[j]
      BY <2>2
    <3>2. j \in 1 .. n /\ j < i
      BY <1>0
    <3> QED BY <1>2, <3>1, <3>2
  <2>4. K[i] = IF s[i] \in S THEN u ELSE t
    BY <1>1
  <2>5. ASSUME s[i] \in S PROVE Good(i)
    <3> HIDE DEF t
    <3>1. /\ Len(u) = Len(t) + 1 /\ u[Len(t) + 1] = s[i]
          /\ \A k \in 1 .. Len(t) : u[k] = t[k]
          /\ Len(t) \in Nat
      BY <2>1
    <3> HIDE DEF u
    <3>2. Ascending(u)
      <4> SUFFICES ASSUME NEW a \in 1 .. Len(u), NEW b \in 1 .. Len(u), a < b
                   PROVE  u[a] < u[b]
        BY DEF Ascending
      <4>1. a \in 1 .. Len(t)
        BY <3>1
      <4>2. CASE b = Len(t) + 1
        BY <2>3, <3>1, <4>1, <4>2
      <4>3. CASE b \in 1 .. Len(t)
        BY <2>2, <3>1, <4>1, <4>3 DEF Ascending
      <4>4. b = Len(t) + 1 \/ b \in 1 .. Len(t)
        <5>1. b \in 1 .. Len(t) + 1 /\ Len(t) \in Nat
          BY <3>1
        <5> QED BY <5>1
      <4> QED BY <4>2, <4>3, <4>4
    <3>3. \A k \in 1 .. Len(u) : \E j \in 1 .. i : u[k] = s[j]
      <4> SUFFICES ASSUME NEW k \in 1 .. Len(u) PROVE \E j \in 1 .. i : u[k] = s[j]
        BY SMTT(60)
      <4>1. CASE k = Len(t) + 1
        <5>1. i \in 1 .. i /\ u[k] = s[i]
          BY <1>0, <3>1, <4>1
        <5> QED BY <5>1
      <4>2. CASE k \in 1 .. Len(t)
        <5>1. PICK j \in 1 .. i - 1 : t[k] = s[j]
          BY <2>2, <4>2
        <5>2. j \in 1 .. i /\ u[k] = s[j]
          BY <1>0, <3>1, <4>2, <5>1
        <5> QED BY <5>2
      <4>3. k = Len(t) + 1 \/ k \in 1 .. Len(t)
        BY <3>1
      <4> QED BY <4>1, <4>2, <4>3
    <3> QED BY <2>4, <2>5, <3>2, <3>3
  <2>6. ASSUME s[i] \notin S PROVE Good(i)
    <3>1. \A k \in 1 .. Len(t) : \E j \in 1 .. i : t[k] = s[j]
      <4>1. 1 .. i - 1 \subseteq 1 .. i
        BY <1>0
      <4> QED BY <2>2, <4>1, Zenon
    <3> QED BY <2>2, <2>4, <2>6, <3>1, SMTT(60)
  <2> QED BY <2>5, <2>6
<1>5. \A i \in 0 .. n : i \in T
  <2>1. 0 \in T
    BY <1>0, <1>3
  <2>2. \A i \in 1 .. n : i - 1 \in T => i \in T
    <3> HIDE DEF Good
    <3> QED BY <1>0, <1>4
  <2> HIDE DEF T
  <2> QED BY <1>0, <2>1, <2>2, UpToInduction, Zenon
<1>6. n \in 0 .. n
  BY <1>0
<1>7. Ascending(K[n])
  BY <1>5, <1>6
<1> QED BY <1>7 DEF Keep, K, n

(* t is what a pass over the first n elements of s takes that are in S:    *)
(* pos tells where each element of t comes from.                           *)
Embeds(pos, t, s, n, S) ==
  /\ pos \in [1 .. Len(t) -> 1 .. n]
  /\ \A k, l \in 1 .. Len(t) : k < l => pos[k] < pos[l]
  /\ \A k \in 1 .. Len(t) : t[k] = s[pos[k]] /\ s[pos[k]] \in S
  /\ \A j \in 1 .. n : s[j] \in S => \E k \in 1 .. Len(t) : pos[k] = j

(* One more element is looked at, and not taken.                           *)
LEMMA EmbedsSkip ==
  ASSUME NEW pos, NEW t, NEW s, NEW S, NEW n \in Nat, n > 0,
         Embeds(pos, t, s, n - 1, S), s[n] \notin S
  PROVE  Embeds(pos, t, s, n, S)
<1>1. 1 .. n = (1 .. n - 1) \cup {n}
  OBVIOUS
<1>2. pos \in [1 .. Len(t) -> 1 .. n]
  BY <1>1 DEF Embeds
<1>3. \A j \in 1 .. n : s[j] \in S => \E k \in 1 .. Len(t) : pos[k] = j
  BY <1>1, Zenon DEF Embeds
<1> QED BY <1>2, <1>3, Zenon DEF Embeds

(* One more element is taken.                                              *)
LEMMA EmbedsTake ==
  ASSUME NEW pos, NEW X, NEW t \in Seq(X), NEW s, NEW S, NEW n \in Nat, n > 0,
         Embeds(pos, t, s, n - 1, S), s[n] \in S, s[n] \in X
  PROVE  Embeds([k \in 1 .. Len(t) + 1 |-> IF k = Len(t) + 1 THEN n ELSE pos[k]],
                Append(t, s[n]), s, n, S)
<1> DEFINE m == Len(t)
           u == Append(t, s[n])
           p == [k \in 1 .. m + 1 |-> IF k = m + 1 THEN n ELSE pos[k]]
<1>1. /\ m \in Nat /\ Len(u) = m + 1 /\ u[m + 1] = s[n]
      /\ \A k \in 1 .. m : u[k] = t[k]
  BY AppendFacts
<1>2. \A k \in 1 .. m : pos[k] \in 1 .. n - 1
  BY Zenon DEF Embeds
<1>3. p[m + 1] = n /\ \A k \in 1 .. m : p[k] = pos[k]
  BY <1>1
<1>4. 1 .. m + 1 = (1 .. m) \cup {m + 1}
  BY <1>1
<1>5. p \in [1 .. m + 1 -> 1 .. n]
  <2>1. \A k \in 1 .. m : pos[k] \in 1 .. n
    BY <1>2
  <2>2. n \in 1 .. n
    OBVIOUS
  <2> QED BY <1>1, <2>1, <2>2
<1> HIDE DEF u, m, p
<1>6. ASSUME NEW k \in 1 .. m + 1, NEW l \in 1 .. m + 1, k < l PROVE p[k] < p[l]
  <2>1. k \in 1 .. m
    BY <1>1, <1>6
  <2>2. CASE l = m + 1
    BY <1>2, <1>3, <2>1, <2>2
  <2>3. CASE l \in 1 .. m
    <3>1. pos[k] < pos[l]
      BY <1>6, <2>1, <2>3, Zenon DEF Embeds, m
    <3> QED BY <1>3, <2>1, <2>3, <3>1, Zenon
  <2> QED BY <1>4, <2>2, <2>3, Zenon
<1>7. ASSUME NEW k \in 1 .. m + 1 PROVE u[k] = s[p[k]] /\ s[p[k]] \in S
  <2>1. CASE k = m + 1
    BY <1>1, <1>3, <2>1, Zenon
  <2>2. CASE k \in 1 .. m
    <3>1. t[k] = s[pos[k]] /\ s[pos[k]] \in S
      BY <2>2, Zenon DEF Embeds, m
    <3> QED BY <1>1, <1>3, <2>2, <3>1, Zenon
  <2> QED BY <1>4, <2>1, <2>2, Zenon
<1>8. ASSUME NEW j \in 1 .. n, s[j] \in S PROVE \E k \in 1 .. m + 1 : p[k] = j
  <2>1. CASE j = n
    BY <1>3, <1>4, <2>1, Zenon
  <2>2. CASE j # n
    <3>1. j \in 1 .. n - 1
      BY <2>2
    <3>2. PICK k \in 1 .. m : pos[k] = j
      BY <1>8, <3>1, Zenon DEF Embeds, m
    <3> QED BY <1>3, <1>4, <3>2, Zenon
  <2> QED BY <2>1, <2>2, Zenon
<1>9. Embeds(p, u, s, n, S)
  BY <1>1, <1>5, <1>6, <1>7, <1>8, Zenon DEF Embeds
<1> QED BY <1>9, Zenon DEF u, p, m

(* Keep takes the elements of S, each once and in order.                   *)
LEMMA KeepEmbeds ==
  ASSUME NEW X, NEW s \in Seq(X), NEW S
  PROVE  \E pos : Embeds(pos, Keep(s, S), s, Len(s), S)
<1> DEFINE n == Len(s)
           K == KeptPrefix(s, S)
           T == {i \in 0 .. n : \E pos : Embeds(pos, K[i], s, i, S)}
<1>0. n \in Nat
  OBVIOUS
<1>1. /\ K \in [0 .. n -> Seq(X)] /\ K[0] = <<>>
      /\ \A i \in 1 .. n : K[i] = IF s[i] \in S THEN Append(K[i - 1], s[i]) ELSE K[i - 1]
  BY KeptPrefixDef
<1>2. \A i \in 1 .. n : s[i] \in X
  OBVIOUS
<1> HIDE DEF K, n
<1>3. 0 \in T
  <2>1. Embeds(<<>>, K[0], s, 0, S)
    BY <1>1 DEF Embeds
  <2> QED BY <1>0, <2>1
<1>4. \A i \in 1 .. n : i - 1 \in T => i \in T
  <2> SUFFICES ASSUME NEW i \in 1 .. n, i - 1 \in T PROVE i \in T
    BY Zenon
  <2>1. i \in Nat /\ i > 0 /\ i \in 0 .. n /\ K[i - 1] \in Seq(X)
    BY <1>0, <1>1
  <2>2. PICK pos : Embeds(pos, K[i - 1], s, i - 1, S)
    BY Zenon
  <2>3. \E p : Embeds(p, K[i], s, i, S)
    <3>1. CASE s[i] \in S
      <4>1. K[i] = Append(K[i - 1], s[i])
        BY <1>1, <3>1, Zenon
      <4> QED BY <1>2, <2>1, <2>2, <3>1, <4>1, EmbedsTake, Zenon
    <3>2. CASE s[i] \notin S
      <4>1. K[i] = K[i - 1]
        BY <1>1, <3>2, Zenon
      <4> QED BY <2>1, <2>2, <3>2, <4>1, EmbedsSkip, Zenon
    <3> QED BY <3>1, <3>2, Zenon
  <2> QED BY <2>1, <2>3, Zenon
<1>5. \A i \in 0 .. n : i \in T
  <2> HIDE DEF T
  <2> QED BY <1>0, <1>3, <1>4, UpToInduction, Zenon
<1>6. n \in 0 .. n
  BY <1>0
<1> QED BY <1>5, <1>6, Zenon DEF Keep, K, n

(* pos counts up, in m steps, through all numbers from a to b.             *)
CountsUp(pos, m, a, b) ==
  /\ m \in Nat /\ a \in Int /\ b \in Int /\ a <= b + 1
  /\ pos \in [1 .. m -> a .. b]
  /\ \A k, l \in 1 .. m : k < l => pos[k] < pos[l]
  /\ \A j \in a .. b : \E k \in 1 .. m : pos[k] = j

(* What counts up through all of an interval goes from one number to the   *)
(* next.                                                                   *)
LEMMA CountsThrough ==
  ASSUME NEW pos, NEW m, NEW a, NEW b, CountsUp(pos, m, a, b)
  PROVE  m = b - a + 1 /\ \A k \in 1 .. m : pos[k] = a + k - 1
<1> USE DEF CountsUp
<1> DEFINE T == {k \in 0 .. m : \A l \in 1 .. k : pos[l] = a + l - 1}
<1>1. 0 \in T
  OBVIOUS
<1>2. ASSUME NEW k \in 1 .. m, k - 1 \in T PROVE k \in T
  <2>1. \A l \in 1 .. k - 1 : pos[l] = a + l - 1
    BY <1>2
  <2>2. pos[k] \in a .. b /\ pos[k] >= a + k - 1
    <3>1. pos[k] \in a .. b
      OBVIOUS
    <3>2. CASE k = 1
      BY <3>1, <3>2
    <3>3. CASE k > 1
      <4>1. k - 1 \in 1 .. k - 1 /\ k - 1 \in 1 .. m
        BY <3>3
      <4>2. pos[k - 1] = a + k - 2 /\ pos[k - 1] < pos[k]
        BY <2>1, <4>1
      <4> QED BY <3>1, <4>2
    <3> QED BY <3>1, <3>2, <3>3
  <2>3. ASSUME pos[k] > a + k - 1 PROVE FALSE
    <3>1. a + k - 1 \in a .. b
      BY <2>2, <2>3
    <3>2. PICK l \in 1 .. m : pos[l] = a + k - 1
      BY <3>1
    <3>3. CASE l < k
      <4>1. l \in 1 .. k - 1
        BY <3>3
      <4> QED BY <2>1, <3>2, <3>3, <4>1
    <3>4. CASE l = k
      BY <2>3, <3>2, <3>4
    <3>5. CASE k < l
      <4>1. pos[k] < pos[l]
        BY <3>5
      <4> QED BY <2>2, <2>3, <3>2, <4>1
    <3> QED BY <3>3, <3>4, <3>5
  <2>4. pos[k] = a + k - 1
    BY <2>2, <2>3, SMTT(30)
  <2>5. \A l \in 1 .. k : l = k \/ l \in 1 .. k - 1
    OBVIOUS
  <2> QED BY <2>1, <2>4, <2>5, SMTT(30)
<1>3. \A k \in 0 .. m : k \in T
  <2> HIDE DEF T
  <2> QED BY <1>1, <1>2, UpToInduction, Zenon
<1>4. \A k \in 1 .. m : pos[k] = a + k - 1
  <2>1. m \in 0 .. m
    OBVIOUS
  <2>2. m \in T
    BY <1>3, <2>1, Zenon
  <2> QED BY <2>2
<1>5. m = b - a + 1
  <2>1. CASE m = 0
    <3>1. ASSUME a <= b PROVE FALSE
      <4>1. a \in a .. b
        BY <3>1
      <4>2. PICK k \in 1 .. m : pos[k] = a
        BY <4>1
      <4> QED BY <2>1
    <3> QED BY <2>1, <3>1
  <2>2. CASE m > 0
    <3>1. m \in 1 .. m /\ pos[m] \in a .. b /\ pos[m] = a + m - 1
      BY <1>4, <2>2
    <3>2. b \in a .. b
      BY <3>1
    <3>3. PICK k \in 1 .. m : pos[k] = b
      BY <3>2
    <3> QED BY <1>4, <3>1, <3>3
  <2> QED BY <2>1, <2>2
<1> QED BY <1>4, <1>5

-----------------------------------------------------------------------------
(* The values v gives the elements of a list.                              *)
Values(v, s) == [i \in 1 .. Len(s) |-> v[s[i]]]

(* They are a list, which grows with the list.                             *)
LEMMA ValuesAppend ==
  ASSUME NEW X, NEW v \in [X -> Nat], NEW t \in Seq(X)
  PROVE  /\ Values(v, t) \in Seq(Nat) /\ Len(Values(v, t)) = Len(t)
         /\ \A e \in X : Values(v, Append(t, e)) = Append(Values(v, t), v[e])
<1>1. ASSUME NEW u \in Seq(X) PROVE Values(v, u) \in Seq(Nat) /\ Len(Values(v, u)) = Len(u)
  <2>1. \A i \in 1 .. Len(u) : v[u[i]] \in Nat
    OBVIOUS
  <2>2. Len(u) \in Nat
    OBVIOUS
  <2> QED BY <2>1, <2>2 DEF Values
<1>2. ASSUME NEW e \in X PROVE Values(v, Append(t, e)) = Append(Values(v, t), v[e])
  <2> DEFINE a == Append(t, e)
             b == Append(Values(v, t), v[e])
             n == Len(t)
  <2>1. a \in Seq(X) /\ v[e] \in Nat
    OBVIOUS
  <2>2. /\ Len(a) = n + 1 /\ n \in Nat /\ a[n + 1] = e
        /\ \A k \in 1 .. n : a[k] = t[k]
    BY AppendFacts
  <2>3. Values(v, t) \in Seq(Nat) /\ Len(Values(v, t)) = n
    BY <1>1
  <2>4. /\ b \in Seq(Nat) /\ Len(b) = n + 1 /\ b[n + 1] = v[e]
        /\ \A k \in 1 .. n : b[k] = Values(v, t)[k]
    BY <2>1, <2>3
  <2>5. Values(v, a) \in Seq(Nat) /\ Len(Values(v, a)) = n + 1
    BY <1>1, <2>1, <2>2, Zenon
  <2> HIDE DEF a, b, n
  <2>6. ASSUME NEW k \in 1 .. n + 1 PROVE Values(v, a)[k] = b[k]
    <3>1. Values(v, a)[k] = v[a[k]]
      BY <2>2 DEF Values
    <3>2. CASE k = n + 1
      BY <2>2, <2>4, <3>1, <3>2
    <3>3. CASE k # n + 1
      <4>1. k \in 1 .. n
        BY <2>2, <3>3
      <4>2. Values(v, t)[k] = v[t[k]]
        BY <4>1 DEF Values, n
      <4> QED BY <2>2, <2>4, <3>1, <4>1, <4>2
    <3> QED BY <3>2, <3>3
  <2>7. Values(v, a) = b
    BY <2>4, <2>5, <2>6
  <2> QED BY <2>7, Zenon DEF a, b
<1> QED BY <1>1, <1>2, Zenon

(* An ascending list of ids has no more elements than there are ids.       *)
LEMMA AscendingLength ==
  ASSUME NEW N \in Nat, NEW s \in Seq(1 .. N), Ascending(s)
  PROVE  Len(s) \in 0 .. N
<1> DEFINE n == Len(s)
           T == {i \in 0 .. n : i = 0 \/ i <= s[i]}
<1>0. n \in Nat
  OBVIOUS
<1>1. /\ \A i \in 1 .. n : s[i] \in 1 .. N
      /\ \A i, j \in 1 .. n : i < j => s[i] < s[j]
  BY DEF Ascending
<1> HIDE DEF n
<1>2. 0 \in T
  BY <1>0
<1>3. \A i \in 1 .. n : i - 1 \in T => i \in T
  <2> SUFFICES ASSUME NEW i \in 1 .. n, i - 1 \in T PROVE i <= s[i]
    BY <1>0
  <2>1. CASE i = 1
    BY <1>0, <1>1, <2>1
  <2>2. CASE i # 1
    <3>1. i - 1 \in 1 .. n /\ i - 1 < i
      BY <1>0, <2>2
    <3>2. s[i - 1] < s[i] /\ s[i - 1] \in Nat /\ s[i] \in Nat
      BY <1>1, <3>1
    <3>3. i - 1 <= s[i - 1]
      BY <2>2, <3>1
    <3> QED BY <3>2, <3>3
  <2> QED BY <2>1, <2>2
<1>4. \A i \in 0 .. n : i \in T
  <2> HIDE DEF T
  <2> QED BY <1>0, <1>2, <1>3, UpToInduction
<1>5. n \in 0 .. n
  BY <1>0
<1>6. n = 0 \/ n <= s[n]
  BY <1>4, <1>5
<1>7. n # 0 => s[n] \in 1 .. N
  BY <1>0, <1>1
<1>8. n \in 0 .. N
  BY <1>0, <1>6, <1>7
<1> QED BY <1>8 DEF n

-----------------------------------------------------------------------------
(* Sums.                                                                   *)

(* PartialSums: the exact sums of the prefixes of q.                       *)
LEMMA PartialSumsDef ==
  ASSUME NEW q \in Seq(Nat)
  PROVE  /\ PartialSums(q) \in [0 .. Len(q) -> Nat]
         /\ PartialSums(q)[0] = 0
         /\ \A i \in 1 .. Len(q) : PartialSums(q)[i] = PartialSums(q)[i - 1] + q[i]
<1> DEFINE n == Len(q)
           step == [i \in 1 .. n |-> [x \in Nat |-> x + q[i]]]
           D(f) == f = [i \in 0 .. n |-> IF i = 0 THEN 0 ELSE f[i - 1] + q[i]]
<1>0. n \in Nat
  OBVIOUS
<1>1. step \in [1 .. n -> [Nat -> Nat]]
  OBVIOUS
<1>2. PICK f : Iterates(f, n, Nat, 0, step)
  <2> HIDE DEF step, n
  <2> QED BY <1>0, <1>1, Iteration, Zenon
<1>3. D(f)
  <2>1. f \in [0 .. n -> Nat] /\ f[0] = 0
    BY <1>2 DEF Iterates
  <2>2. \A i \in 1 .. n : f[i] = f[i - 1] + q[i]
    <3> SUFFICES ASSUME NEW i \in 1 .. n PROVE f[i] = f[i - 1] + q[i]
      OBVIOUS
    <3>1. f[i - 1] \in Nat
      BY <2>1, SMTT(60)
    <3>2. f[i] = step[i][f[i - 1]]
      BY <1>2 DEF Iterates
    <3> QED BY <3>1, <3>2, Zenon
  <2> QED BY <2>1, <2>2
<1>4. PartialSums(q) = CHOOSE g : D(g)
  BY DEF PartialSums
<1>5. D(PartialSums(q))
  <2> HIDE DEF D
  <2> QED BY <1>3, <1>4
<1>6. ASSUME NEW g, D(g)
      PROVE  /\ g = [i \in 0 .. n |-> g[i]] /\ g[0] = 0
             /\ \A i \in 1 .. n : g[i] = g[i - 1] + q[i]
  <2> HIDE DEF n
  <2>1. g = [i \in 0 .. n |-> g[i]]
    BY <1>6
  <2>2. g[0] = 0
    BY <1>6, <1>0
  <2>3. \A i \in 1 .. n : g[i] = g[i - 1] + q[i]
    BY <1>6, <1>0
  <2> QED BY <2>1, <2>2, <2>3, Zenon
<1>7. ASSUME NEW g, D(g) PROVE Iterates(g, n, Nat, 0, step)
  <2>1. Follows(g, n, Nat, 0, step)
    BY <1>6, <1>7, Zenon DEF Follows
  <2> HIDE DEF step, n
  <2> QED BY <1>0, <1>1, <2>1, FollowsIterates, Zenon
<1> HIDE DEF D
<1> QED BY <1>5, <1>6, <1>7 DEF Iterates

(* A sum of naturals is a natural, and no partial sum exceeds it.          *)
LEMMA PartialSumsBound ==
  ASSUME NEW q \in Seq(Nat)
  PROVE  /\ Sum(q) \in Nat
         /\ \A i \in 0 .. Len(q) : PartialSums(q)[i] \in 0 .. Sum(q)
<1> DEFINE n == Len(q)
           P == PartialSums(q)
           T == {k \in 0 .. n : P[n - k] <= P[n]}
<1>0. n \in Nat /\ Sum(q) = P[n]
  BY DEF Sum
<1>1. /\ P \in [0 .. n -> Nat]
      /\ \A i \in 1 .. n : P[i] = P[i - 1] + q[i]
  BY PartialSumsDef
<1> HIDE DEF P, n
<1>2. 0 \in T
  BY <1>0, <1>1
<1>3. \A k \in 1 .. n : k - 1 \in T => k \in T
  <2> SUFFICES ASSUME NEW k \in 1 .. n, P[n - (k - 1)] <= P[n]
               PROVE  P[n - k] <= P[n]
    BY <1>0
  <2>1. /\ n - (k - 1) \in 1 .. n
        /\ (n - (k - 1)) - 1 = n - k
        /\ n - k \in 0 .. n
    BY <1>0
  <2>2. q[n - (k - 1)] \in Nat
    BY <2>1 DEF n
  <2> QED BY <1>1, <1>0, <2>1, <2>2, SMTT(60)
<1>4. \A k \in 0 .. n : k \in T
  <2>1. n \in Nat
    BY <1>0
  <2> HIDE DEF T
  <2> QED BY <2>1, <1>2, <1>3, UpToInduction, Zenon
<1>5. ASSUME NEW i \in 0 .. n PROVE P[i] \in 0 .. P[n]
  <2>1. n - i \in 0 .. n /\ n - (n - i) = i
    BY <1>0
  <2>2. P[n - (n - i)] <= P[n]
    BY <1>4, <2>1
  <2>3. P[i] \in Nat /\ P[n] \in Nat
    BY <1>0, <1>1
  <2> QED BY <2>1, <2>2, <2>3
<1> QED BY <1>0, <1>1, <1>5 DEF P, n

(* No element exceeds the sum.                                             *)
LEMMA ElementBound ==
  ASSUME NEW q \in Seq(Nat), NEW i \in 1 .. Len(q)
  PROVE  q[i] \in 0 .. Sum(q)
<1>1. i \in 0 .. Len(q) /\ i - 1 \in 0 .. Len(q) /\ q[i] \in Nat
  OBVIOUS
<1>2. PartialSums(q)[i] = PartialSums(q)[i - 1] + q[i]
  BY PartialSumsDef
<1>3. PartialSums(q)[i] \in 0 .. Sum(q) /\ PartialSums(q)[i - 1] \in 0 .. Sum(q)
  BY <1>1, PartialSumsBound
<1>4. Sum(q) \in Nat
  BY PartialSumsBound
<1> QED BY <1>1, <1>2, <1>3, <1>4, SMTT(60)

(* Four numbers added two by two, in either grouping.                      *)
LEMMA Regroup ==
  \A a, b, c, d \in Nat : (a + b) + (c + d) = (a + c) + (b + d)
  OBVIOUS

(* Sums add up slot by slot.                                               *)
LEMMA SumOfSums ==
  ASSUME NEW f \in Seq(Nat), NEW g \in Seq(Nat), NEW h \in Seq(Nat),
         Len(g) = Len(f), Len(h) = Len(f),
         \A i \in 1 .. Len(f) : h[i] = f[i] + g[i]
  PROVE  Sum(h) = Sum(f) + Sum(g)
<1> DEFINE n == Len(f)
           F == PartialSums(f)
           G == PartialSums(g)
           H == PartialSums(h)
           T == {i \in 0 .. n : H[i] = F[i] + G[i]}
<1>0. n \in Nat
  OBVIOUS
<1>1. F \in [0 .. n -> Nat] /\ F[0] = 0 /\ \A i \in 1 .. n : F[i] = F[i - 1] + f[i]
  BY PartialSumsDef, Zenon
<1>2. G \in [0 .. n -> Nat] /\ G[0] = 0 /\ \A i \in 1 .. n : G[i] = G[i - 1] + g[i]
  BY PartialSumsDef
<1>3. H \in [0 .. n -> Nat] /\ H[0] = 0 /\ \A i \in 1 .. n : H[i] = H[i - 1] + h[i]
  BY PartialSumsDef
<1>4. \A i \in 1 .. n : f[i] \in Nat /\ g[i] \in Nat /\ h[i] = f[i] + g[i]
  BY SMTT(60)
<1>5. Sum(f) = F[n] /\ Sum(g) = G[n] /\ Sum(h) = H[n]
  BY DEF Sum
<1> HIDE DEF F, G, H, n
<1>6. 0 \in T
  BY <1>0, <1>1, <1>2, <1>3
<1>7. \A i \in 1 .. n : i - 1 \in T => i \in T
  <2> SUFFICES ASSUME NEW i \in 1 .. n, H[i - 1] = F[i - 1] + G[i - 1]
               PROVE  H[i] = F[i] + G[i]
    BY <1>0
  <2>1. F[i - 1] \in Nat /\ G[i - 1] \in Nat
    BY <1>0, <1>1, <1>2
  <2>2. f[i] \in Nat /\ g[i] \in Nat /\ h[i] = f[i] + g[i]
    BY <1>4
  <2>3. F[i] = F[i - 1] + f[i] /\ G[i] = G[i - 1] + g[i] /\ H[i] = H[i - 1] + h[i]
    BY <1>1, <1>2, <1>3
  <2>4. H[i] = (F[i - 1] + G[i - 1]) + (f[i] + g[i])
    BY <2>2, <2>3, Zenon
  <2>5. (F[i - 1] + G[i - 1]) + (f[i] + g[i]) = (F[i - 1] + f[i]) + (G[i - 1] + g[i])
    <3>1. ASSUME NEW a \in Nat, NEW b \in Nat
          PROVE  \A c, d \in Nat : (a + b) + (c + d) = (a + c) + (b + d)
      BY Regroup
    <3>2. \A c, d \in Nat :
            (F[i - 1] + G[i - 1]) + (c + d) = (F[i - 1] + c) + (G[i - 1] + d)
      BY <2>1, <3>1, Zenon
    <3> QED BY <2>2, <3>2, Zenon
  <2> QED BY <2>3, <2>4, <2>5, Zenon
<1>8. \A i \in 0 .. n : i \in T
  <2> HIDE DEF T
  <2> QED BY <1>0, <1>6, <1>7, UpToInduction, Zenon
<1> QED BY <1>0, <1>5, <1>8

(* Exact sums of lists that agree as far as n agree as far as n.           *)
LEMMA SameExactPrefix ==
  ASSUME NEW p \in Seq(Nat), NEW q \in Seq(Nat), NEW n \in Nat,
         n <= Len(p), n <= Len(q), \A i \in 1 .. n : p[i] = q[i]
  PROVE  PartialSums(p)[n] = PartialSums(q)[n]
<1> DEFINE P == PartialSums(p)
           Q == PartialSums(q)
           T == {i \in 0 .. n : P[i] = Q[i]}
<1>1. Len(p) \in Nat /\ Len(q) \in Nat
  OBVIOUS
<1>2. P[0] = 0 /\ \A i \in 1 .. Len(p) : P[i] = P[i - 1] + p[i]
  BY PartialSumsDef, Zenon
<1>3. Q[0] = 0 /\ \A i \in 1 .. Len(q) : Q[i] = Q[i - 1] + q[i]
  BY PartialSumsDef, Zenon
<1> HIDE DEF P, Q
<1>4. 0 \in T
  BY <1>2, <1>3
<1>5. \A i \in 1 .. n : i - 1 \in T => i \in T
  <2> SUFFICES ASSUME NEW i \in 1 .. n, P[i - 1] = Q[i - 1] PROVE P[i] = Q[i]
    OBVIOUS
  <2>1. i \in 1 .. Len(p) /\ i \in 1 .. Len(q)
    BY <1>1
  <2> QED BY <1>2, <1>3, <2>1, Zenon
<1>6. \A i \in 0 .. n : i \in T
  <2> HIDE DEF T
  <2> QED BY <1>4, <1>5, UpToInduction, Zenon
<1>7. n \in 0 .. n
  OBVIOUS
<1> QED BY <1>6, <1>7, Zenon DEF P, Q

(* The sum of one list after another.                                      *)
LEMMA SumConcat ==
  ASSUME NEW p \in Seq(Nat), NEW q \in Seq(Nat)
  PROVE  Sum(p \o q) = Sum(p) + Sum(q)
<1> DEFINE a == Len(p)
           b == Len(q)
           r == p \o q
           P == PartialSums(p)
           Q == PartialSums(q)
           R == PartialSums(r)
           T == {i \in 0 .. b : R[a + i] = P[a] + Q[i]}
<1>1. /\ a \in Nat /\ b \in Nat /\ r \in Seq(Nat) /\ Len(r) = a + b
      /\ \A i \in 1 .. a : r[i] = p[i]
      /\ \A i \in 1 .. b : r[a + i] = q[i] /\ q[i] \in Nat
  OBVIOUS
<1>2. P \in [0 .. a -> Nat]
  BY PartialSumsDef, Zenon
<1>3. Q \in [0 .. b -> Nat] /\ Q[0] = 0 /\ \A i \in 1 .. b : Q[i] = Q[i - 1] + q[i]
  BY PartialSumsDef, Zenon
<1> HIDE DEF r
<1>4. \A i \in 1 .. a + b : R[i] = R[i - 1] + r[i]
  BY <1>1, PartialSumsDef, Zenon
<1>5. a <= a + b /\ a <= a
  BY <1>1
<1>6. R[a] = P[a]
  <2> HIDE DEF a, b
  <2> QED BY <1>1, <1>5, SameExactPrefix, Zenon DEF a
<1>7. P[a] \in Nat
  <2>1. a \in 0 .. a
    BY <1>1
  <2> QED BY <1>2, <2>1, Zenon
<1> HIDE DEF a, b, P, Q, R
<1>8. 0 \in T
  <2>1. a + 0 = a /\ P[a] + 0 = P[a]
    BY <1>1, <1>7
  <2> QED BY <1>1, <1>3, <1>6, <2>1
<1>9. \A i \in 1 .. b : i - 1 \in T => i \in T
  <2> SUFFICES ASSUME NEW i \in 1 .. b, R[a + (i - 1)] = P[a] + Q[i - 1]
               PROVE  R[a + i] = P[a] + Q[i]
    BY <1>1
  <2>1. a + i \in 1 .. a + b /\ (a + i) - 1 = a + (i - 1) /\ i - 1 \in 0 .. b
    BY <1>1
  <2>2. R[a + i] = (P[a] + Q[i - 1]) + q[i]
    BY <1>1, <1>4, <2>1, Zenon
  <2>3. Q[i - 1] \in Nat /\ q[i] \in Nat
    BY <1>1, <1>3, <2>1, Zenon
  <2>4. Q[i] = Q[i - 1] + q[i]
    BY <1>3, Zenon
  <2> HIDE DEF T
  <2> QED BY <1>7, <2>2, <2>3, <2>4
<1>10. \A i \in 0 .. b : i \in T
  <2> HIDE DEF T
  <2> QED BY <1>1, <1>8, <1>9, UpToInduction, Zenon
<1>11. b \in 0 .. b
  BY <1>1
<1> QED BY <1>1, <1>10, <1>11, Zenon DEF Sum, a, b, P, Q, R, r

(* The sum of a list with one element other than 0 is that element.        *)
LEMMA SumSingle ==
  ASSUME NEW q \in Seq(Nat), NEW j \in 1 .. Len(q),
         \A i \in 1 .. Len(q) : i # j => q[i] = 0
  PROVE  Sum(q) = q[j]
<1> DEFINE n == Len(q)
           Q == PartialSums(q)
           T == {i \in 0 .. n : Q[i] = IF i < j THEN 0 ELSE q[j]}
<1>0. n \in Nat /\ n >= j /\ j \in 1 .. n
  OBVIOUS
<1>1. \A i \in 1 .. n : q[i] \in Nat
  OBVIOUS
<1>2. Q[0] = 0 /\ \A i \in 1 .. n : Q[i] = Q[i - 1] + q[i]
  BY PartialSumsDef, Zenon
<1>3. \A x \in Nat : x + 0 = x /\ 0 + x = x /\ 0 \in Nat
  OBVIOUS
<1> HIDE DEF Q, n
<1>4. 0 \in T
  BY <1>0, <1>2
<1>5. \A i \in 1 .. n : i - 1 \in T => i \in T
  <2> SUFFICES ASSUME NEW i \in 1 .. n, Q[i - 1] = IF i - 1 < j THEN 0 ELSE q[j]
               PROVE  Q[i] = IF i < j THEN 0 ELSE q[j]
    BY <1>0
  <2>1. i < j \/ i = j \/ i > j
    BY <1>0
  <2>2. CASE i < j
    <3>1. i - 1 < j /\ i # j
      BY <1>0, <2>2
    <3>2. Q[i] = 0 + 0
      BY <1>2, <3>1, Zenon DEF n
    <3> QED BY <2>2, <3>2
  <2>3. CASE i = j
    <3>1. i - 1 < j /\ ~(i < j)
      BY <1>0, <2>3
    <3>2. Q[i] = 0 + q[j]
      BY <1>2, <2>3, <3>1, Zenon
    <3> QED BY <1>0, <1>1, <1>3, <3>1, <3>2, Zenon
  <2>4. CASE i > j
    <3>1. ~(i - 1 < j) /\ ~(i < j) /\ i # j
      BY <1>0, <2>4
    <3>2. Q[i] = q[j] + 0
      BY <1>2, <3>1, Zenon DEF n
    <3> QED BY <1>0, <1>1, <1>3, <3>1, <3>2, Zenon
  <2> QED BY <2>1, <2>2, <2>3, <2>4, Zenon
<1>6. \A i \in 0 .. n : i \in T
  <2> HIDE DEF T
  <2> QED BY <1>0, <1>4, <1>5, UpToInduction, Zenon
<1>7. n \in 0 .. n /\ ~(n < j)
  BY <1>0
<1> QED BY <1>6, <1>7, Zenon DEF Q, n, Sum

(* The values of the elements kept add up to what q does.                  *)
SumKept(q, v, s, S) == Sum(Values(v, Keep(s, S))) = Sum(q)

(* The elements other than 0, in order, have the same sum.                 *)
LEMMA SumOfOthers ==
  ASSUME NEW q \in Seq(Nat), NEW X, NEW s \in Seq(X), Len(s) = Len(q), NEW v \in [X -> Nat],
         NEW S, \A i \in 1 .. Len(q) : /\ s[i] \in S => v[s[i]] = q[i]
                                       /\ s[i] \notin S => q[i] = 0
  PROVE  SumKept(q, v, s, S)
<1> DEFINE n == Len(s)
           K == KeptPrefix(s, S)
           M == PartialSums(q)
           T == {i \in 0 .. n : Sum(Values(v, K[i])) = M[i]}
<1>0. n \in Nat /\ \A i \in 1 .. n : s[i] \in X /\ q[i] \in Nat
  BY SMTT(60)
<1>1. /\ K \in [0 .. n -> Seq(X)] /\ K[0] = <<>>
      /\ \A i \in 1 .. n : K[i] = IF s[i] \in S THEN Append(K[i - 1], s[i]) ELSE K[i - 1]
  <2>1. Keeps(K, s, S, X)
    BY KeptPrefixKeeps, Zenon
  <2> HIDE DEF K
  <2> QED BY <2>1, Zenon DEF Keeps
<1>2. /\ M[0] = 0 /\ \A i \in 1 .. n : M[i] = M[i - 1] + q[i]
      /\ M \in [0 .. n -> Nat]
  BY PartialSumsDef, Zenon
<1>3. \A i \in 1 .. n : /\ s[i] \in S => v[s[i]] = q[i]
                        /\ s[i] \notin S => q[i] = 0
  BY Zenon
<1>4. \A x \in Nat : x + 0 = x
  OBVIOUS
<1> HIDE DEF K, M, n
<1>5. 0 \in T
  <2>1. Values(v, <<>>) = <<>>
    BY DEF Values
  <2>2. <<>> \in Seq(Nat) /\ Len(<<>>) = 0
    OBVIOUS
  <2>3. PartialSums(<<>>)[0] = 0
    BY <2>2, PartialSumsDef, Zenon
  <2>4. Sum(<<>>) = 0
    BY <2>2, <2>3, Zenon DEF Sum
  <2> QED BY <1>0, <1>1, <1>2, <2>1, <2>4
<1>6. \A i \in 1 .. n : i - 1 \in T => i \in T
  <2> SUFFICES ASSUME NEW i \in 1 .. n, Sum(Values(v, K[i - 1])) = M[i - 1]
               PROVE  Sum(Values(v, K[i])) = M[i]
    BY <1>0
  <2>1. i - 1 \in 0 .. n
    BY <1>0
  <2>2. K[i - 1] \in Seq(X) /\ M[i - 1] \in Nat
    BY <1>1, <1>2, <2>1, Zenon
  <2>3. CASE s[i] \in S
    <3> DEFINE t == K[i - 1]
    <3>1. t \in Seq(X) /\ s[i] \in X /\ q[i] \in Nat /\ v[s[i]] = q[i] /\ K[i] = Append(t, s[i])
      BY <1>0, <1>1, <1>3, <2>2, <2>3, Zenon
    <3>2. M[i] = Sum(Values(v, t)) + q[i]
      BY <1>2, Zenon
    <3> HIDE DEF t
    <3>3. /\ Values(v, t) \in Seq(Nat)
          /\ \A e \in X : Values(v, Append(t, e)) = Append(Values(v, t), v[e])
      BY <3>1, ValuesAppend, ZenonT(60)
    <3>4. Values(v, K[i]) = Append(Values(v, t), q[i])
      BY <3>1, <3>3, Zenon
    <3>5. Append(Values(v, t), q[i]) = Values(v, t) \o <<q[i]>> /\ <<q[i]>> \in Seq(Nat)
      <4>1. \A u \in Seq(Nat) : \A x \in Nat :
              Append(u, x) = u \o <<x>> /\ <<x>> \in Seq(Nat)
        OBVIOUS
      <4> QED BY <3>1, <3>3, <4>1, Zenon
    <3>6. Sum(<<q[i]>>) = q[i]
      <4>1. /\ <<q[i]>> \in Seq(Nat) /\ Len(<<q[i]>>) = 1 /\ <<q[i]>>[1] = q[i] /\ 1 \in 1 .. 1
            /\ \A k \in 1 .. 1 : k = 1
        BY <3>1
      <4> QED BY <4>1, SumSingle, Zenon
    <3>7. Sum(Values(v, t) \o <<q[i]>>) = Sum(Values(v, t)) + Sum(<<q[i]>>)
      BY <3>3, <3>5, SumConcat, Zenon
    <3> QED BY <3>2, <3>4, <3>5, <3>6, <3>7, Zenon
  <2>4. CASE s[i] \notin S
    <3>1. K[i] = K[i - 1] /\ q[i] = 0
      BY <1>1, <1>3, <2>4, Zenon
    <3> QED BY <1>2, <1>4, <2>2, <3>1, Zenon
  <2> QED BY <2>3, <2>4
<1>7. \A i \in 0 .. n : i \in T
  <2> HIDE DEF T
  <2> QED BY <1>0, <1>5, <1>6, UpToInduction, Zenon
<1>8. n \in 0 .. n
  BY <1>0
<1> QED BY <1>7, <1>8, Zenon DEF Keep, K, M, n, Sum, SumKept

=============================================================================
