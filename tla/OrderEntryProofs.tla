-------------------------- MODULE OrderEntryProofs --------------------------
(***************************************************************************)
(* Session threads at the shared book: ids tell the order of arrival,      *)
(* every client is acknowledged its orders once and in that order, and the *)
(* reports of all sessions account for the book, for any number of         *)
(* threads, requests and chunks.                                           *)
(***************************************************************************)
EXTENDS OrderEntry, ListLemmas, FiniteSetTheorems

-----------------------------------------------------------------------------
(* What Keep takes of two lists that agree.                                *)

IsList(s) == s \in Seq(Elems(s))

(* A list, element by element.                                             *)
LEMMA ListFacts ==
  ASSUME NEW s, IsList(s)
  PROVE  /\ Len(s) \in Nat /\ DOMAIN s = 1 .. Len(s)
         /\ \A X : Elems(s) \subseteq X => s \in Seq(X)
  BY DEF IsList

(* Any sequence is a list.                                                 *)
LEMMA SeqIsList ==
  ASSUME NEW X, NEW s \in Seq(X)
  PROVE  IsList(s) /\ Elems(s) \subseteq X
<1>1. Len(s) \in Nat /\ s \in [1 .. Len(s) -> X]
  OBVIOUS
<1>2. s \in [1 .. Len(s) -> Elems(s)]
  BY <1>1 DEF Elems
<1>3. Elems(s) \subseteq X
  BY <1>1 DEF Elems
<1>4. \A Z : s \in [1 .. Len(s) -> Z] => s \in Seq(Z)
  BY <1>1
<1> QED BY <1>2, <1>3, <1>4 DEF IsList

(* The unfolding of KeptPrefix, for a list.                                *)
LEMMA KeptDef ==
  ASSUME NEW s, IsList(s), NEW S
  PROVE  /\ Len(s) \in Nat /\ KeptPrefix(s, S)[0] = <<>>
         /\ \A i \in 1 .. Len(s) :
              KeptPrefix(s, S)[i] = IF s[i] \in S
                                    THEN Append(KeptPrefix(s, S)[i - 1], s[i])
                                    ELSE KeptPrefix(s, S)[i - 1]
<1> DEFINE X == Elems(s)
<1>1. s \in Seq(X) /\ Len(s) \in Nat
  BY ListFacts DEF IsList
<1> HIDE DEF X
<1> QED BY <1>1, KeptPrefixDef

(* Up to n, s and t are the same and what S and R take of them is.         *)
Agree(s, S, t, R, n) == \A i \in 1 .. n : s[i] = t[i] /\ (s[i] \in S <=> t[i] \in R)

(* The prefixes of two lists that agree, and of which the same is kept.    *)
LEMMA KeptSame ==
  ASSUME NEW s, IsList(s), NEW t, IsList(t), NEW S, NEW R, NEW n \in Nat,
         n <= Len(s), n <= Len(t), Agree(s, S, t, R, n)
  PROVE  KeptPrefix(s, S)[n] = KeptPrefix(t, R)[n]
<1> DEFINE K == KeptPrefix(s, S)
           L == KeptPrefix(t, R)
           T == {i \in 0 .. n : K[i] = L[i]}
<1>1. /\ Len(s) \in Nat /\ K[0] = <<>>
      /\ \A i \in 1 .. Len(s) : K[i] = IF s[i] \in S THEN Append(K[i - 1], s[i]) ELSE K[i - 1]
  BY KeptDef
<1>2. /\ Len(t) \in Nat /\ L[0] = <<>>
      /\ \A i \in 1 .. Len(t) : L[i] = IF t[i] \in R THEN Append(L[i - 1], t[i]) ELSE L[i - 1]
  BY KeptDef
<1> HIDE DEF K, L
<1>3. 0 \in T
  BY <1>1, <1>2
<1>4. \A i \in 1 .. n : i - 1 \in T => i \in T
  <2> SUFFICES ASSUME NEW i \in 1 .. n, K[i - 1] = L[i - 1] PROVE K[i] = L[i]
    OBVIOUS
  <2>1. i \in 1 .. Len(s) /\ i \in 1 .. Len(t)
    BY <1>1, <1>2
  <2> QED BY <1>1, <1>2, <2>1, Zenon DEF Agree
<1>5. n \in 0 .. n
  OBVIOUS
<1>6. n \in T
  <2> HIDE DEF T
  <2> QED BY <1>3, <1>4, <1>5, UpToInduction, Zenon
<1> QED BY <1>6, Zenon DEF K, L

(* Nothing is kept of the elements behind m.                               *)
LEMMA KeptNone ==
  ASSUME NEW s, IsList(s), NEW S, NEW m \in Nat, m <= Len(s),
         \A i \in 1 .. Len(s) : i > m => s[i] \notin S
  PROVE  Keep(s, S) = KeptPrefix(s, S)[m]
<1> DEFINE K == KeptPrefix(s, S)
           T == {i \in 0 .. Len(s) : i >= m => K[i] = K[m]}
<1>1. /\ Len(s) \in Nat /\ K[0] = <<>>
      /\ \A i \in 1 .. Len(s) : K[i] = IF s[i] \in S THEN Append(K[i - 1], s[i]) ELSE K[i - 1]
  BY KeptDef
<1> HIDE DEF K
<1>2. 0 \in T
  BY <1>1
<1>3. \A i \in 1 .. Len(s) : i - 1 \in T => i \in T
  <2> SUFFICES ASSUME NEW i \in 1 .. Len(s), i - 1 >= m => K[i - 1] = K[m], i >= m
               PROVE  K[i] = K[m]
    BY <1>1
  <2>1. CASE i = m
    BY <2>1
  <2>2. CASE i # m
    <3>1. i > m /\ i - 1 >= m
      BY <1>1, <2>2
    <3> QED BY <1>1, <3>1, Zenon
  <2> QED BY <2>1, <2>2
<1>4. Len(s) \in T
  <2>1. Len(s) \in 0 .. Len(s)
    BY <1>1
  <2> HIDE DEF T
  <2> QED BY <1>1, <1>2, <1>3, <2>1, UpToInduction, Zenon
<1> QED BY <1>1, <1>4 DEF Keep, K

(* Keep of a list is a list of the elements that are in the set.           *)
LEMMA KeepList ==
  ASSUME NEW s, IsList(s), NEW S
  PROVE  IsList(Keep(s, S)) /\ Elems(Keep(s, S)) = Elems(s) \cap S
<1> DEFINE X == Elems(s)
<1>1. s \in Seq(X)
  BY DEF IsList
<1> HIDE DEF X
<1>2. Keep(s, S) \in Seq(X) /\ Elems(Keep(s, S)) = Elems(s) \cap S
  BY <1>1, KeepElems, Zenon
<1> QED BY <1>2, SeqIsList, Zenon

(* A list with one more at the tail.                                       *)
LEMMA ListAppend ==
  ASSUME NEW s, IsList(s), NEW e
  PROVE  /\ IsList(Append(s, e)) /\ Len(Append(s, e)) = Len(s) + 1 /\ Len(s) \in Nat
         /\ Append(s, e)[Len(s) + 1] = e /\ \A i \in 1 .. Len(s) : Append(s, e)[i] = s[i]
         /\ Elems(Append(s, e)) = Elems(s) \cup {e}
<1> DEFINE X == Elems(s) \cup {e}
<1>1. s \in Seq(X) /\ e \in X
  BY ListFacts
<1> HIDE DEF X
<1>2. Append(s, e) \in Seq(X)
  BY <1>1
<1>3. IsList(Append(s, e))
  BY <1>2, SeqIsList, Zenon
<1> QED BY <1>1, <1>3, AppendFacts, ElemsAppend

(* A list behind another.                                                  *)
LEMMA ListConcat ==
  ASSUME NEW s, IsList(s), NEW t, IsList(t)
  PROVE  /\ IsList(s \o t) /\ Len(s \o t) = Len(s) + Len(t)
         /\ \A i \in 1 .. Len(s) : (s \o t)[i] = s[i]
         /\ \A i \in 1 .. Len(s \o t) : i > Len(s) => i - Len(s) \in 1 .. Len(t)
                                                    /\ (s \o t)[i] = t[i - Len(s)]
<1> DEFINE X == Elems(s) \cup Elems(t)
<1>1. s \in Seq(X) /\ t \in Seq(X)
  BY ListFacts
<1> HIDE DEF X
<1>2. s \o t \in Seq(X)
  BY <1>1
<1>3. IsList(s \o t)
  BY <1>2, SeqIsList, Zenon
<1> QED BY <1>1, <1>3

(* What is kept of a list with one more at the tail.                       *)
LEMMA KeepAppend ==
  ASSUME NEW s, IsList(s), NEW e, NEW S, NEW R,
         \A i \in 1 .. Len(s) : s[i] \in S <=> s[i] \in R
  PROVE  Keep(Append(s, e), S) = IF e \in S THEN Append(Keep(s, R), e) ELSE Keep(s, R)
<1> DEFINE u == Append(s, e)
           n == Len(s)
           K == KeptPrefix(u, S)
<1>1. /\ IsList(u) /\ Len(u) = n + 1 /\ n \in Nat /\ u[n + 1] = e
      /\ \A i \in 1 .. n : u[i] = s[i]
  BY ListAppend
<1> HIDE DEF u
<1>2. n + 1 \in 1 .. Len(u) /\ (n + 1) - 1 = n /\ n <= n /\ n <= Len(u)
  BY <1>1
<1>3. K[n + 1] = IF e \in S THEN Append(K[n], e) ELSE K[n]
  <2>1. K[n + 1] = IF u[n + 1] \in S THEN Append(K[(n + 1) - 1], u[n + 1]) ELSE K[(n + 1) - 1]
    BY <1>1, <1>2, KeptDef
  <2> QED BY <1>1, <1>2, <2>1, Zenon
<1>4. K[n] = KeptPrefix(s, R)[n]
  <2>1. Agree(u, S, s, R, n)
    BY <1>1, Zenon DEF Agree
  <2> QED BY <1>1, <1>2, <2>1, KeptSame
<1> QED BY <1>1, <1>3, <1>4, Zenon DEF Keep, u

(* What is kept of two lists, when nothing is kept of the second.          *)
LEMMA KeepConcat ==
  ASSUME NEW s, IsList(s), NEW t, IsList(t), NEW S, NEW R,
         \A i \in 1 .. Len(s) : s[i] \in S <=> s[i] \in R,
         \A i \in 1 .. Len(t) : t[i] \notin S
  PROVE  Keep(s \o t, S) = Keep(s, R)
<1> DEFINE u == s \o t
           n == Len(s)
<1>1. /\ IsList(u) /\ \A i \in 1 .. n : u[i] = s[i]
      /\ \A i \in 1 .. Len(u) : i > n => u[i] \notin S
  BY ListConcat
<1>2. n \in Nat /\ n <= n /\ n <= Len(u)
  BY ListConcat, ListFacts
<1> HIDE DEF u
<1>3. Keep(u, S) = KeptPrefix(u, S)[n]
  BY <1>1, <1>2, KeptNone, Zenon
<1>4. KeptPrefix(u, S)[n] = KeptPrefix(s, R)[n]
  <2>1. Agree(u, S, s, R, n)
    BY <1>1, Zenon DEF Agree
  <2> QED BY <1>1, <1>2, <2>1, KeptSame
<1> QED BY <1>3, <1>4, Zenon DEF Keep, u

-----------------------------------------------------------------------------
(* Books whose ids ascend.                                                 *)

(* A list of orders whose ids ascend and are below a bound.                *)
IdList(b, bound) ==
  /\ IsList(b)
  /\ \A i \in 1 .. Len(b) : "id" \in DOMAIN b[i] /\ b[i].id \in Nat /\ b[i].id < bound
  /\ \A i, j \in 1 .. Len(b) : i < j => b[i].id < b[j].id

(* Taking orders out keeps the ids ascending.                              *)
LEMMA KeepIds ==
  ASSUME NEW b, NEW bound, IdList(b, bound), NEW S
  PROVE  IdList(Keep(b, S), bound)
<1> DEFINE X == Elems(b)
           t == Keep(b, S)
           n == Len(b)
<1>1. b \in Seq(X) /\ IsList(b)
  BY DEF IdList, IsList
<1>2. IsList(t) /\ n \in Nat
  BY <1>1, KeepList, ListFacts
<1>3. PICK pos : Embeds(pos, t, b, n, S)
  <2> HIDE DEF X
  <2> QED BY <1>1, KeepEmbeds
<1> HIDE DEF t, n
<1>4. /\ \A i \in 1 .. Len(t) : pos[i] \in 1 .. n /\ t[i] = b[pos[i]]
      /\ \A i, j \in 1 .. Len(t) : i < j => pos[i] < pos[j]
  BY <1>3, Zenon DEF Embeds
<1>5. \A i \in 1 .. Len(t) : "id" \in DOMAIN t[i] /\ t[i].id \in Nat /\ t[i].id < bound
  BY <1>4, Zenon DEF IdList, n
<1>6. \A i, j \in 1 .. Len(t) : i < j => t[i].id < t[j].id
  BY <1>4, Zenon DEF IdList, n
<1> QED BY <1>2, <1>5, <1>6, Zenon DEF IdList, t

(* An order with the next id at the tail.                                  *)
LEMMA AppendIds ==
  ASSUME NEW b, NEW k \in Nat, IdList(b, k), NEW e, "id" \in DOMAIN e, e.id = k
  PROVE  IdList(Append(b, e), k + 1)
<1> DEFINE u == Append(b, e)
           n == Len(b)
<1>1. /\ IsList(u) /\ Len(u) = n + 1 /\ n \in Nat /\ u[n + 1] = e
      /\ \A i \in 1 .. n : u[i] = b[i]
  BY ListAppend DEF IdList
<1>2. /\ \A i \in 1 .. n : "id" \in DOMAIN b[i] /\ b[i].id \in Nat /\ b[i].id < k
      /\ \A i, j \in 1 .. n : i < j => b[i].id < b[j].id
  BY DEF IdList
<1> HIDE DEF u, n
<1>3. \A i \in 1 .. n + 1 : i \in 1 .. n \/ i = n + 1
  BY <1>1
<1>4. ASSUME NEW i \in 1 .. n + 1
      PROVE  "id" \in DOMAIN u[i] /\ u[i].id \in Nat /\ u[i].id < k + 1
  BY <1>1, <1>2, <1>3
<1>5. ASSUME NEW i \in 1 .. n + 1, NEW j \in 1 .. n + 1, i < j
      PROVE  u[i].id < u[j].id
  <2>1. i \in 1 .. n
    BY <1>1, <1>5
  <2>2. u[i].id = b[i].id /\ b[i].id < k
    BY <1>1, <1>2, <2>1
  <2>3. CASE j = n + 1
    BY <1>1, <2>2, <2>3
  <2>4. CASE j \in 1 .. n
    BY <1>1, <1>2, <1>5, <2>1, <2>4
  <2> QED BY <1>3, <2>3, <2>4
<1> QED BY <1>1, <1>4, <1>5, Zenon DEF IdList, u

(* Other fields may change.                                                *)
LEMMA SameIds ==
  ASSUME NEW b, NEW k, IdList(b, k), NEW c, IsList(c), Len(c) = Len(b),
         \A i \in 1 .. Len(b) : "id" \in DOMAIN c[i] /\ c[i].id = b[i].id
  PROVE  IdList(c, k)
  BY DEF IdList

(* What a new order with the next id makes of the book.                    *)
LEMMA AfterIds ==
  ASSUME NEW b, NEW order, order.id \in Nat, "id" \in DOMAIN order, IdList(b, order.id), NEW f
  PROVE  IdList(BookAfter(b, order, f), order.id + 1)
<1> DEFINE m == Matchable(b, order.side, order.price)
           c == Filled(b, m, f)
           e == [order EXCEPT !.leaves = @ - Sum(f)]
           u == Append(c, e)
<1>1. BookAfter(b, order, f) = Keep(u, {o \in Elems(u) : o.leaves # 0})
  BY Zenon DEF BookAfter, Open
<1>2. Len(b) \in Nat /\ DOMAIN b = 1 .. Len(b) /\ \A i \in 1 .. Len(b) : "id" \in DOMAIN b[i]
  BY ListFacts DEF IdList
<1>3. IsList(c) /\ Len(c) = Len(b)
  <2>1. c \in Seq(Range(c)) /\ Len(c) = Len(b)
    BY <1>2 DEF Range, Filled
  <2> HIDE DEF c
  <2> QED BY <2>1, SeqIsList, Zenon
<1>4. \A i \in 1 .. Len(b) : "id" \in DOMAIN c[i] /\ c[i].id = b[i].id
  BY <1>2 DEF Filled
<1>5. IdList(c, order.id)
  <2> HIDE DEF c
  <2> QED BY <1>3, <1>4, SameIds, Zenon
<1>6. "id" \in DOMAIN e /\ e.id = order.id
  OBVIOUS
<1>7. IdList(u, order.id + 1)
  <2> HIDE DEF c, e
  <2> QED BY <1>5, <1>6, AppendIds, Zenon
<1> HIDE DEF u
<1> QED BY <1>1, <1>7, KeepIds, Zenon

-----------------------------------------------------------------------------
(* Ids and the lock.                                                       *)

Holding == {"locked", "numbered"}

(* A thread between Lock and Unlock holds book_mu_, and no other does.     *)
Alone ==
  /\ DOMAIN pc = Sessions /\ DOMAIN id = Sessions
  /\ \A s \in Sessions : pc[s] \in Holding => lock = {s}

(* The ids of the book ascend, and all are below next_order_id_.  Between  *)
(* the fetch of an id and the submit, that id is the last one, and still   *)
(* above those in the book.                                                *)
Numbered(b, e, k) == IdList(b, k) /\ \A o \in DOMAIN e : o \in Nat /\ o < k

Numbers ==
  /\ nextId \in Nat /\ Numbered(book, entered, nextId)
  /\ \A s \in Sessions :
       pc[s] = "numbered" => id[s] \in Nat /\ nextId = id[s] + 1 /\ Numbered(book, entered, id[s])

IdInv == Alone /\ Numbers

(* A bound may be raised.                                                  *)
LEMMA NumberedMore ==
  ASSUME NEW b, NEW e, NEW k \in Nat, Numbered(b, e, k)
  PROVE  Numbered(b, e, k + 1)
<1>1. \A i \in 1 .. Len(b) : b[i].id \in Nat /\ b[i].id < k => b[i].id < k + 1
  OBVIOUS
<1>2. IdList(b, k + 1)
  BY <1>1, Zenon DEF Numbered, IdList
<1>3. \A o \in DOMAIN e : o \in Nat /\ o < k + 1
  BY DEF Numbered
<1> QED BY <1>2, <1>3 DEF Numbered

(* Ids and the lock are not touched, and no thread gets to hold it.        *)
LEMMA Elsewhere ==
  ASSUME IdInv, UNCHANGED <<book, nextId, lock, entered, id>>, NEW s \in Sessions,
         pc' = pc \/ \E place : place \notin Holding /\ pc' = [pc EXCEPT ![s] = place]
  PROVE  IdInv'
<1>1. DOMAIN pc' = Sessions /\ \A t \in Sessions : pc'[t] \in Holding => pc'[t] = pc[t]
  BY DEF IdInv, Alone
<1>2. Alone'
  BY <1>1 DEF IdInv, Alone
<1>3. Numbers'
  BY <1>1 DEF IdInv, Numbers, Holding
<1> QED BY <1>2, <1>3 DEF IdInv

(* The next id is fetched by the thread that holds the lock.               *)
LEMMA FetchIdKeeps ==
  ASSUME IdInv, NEW s \in Sessions, FetchId(s)
  PROVE  IdInv'
<1>1. /\ pc[s] = "locked" /\ id' = [id EXCEPT ![s] = nextId] /\ nextId' = nextId + 1
      /\ pc' = [pc EXCEPT ![s] = "numbered"] /\ UNCHANGED <<book, lock, entered>>
  BY DEF FetchId, Goto
<1>2. DOMAIN pc = Sessions /\ DOMAIN id = Sessions /\ lock = {s}
  BY <1>1 DEF IdInv, Alone, Holding
<1>3. \A t \in Sessions : t # s => pc[t] \notin Holding
  BY <1>2 DEF IdInv, Alone
<1>4. /\ pc'[s] = "numbered" /\ id'[s] = nextId
      /\ \A t \in Sessions : t # s => pc'[t] \notin Holding
  BY <1>1, <1>2, <1>3
<1>5. Alone'
  BY <1>1, <1>2, <1>4 DEF Alone
<1>6. nextId \in Nat /\ Numbered(book, entered, nextId) /\ Numbered(book, entered, nextId + 1)
  BY NumberedMore DEF IdInv, Numbers
<1> QED BY <1>1, <1>4, <1>5, <1>6 DEF IdInv, Numbers, Holding

(* The end of the locked block: the lock is free again, and no other       *)
(* thread had it.                                                          *)
LEMMA UnlockKeeps ==
  ASSUME IdInv, NEW s \in Sessions, pc[s] \in Holding, pc' = [pc EXCEPT ![s] = "report"],
         lock' = lock \ {s}, DOMAIN id' = Sessions, nextId' = nextId,
         Numbered(book, entered, nextId)'
  PROVE  IdInv'
<1>1. DOMAIN pc = Sessions /\ lock = {s}
  BY DEF IdInv, Alone
<1>2. \A t \in Sessions : pc'[t] \notin Holding
  BY <1>1 DEF IdInv, Alone, Holding
<1> QED BY <1>1, <1>2 DEF IdInv, Alone, Numbers, Holding

(* A submit gives the book an order with the last id.                      *)
LEMMA SubmitKeeps ==
  ASSUME IdInv, NEW s \in Sessions, Submit(s)
  PROVE  IdInv'
<1> DEFINE req == Head(chunk[s])
           order == [id |-> id[s], key |-> req.key, side |-> req.side, price |-> req.price,
                     leaves |-> req.qty]
<1>1. PICK f : book' = BookAfter(book, order, f) /\ lock' = lock \ {s}
               /\ pc' = [pc EXCEPT ![s] = "report"]
  BY Zenon DEF Submit, Unlock, Goto
<1>2. /\ pc[s] = "numbered" /\ id' = [id EXCEPT ![s] = 0] /\ nextId' = nextId
      /\ DOMAIN entered' = DOMAIN entered \cup {id[s]}
  BY Zenon DEF Submit
<1>3. id[s] \in Nat /\ nextId = id[s] + 1 /\ Numbered(book, entered, id[s])
  BY <1>2, Zenon DEF IdInv, Numbers
<1>4. order.id = id[s] /\ "id" \in DOMAIN order
  OBVIOUS
<1> HIDE DEF order
<1>5. IdList(book', nextId)
  BY <1>1, <1>3, <1>4, AfterIds DEF Numbered
<1>6. \A o \in DOMAIN entered' : o \in Nat /\ o < nextId
  BY <1>2, <1>3 DEF Numbered
<1>7. Numbered(book, entered, nextId)'
  BY <1>2, <1>5, <1>6 DEF Numbered
<1>8. DOMAIN id' = Sessions /\ pc[s] \in Holding
  BY <1>2 DEF IdInv, Alone, Holding
<1> QED BY <1>1, <1>2, <1>7, <1>8, UnlockKeeps, Zenon

(* A cancel takes an order out of it.                                      *)
LEMMA CancelKeeps ==
  ASSUME IdInv, NEW s \in Sessions, Cancel(s)
  PROVE  IdInv'
<1>1. \E S : book' = Keep(book, S)
  BY Zenon DEF Cancel, BookWithout
<1>2. /\ pc[s] = "locked" /\ lock' = lock \ {s} /\ pc' = [pc EXCEPT ![s] = "report"]
      /\ UNCHANGED <<nextId, entered, id>>
  BY Zenon DEF Cancel, Unlock, Goto
<1>3. Numbered(book, entered, nextId)'
  BY <1>1, <1>2, KeepIds DEF IdInv, Numbers, Numbered
<1>4. DOMAIN id' = Sessions /\ pc[s] \in Holding
  BY <1>2 DEF IdInv, Alone, Holding
<1> QED BY <1>2, <1>3, <1>4, UnlockKeeps, Zenon

(* No thread holds the lock, no order has an id.                           *)
LEMMA InitIds == Init => IdInv
<1> SUFFICES ASSUME Init PROVE IdInv
  OBVIOUS
<1>1. /\ book = <<>> /\ nextId = 1 /\ entered = <<>>
      /\ pc = [s \in Sessions |-> "poll"] /\ id = [s \in Sessions |-> 0]
  BY Zenon DEF Init
<1>2. IdList(<<>>, 1) /\ DOMAIN <<>> = {}
  BY DEF IdList, IsList, Elems
<1> QED BY <1>1, <1>2 DEF IdInv, Alone, Numbers, Numbered, Holding

(* Every step of every thread keeps the invariant.                         *)
LEMMA NextIds == IdInv /\ [Next]_vars => IdInv'
<1> SUFFICES ASSUME IdInv, [Next]_vars PROVE IdInv'
  OBVIOUS
<1>1. CASE UNCHANGED vars
  BY <1>1 DEF vars, shared, counters, IdInv, Alone, Numbers
<1>2. ASSUME NEW s \in Sessions, NEW reqs, NEW n, NEW close, Recv(s, reqs, n, close)
      PROVE  IdInv'
  BY <1>2, Elsewhere, Zenon DEF Recv, Goto, shared, Holding
<1>3. ASSUME NEW s \in Sessions, NEW ok, WriteReply(s, ok) \/ Report(s, ok) PROVE IdInv'
  BY <1>3, Elsewhere DEF WriteReply, Report, shared
<1>4. ASSUME NEW s \in Sessions, Lock(s) PROVE IdInv'
  <2>1. /\ lock = {} /\ lock' = {s} /\ pc' = [pc EXCEPT ![s] = "locked"]
        /\ UNCHANGED <<book, nextId, entered, id>>
    BY <1>4 DEF Lock, Goto
  <2>2. DOMAIN pc = Sessions /\ \A t \in Sessions : pc[t] \notin Holding
    BY <2>1 DEF IdInv, Alone
  <2> QED BY <2>1, <2>2 DEF IdInv, Alone, Numbers, Holding
<1>5. ASSUME NEW s \in Sessions, Replace(s) PROVE IdInv'
  <2>1. /\ pc[s] \in Holding /\ lock' = lock \ {s} /\ pc' = [pc EXCEPT ![s] = "report"]
        /\ UNCHANGED <<book, nextId, entered, id>>
    BY <1>5 DEF Replace, Unlock, Goto, Holding
  <2>2. Numbered(book, entered, nextId)' /\ DOMAIN id' = Sessions
    BY <2>1 DEF IdInv, Numbers, Alone
  <2> QED BY <2>1, <2>2, UnlockKeeps, Zenon
<1>6. ASSUME NEW s \in Sessions, EndTurn(s) PROVE IdInv'
  BY <1>6, Elsewhere, Zenon DEF EndTurn, Goto, shared, Holding
<1>7. ASSUME NEW s \in Sessions, Hangup(s) PROVE IdInv'
  BY <1>7, Elsewhere, Zenon DEF Hangup, Goto, shared, Holding
<1>8. ASSUME NEW s \in Sessions, PeerCloses(s) PROVE IdInv'
  BY <1>8, Elsewhere DEF PeerCloses, shared
<1>9. CASE Next
  BY <1>9, <1>2, <1>3, <1>4, <1>5, <1>6, <1>7, <1>8, FetchIdKeeps, SubmitKeeps, CancelKeeps, Zenon
     DEF Next, Thread
<1> QED BY <1>1, <1>9

(* Ids tell the order of arrival at the book: for any number of threads    *)
(* and requests, the open orders by arrival have ascending ids, because    *)
(* session_loop fetches the id and calls submit under one lock.            *)
THEOREM ArrivalOrder == Spec => []IdsFollowArrival
<1>1. IdInv => IdsFollowArrival
  BY ListFacts DEF IdInv, Numbers, Numbered, IdList, IdsFollowArrival
<1> QED BY <1>1, InitIds, NextIds, PTL DEF Spec

-----------------------------------------------------------------------------
(* Acknowledgements.                                                       *)

(* ReportsOf, and the ids of the Acks among them, for a wire w and events  *)
(* e that wait.                                                            *)
Reports(w, e) == Keep(w, {m \in Elems(w) : m.type # "Reply"}) \o e
AcksIn(r) == Keep(r, {m \in Elems(r) : m.type = "Ack"})
IdsIn(a) == [i \in 1 .. Len(a) |-> a[i].id]
AckIds(w, e) == IdsIn(AcksIn(Reports(w, e)))

NoAck(e) == IsList(e) /\ \A i \in 1 .. Len(e) : e[i].type # "Ack"

(* What is kept of w with a message more.                                  *)
LEMMA KeepWritten ==
  ASSUME NEW w, IsList(w), NEW m
  PROVE  Keep(Append(w, m), {x \in Elems(Append(w, m)) : x.type # "Reply"}) =
           IF m.type # "Reply" THEN Append(Keep(w, {x \in Elems(w) : x.type # "Reply"}), m)
           ELSE Keep(w, {x \in Elems(w) : x.type # "Reply"})
<1> DEFINE S == {x \in Elems(Append(w, m)) : x.type # "Reply"}
           R == {x \in Elems(w) : x.type # "Reply"}
<1>1. Elems(Append(w, m)) = Elems(w) \cup {m}
  BY ListAppend
<1>2. \A i \in 1 .. Len(w) : w[i] \in Elems(w)
  BY DEF Elems
<1>3. \A i \in 1 .. Len(w) : w[i] \in S <=> w[i] \in R
  BY <1>1, <1>2
<1>4. m \in S <=> m.type # "Reply"
  BY <1>1
<1> HIDE DEF S, R
<1>5. Keep(Append(w, m), S) = IF m \in S THEN Append(Keep(w, R), m) ELSE Keep(w, R)
  BY <1>3, KeepAppend
<1> QED BY <1>4, <1>5, Zenon DEF S, R

(* A reply of the session is no report.                                    *)
LEMMA ReplyWritten ==
  ASSUME NEW w, IsList(w), NEW e
  PROVE  Reports(Append(w, [type |-> "Reply"]), e) = Reports(w, e)
<1> DEFINE m == [type |-> "Reply"]
<1>1. m.type = "Reply"
  OBVIOUS
<1> HIDE DEF m
<1> QED BY <1>1, KeepWritten, Zenon DEF Reports, m

(* A report that is written is still one of the reports.                   *)
LEMMA ReportWritten ==
  ASSUME NEW w, IsList(w), NEW e, IsList(e), e # <<>>, Head(e).type # "Reply"
  PROVE  Reports(Append(w, Head(e)), Tail(e)) = Reports(w, e)
<1> DEFINE k == Keep(w, {m \in Elems(w) : m.type # "Reply"})
           X == Elems(k) \cup Elems(e)
<1>1. IsList(k)
  BY KeepList
<1>2. Reports(Append(w, Head(e)), Tail(e)) = Append(k, Head(e)) \o Tail(e)
  BY KeepWritten, Zenon DEF Reports
<1> HIDE DEF k
<1>3. k \in Seq(X) /\ e \in Seq(X)
  BY <1>1, ListFacts
<1> HIDE DEF X
<1>4. Append(k, Head(e)) \o Tail(e) = k \o e
  BY <1>3
<1> QED BY <1>2, <1>4, Zenon DEF Reports, k

(* Acks among the reports, when none or one more waits.                    *)
LEMMA AcksNone ==
  ASSUME NEW w, IsList(w), NEW e, NoAck(e)
  PROVE  AcksIn(Reports(w, e)) = AcksIn(Reports(w, <<>>))
<1> DEFINE k == Keep(w, {m \in Elems(w) : m.type # "Reply"})
           r == k \o e
           S == {m \in Elems(r) : m.type = "Ack"}
           R == {m \in Elems(k) : m.type = "Ack"}
<1>1. IsList(k) /\ IsList(e)
  BY KeepList DEF NoAck
<1> HIDE DEF k
<1>2. k \o <<>> = k
  BY <1>1 DEF IsList
<1>3. Len(k) \in Nat /\ \A i \in 1 .. Len(k) : i \in 1 .. Len(r) /\ r[i] = k[i]
  BY <1>1, ListConcat, ListFacts
<1>4. \A i \in 1 .. Len(k) : k[i] \in S <=> k[i] \in R
  <2> HIDE DEF r
  <2> QED BY <1>3 DEF Elems
<1>5. \A i \in 1 .. Len(e) : e[i] \notin S
  BY DEF NoAck
<1> HIDE DEF S, R
<1>6. Keep(r, S) = Keep(k, R)
  BY <1>1, <1>4, <1>5, KeepConcat
<1> QED BY <1>2, <1>6, Zenon DEF AcksIn, Reports, S, R, k

(* One more Ack, and reports of other kinds behind it.                     *)
LEMMA AcksMore ==
  ASSUME NEW w, IsList(w), NEW a, a.type = "Ack", NEW t, NoAck(t)
  PROVE  AcksIn(Reports(w, <<a>> \o t)) = Append(AcksIn(Reports(w, <<>>)), a)
<1> DEFINE k == Keep(w, {m \in Elems(w) : m.type # "Reply"})
           l == Append(k, a)
           r == l \o t
           S == {m \in Elems(r) : m.type = "Ack"}
           Q == {m \in Elems(l) : m.type = "Ack"}
           R == {m \in Elems(k) : m.type = "Ack"}
           X == Elems(k) \cup Elems(t) \cup {a}
<1>1. IsList(k) /\ IsList(t)
  BY KeepList DEF NoAck
<1> HIDE DEF k
<1>2. k \o <<>> = k /\ k \o (<<a>> \o t) = r
  <2>1. k \in Seq(X) /\ t \in Seq(X) /\ a \in X
    BY <1>1, ListFacts
  <2> HIDE DEF X
  <2> QED BY <2>1
<1>3. IsList(l) /\ Elems(l) = Elems(k) \cup {a}
  BY <1>1, ListAppend
<1> HIDE DEF l
<1>4. Len(l) \in Nat /\ \A i \in 1 .. Len(l) : i \in 1 .. Len(r) /\ r[i] = l[i]
  BY <1>1, <1>3, ListConcat, ListFacts
<1>5. \A i \in 1 .. Len(l) : l[i] \in S <=> l[i] \in Q
  <2> HIDE DEF r
  <2> QED BY <1>4 DEF Elems
<1>6. \A i \in 1 .. Len(t) : t[i] \notin S
  BY DEF NoAck
<1>7. a \in Q /\ \A i \in 1 .. Len(k) : k[i] \in Q <=> k[i] \in R
  BY <1>3, Zenon DEF Elems
<1> HIDE DEF S, Q, R
<1>8. Keep(r, S) = Keep(l, Q)
  BY <1>1, <1>3, <1>5, <1>6, KeepConcat
<1>9. Keep(l, Q) = Append(Keep(k, R), a)
  BY <1>1, <1>7, KeepAppend DEF l
<1>10. AcksIn(Reports(w, <<a>> \o t)) = Keep(r, S)
  BY <1>2, Zenon DEF AcksIn, Reports, S, k
<1>11. AcksIn(Reports(w, <<>>)) = Keep(k, R)
  BY <1>2, Zenon DEF AcksIn, Reports, R, k
<1> QED BY <1>8, <1>9, <1>10, <1>11, Zenon

(* The Acks of a client are its orders S, in the order of the ids.         *)
Acked(ids, S) == Ascending(ids) /\ Elems(ids) = S

(* One more, with an id above the others.                                  *)
LEMMA AckedMore ==
  ASSUME NEW a, IsList(a), NEW S, Acked(IdsIn(a), S), NEW m, m.id \in Nat,
         \A o \in S : o \in Nat /\ o < m.id
  PROVE  Acked(IdsIn(Append(a, m)), S \cup {m.id})
<1> DEFINE n == Len(a)
           u == Append(a, m)
           ids == IdsIn(a)
           v == IdsIn(u)
<1>1. /\ n \in Nat /\ Len(u) = n + 1 /\ u[n + 1] = m
      /\ \A i \in 1 .. n : u[i] = a[i]
  BY ListAppend
<1> HIDE DEF u, n
<1>2. /\ Len(ids) = n /\ \A i \in 1 .. n : ids[i] = a[i].id
      /\ Len(v) = n + 1 /\ \A i \in 1 .. n + 1 : v[i] = u[i].id
  BY <1>1 DEF IdsIn, n
<1> HIDE DEF ids, v
<1>3. /\ \A i, j \in 1 .. n : i < j => ids[i] < ids[j]
      /\ S = {ids[i] : i \in 1 .. n}
  BY <1>2, Zenon DEF Acked, Ascending, Elems, ids
<1>4. v[n + 1] = m.id /\ \A i \in 1 .. n : v[i] = ids[i] /\ ids[i] \in S
  BY <1>1, <1>2, <1>3
<1>5. \A i \in 1 .. n + 1 : i \in 1 .. n \/ i = n + 1
  BY <1>1
<1>6. Elems(v) = S \cup {m.id}
  <2>1. n + 1 \in 1 .. n + 1 /\ \A i \in 1 .. n : i \in 1 .. n + 1
    BY <1>1
  <2>2. \A x : x \in Elems(v) <=> \E i \in 1 .. n + 1 : x = v[i]
    BY <1>2, Zenon DEF Elems
  <2>3. \A x : x \in S <=> \E i \in 1 .. n : x = ids[i]
    BY <1>3, Zenon
  <2>4. ASSUME NEW x \in Elems(v) PROVE x \in S \cup {m.id}
    BY <1>4, <1>5, <2>2
  <2>5. ASSUME NEW x \in S \cup {m.id} PROVE x \in Elems(v)
    <3>1. \E i \in 1 .. n + 1 : x = v[i]
      BY <1>4, <2>1, <2>3
    <3> QED BY <2>2, <3>1, Zenon
  <2> QED BY <2>4, <2>5, Zenon
<1>7. ASSUME NEW i \in 1 .. n + 1, NEW j \in 1 .. n + 1, i < j PROVE v[i] < v[j]
  <2>1. i \in 1 .. n
    BY <1>1, <1>7
  <2>2. CASE j = n + 1
    BY <1>4, <2>1, <2>2
  <2>3. CASE j \in 1 .. n
    BY <1>3, <1>4, <1>7, <2>1, <2>3
  <2> QED BY <1>5, <2>2, <2>3
<1> QED BY <1>2, <1>6, <1>7, Zenon DEF Acked, Ascending, v, u

(* The events ev are an Ack, then trades.                                  *)
AckThenTrades(ev, ack) ==
  \E t : ev = <<ack>> \o t /\ IsList(t) /\ \A i \in 1 .. Len(t) : t[i].type = "Trade"

(* Such are those of a submit.                                             *)
LEMMA EventsFacts ==
  ASSUME NEW b, IsList(b), NEW order, NEW f
  PROVE  AckThenTrades(EventsOf(b, order, f), [type |-> "Ack", id |-> order.id])
<1> DEFINE q == Queue(b, order)
           trades == Trades(order, q, f)
           S == {t \in Elems(trades) : t.qty # 0}
           open == Crossing(b, order.side, order.price)
<1>1. Cardinality(open) \in Nat
  <2>1. Len(b) \in Nat /\ DOMAIN b = 1 .. Len(b)
    BY ListFacts
  <2>2. IsFiniteSet(1 .. Len(b))
    BY <2>1, FS_Interval
  <2>3. open \in SUBSET (1 .. Len(b))
    BY <2>1 DEF Crossing
  <2> HIDE DEF open
  <2>4. IsFiniteSet(open)
    BY <2>2, <2>3, FS_Subset, Zenon
  <2> QED BY <2>4, FS_CardinalityType
<1>2. DOMAIN q = 1 .. Cardinality(open)
  BY DEF Queue, Matchable
<1> HIDE DEF q, open
<1>3. IsList(trades) /\ \A i \in 1 .. Len(trades) : trades[i].type = "Trade"
  <2> DEFINE n == Cardinality(open)
  <2>1. DOMAIN trades = 1 .. n /\ \A i \in 1 .. n : trades[i].type = "Trade"
    BY <1>2 DEF Trades
  <2>2. trades \in [1 .. n -> Range(trades)] /\ Len(trades) = n
    BY <1>1, <2>1 DEF Range, Trades
  <2> HIDE DEF trades, n
  <2>3. trades \in Seq(Range(trades))
    BY <1>1, <2>2 DEF n
  <2> QED BY <2>1, <2>2, <2>3, SeqIsList, Zenon
<1>4. EventsOf(b, order, f) = <<[type |-> "Ack", id |-> order.id]>> \o Keep(trades, S)
  BY Zenon DEF EventsOf, q
<1> HIDE DEF trades, S
<1>5. IsList(Keep(trades, S)) /\ Elems(Keep(trades, S)) \subseteq Elems(trades)
  BY <1>3, KeepList
<1>6. \A i \in 1 .. Len(Keep(trades, S)) : Keep(trades, S)[i].type = "Trade"
  BY <1>3, <1>5 DEF Elems
<1> QED BY <1>4, <1>5, <1>6, Zenon DEF AckThenTrades

(* The reports of a session with wire w, events e and client up or not:    *)
(* events wait only in the loop that writes them, none is a reply, and a   *)
(* client that is there has been or will be sent the Acks of its orders S. *)
InStep(w, e, there, place, S) ==
  /\ IsList(w) /\ IsList(e)
  /\ e # <<>> => place = "report"
  /\ \A i \in 1 .. Len(e) : e[i].type # "Reply"
  /\ there => Acked(AckIds(w, e), S)

OrdersOf(e, s) == {o \in DOMAIN e : e[o].session = s}

AckInv ==
  /\ DOMAIN wire = Sessions /\ DOMAIN events = Sessions /\ DOMAIN up = Sessions
  /\ \A s \in Sessions :
       InStep(wire[s], events[s], up[s], pc[s], OrdersOf(entered, s))

(* A step of s leaves the other sessions alone.                            *)
SameButFor(s) ==
  \A t \in Sessions :
    t # s => /\ wire'[t] = wire[t] /\ events'[t] = events[t] /\ up'[t] = up[t]
             /\ pc'[t] = pc[t] /\ OrdersOf(entered', t) = OrdersOf(entered, t)

(* It is enough to look at s.                                              *)
LEMMA AckStep ==
  ASSUME AckInv, NEW s \in Sessions, SameButFor(s),
         DOMAIN wire' = Sessions, DOMAIN events' = Sessions, DOMAIN up' = Sessions,
         InStep(wire'[s], events'[s], up'[s], pc'[s], OrdersOf(entered', s))
  PROVE  AckInv'
<1>1. ASSUME NEW t \in Sessions
      PROVE  InStep(wire'[t], events'[t], up'[t], pc'[t], OrdersOf(entered', t))
  <2>1. CASE t = s
    BY <2>1
  <2>2. CASE t # s
    BY <2>2, Zenon DEF AckInv, SameButFor
  <2> QED BY <2>1, <2>2
<1> QED BY <1>1, Zenon DEF AckInv

(* What a write does to the wires.                                         *)
LEMMA WriteFacts ==
  ASSUME AckInv, NEW s \in Sessions, NEW msg, NEW ok \in BOOLEAN, Write(s, msg, ok)
  PROVE  /\ DOMAIN wire' = Sessions /\ \A t \in Sessions : t # s => wire'[t] = wire[t]
         /\ wire'[s] = IF up[s] THEN Append(wire[s], msg) ELSE wire[s]
         /\ up[s] => ok
  BY DEF AckInv, Write

(* No session's Acks change when no report or order does.                  *)
LEMMA Quiet ==
  ASSUME AckInv, DOMAIN pc = Sessions, NEW s \in Sessions, UNCHANGED <<wire, events, up, entered>>,
         pc' = pc \/ (events[s] = <<>> /\ \E place : pc' = [pc EXCEPT ![s] = place])
  PROVE  AckInv'
<1>1. SameButFor(s)
  BY DEF SameButFor
<1>2. InStep(wire[s], events[s], up[s], pc[s], OrdersOf(entered, s))
  BY Zenon DEF AckInv
<1>3. InStep(wire'[s], events'[s], up'[s], pc'[s], OrdersOf(entered', s))
  BY <1>2 DEF InStep
<1>4. DOMAIN wire' = Sessions /\ DOMAIN events' = Sessions /\ DOMAIN up' = Sessions
  BY DEF AckInv
<1> QED BY <1>1, <1>3, <1>4, AckStep

(* A reply is written.                                                     *)
LEMMA WriteReplyAcks ==
  ASSUME AckInv, NEW s \in Sessions, NEW ok \in BOOLEAN, WriteReply(s, ok)
  PROVE  AckInv'
<1>1. Write(s, [type |-> "Reply"], ok) /\ UNCHANGED <<pc, events, up, entered>>
  BY DEF WriteReply, shared
<1>2. /\ DOMAIN wire' = Sessions /\ \A t \in Sessions : t # s => wire'[t] = wire[t]
      /\ wire'[s] = IF up[s] THEN Append(wire[s], [type |-> "Reply"]) ELSE wire[s]
  BY <1>1, WriteFacts
<1>3. SameButFor(s)
  BY <1>1, <1>2 DEF SameButFor
<1>4. InStep(wire[s], events[s], up[s], pc[s], OrdersOf(entered, s))
  BY Zenon DEF AckInv
<1>5. IsList(wire'[s]) /\ Reports(wire'[s], events[s]) = Reports(wire[s], events[s])
  <2>1. IsList(wire[s])
    BY <1>4 DEF InStep
  <2>2. CASE up[s]
    BY <1>2, <2>1, <2>2, ListAppend, ReplyWritten
  <2>3. CASE ~up[s]
    BY <1>2, <2>1, <2>3
  <2> QED BY <2>2, <2>3
<1>6. InStep(wire'[s], events'[s], up'[s], pc'[s], OrdersOf(entered', s))
  BY <1>1, <1>4, <1>5, Zenon DEF InStep, AckIds
<1>7. DOMAIN events' = Sessions /\ DOMAIN up' = Sessions
  BY <1>1 DEF AckInv
<1> QED BY <1>2, <1>3, <1>6, <1>7, AckStep, Zenon

(* A report is written, or the reports are given up.                       *)
LEMMA ReportAcks ==
  ASSUME AckInv, NEW s \in Sessions, NEW ok \in BOOLEAN, Report(s, ok)
  PROVE  AckInv'
<1> DEFINE w == wire[s]
           e == events[s]
<1>1. /\ Write(s, Head(e), ok) /\ pc[s] = "report" /\ e # <<>>
      /\ events' = [events EXCEPT ![s] = IF ok THEN Tail(e) ELSE <<>>]
      /\ UNCHANGED <<pc, up, entered>>
  BY DEF Report, shared
<1>2. /\ DOMAIN wire' = Sessions /\ \A t \in Sessions : t # s => wire'[t] = wire[t]
      /\ wire'[s] = IF up[s] THEN Append(w, Head(e)) ELSE w
      /\ up[s] => ok
  BY <1>1, WriteFacts
<1>3. /\ DOMAIN events' = Sessions /\ \A t \in Sessions : t # s => events'[t] = events[t]
      /\ events'[s] = IF ok THEN Tail(e) ELSE <<>>
  BY <1>1 DEF AckInv
<1>4. SameButFor(s)
  BY <1>1, <1>2, <1>3 DEF SameButFor
<1>5. InStep(w, e, up[s], pc[s], OrdersOf(entered, s))
  BY Zenon DEF AckInv
<1> HIDE DEF w, e
<1>6. /\ IsList(w) /\ IsList(e) /\ \A i \in 1 .. Len(e) : e[i].type # "Reply"
      /\ up[s] => Acked(AckIds(w, e), OrdersOf(entered, s))
  BY <1>5 DEF InStep
<1>7. /\ IsList(Tail(e)) /\ \A i \in 1 .. Len(Tail(e)) : Tail(e)[i].type # "Reply"
      /\ Head(e).type # "Reply"
  <2> DEFINE X == Elems(e)
  <2>1. e \in Seq(X)
    BY <1>6 DEF IsList
  <2> HIDE DEF X
  <2>2. Tail(e) \in Seq(X)
    BY <1>1, <2>1
  <2>3. IsList(Tail(e))
    BY <2>2, SeqIsList, Zenon
  <2> QED BY <1>1, <1>6, <2>1, <2>3
<1>8. IsList(<<>>)
  BY DEF IsList, Elems
<1>9. IsList(wire'[s])
  BY <1>2, <1>6, ListAppend
<1>10. ASSUME up[s] PROVE Reports(wire'[s], events'[s]) = Reports(w, e)
  <2>1. wire'[s] = Append(w, Head(e)) /\ events'[s] = Tail(e)
    BY <1>2, <1>3, <1>10
  <2> QED BY <1>1, <1>6, <1>7, <2>1, ReportWritten, Zenon
<1>11. InStep(wire'[s], events'[s], up'[s], pc'[s], OrdersOf(entered', s))
  <2>1. IsList(events'[s]) /\ \A i \in 1 .. Len(events'[s]) : events'[s][i].type # "Reply"
    BY <1>3, <1>7, <1>8
  <2>2. up'[s] => Acked(AckIds(wire'[s], events'[s]), OrdersOf(entered', s))
    BY <1>1, <1>6, <1>10, Zenon DEF AckIds
  <2> QED BY <1>1, <1>9, <2>1, <2>2, Zenon DEF InStep
<1>12. DOMAIN up' = Sessions
  BY <1>1 DEF AckInv
<1> QED BY <1>2, <1>3, <1>4, <1>11, <1>12, AckStep, Zenon

(* The locked block of s ends with the events ev: S are then its orders.   *)
LEMMA UnlockAcks ==
  ASSUME AckInv, DOMAIN pc = Sessions, NEW s \in Sessions, NEW ev, Unlock(s, ev), IsList(ev),
         \A i \in 1 .. Len(ev) : ev[i].type # "Reply",
         up[s] => Acked(AckIds(wire[s], ev), OrdersOf(entered', s)),
         \A t \in Sessions : t # s => OrdersOf(entered', t) = OrdersOf(entered, t)
  PROVE  AckInv'
<1>1. /\ events' = [events EXCEPT ![s] = ev] /\ pc' = [pc EXCEPT ![s] = "report"]
      /\ wire' = wire /\ up' = up
  BY DEF Unlock, Goto
<1>2. DOMAIN wire' = Sessions /\ DOMAIN events' = Sessions /\ DOMAIN up' = Sessions
  BY <1>1 DEF AckInv
<1>3. SameButFor(s)
  BY <1>1 DEF SameButFor
<1>4. events'[s] = ev /\ pc'[s] = "report"
  BY <1>1 DEF AckInv
<1>5. IsList(wire[s])
  BY DEF AckInv, InStep
<1>6. InStep(wire'[s], events'[s], up'[s], pc'[s], OrdersOf(entered', s))
  BY <1>1, <1>4, <1>5, Zenon DEF InStep
<1> QED BY <1>2, <1>3, <1>6, AckStep, Zenon

(* A message that is not an order, with events that are not Acks.          *)
LEMMA OtherAcks ==
  ASSUME AckInv, DOMAIN pc = Sessions, NEW s \in Sessions, pc[s] # "report",
         NEW ev, Unlock(s, ev), NoAck(ev),
         \A i \in 1 .. Len(ev) : ev[i].type # "Reply", entered' = entered
  PROVE  AckInv'
<1>1. InStep(wire[s], events[s], up[s], pc[s], OrdersOf(entered, s))
  BY Zenon DEF AckInv
<1>2. events[s] = <<>> /\ IsList(wire[s])
  BY <1>1 DEF InStep
<1>3. AckIds(wire[s], ev) = AckIds(wire[s], <<>>)
  BY <1>2, AcksNone, Zenon DEF AckIds
<1>4. up[s] => Acked(AckIds(wire[s], ev), OrdersOf(entered', s))
  BY <1>1, <1>2, <1>3, Zenon DEF InStep
<1>5. IsList(ev)
  BY DEF NoAck
<1> QED BY <1>4, <1>5, UnlockAcks

(* A submit: the order gets an id above those of its session, and an Ack.  *)
LEMMA SubmitAcks ==
  ASSUME AckInv, IdInv, NEW s \in Sessions, Submit(s)
  PROVE  AckInv'
<1> DEFINE req == Head(chunk[s])
           order == [id |-> id[s], key |-> req.key, side |-> req.side, price |-> req.price,
                     leaves |-> req.qty]
           w == wire[s]
           S == OrdersOf(entered, s)
           a == [type |-> "Ack", id |-> id[s]]
<1>1. PICK f : Unlock(s, EventsOf(book, order, f))
  BY Zenon DEF Submit
<1>2. /\ pc[s] = "numbered"
      /\ entered' = [o \in DOMAIN entered \cup {id[s]} |->
                       IF o = id[s] THEN [session |-> s, key |-> req.key, qty |-> req.qty]
                       ELSE entered[o]]
  BY Zenon DEF Submit
<1>3. id[s] \in Nat /\ Numbered(book, entered, id[s])
  BY <1>2, Zenon DEF IdInv, Numbers
<1>4. IsList(book) /\ \A o \in DOMAIN entered : o \in Nat /\ o < id[s]
  BY <1>3 DEF Numbered, IdList
<1>5. DOMAIN pc = Sessions
  BY DEF IdInv, Alone
<1>6. order.id = id[s]
  OBVIOUS
<1>7. /\ OrdersOf(entered', s) = S \cup {id[s]}
      /\ \A t \in Sessions : t # s => OrdersOf(entered', t) = OrdersOf(entered, t)
  <2>1. id[s] \notin DOMAIN entered
    BY <1>3, <1>4
  <2> QED BY <1>2, <2>1, Zenon DEF OrdersOf
<1>8. \A o \in S : o \in Nat /\ o < id[s]
  BY <1>4 DEF OrdersOf
<1> HIDE DEF order, S
<1>9. PICK t : /\ EventsOf(book, order, f) = <<a>> \o t
               /\ IsList(t) /\ \A i \in 1 .. Len(t) : t[i].type = "Trade"
  <2>1. AckThenTrades(EventsOf(book, order, f), [type |-> "Ack", id |-> order.id])
    BY <1>4, EventsFacts, Zenon
  <2> QED BY <1>6, <2>1, Zenon DEF AckThenTrades
<1>10. InStep(w, events[s], up[s], pc[s], S)
  BY Zenon DEF AckInv, S
<1>11. IsList(w) /\ (up[s] => Acked(AckIds(w, <<>>), S))
  BY <1>2, <1>10 DEF InStep
<1> HIDE DEF w
<1>12. NoAck(t)
  BY <1>9, Zenon DEF NoAck
<1>13. a.type = "Ack" /\ a.id = id[s]
  OBVIOUS
<1> HIDE DEF a
<1>14. AcksIn(Reports(w, <<a>> \o t)) = Append(AcksIn(Reports(w, <<>>)), a)
  BY <1>11, <1>12, <1>13, AcksMore
<1>15. IsList(AcksIn(Reports(w, <<>>)))
  <2>1. IsList(<<>>)
    BY DEF IsList, Elems
  <2>2. IsList(Reports(w, <<>>))
    BY <1>11, <2>1, KeepList, ListConcat DEF Reports
  <2> QED BY <2>2, KeepList DEF AcksIn
<1>16. up[s] => Acked(AckIds(w, <<a>> \o t), S \cup {id[s]})
  BY <1>3, <1>8, <1>11, <1>13, <1>14, <1>15, AckedMore, Zenon DEF AckIds
<1>17. IsList(<<a>> \o t) /\ \A i \in 1 .. Len(<<a>> \o t) : (<<a>> \o t)[i].type # "Reply"
  <2> DEFINE X == Elems(t) \cup {a}
  <2>1. t \in Seq(X) /\ a \in X
    BY <1>9, ListFacts
  <2> HIDE DEF X
  <2>2. <<a>> \o t \in Seq(X)
    BY <2>1
  <2>3. IsList(<<a>> \o t)
    BY <2>2, SeqIsList, Zenon
  <2> QED BY <1>9, <1>13, <2>1, <2>3
<1> QED BY <1>1, <1>5, <1>7, <1>9, <1>16, <1>17, UnlockAcks, Zenon DEF w

(* Nothing is reported or entered at first.                                *)
LEMMA InitAcks == Init => AckInv
<1> SUFFICES ASSUME Init PROVE AckInv
  OBVIOUS
<1>1. IsList(<<>>) /\ Len(<<>>) = 0
  BY DEF IsList, Elems
<1>2. ASSUME NEW S PROVE Keep(<<>>, S) = <<>>
  <2>1. Keep(<<>>, S) = KeptPrefix(<<>>, S)[0]
    BY <1>1 DEF Keep
  <2>2. KeptPrefix(<<>>, S)[0] = <<>>
    BY <1>1, KeptDef
  <2> QED BY <2>1, <2>2, Zenon
<1>3. Reports(<<>>, <<>>) = <<>>
  BY <1>2 DEF Reports
<1>4. AcksIn(Reports(<<>>, <<>>)) = <<>>
  BY <1>2, <1>3 DEF AcksIn
<1>5. Acked(AckIds(<<>>, <<>>), {})
  <2> DEFINE v == IdsIn(<<>>)
  <2>1. Len(v) = 0
    BY DEF IdsIn
  <2> HIDE DEF v
  <2>2. Acked(v, {})
    BY <2>1 DEF Acked, Ascending, Elems
  <2> QED BY <1>4, <2>2, Zenon DEF AckIds, v
<1>6. ASSUME NEW s \in Sessions PROVE OrdersOf(entered, s) = {}
  BY DEF Init, OrdersOf
<1>7. ASSUME NEW s \in Sessions
      PROVE  InStep(wire[s], events[s], up[s], pc[s], OrdersOf(entered, s))
  <2>1. wire[s] = <<>> /\ events[s] = <<>>
    BY DEF Init
  <2>2. InStep(<<>>, <<>>, up[s], pc[s], {})
    BY <1>1, <1>5 DEF InStep
  <2> QED BY <1>6, <2>1, <2>2, Zenon
<1> QED BY <1>7, Zenon DEF Init, AckInv

(* Every step keeps it.                                                    *)
LEMMA NextAcks == IdInv /\ AckInv /\ [Next]_vars => AckInv'
<1> SUFFICES ASSUME IdInv, AckInv, [Next]_vars PROVE AckInv'
  OBVIOUS
<1>1. DOMAIN pc = Sessions
  BY DEF IdInv, Alone
<1>2. ASSUME NEW s \in Sessions, pc[s] # "report" PROVE events[s] = <<>>
  BY <1>2 DEF AckInv, InStep
<1>3. CASE UNCHANGED vars
  BY <1>3 DEF vars, shared, counters, AckInv
<1>4. ASSUME NEW s \in Sessions, NEW reqs, NEW n, NEW close, Recv(s, reqs, n, close)
      PROVE  AckInv'
  <2>1. pc[s] # "report" /\ UNCHANGED <<wire, events, up, entered>>
        /\ pc' = [pc EXCEPT ![s] = "reply"]
    BY <1>4 DEF Recv, Goto, shared
  <2> QED BY <1>1, <1>2, <2>1, Quiet, Zenon
<1>5. ASSUME NEW s \in Sessions, Lock(s) PROVE AckInv'
  <2>1. events[s] = <<>> /\ UNCHANGED <<wire, events, up, entered>>
        /\ pc' = [pc EXCEPT ![s] = "locked"]
    BY <1>5 DEF Lock, Goto
  <2> QED BY <1>1, <2>1, Quiet, Zenon
<1>6. ASSUME NEW s \in Sessions, FetchId(s) PROVE AckInv'
  <2>1. pc[s] # "report" /\ UNCHANGED <<wire, events, up, entered>>
        /\ pc' = [pc EXCEPT ![s] = "numbered"]
    BY <1>6 DEF FetchId, Goto
  <2> QED BY <1>1, <1>2, <2>1, Quiet, Zenon
<1>7. ASSUME NEW s \in Sessions, EndTurn(s) PROVE AckInv'
  <2>1. events[s] = <<>> /\ UNCHANGED <<wire, events, up, entered>>
        /\ \E place : pc' = [pc EXCEPT ![s] = place]
    BY <1>7, Zenon DEF EndTurn, Goto, shared
  <2> QED BY <1>1, <2>1, Quiet, Zenon
<1>8. ASSUME NEW s \in Sessions, Hangup(s) PROVE AckInv'
  <2>1. pc[s] # "report" /\ UNCHANGED <<wire, events, up, entered>>
        /\ pc' = [pc EXCEPT ![s] = "closed"]
    BY <1>8 DEF Hangup, Goto, shared
  <2> QED BY <1>1, <1>2, <2>1, Quiet, Zenon
<1>9. ASSUME NEW s \in Sessions, Cancel(s) PROVE AckInv'
  <2> DEFINE e == [type |-> IF Known(book, Head(chunk[s]).key) THEN "CancelAck" ELSE "OrdReject",
                   key |-> Head(chunk[s]).key]
  <2>1. pc[s] # "report" /\ Unlock(s, <<e>>) /\ entered' = entered
    BY <1>9 DEF Cancel
  <2>2. e.type # "Ack" /\ e.type # "Reply"
    OBVIOUS
  <2> HIDE DEF e
  <2>3. <<e>> \in Seq({e}) /\ Len(<<e>>) = 1 /\ <<e>>[1] = e
    OBVIOUS
  <2>4. IsList(<<e>>)
    BY <2>3, SeqIsList, Zenon
  <2>5. NoAck(<<e>>) /\ \A i \in 1 .. Len(<<e>>) : <<e>>[i].type # "Reply"
    BY <2>2, <2>3, <2>4 DEF NoAck
  <2> QED BY <1>1, <2>1, <2>5, OtherAcks
<1>10. ASSUME NEW s \in Sessions, Replace(s) PROVE AckInv'
  <2>1. pc[s] # "report" /\ Unlock(s, <<>>) /\ entered' = entered
    BY <1>10 DEF Replace
  <2>2. NoAck(<<>>) /\ Len(<<>>) = 0
    BY DEF NoAck, IsList, Elems
  <2> QED BY <1>1, <2>1, <2>2, OtherAcks
<1>11. ASSUME NEW s \in Sessions, PeerCloses(s) PROVE AckInv'
  <2>1. /\ up' = [up EXCEPT ![s] = FALSE] /\ wire' = [wire EXCEPT ![s] = <<>>]
        /\ UNCHANGED <<pc, events, entered>>
    BY <1>11 DEF PeerCloses, shared
  <2>2. DOMAIN wire' = Sessions /\ DOMAIN events' = Sessions /\ DOMAIN up' = Sessions
    BY <2>1 DEF AckInv
  <2>3. SameButFor(s) /\ wire'[s] = <<>> /\ ~up'[s]
    BY <2>1 DEF SameButFor, AckInv
  <2>4. IsList(<<>>)
    BY DEF IsList, Elems
  <2>5. InStep(wire[s], events[s], up[s], pc[s], OrdersOf(entered, s))
    BY Zenon DEF AckInv
  <2>6. InStep(wire'[s], events'[s], up'[s], pc'[s], OrdersOf(entered', s))
    BY <2>1, <2>3, <2>4, <2>5, Zenon DEF InStep
  <2> QED BY <2>2, <2>3, <2>6, AckStep
<1>12. CASE Next
  BY <1>12, <1>4, <1>5, <1>6, <1>7, <1>8, <1>9, <1>10, <1>11, WriteReplyAcks, ReportAcks,
     SubmitAcks, Zenon DEF Next, Thread
<1> QED BY <1>3, <1>12

(* Every order of a client that has not gone is acknowledged exactly once, *)
(* in the order of the ids: for any number of threads, requests and        *)
(* replies, whatever session_loop has interleaved.                         *)
THEOREM AcknowledgedOnce == Spec => []AckedOnce
<1>1. AckInv => AckedOnce
  <2> SUFFICES ASSUME AckInv, NEW s \in Sessions, up[s]
               PROVE  Acked(AckIds(wire[s], events[s]), OrdersOf(entered, s))
    BY Zenon DEF AckedOnce, ReportsOf, Acked, AckIds, IdsIn, AcksIn, Reports, OrdersOf
  <2> QED BY DEF AckInv, InStep
<1> QED BY <1>1, InitIds, NextIds, InitAcks, NextAcks, PTL DEF Spec

-----------------------------------------------------------------------------
(* Sums over lists.                                                        *)

(* What the weights v of the elements of s add up to.                      *)
Weight(v, s) == Sum(Values(v, s))

(* A sum is a number.                                                      *)
LEMMA SumNat ==
  ASSUME NEW q \in Seq(Nat)
  PROVE  Sum(q) \in Nat
<1>1. Len(q) \in 0 .. Len(q)
  OBVIOUS
<1>2. PartialSums(q) \in [0 .. Len(q) -> Nat]
  BY PartialSumsDef, Zenon
<1> QED BY <1>1, <1>2, Zenon DEF Sum

(* It is a number, and nothing for an empty list.                          *)
LEMMA WeightType ==
  ASSUME NEW X, NEW v \in [X -> Nat], NEW s \in Seq(X)
  PROVE  Weight(v, s) \in Nat /\ Weight(v, <<>>) = 0
<1>1. Values(v, s) \in Seq(Nat)
  BY ValuesAppend, Zenon
<1>2. Sum(Values(v, s)) \in Nat
  BY <1>1, SumNat, Zenon
<1>3. Values(v, <<>>) = <<>>
  BY DEF Values
<1>4. <<>> \in Seq(Nat) /\ Len(<<>>) = 0
  OBVIOUS
<1>5. PartialSums(<<>>)[0] = 0
  BY <1>4, PartialSumsDef, Zenon
<1> QED BY <1>2, <1>3, <1>4, <1>5, Zenon DEF Sum, Weight

(* One more element.                                                       *)
LEMMA WeightAppend ==
  ASSUME NEW X, NEW v \in [X -> Nat], NEW s \in Seq(X), NEW e \in X
  PROVE  Weight(v, Append(s, e)) = Weight(v, s) + v[e]
<1> DEFINE p == Values(v, s)
           n == v[e]
<1>1. p \in Seq(Nat) /\ Values(v, Append(s, e)) = Append(p, n)
  BY ValuesAppend, Zenon
<1>2. n \in Nat
  OBVIOUS
<1> HIDE DEF p, n
<1>3. Append(p, n) = p \o <<n>> /\ <<n>> \in Seq(Nat)
  BY <1>1, <1>2
<1>4. Sum(<<n>>) = n
  <2> DEFINE q == <<n>>
  <2>1. q \in Seq(Nat) /\ 1 \in 1 .. Len(q) /\ q[1] = n /\ \A i \in 1 .. Len(q) : i # 1 => q[i] = 0
    BY <1>2
  <2> HIDE DEF q
  <2>2. Sum(q) = q[1]
    BY <2>1, SumSingle, Zenon
  <2> QED BY <2>1, <2>2, Zenon DEF q
<1>5. Sum(p \o <<n>>) = Sum(p) + Sum(<<n>>)
  BY <1>1, <1>3, SumConcat, Zenon
<1> QED BY <1>1, <1>3, <1>4, <1>5, Zenon DEF Weight, p, n

BothWeigh(v, s, t) == Weight(v, s \o t) = Weight(v, s) + Weight(v, t)

(* Two lists in a row.                                                     *)
LEMMA WeightConcat ==
  ASSUME NEW X, NEW v \in [X -> Nat], NEW s \in Seq(X), NEW t \in Seq(X)
  PROVE  BothWeigh(v, s, t)
<1>1. Values(v, s) \in Seq(Nat) /\ Values(v, t) \in Seq(Nat)
  BY ValuesAppend, Zenon
<1>2. Values(v, s \o t) = Values(v, s) \o Values(v, t)
  BY DEF Values
<1>3. Sum(Values(v, s) \o Values(v, t)) = Sum(Values(v, s)) + Sum(Values(v, t))
  BY <1>1, SumConcat, Zenon
<1> QED BY <1>2, <1>3, Zenon DEF BothWeigh, Weight

(* What weighs nothing may be taken out.                                   *)
LEMMA WeightKeep ==
  ASSUME NEW X, NEW v \in [X -> Nat], NEW s \in Seq(X), NEW S,
         \A i \in 1 .. Len(s) : s[i] \notin S => v[s[i]] = 0
  PROVE  Weight(v, Keep(s, S)) = Weight(v, s)
<1> DEFINE q == Values(v, s)
<1>1. q \in Seq(Nat) /\ Len(s) = Len(q)
  BY ValuesAppend, Zenon
<1>2. \A i \in 1 .. Len(q) : /\ s[i] \in S => v[s[i]] = q[i]
                             /\ s[i] \notin S => q[i] = 0
  BY <1>1 DEF Values
<1> HIDE DEF q
<1>3. SumKept(q, v, s, S)
  BY <1>1, <1>2, SumOfOthers, ZenonT(30)
<1> QED BY <1>3, Zenon DEF SumKept, Weight, q

(* Lists that agree but in one place.                                      *)
LEMMA SumChanged ==
  ASSUME NEW p \in Seq(Nat), NEW q \in Seq(Nat), Len(q) = Len(p), NEW j \in 1 .. Len(p),
         NEW d \in Nat, q[j] = p[j] + d, \A i \in 1 .. Len(p) : i # j => q[i] = p[i]
  PROVE  Sum(q) = Sum(p) + d
<1> DEFINE n == Len(p)
           P == PartialSums(p)
           Q == PartialSums(q)
           T == {i \in 0 .. n : Q[i] = IF i < j THEN P[i] ELSE P[i] + d}
<1>0. n \in Nat /\ j \in 1 .. n /\ \A i \in 1 .. n : p[i] \in Nat
  <2>1. n \in Nat /\ j \in 1 .. n
    OBVIOUS
  <2>2. \A i \in 1 .. n : p[i] \in Nat
    OBVIOUS
  <2> QED BY <2>1, <2>2, Zenon
<1>1. P[0] = 0 /\ P \in [0 .. n -> Nat] /\ \A i \in 1 .. n : P[i] = P[i - 1] + p[i]
  BY PartialSumsDef, Zenon
<1>2. Q[0] = 0 /\ Q \in [0 .. n -> Nat] /\ \A i \in 1 .. n : Q[i] = Q[i - 1] + q[i]
  BY PartialSumsDef, Zenon
<1>3. q[j] = p[j] + d /\ \A i \in 1 .. n : i # j => q[i] = p[i]
  BY Zenon
<1> HIDE DEF n, P, Q
<1>4. 0 \in T
  BY <1>0, <1>1, <1>2
<1>5. \A i \in 1 .. n : i - 1 \in T => i \in T
  <2> SUFFICES ASSUME NEW i \in 1 .. n, i - 1 \in T PROVE i \in T
    OBVIOUS
  <2>0. i \in 0 .. n /\ i - 1 \in 0 .. n /\ i \in Nat /\ j \in Nat
    BY <1>0
  <2>1. Q[i] = Q[i - 1] + q[i] /\ P[i] = P[i - 1] + p[i]
    BY <1>1, <1>2, Zenon
  <2>2. P[i - 1] \in Nat /\ p[i] \in Nat /\ Q[i - 1] = IF i - 1 < j THEN P[i - 1] ELSE P[i - 1] + d
    BY <1>0, <1>1, <2>0, Zenon
  <2>3. (i = j => q[i] = p[i] + d) /\ (i # j => q[i] = p[i])
    BY <1>3
  <2>4. Q[i] = IF i < j THEN P[i] ELSE P[i] + d
    <3> DEFINE x == P[i - 1]
               y == p[i]
               z == Q[i - 1]
               w == q[i]
    <3> HIDE DEF x, y, z, w
    <3>1. x \in Nat /\ y \in Nat /\ z = IF i - 1 < j THEN x ELSE x + d
      BY <2>2, Zenon DEF x, y, z
    <3>2. (i = j => w = y + d) /\ (i # j => w = y)
      BY <2>3, Zenon DEF w, y
    <3>3. z + w = IF i < j THEN x + y ELSE x + y + d
      BY <2>0, <3>1, <3>2
    <3> QED BY <2>1, <3>3, Zenon DEF x, y, z, w
  <2> QED BY <2>0, <2>4, Zenon
<1>6. n \in T
  <2>1. n \in 0 .. n
    BY <1>0
  <2> HIDE DEF T
  <2> QED BY <1>0, <1>4, <1>5, <2>1, UpToInduction, Zenon
<1>7. ~(n < j)
  BY <1>0
<1> QED BY <1>6, <1>7, Zenon DEF Sum, P, Q, n

-----------------------------------------------------------------------------
(* The queue of an order.                                                  *)

(* Price and time order any two of them.                                   *)
LEMMA BeforeOrders ==
  ASSUME NEW b, NEW O \in SUBSET Nat, \A i \in O : b[i].price \in Int, NEW side,
         NEW i \in O, NEW j \in O
  PROVE  /\ ~Before(b, side, i, i)
         /\ i # j => Before(b, side, i, j) \/ Before(b, side, j, i)
         /\ \A k \in O : Before(b, side, k, i) /\ Before(b, side, i, j) => Before(b, side, k, j)
<1>1. i \in Nat /\ j \in Nat /\ b[i].price \in Int /\ b[j].price \in Int
  OBVIOUS
<1>2. ~Before(b, side, i, i) /\ (i # j => Before(b, side, i, j) \/ Before(b, side, j, i))
  <2> DEFINE p == b[i].price
             q == b[j].price
  <2>1. p \in Int /\ q \in Int
    BY <1>1, Zenon
  <2> HIDE DEF p, q
  <2>2. /\ ~Better(side, p, p) /\ (p # q => Better(side, p, q) \/ Better(side, q, p))
        /\ ~(i < i) /\ (i # j => i < j \/ j < i)
    BY <1>1, <2>1 DEF Better
  <2>3. ~Before(b, side, i, i)
    BY <2>2, Zenon DEF Before, p
  <2>4. ASSUME i # j PROVE Before(b, side, i, j) \/ Before(b, side, j, i)
    <3>1. CASE p # q
      BY <2>2, <3>1 DEF Before, p, q
    <3>2. CASE p = q
      <4>1. b[i].price = b[j].price /\ b[j].price = b[i].price
        BY <3>2, Zenon DEF p, q
      <4> QED BY <2>2, <2>4, <4>1, Zenon DEF Before
    <3> QED BY <3>1, <3>2
  <2> QED BY <2>3, <2>4
<1>3. ASSUME NEW k \in O, Before(b, side, k, i), Before(b, side, i, j)
      PROVE  Before(b, side, k, j)
  <2>1. k \in Nat /\ b[k].price \in Int
    OBVIOUS
  <2> QED BY <1>1, <1>3, <2>1 DEF Before, Better
<1> QED BY <1>2, <1>3

(* So each has its own number of others before it.                         *)
LEMMA AheadDiffers ==
  ASSUME NEW b, NEW O \in SUBSET Nat, IsFiniteSet(O), \A i \in O : b[i].price \in Int,
         NEW side, NEW i \in O, NEW j \in O, Before(b, side, i, j)
  PROVE  /\ Cardinality(Ahead(b, side, O, i)) \in Nat
         /\ Cardinality(Ahead(b, side, O, j)) \in Nat
         /\ Cardinality(Ahead(b, side, O, i)) < Cardinality(Ahead(b, side, O, j))
<1> DEFINE A == Ahead(b, side, O, i)
           B == Ahead(b, side, O, j)
<1>1. A \in SUBSET O /\ B \in SUBSET O
  BY DEF Ahead
<1>2. A \in SUBSET B /\ i \in B /\ i \notin A
  BY BeforeOrders DEF Ahead
<1> HIDE DEF A, B
<1>3. IsFiniteSet(A) /\ IsFiniteSet(B)
  BY <1>1, FS_Subset, Zenon
<1>4. Cardinality(A) \in Nat /\ Cardinality(B) \in Nat
  BY <1>3, FS_CardinalityType, Zenon
<1>5. Cardinality(A) <= Cardinality(B) /\ Cardinality(B) # Cardinality(A)
  BY <1>2, <1>3, FS_Subset, Zenon
<1>6. Cardinality(A) < Cardinality(B)
  BY <1>4, <1>5
<1> QED BY <1>4, <1>6, Zenon DEF A, B

(* Matchable takes each of them once.                                      *)
LEMMA MatchableOnce ==
  ASSUME NEW b, IsList(b), \A i \in 1 .. Len(b) : b[i].price \in Int, NEW side, NEW limit
  PROVE  LET O == Crossing(b, side, limit)
             m == Matchable(b, side, limit)
         IN  /\ Cardinality(O) \in Nat /\ O \subseteq 1 .. Len(b)
             /\ m \in [1 .. Cardinality(O) -> O]
             /\ \A k, l \in 1 .. Cardinality(O) : m[k] = m[l] => k = l
<1> DEFINE O == Crossing(b, side, limit)
           n == Cardinality(O)
           size(i) == Cardinality(Ahead(b, side, O, i))
           rank == [i \in O |-> size(i) + 1]
           m == Matchable(b, side, limit)
<1>1. Len(b) \in Nat /\ O \in SUBSET (1 .. Len(b))
  BY ListFacts DEF Crossing
<1>2. IsFiniteSet(O) /\ n \in Nat
  <2>1. IsFiniteSet(1 .. Len(b))
    BY <1>1, FS_Interval
  <2> HIDE DEF O
  <2>2. IsFiniteSet(O)
    BY <1>1, <2>1, FS_Subset, Zenon
  <2> QED BY <2>2, FS_CardinalityType, Zenon
<1>3. O \in SUBSET Nat /\ \A i \in O : b[i].price \in Int
  BY <1>1
<1>4. m = [k \in 1 .. n |-> CHOOSE i \in O : size(i) = k - 1]
  BY Zenon DEF Matchable
<1> HIDE DEF O, m
<1>5. ASSUME NEW i \in O PROVE size(i) \in 0 .. n - 1
  <2> DEFINE A == Ahead(b, side, O, i)
  <2>1. A \in SUBSET O /\ i \notin A
    BY <1>3, <1>5, BeforeOrders DEF Ahead
  <2> HIDE DEF A
  <2>2. IsFiniteSet(A) /\ Cardinality(A) <= n /\ n # Cardinality(A)
    BY <1>2, <1>5, <2>1, FS_Subset, Zenon
  <2>3. Cardinality(A) \in Nat
    BY <2>2, FS_CardinalityType, Zenon
  <2>4. Cardinality(A) \in 0 .. n - 1
    BY <1>2, <2>2, <2>3
  <2> QED BY <2>4, Zenon DEF A
<1>6. ASSUME NEW i \in O, NEW j \in O, i # j PROVE size(i) # size(j)
  <2>1. ASSUME NEW x \in O, NEW y \in O, Before(b, side, x, y) PROVE size(x) # size(y)
    BY <1>2, <1>3, <2>1, AheadDiffers
  <2>2. Before(b, side, i, j) \/ Before(b, side, j, i)
    BY <1>3, <1>6, BeforeOrders, Zenon
  <2> QED BY <2>1, <2>2, Zenon
<1>7. ASSUME NEW k \in 1 .. n PROVE \E i \in O : size(i) = k - 1
  <2>1. rank \in [O -> 1 .. n]
    <3>1. ASSUME NEW i \in O PROVE size(i) + 1 \in 1 .. n
      <4> DEFINE z == size(i)
      <4>1. z \in 0 .. n - 1
        BY <1>5
      <4> HIDE DEF z
      <4>2. z + 1 \in 1 .. n
        BY <1>2, <4>1
      <4> QED BY <4>2, Zenon DEF z
    <3> QED BY <3>1, Zenon
  <2>2. ASSUME NEW i \in O, NEW j \in O, rank[i] = rank[j] PROVE i = j
    <3> DEFINE y == size(i)
               z == size(j)
    <3>1. y + 1 = z + 1 /\ y \in 0 .. n - 1 /\ z \in 0 .. n - 1
      BY <1>5, <2>2, Zenon
    <3> HIDE DEF y, z
    <3>2. y = z
      BY <1>2, <3>1
    <3> QED BY <1>6, <3>2, Zenon DEF y, z
  <2> HIDE DEF rank
  <2>3. rank \in Injection(O, 1 .. n)
    BY <2>1, <2>2, Zenon DEF Injection, IsInjective
  <2>4. IsFiniteSet(1 .. n) /\ Cardinality(1 .. n) = n
    BY <1>2, FS_Interval
  <2>5. rank \in Surjection(O, 1 .. n)
    BY <2>3, <2>4, FS_Injection, Zenon
  <2>6. PICK i \in O : rank[i] = k
    BY <2>5, Zenon DEF Surjection
  <2>7. size(i) + 1 = k
    BY <2>6, Zenon DEF rank
  <2>8. size(i) = k - 1
    <3> DEFINE z == size(i)
    <3>1. z + 1 = k /\ z \in 0 .. n - 1
      BY <1>5, <2>7, Zenon
    <3> HIDE DEF z
    <3>2. z = k - 1
      BY <1>2, <3>1
    <3> QED BY <3>2, Zenon DEF z
  <2> QED BY <2>8
<1>8. ASSUME NEW k \in 1 .. n PROVE m[k] \in O /\ size(m[k]) = k - 1
  <2>1. m[k] = CHOOSE i \in O : size(i) = k - 1
    BY <1>4, Zenon
  <2> QED BY <1>7, <2>1, Zenon
<1>9. m \in [1 .. n -> O]
  BY <1>4, <1>8, Zenon
<1>10. ASSUME NEW k \in 1 .. n, NEW l \in 1 .. n, m[k] = m[l] PROVE k = l
  <2>1. k - 1 = l - 1
    BY <1>8, <1>10, Zenon
  <2> QED BY <1>2, <2>1
<1> QED BY <1>1, <1>2, <1>9, <1>10, Zenon DEF m, O

-----------------------------------------------------------------------------
(* What a submit trades.                                                   *)

(* The orders and messages there are.                                      *)
Resting == [id : Nat, key : Keys, side : {req.side : req \in News}, price : Int, leaves : Nat]

TradeReport == [type : {"Trade"}, aggressor : Nat, resting : Nat, price : Int, qty : Nat]

Message == [type : {"Reply"}] \cup [type : {"Ack"}, id : Nat] \cup TradeReport
           \cup [type : {"CancelAck", "OrdReject"}, key : Keys]

(* The quantity of order o in an order of the book, and in a message.      *)
Left(o) == [x \in Resting |-> IF x.id = o THEN x.leaves ELSE 0]

Told(o) == [m \in Message |->
              IF m.type = "Trade" /\ o \in {m.aggressor, m.resting} THEN m.qty ELSE 0]

(* They are numbers.                                                       *)
LEMMA LeftTold ==
  ASSUME NEW o
  PROVE  /\ Left(o) \in [Resting -> Nat] /\ Told(o) \in [Message -> Nat]
         /\ \A x \in Resting : Left(o)[x] = IF x.id = o THEN x.leaves ELSE 0
         /\ \A m \in TradeReport :
              m \in Message /\ Told(o)[m] = IF o \in {m.aggressor, m.resting} THEN m.qty ELSE 0
         /\ \A m \in Message : m.type # "Trade" => Told(o)[m] = 0
<1>1. ASSUME NEW x \in Resting PROVE x.leaves \in Nat
  BY DEF Resting
<1>2. ASSUME NEW m \in TradeReport PROVE m \in Message /\ m.type = "Trade"
  BY DEF TradeReport, Message
<1>3. ASSUME NEW m \in Message, m.type = "Trade" PROVE m.qty \in Nat
  BY <1>3 DEF Message, TradeReport
<1>4. Left(o) \in [Resting -> Nat]
  BY <1>1 DEF Left
<1>5. Told(o) \in [Message -> Nat]
  BY <1>3 DEF Told
<1>6. \A x \in Resting : Left(o)[x] = IF x.id = o THEN x.leaves ELSE 0
  BY Zenon DEF Left
<1>7. \A m \in TradeReport :
        m \in Message /\ Told(o)[m] = IF o \in {m.aggressor, m.resting} THEN m.qty ELSE 0
  BY <1>2, Zenon DEF Told
<1>8. \A m \in Message : m.type # "Trade" => Told(o)[m] = 0
  BY Zenon DEF Told
<1> QED BY <1>4, <1>5, <1>6, <1>7, <1>8

(* LeftIn is such a sum.                                                   *)
LEMMA LeftInWeight ==
  ASSUME NEW b \in Seq(Resting), NEW o
  PROVE  LeftIn(b, o) = Weight(Left(o), b)
<1>1. DOMAIN b = 1 .. Len(b) /\ \A i \in 1 .. Len(b) : b[i] \in Resting
  OBVIOUS
<1>2. \A i \in 1 .. Len(b) : Left(o)[b[i]] = IF b[i].id = o THEN b[i].leaves ELSE 0
  BY <1>1, Zenon DEF Left
<1>3. [i \in DOMAIN b |-> IF b[i].id = o THEN b[i].leaves ELSE 0] = Values(Left(o), b)
  BY <1>1, <1>2, Zenon DEF Values
<1> QED BY <1>3, Zenon DEF LeftIn, Weight

(* So is TradedIn.                                                         *)
LEMMA TradedInWeight ==
  ASSUME NEW r \in Seq(Message), NEW o
  PROVE  TradedIn(r, o) = Weight(Told(o), r)
<1>1. DOMAIN r = 1 .. Len(r) /\ \A i \in 1 .. Len(r) : r[i] \in Message
  OBVIOUS
<1>2. \A i \in 1 .. Len(r) :
        Told(o)[r[i]] = IF r[i].type = "Trade" /\ o \in {r[i].aggressor, r[i].resting}
                        THEN r[i].qty ELSE 0
  BY <1>1, Zenon DEF Told
<1>3. [i \in DOMAIN r |-> IF r[i].type = "Trade" /\ o \in {r[i].aggressor, r[i].resting}
                          THEN r[i].qty ELSE 0] = Values(Told(o), r)
  BY <1>1, <1>2, Zenon DEF Values
<1> QED BY <1>3, Zenon DEF TradedIn, Weight

(* A list of elements that weigh nothing.                                  *)
LEMMA WeightZero ==
  ASSUME NEW X, NEW v \in [X -> Nat], NEW s \in Seq(X), \A i \in 1 .. Len(s) : v[s[i]] = 0
  PROVE  Weight(v, s) = 0
<1>1. Weight(v, Keep(s, {})) = Weight(v, s)
  BY WeightKeep, Zenon
<1>2. Keep(s, {}) \in Seq(X) /\ Elems(Keep(s, {})) = {}
  <2>1. Keep(s, {}) \in Seq(X) /\ Elems(Keep(s, {})) = Elems(s) \cap {}
    BY KeepElems, Zenon
  <2> QED BY <2>1
<1>3. Keep(s, {}) = <<>>
  <2> DEFINE t == Keep(s, {})
  <2>1. t \in Seq(X) /\ \A i \in 1 .. Len(t) : FALSE
    BY <1>2 DEF Elems
  <2> HIDE DEF t
  <2>2. Len(t) = 0
    BY <2>1
  <2>3. t = <<>>
    BY <2>1, <2>2
  <2> QED BY <2>3, Zenon DEF t
<1> QED BY <1>1, <1>3, WeightType, Zenon

OneWeighs(v, s, j) == Weight(v, s) = v[s[j]]

(* A list of which one element only weighs something.                      *)
LEMMA WeightOne ==
  ASSUME NEW X, NEW v \in [X -> Nat], NEW s \in Seq(X), NEW j \in 1 .. Len(s),
         \A i \in 1 .. Len(s) : i # j => v[s[i]] = 0
  PROVE  OneWeighs(v, s, j)
<1> DEFINE q == Values(v, s)
<1>1. q \in Seq(Nat) /\ Len(q) = Len(s)
  BY ValuesAppend, Zenon
<1>2. q[j] = v[s[j]] /\ \A i \in 1 .. Len(q) : i # j => q[i] = 0
  BY <1>1, Zenon DEF Values
<1> HIDE DEF q
<1>3. j \in 1 .. Len(q)
  BY <1>1, Zenon
<1>4. Sum(q) = q[j]
  BY <1>1, <1>2, <1>3, SumSingle, Zenon
<1> QED BY <1>2, <1>4, Zenon DEF OneWeighs, Weight, q

(* f gives the orders of b at the positions m, each there once, at most    *)
(* what they have open, and no more than order has to all of them.         *)
FillsQueue(b, order, m, f) ==
  /\ f \in Seq(Nat) /\ Sum(f) \in 0 .. order.leaves
  /\ m \in [1 .. Len(f) -> 1 .. Len(b)]
  /\ \A k, l \in 1 .. Len(f) : m[k] = m[l] => k = l
  /\ \A k \in 1 .. Len(f) : f[k] <= b[m[k]].leaves

(* So do the fills of a submit.                                            *)
LEMMA AllocationFills ==
  ASSUME NEW b \in Seq(Resting), NEW order \in Resting, NEW a, NEW f \in Allocations(a, b, order)
  PROVE  /\ FillsQueue(b, order, Matchable(b, order.side, order.price), f)
         /\ DOMAIN Queue(b, order) = 1 .. Len(f)
         /\ \A k \in 1 .. Len(f) :
              Queue(b, order)[k] = b[Matchable(b, order.side, order.price)[k]]
<1> DEFINE O == Crossing(b, order.side, order.price)
           m == Matchable(b, order.side, order.price)
           n == Cardinality(O)
           q == Queue(b, order)
<1>1. IsList(b) /\ \A i \in 1 .. Len(b) : b[i].price \in Int /\ b[i].leaves \in Nat
  <2>1. IsList(b)
    BY SeqIsList, Zenon
  <2>2. \A i \in 1 .. Len(b) : b[i] \in Resting
    OBVIOUS
  <2>3. \A x \in Resting : x.price \in Int /\ x.leaves \in Nat
    BY DEF Resting
  <2> QED BY <2>1, <2>2, <2>3, Zenon
<1>2. /\ n \in Nat /\ O \subseteq 1 .. Len(b) /\ m \in [1 .. n -> O]
      /\ \A k, l \in 1 .. n : m[k] = m[l] => k = l
  BY <1>1, MatchableOnce, Zenon
<1>3. order.leaves \in Nat
  BY DEF Resting
<1> HIDE DEF O, m, n
<1>4. q = [k \in 1 .. n |-> b[m[k]]]
  <2>1. q = [k \in DOMAIN m |-> b[m[k]]]
    BY Zenon DEF Queue, m
  <2> QED BY <1>2, <2>1
<1>5. f \in [DOMAIN q -> 0 .. order.leaves] /\ IsAllocation(a, q, order.leaves, f)
  BY Zenon DEF Allocations
<1>6. DOMAIN q = 1 .. n /\ \A k \in 1 .. n : q[k] = b[m[k]]
  BY <1>4, Zenon
<1> HIDE DEF q
<1>7. f \in Seq(Nat) /\ Len(f) = n
  BY <1>2, <1>3, <1>5, <1>6
<1>8. ASSUME NEW k \in 1 .. n PROVE f[k] <= b[m[k]].leaves
  <2>1. f[k] <= q[k].leaves
    BY <1>5, <1>6, Zenon DEF IsAllocation
  <2> QED BY <1>6, <2>1, Zenon
<1>9. Sum(f) \in 0 .. order.leaves
  <2> DEFINE open == [i \in DOMAIN q |-> q[i].leaves]
  <2>1. Sum(f) = Min({order.leaves, Sum(open)})
    BY <1>5, Zenon DEF IsAllocation
  <2>2. open \in Seq(Nat)
    <3>1. \A k \in 1 .. n : m[k] \in 1 .. Len(b)
      BY <1>2
    <3>2. \A k \in 1 .. n : q[k].leaves \in Nat
      BY <1>1, <1>6, <3>1, Zenon
    <3> QED BY <1>2, <1>6, <3>2
  <2> HIDE DEF open
  <2>3. Sum(open) \in Nat /\ Sum(f) \in Nat
    BY <1>7, <2>2, SumNat, Zenon
  <2>4. ASSUME NEW x \in Nat, NEW y \in Nat PROVE Min({x, y}) <= x
    <3>1. \E z \in {x, y} : \A w \in {x, y} : z <= w
      <4>1. x <= y \/ y <= x
        OBVIOUS
      <4>2. x <= x /\ y <= y
        OBVIOUS
      <4> QED BY <4>1, <4>2, Zenon
    <3>2. Min({x, y}) = CHOOSE z \in {x, y} : \A w \in {x, y} : z <= w
      BY Zenon DEF Min
    <3> QED BY <3>1, <3>2, Zenon
  <2>5. Sum(f) <= order.leaves
    BY <1>3, <2>1, <2>3, <2>4, Zenon
  <2> QED BY <1>3, <2>3, <2>5
<1>10. m \in [1 .. n -> 1 .. Len(b)]
  BY <1>2
<1>11. FillsQueue(b, order, m, f)
  BY <1>2, <1>7, <1>8, <1>9, <1>10, Zenon DEF FillsQueue
<1> QED BY <1>6, <1>7, <1>11, Zenon DEF m, q

(* What was traded at the positions of the queue, and elsewhere.           *)
LEMMA TradedAtFacts ==
  ASSUME NEW b \in Seq(Resting), NEW order, NEW m, NEW f, FillsQueue(b, order, m, f)
  PROVE  /\ \A k \in 1 .. Len(f) : TradedAt(m, f, m[k]) = f[k]
         /\ \A i \in 1 .. Len(b) : (\A k \in 1 .. Len(f) : m[k] # i) => TradedAt(m, f, i) = 0
         /\ \A i \in 1 .. Len(b) : TradedAt(m, f, i) \in 0 .. b[i].leaves
<1>1. /\ DOMAIN m = 1 .. Len(f) /\ \A k, l \in 1 .. Len(f) : m[k] = m[l] => k = l
      /\ \A k \in 1 .. Len(f) : m[k] \in 1 .. Len(b) /\ f[k] <= b[m[k]].leaves
  BY DEF FillsQueue
<1>2. ASSUME NEW k \in 1 .. Len(f) PROVE TradedAt(m, f, m[k]) = f[k]
  <2>1. m[k] \in Range(m)
    BY <1>1, Zenon DEF Range
  <2>2. (CHOOSE l \in DOMAIN m : m[l] = m[k]) = k
    BY <1>1
  <2> QED BY <2>1, <2>2, Zenon DEF TradedAt
<1>3. ASSUME NEW i \in 1 .. Len(b), \A k \in 1 .. Len(f) : m[k] # i PROVE TradedAt(m, f, i) = 0
  <2>1. i \notin Range(m)
    BY <1>1, <1>3, Zenon DEF Range
  <2> QED BY <2>1, Zenon DEF TradedAt
<1>4. ASSUME NEW i \in 1 .. Len(b) PROVE TradedAt(m, f, i) \in 0 .. b[i].leaves
  <2>1. b[i].leaves \in Nat
    <3>1. b[i] \in Resting
      OBVIOUS
    <3> QED BY <3>1 DEF Resting
  <2>2. CASE \A k \in 1 .. Len(f) : m[k] # i
    BY <1>3, <2>1, <2>2
  <2>3. ASSUME NEW k \in 1 .. Len(f), m[k] = i PROVE TradedAt(m, f, i) \in 0 .. b[i].leaves
    <3>1. TradedAt(m, f, i) = f[k] /\ f[k] <= b[i].leaves
      BY <1>1, <1>2, <2>3, Zenon
    <3>2. f[k] \in Nat
      BY DEF FillsQueue
    <3> QED BY <2>1, <3>1, <3>2
  <2> QED BY <2>2, <2>3
<1> QED BY <1>2, <1>3, <1>4

(* The orders of the book with their fills, one by one.                    *)
LEMMA FilledFacts ==
  ASSUME NEW b \in Seq(Resting), NEW order, NEW m, NEW f, FillsQueue(b, order, m, f)
  PROVE  /\ Filled(b, m, f) \in Seq(Resting) /\ Len(Filled(b, m, f)) = Len(b)
         /\ \A i \in 1 .. Len(b) : /\ Filled(b, m, f)[i].id = b[i].id
                                   /\ Filled(b, m, f)[i].leaves = b[i].leaves - TradedAt(m, f, i)
<1> DEFINE c == Filled(b, m, f)
<1>1. Len(b) \in Nat /\ DOMAIN b = 1 .. Len(b) /\ \A i \in 1 .. Len(b) : b[i] \in Resting
  OBVIOUS
<1>2. c = [i \in 1 .. Len(b) |-> [b[i] EXCEPT !.leaves = @ - TradedAt(m, f, i)]]
  BY <1>1, Zenon DEF Filled
<1>3. ASSUME NEW i \in 1 .. Len(b)
      PROVE  /\ c[i] \in Resting /\ c[i].id = b[i].id
             /\ c[i].leaves = b[i].leaves - TradedAt(m, f, i)
  <2> DEFINE x == b[i]
             d == TradedAt(m, f, i)
  <2>1. x \in Resting
    BY <1>1, Zenon
  <2>2. d \in 0 .. x.leaves
    BY TradedAtFacts, Zenon
  <2>3. c[i] = [x EXCEPT !.leaves = @ - d]
    BY <1>2, Zenon
  <2> HIDE DEF x, d
  <2>4. x.leaves - d \in Nat
    BY <2>1, <2>2 DEF Resting
  <2>5. /\ [x EXCEPT !.leaves = @ - d] \in Resting /\ [x EXCEPT !.leaves = @ - d].id = x.id
        /\ [x EXCEPT !.leaves = @ - d].leaves = x.leaves - d
    BY <2>1, <2>4 DEF Resting
  <2> QED BY <2>3, <2>5, Zenon DEF x, d
<1>4. c \in [1 .. Len(b) -> Resting]
  BY <1>2, <1>3, Zenon
<1> HIDE DEF c
<1>5. c \in Seq(Resting) /\ Len(c) = Len(b)
  BY <1>1, <1>4
<1> QED BY <1>3, <1>5, Zenon DEF c

(* t reports the fills f of the orders of b at the positions m.            *)
ReportsFills(t, b, order, m, f) ==
  /\ t \in Seq(TradeReport) /\ Len(t) = Len(f)
  /\ \A k \in 1 .. Len(f) : /\ t[k].aggressor = order.id /\ t[k].resting = b[m[k]].id
                             /\ t[k].qty = f[k]

(* So do the trades of a submit.                                           *)
LEMMA TradesFacts ==
  ASSUME NEW b \in Seq(Resting), NEW order \in Resting, NEW m, NEW f,
         FillsQueue(b, order, m, f), NEW q, DOMAIN q = 1 .. Len(f),
         \A k \in 1 .. Len(f) : q[k] = b[m[k]]
  PROVE  ReportsFills(Trades(order, q, f), b, order, m, f)
<1> DEFINE t == Trades(order, q, f)
           n == Len(f)
<1>1. n \in Nat /\ \A k \in 1 .. n : f[k] \in Nat /\ b[m[k]] \in Resting
  <2>1. f \in Seq(Nat) /\ m \in [1 .. n -> 1 .. Len(b)]
    BY Zenon DEF FillsQueue
  <2>2. n \in Nat /\ \A k \in 1 .. n : f[k] \in Nat
    BY <2>1
  <2>3. \A i \in 1 .. Len(b) : b[i] \in Resting
    OBVIOUS
  <2>4. \A k \in 1 .. n : m[k] \in 1 .. Len(b)
    BY <2>1, Zenon
  <2> QED BY <2>2, <2>3, <2>4, Zenon
<1>2. t = [k \in 1 .. n |-> [type |-> "Trade", aggressor |-> order.id, resting |-> q[k].id,
                             price |-> q[k].price, qty |-> f[k]]]
  BY Zenon DEF Trades
<1>3. ASSUME NEW k \in 1 .. n
      PROVE  /\ t[k] \in TradeReport /\ t[k].aggressor = order.id
             /\ t[k].resting = b[m[k]].id /\ t[k].qty = f[k]
  <2> DEFINE x == q[k]
  <2>1. x \in Resting /\ x = b[m[k]] /\ f[k] \in Nat
    BY <1>1, Zenon
  <2>2. t[k] = [type |-> "Trade", aggressor |-> order.id, resting |-> x.id,
                price |-> x.price, qty |-> f[k]]
    BY <1>2, Zenon
  <2> HIDE DEF x, t, n
  <2>3. order.id \in Nat /\ x.id \in Nat /\ x.price \in Int
    BY <2>1 DEF Resting
  <2> QED BY <2>1, <2>2, <2>3 DEF TradeReport
<1>4. t \in [1 .. n -> TradeReport]
  BY <1>2, <1>3, Zenon
<1> HIDE DEF t, n
<1>5. t \in Seq(TradeReport) /\ Len(t) = n
  BY <1>1, <1>4
<1> QED BY <1>3, <1>5, Zenon DEF ReportsFills, t, n

(* No two orders of b have the same id.                                    *)
DistinctIds(b) == \A i, j \in 1 .. Len(b) : b[i].id = b[j].id => i = j

(* What these reports say of order o, and what is left of it.              *)
TradesTell(t, b, order, m, f, o) ==
  /\ t \in Seq(Message)
  /\ o # order.id =>
       Weight(Left(o), b) = Weight(Left(o), Filled(b, m, f)) + Weight(Told(o), t)
  /\ o = order.id => Weight(Told(o), t) = Sum(f)

(* The trades of a submit say of every order of the book what it lost, and *)
(* of the new order what all of them together lost.                        *)
LEMMA TradesExplain ==
  ASSUME NEW b \in Seq(Resting), DistinctIds(b), NEW order, NEW m, NEW f,
         FillsQueue(b, order, m, f), NEW t, ReportsFills(t, b, order, m, f), NEW o
  PROVE  TradesTell(t, b, order, m, f, o)
<1> DEFINE n == Len(f)
           c == Filled(b, m, f)
           x == Left(o)
           y == Told(o)
<1>1. /\ f \in Seq(Nat) /\ n \in Nat /\ m \in [1 .. n -> 1 .. Len(b)]
      /\ \A k \in 1 .. n : f[k] \in Nat /\ m[k] \in 1 .. Len(b)
      /\ \A k, l \in 1 .. n : m[k] = m[l] => k = l
  <2>1. /\ f \in Seq(Nat) /\ m \in [1 .. n -> 1 .. Len(b)]
        /\ \A k, l \in 1 .. n : m[k] = m[l] => k = l
    BY Zenon DEF FillsQueue
  <2>2. n \in Nat /\ \A k \in 1 .. n : f[k] \in Nat
    BY <2>1
  <2>3. \A k \in 1 .. n : m[k] \in 1 .. Len(b)
    BY <2>1, Zenon
  <2> QED BY <2>1, <2>2, <2>3, Zenon
<1>2. /\ c \in Seq(Resting) /\ Len(c) = Len(b)
      /\ \A i \in 1 .. Len(b) : /\ c[i].id = b[i].id
                                /\ c[i].leaves = b[i].leaves - TradedAt(m, f, i)
  BY FilledFacts
<1>3. /\ x \in [Resting -> Nat] /\ y \in [Message -> Nat]
      /\ \A z \in Resting : x[z] = IF z.id = o THEN z.leaves ELSE 0
      /\ \A z \in TradeReport :
           z \in Message /\ y[z] = IF o \in {z.aggressor, z.resting} THEN z.qty ELSE 0
  BY LeftTold
<1> HIDE DEF n, c, x, y
<1>4. /\ \A i \in 1 .. Len(b) : x[b[i]] = IF b[i].id = o THEN b[i].leaves ELSE 0
      /\ \A i \in 1 .. Len(b) : x[c[i]] = IF b[i].id = o THEN c[i].leaves ELSE 0
  <2>1. \A i \in 1 .. Len(b) : b[i] \in Resting
    OBVIOUS
  <2>2. \A i \in 1 .. Len(b) : c[i] \in Resting
    BY <1>2
  <2>3. \A i \in 1 .. Len(b) : x[b[i]] = IF b[i].id = o THEN b[i].leaves ELSE 0
    BY <1>3, <2>1, Zenon
  <2>4. \A i \in 1 .. Len(b) : x[c[i]] = IF c[i].id = o THEN c[i].leaves ELSE 0
    BY <1>3, <2>2, Zenon
  <2>5. ASSUME NEW i \in 1 .. Len(b) PROVE x[c[i]] = IF b[i].id = o THEN c[i].leaves ELSE 0
    <3>1. c[i].id = b[i].id /\ x[c[i]] = IF c[i].id = o THEN c[i].leaves ELSE 0
      BY <1>2, <2>4, Zenon
    <3> QED BY <3>1
  <2> QED BY <2>3, <2>5, Zenon
<1>5. t \in Seq(Message) /\ Len(t) = n
      /\ \A k \in 1 .. n : y[t[k]] = IF o \in {order.id, b[m[k]].id} THEN f[k] ELSE 0
  <2>0. /\ t \in Seq(TradeReport) /\ Len(t) = Len(f)
        /\ \A k \in 1 .. Len(f) : /\ t[k].aggressor = order.id /\ t[k].resting = b[m[k]].id
                                   /\ t[k].qty = f[k]
    BY Zenon DEF ReportsFills
  <2>1. \A k \in 1 .. Len(t) : t[k] \in TradeReport
    BY <2>0
  <2>2. \A k \in 1 .. Len(t) : t[k] \in Message
    BY <1>3, <2>1, Zenon
  <2>3. t \in Seq(Message)
    BY <2>0, <2>2
  <2>4. Len(t) = n
    BY <2>0, Zenon DEF n
  <2> QED BY <1>3, <2>0, <2>1, <2>3, <2>4, Zenon DEF n
<1>6. ASSUME o = order.id PROVE Weight(y, t) = Sum(f)
  <2>1. \A k \in 1 .. n : y[t[k]] = f[k]
    BY <1>5, <1>6, Zenon
  <2>2. Values(y, t) = [k \in 1 .. n |-> f[k]]
    BY <1>5, <2>1, Zenon DEF Values
  <2>3. f = [k \in 1 .. n |-> f[k]]
    BY <1>1 DEF n
  <2> QED BY <2>2, <2>3, Zenon DEF Weight
<1>7. ASSUME o # order.id PROVE Weight(x, b) = Weight(x, c) + Weight(y, t)
  <2>1. \A k \in 1 .. n : y[t[k]] = IF b[m[k]].id = o THEN f[k] ELSE 0
    BY <1>5, <1>7, Zenon
  <2>2. CASE \A i \in 1 .. Len(b) : b[i].id # o
    <3>1. Weight(x, b) = 0
      <4>1. \A i \in 1 .. Len(b) : x[b[i]] = 0
        BY <1>4, <2>2, Zenon
      <4> QED BY <1>3, <4>1, WeightZero, Zenon
    <3>2. Weight(x, c) = 0
      <4>1. \A i \in 1 .. Len(c) : x[c[i]] = 0
        BY <1>2, <1>4, <2>2, Zenon
      <4> QED BY <1>2, <1>3, <4>1, WeightZero, Zenon
    <3>3. \A k \in 1 .. Len(t) : y[t[k]] = 0
      BY <1>1, <1>5, <2>1, <2>2, Zenon
    <3>4. Weight(y, t) = 0
      BY <1>3, <1>5, <3>3, WeightZero, Zenon
    <3> QED BY <3>1, <3>2, <3>4
  <2>3. ASSUME NEW j \in 1 .. Len(b), b[j].id = o PROVE Weight(x, b) = Weight(x, c) + Weight(y, t)
    <3> DEFINE d == TradedAt(m, f, j)
               l == b[j].leaves
    <3>1. \A i \in 1 .. Len(b) : i # j => b[i].id # o
      BY <2>3, Zenon DEF DistinctIds
    <3>2. Weight(x, b) = l
      <4>1. x[b[j]] = l /\ \A i \in 1 .. Len(b) : i # j => x[b[i]] = 0
        BY <1>4, <2>3, <3>1, Zenon
      <4>2. OneWeighs(x, b, j)
        BY <1>3, <4>1, WeightOne, Zenon
      <4> QED BY <4>1, <4>2, Zenon DEF OneWeighs
    <3>3. Weight(x, c) = l - d
      <4>1. x[c[j]] = l - d /\ \A i \in 1 .. Len(c) : i # j => x[c[i]] = 0
        BY <1>2, <1>4, <2>3, <3>1, Zenon
      <4>2. j \in 1 .. Len(c)
        BY <1>2, Zenon
      <4>3. OneWeighs(x, c, j)
        BY <1>2, <1>3, <4>1, <4>2, WeightOne, Zenon
      <4> QED BY <4>1, <4>3, Zenon DEF OneWeighs
    <3>4. Weight(y, t) = d
      <4>1. CASE \A k \in 1 .. n : m[k] # j
        <5>1. d = 0
          BY <4>1, TradedAtFacts DEF n
        <5>2. \A k \in 1 .. Len(t) : y[t[k]] = 0
          BY <1>1, <1>5, <2>1, <3>1, <4>1, Zenon
        <5> QED BY <1>3, <1>5, <5>1, <5>2, WeightZero, Zenon
      <4>2. ASSUME NEW k \in 1 .. n, m[k] = j PROVE Weight(y, t) = d
        <5>1. d = f[k]
          BY <4>2, TradedAtFacts DEF n
        <5>2. y[t[k]] = f[k]
          BY <2>1, <2>3, <4>2, Zenon
        <5>3. ASSUME NEW h \in 1 .. Len(t), h # k PROVE y[t[h]] = 0
          <6>1. h \in 1 .. n /\ m[h] # j /\ m[h] \in 1 .. Len(b)
            BY <1>1, <1>5, <4>2, <5>3, Zenon
          <6>2. b[m[h]].id # o
            BY <3>1, <6>1, Zenon
          <6> QED BY <2>1, <6>1, <6>2, Zenon
        <5>4. k \in 1 .. Len(t)
          BY <1>5, Zenon
        <5>5. OneWeighs(y, t, k)
          BY <1>3, <1>5, <5>3, <5>4, WeightOne, Zenon
        <5> QED BY <5>1, <5>2, <5>5, Zenon DEF OneWeighs
      <4> QED BY <4>1, <4>2, Zenon
    <3>5. d \in 0 .. l /\ l \in Nat
      <4>1. d \in 0 .. l
        BY TradedAtFacts, Zenon
      <4>2. b[j] \in Resting
        OBVIOUS
      <4>3. l \in Nat
        BY <4>2 DEF Resting
      <4> QED BY <4>1, <4>3
    <3> HIDE DEF d, l
    <3>6. l = (l - d) + d
      BY <3>5
    <3> QED BY <3>2, <3>3, <3>4, <3>6, Zenon
  <2> QED BY <2>2, <2>3, Zenon
<1> QED BY <1>5, <1>6, <1>7, Zenon DEF TradesTell, x, y, c

(* What the book and the reports say of order o, before and after a submit. *)
Explained(b, order, f, o) ==
  /\ BookAfter(b, order, f) \in Seq(Resting) /\ EventsOf(b, order, f) \in Seq(Message)
  /\ Weight(Left(o), b) + (IF o = order.id THEN order.leaves ELSE 0)
       = Weight(Left(o), BookAfter(b, order, f)) + Weight(Told(o), EventsOf(b, order, f))

(* A submit reports what it takes from the orders, the new one included.   *)
LEMMA SubmitExplains ==
  ASSUME NEW b \in Seq(Resting), DistinctIds(b), NEW order \in Resting,
         \A i \in 1 .. Len(b) : b[i].id # order.id,
         NEW a, NEW f \in Allocations(a, b, order), NEW o
  PROVE  Explained(b, order, f, o)
<1> DEFINE m == Matchable(b, order.side, order.price)
           q == Queue(b, order)
           c == Filled(b, m, f)
           t == Trades(order, q, f)
           d == Sum(f)
           e == [order EXCEPT !.leaves = @ - d]
           u == Append(c, e)
           S == {z \in Elems(u) : z.leaves # 0}
           T == {z \in Elems(t) : z.qty # 0}
           k == [type |-> "Ack", id |-> order.id]
           a1 == <<k>>
           x == Left(o)
           y == Told(o)
<1>1. BookAfter(b, order, f) = Keep(u, S) /\ EventsOf(b, order, f) = <<k>> \o Keep(t, T)
  BY Zenon DEF BookAfter, Open, EventsOf
<1>2. /\ FillsQueue(b, order, m, f) /\ DOMAIN q = 1 .. Len(f)
      /\ \A l \in 1 .. Len(f) : q[l] = b[m[l]]
  BY AllocationFills
<1>3. order.leaves \in Nat /\ order.id \in Nat
  BY DEF Resting
<1>4. d \in 0 .. order.leaves
  BY <1>2, Zenon DEF FillsQueue
<1> HIDE DEF d, m, q
<1>5. e \in Resting /\ e.id = order.id /\ e.leaves = order.leaves - d
  <2>1. order.leaves - d \in Nat
    BY <1>3, <1>4
  <2> QED BY <2>1 DEF Resting
<1>6. k \in Message /\ k.type # "Trade"
  BY <1>3 DEF Message
<1> HIDE DEF e, k
<1>7. /\ c \in Seq(Resting) /\ Len(c) = Len(b)
      /\ \A i \in 1 .. Len(b) : c[i].id = b[i].id
  <2>1. FillsQueue(b, order, m, f)
    BY <1>2, Zenon
  <2> QED BY <2>1, FilledFacts
<1>8. ReportsFills(t, b, order, m, f)
  BY <1>2, TradesFacts, Zenon
<1> HIDE DEF t
<1>9. /\ t \in Seq(Message)
      /\ o # order.id => Weight(x, b) = Weight(x, c) + Weight(y, t)
      /\ o = order.id => Weight(y, t) = d
  <2>1. TradesTell(t, b, order, m, f, o)
    BY <1>2, <1>8, TradesExplain, Zenon
  <2> QED BY <2>1, Zenon DEF TradesTell, d
<1> HIDE DEF c
<1>10. /\ x \in [Resting -> Nat] /\ y \in [Message -> Nat]
       /\ \A z \in Resting : x[z] = IF z.id = o THEN z.leaves ELSE 0
       /\ \A z \in Message : z.type # "Trade" => y[z] = 0
       /\ \A z \in TradeReport : y[z] = IF o \in {z.aggressor, z.resting} THEN z.qty ELSE 0
  BY LeftTold
<1> HIDE DEF x, y
<1>11. u \in Seq(Resting) /\ Weight(x, u) = Weight(x, c) + x[e]
  <2>1. u \in Seq(Resting)
    BY <1>5, <1>7
  <2> QED BY <1>5, <1>7, <1>10, <2>1, WeightAppend
<1> HIDE DEF u
<1>12. Keep(u, S) \in Seq(Resting) /\ Weight(x, Keep(u, S)) = Weight(x, u)
  <2>1. \A i \in 1 .. Len(u) : u[i] \in Resting /\ u[i] \in Elems(u)
    BY <1>11 DEF Elems
  <2>2. \A i \in 1 .. Len(u) : u[i] \notin S => x[u[i]] = 0
    BY <1>10, <2>1, Zenon
  <2> HIDE DEF S
  <2>3. Keep(u, S) \in Seq(Resting)
    BY <1>11, KeepElems, Zenon
  <2> QED BY <1>10, <1>11, <2>2, <2>3, WeightKeep, Zenon
<1>13. Keep(t, T) \in Seq(Message) /\ Weight(y, Keep(t, T)) = Weight(y, t)
  <2>0. t \in Seq(TradeReport)
    BY <1>8, Zenon DEF ReportsFills
  <2>1. \A i \in 1 .. Len(t) : t[i] \in TradeReport /\ t[i] \in Elems(t)
    BY <2>0 DEF Elems
  <2>2. \A i \in 1 .. Len(t) : t[i] \notin T => y[t[i]] = 0
    BY <1>10, <2>1, Zenon
  <2> HIDE DEF T
  <2>3. Keep(t, T) \in Seq(Message)
    BY <1>9, KeepElems, Zenon
  <2> QED BY <1>9, <1>10, <2>2, <2>3, WeightKeep, Zenon
<1> HIDE DEF S, T
<1>14. a1 \in Seq(Message) /\ Weight(y, a1) = 0
  <2>1. a1 \in Seq(Message) /\ Len(a1) = 1 /\ a1[1] = k
    BY <1>6
  <2> HIDE DEF a1
  <2>2. y[k] = 0
    BY <1>6, <1>10, Zenon
  <2>3. \A i \in 1 .. Len(a1) : y[a1[i]] = 0
    BY <2>1, <2>2
  <2> QED BY <1>10, <2>1, <2>3, WeightZero, Zenon
<1> HIDE DEF a1
<1>15. /\ a1 \o Keep(t, T) \in Seq(Message)
       /\ Weight(y, a1 \o Keep(t, T)) = Weight(y, a1) + Weight(y, t)
  <2>1. a1 \o Keep(t, T) \in Seq(Message)
    BY <1>13, <1>14
  <2> DEFINE p == Keep(t, T)
  <2>2. p \in Seq(Message)
    BY <1>13, Zenon
  <2> HIDE DEF p
  <2>3. BothWeigh(y, a1, p)
    BY <1>10, <1>14, <2>2, WeightConcat, Zenon
  <2> QED BY <1>13, <2>1, <2>3, Zenon DEF BothWeigh, p
<1>16. Weight(x, b) \in Nat /\ Weight(x, c) \in Nat /\ Weight(y, t) \in Nat
  BY <1>7, <1>9, <1>10, WeightType, Zenon
<1>17. x[e] = IF o = order.id THEN order.leaves - d ELSE 0
  BY <1>5, <1>10, Zenon
<1>18. o = order.id => Weight(x, b) = 0 /\ Weight(x, c) = 0
  <2>1. ASSUME o = order.id
        PROVE  /\ \A i \in 1 .. Len(b) : x[b[i]] = 0
               /\ \A i \in 1 .. Len(c) : x[c[i]] = 0
    <3>1. \A i \in 1 .. Len(b) : b[i] \in Resting
      OBVIOUS
    <3>2. \A i \in 1 .. Len(c) : c[i] \in Resting
      BY <1>7
    <3>3. \A i \in 1 .. Len(c) : c[i].id # o
      BY <1>7, <2>1, Zenon
    <3> QED BY <1>10, <2>1, <3>1, <3>2, <3>3, Zenon
  <2>2. (\A i \in 1 .. Len(b) : x[b[i]] = 0) => Weight(x, b) = 0
    BY <1>10, WeightZero, Zenon
  <2>3. (\A i \in 1 .. Len(c) : x[c[i]] = 0) => Weight(x, c) = 0
    BY <1>7, <1>10, WeightZero, Zenon
  <2> QED BY <2>1, <2>2, <2>3, Zenon
<1>19. Weight(x, b) + (IF o = order.id THEN order.leaves ELSE 0)
         = (Weight(x, c) + x[e]) + (Weight(y, a1) + Weight(y, t))
  <2> DEFINE p == Weight(x, b)
             r == Weight(x, c)
             w == Weight(y, t)
             n == order.leaves
  <2>1. p \in Nat /\ r \in Nat /\ w \in Nat /\ n \in Nat /\ d \in 0 .. n
    BY <1>3, <1>4, <1>16, Zenon
  <2> HIDE DEF p, r, w, n
  <2>2. CASE o = order.id
    <3>1. p = 0 /\ r = 0 /\ w = d /\ x[e] = n - d
      BY <1>9, <1>17, <1>18, <2>2, Zenon DEF p, r, w, n
    <3>2. p + n = (r + (n - d)) + (0 + w)
      BY <2>1, <3>1
    <3> QED BY <1>14, <2>2, <3>1, <3>2, Zenon DEF p, r, w, n
  <2>3. CASE o # order.id
    <3>1. p = r + w /\ x[e] = 0
      BY <1>9, <1>17, <2>3, Zenon DEF p, r, w
    <3>2. p + 0 = (r + 0) + (0 + w)
      BY <2>1, <3>1
    <3> QED BY <1>14, <2>3, <3>1, <3>2, Zenon DEF p, r, w
  <2> QED BY <2>2, <2>3, Zenon
<1>20. Weight(x, Keep(u, S)) + Weight(y, a1 \o Keep(t, T))
         = (Weight(x, c) + x[e]) + (Weight(y, a1) + Weight(y, t))
  BY <1>11, <1>12, <1>15, Zenon
<1> QED BY <1>1, <1>12, <1>15, <1>19, <1>20, Zenon DEF Explained, x, y, a1

-----------------------------------------------------------------------------
(* All threads together.                                                   *)

(* Every thread has one place in Threads.                                  *)
LEMMA ThreadsFacts ==
  /\ Threads \in Seq(Sessions)
  /\ \A s \in Sessions :
       \E j \in 1 .. Len(Threads) :
         Threads[j] = s /\ \A i \in 1 .. Len(Threads) : i # j => Threads[i] # s
<1> DEFINE n == Cardinality(Sessions)
<1>1. n \in Nat /\ \E e : e \in Bijection(1 .. n, Sessions)
  BY OrderEntryAssumption, FS_CardinalityType, Zenon DEF ExistsBijection
<1>2. Threads \in Bijection(1 .. n, Sessions)
  BY <1>1, Zenon DEF Threads
<1> HIDE DEF n
<1>3. /\ Threads \in [1 .. n -> Sessions]
      /\ \A i, j \in 1 .. n : Threads[i] = Threads[j] => i = j
      /\ \A s \in Sessions : \E j \in 1 .. n : Threads[j] = s
  BY <1>2, Zenon DEF Bijection, Injection, Surjection, IsInjective
<1>4. Threads \in Seq(Sessions) /\ Len(Threads) = n
  BY <1>1, <1>3
<1> QED BY <1>3, <1>4

(* One thread's number grows, the others stay.                             *)
LEMMA ThreadsChanged ==
  ASSUME NEW g \in [Sessions -> Nat], NEW h \in [Sessions -> Nat], NEW s \in Sessions,
         NEW d \in Nat, h[s] = g[s] + d, \A t \in Sessions : t # s => h[t] = g[t]
  PROVE  Weight(h, Threads) = Weight(g, Threads) + d
<1> DEFINE p == Values(g, Threads)
           q == Values(h, Threads)
<1>1. /\ Threads \in Seq(Sessions)
      /\ \E j \in 1 .. Len(Threads) :
           Threads[j] = s /\ \A i \in 1 .. Len(Threads) : i # j => Threads[i] # s
  BY ThreadsFacts, Zenon
<1>2. PICK j \in 1 .. Len(Threads) :
        Threads[j] = s /\ \A i \in 1 .. Len(Threads) : i # j => Threads[i] # s
  BY <1>1, Zenon
<1>3. \A i \in 1 .. Len(Threads) : Threads[i] \in Sessions
  BY <1>1
<1>4. p \in Seq(Nat) /\ q \in Seq(Nat) /\ Len(p) = Len(Threads) /\ Len(q) = Len(Threads)
  BY <1>1, ValuesAppend, Zenon
<1>5. \A i \in 1 .. Len(Threads) : p[i] = g[Threads[i]] /\ q[i] = h[Threads[i]]
  BY Zenon DEF Values
<1> HIDE DEF p, q
<1>6. q[j] = p[j] + d /\ \A i \in 1 .. Len(p) : i # j => q[i] = p[i]
  BY <1>2, <1>3, <1>4, <1>5
<1>7. j \in 1 .. Len(p) /\ Len(q) = Len(p)
  BY <1>2, <1>4, Zenon
<1>8. Sum(q) = Sum(p) + d
  BY <1>4, <1>6, <1>7, SumChanged, Zenon
<1> QED BY <1>8, Zenon DEF Weight, p, q

(* The weight of a list is that of its head and of its tail.               *)
LEMMA WeightHead ==
  ASSUME NEW X, NEW v \in [X -> Nat], NEW s \in Seq(X), s # <<>>
  PROVE  /\ Head(s) \in X /\ Tail(s) \in Seq(X)
         /\ Weight(v, s) = v[Head(s)] + Weight(v, Tail(s))
<1>1. Head(s) \in X /\ Tail(s) \in Seq(X) /\ s = <<Head(s)>> \o Tail(s)
  OBVIOUS
<1> DEFINE h == <<Head(s)>>
<1>2. h \in Seq(X) /\ Len(h) = 1 /\ 1 \in 1 .. Len(h) /\ h[1] = Head(s)
      /\ \A i \in 1 .. Len(h) : i = 1
  BY <1>1
<1> HIDE DEF h
<1>3. Weight(v, h \o Tail(s)) = Weight(v, h) + Weight(v, Tail(s))
  BY <1>1, <1>2, WeightConcat, Zenon DEF BothWeigh
<1>4. h = Append(<<>>, Head(s)) /\ <<>> \in Seq(X) /\ v[Head(s)] \in Nat
  BY <1>1 DEF h
<1>5. Weight(v, h) = v[Head(s)]
  <2>1. Weight(v, h) = Weight(v, <<>>) + v[Head(s)] /\ Weight(v, <<>>) = 0
    BY <1>1, <1>4, WeightAppend, WeightType
  <2> QED BY <1>4, <2>1
<1>6. s = h \o Tail(s)
  BY <1>1 DEF h
<1>7. Weight(v, s) = v[Head(s)] + Weight(v, Tail(s))
  BY <1>2, <1>3, <1>5, <1>6, Zenon
<1> QED BY <1>1, <1>7, Zenon

(* What each session has been or will be told of order o.                  *)
TradedBy(w, e, o) == [s \in Sessions |-> Weight(Told(o), w[s]) + Weight(Told(o), e[s])]

MessageInv == \A s \in Sessions : wire[s] \in Seq(Message) /\ events[s] \in Seq(Message)

(* They are numbers.                                                       *)
LEMMA TradedByType ==
  ASSUME NEW w, NEW e, \A s \in Sessions : w[s] \in Seq(Message) /\ e[s] \in Seq(Message), NEW o
  PROVE  /\ TradedBy(w, e, o) \in [Sessions -> Nat] /\ Weight(TradedBy(w, e, o), Threads) \in Nat
         /\ \A s \in Sessions : /\ Weight(Told(o), w[s]) \in Nat
                                /\ Weight(Told(o), e[s]) \in Nat
<1>1. Told(o) \in [Message -> Nat]
  BY LeftTold, Zenon
<1>2. \A s \in Sessions : Weight(Told(o), w[s]) \in Nat /\ Weight(Told(o), e[s]) \in Nat
  BY <1>1, WeightType, Zenon
<1>3. \A s \in Sessions : Weight(Told(o), w[s]) + Weight(Told(o), e[s]) \in Nat
  BY <1>2
<1>4. TradedBy(w, e, o) \in [Sessions -> Nat]
  BY <1>3, Zenon DEF TradedBy
<1>5. Threads \in Seq(Sessions)
  BY ThreadsFacts, Zenon
<1>6. Weight(TradedBy(w, e, o), Threads) \in Nat
  BY <1>4, <1>5, WeightType, Zenon
<1> QED BY <1>2, <1>4, <1>6, Zenon

(* What is reported of order o, before and after the locked block of a     *)
(* thread that ends with the events ev.                                    *)
ToldMore(ev, o) ==
  Weight(TradedBy(wire', events', o), Threads)
    = Weight(TradedBy(wire, events, o), Threads) + Weight(Told(o), ev)

(* The events are added to what is reported.                               *)
LEMMA UnlockTraded ==
  ASSUME AckInv, MessageInv, NEW s \in Sessions, pc[s] # "report", NEW ev \in Seq(Message),
         Unlock(s, ev)
  PROVE  MessageInv' /\ \A o : ToldMore(ev, o)
<1>1. events' = [events EXCEPT ![s] = ev] /\ wire' = wire
  BY DEF Unlock
<1>2. InStep(wire[s], events[s], up[s], pc[s], OrdersOf(entered, s)) /\ DOMAIN events = Sessions
  BY Zenon DEF AckInv
<1>3. events[s] = <<>>
  BY <1>2, Zenon DEF InStep
<1>4. events'[s] = ev /\ \A t \in Sessions : t # s => events'[t] = events[t]
  BY <1>1, <1>2, Zenon
<1>5. \A t \in Sessions : wire'[t] \in Seq(Message) /\ events'[t] \in Seq(Message)
  BY <1>1, <1>4, Zenon DEF MessageInv
<1>6. MessageInv'
  BY <1>5, Zenon DEF MessageInv
<1>7. ASSUME NEW o PROVE ToldMore(ev, o)
  <2> DEFINE g == TradedBy(wire, events, o)
             h == TradedBy(wire', events', o)
             d == Weight(Told(o), ev)
             y == Weight(Told(o), wire[s])
  <2>1. g \in [Sessions -> Nat] /\ y \in Nat
    BY TradedByType, Zenon DEF MessageInv
  <2>2. h \in [Sessions -> Nat]
    BY <1>5, TradedByType, Zenon
  <2>3. d \in Nat /\ Weight(Told(o), <<>>) = 0
    <3>1. Told(o) \in [Message -> Nat]
      BY LeftTold, Zenon
    <3> QED BY <3>1, WeightType, Zenon
  <2>4. g[s] = y + Weight(Told(o), <<>>) /\ h[s] = y + d
    BY <1>1, <1>3, <1>4, Zenon DEF TradedBy
  <2>5. \A t \in Sessions : t # s => h[t] = g[t]
    BY <1>1, <1>4 DEF TradedBy
  <2> HIDE DEF g, h, d, y
  <2>6. h[s] = g[s] + d
    <3>1. g[s] = y + 0
      BY <2>3, <2>4, Zenon
    <3> QED BY <2>1, <2>3, <2>4, <3>1
  <2>7. Weight(h, Threads) = Weight(g, Threads) + d
    BY <2>1, <2>2, <2>3, <2>5, <2>6, ThreadsChanged, Zenon
  <2> QED BY <2>7, Zenon DEF ToldMore, g, h, d
<1> QED BY <1>6, <1>7, Zenon

-----------------------------------------------------------------------------
(* The reports account for the book.                                       *)

(* A thread that holds the lock routes a message of its client, and an id  *)
(* is fetched for a new order only.                                        *)
ChunkInv ==
  /\ DOMAIN chunk = Sessions
  /\ \A s \in Sessions :
       /\ chunk[s] \in Seq(Requests[s])
       /\ pc[s] \in Holding => chunk[s] # <<>>
       /\ pc[s] = "numbered" => Head(chunk[s]).type = "New"

(* The quantity with which order o was entered, if it was.                 *)
QtyOf(e, o) == IF o \in DOMAIN e THEN e[o].qty ELSE 0

Balanced(b, en, w, e, o) ==
  QtyOf(en, o) = Weight(Left(o), b) + Weight(TradedBy(w, e, o), Threads)

(* While all clients are there, every id that no cancel has named is       *)
(* accounted for: also those that no order has yet.                        *)
BalanceInv ==
  (\A s \in Sessions : up[s]) =>
    \A o \in Nat \ cancelled : Balanced(book, entered, wire, events, o)

ExplainInv == ChunkInv /\ MessageInv /\ book \in Seq(Resting) /\ BalanceInv

(* A chunk that is not touched.                                            *)
LEMMA SameChunk ==
  ASSUME ChunkInv, DOMAIN pc = Sessions, chunk' = chunk, NEW s \in Sessions,
         pc' = pc \/ \E place : place \notin Holding /\ pc' = [pc EXCEPT ![s] = place]
  PROVE  ChunkInv'
<1>1. \A t \in Sessions : pc'[t] \in Holding => pc'[t] = pc[t]
  OBVIOUS
<1>2. "numbered" \in Holding
  BY DEF Holding
<1>3. \A t \in Sessions : /\ chunk'[t] \in Seq(Requests[t])
                          /\ pc'[t] \in Holding => chunk'[t] # <<>>
                          /\ pc'[t] = "numbered" => Head(chunk'[t]).type = "New"
  BY <1>1, <1>2, Zenon DEF ChunkInv
<1>4. DOMAIN chunk' = Sessions
  BY Zenon DEF ChunkInv
<1> QED BY <1>3, <1>4, Zenon DEF ChunkInv

(* The message that was routed is dropped.                                 *)
LEMMA UnlockChunk ==
  ASSUME ChunkInv, DOMAIN pc = Sessions, NEW s \in Sessions, pc[s] \in Holding, NEW ev,
         Unlock(s, ev)
  PROVE  ChunkInv'
<1>1. chunk' = [chunk EXCEPT ![s] = Tail(chunk[s])] /\ pc' = [pc EXCEPT ![s] = "report"]
  BY DEF Unlock, Goto
<1>2. DOMAIN chunk = Sessions /\ chunk[s] \in Seq(Requests[s]) /\ chunk[s] # <<>>
  BY Zenon DEF ChunkInv
<1>3. Tail(chunk[s]) \in Seq(Requests[s])
  BY <1>2
<1>4. /\ DOMAIN chunk' = Sessions /\ chunk'[s] = Tail(chunk[s]) /\ pc'[s] = "report"
      /\ \A t \in Sessions : t # s => chunk'[t] = chunk[t] /\ pc'[t] = pc[t]
  BY <1>1, <1>2, Zenon
<1>5. "report" \notin Holding /\ "report" # "numbered"
  BY DEF Holding
<1>6. \A t \in Sessions : /\ chunk'[t] \in Seq(Requests[t])
                          /\ pc'[t] \in Holding => chunk'[t] # <<>>
                          /\ pc'[t] = "numbered" => Head(chunk'[t]).type = "New"
  BY <1>3, <1>4, <1>5, Zenon DEF ChunkInv
<1> QED BY <1>4, <1>6, Zenon DEF ChunkInv

(* A chunk arrives.                                                        *)
LEMMA RecvChunk ==
  ASSUME ChunkInv, DOMAIN pc = Sessions, NEW s \in Sessions, NEW reqs \in Chunks(s), NEW n,
         NEW close, Recv(s, reqs, n, close)
  PROVE  ChunkInv'
<1>1. chunk' = [chunk EXCEPT ![s] = reqs] /\ pc' = [pc EXCEPT ![s] = "reply"]
  BY DEF Recv, Goto
<1>2. DOMAIN chunk = Sessions
  BY Zenon DEF ChunkInv
<1>3. reqs \in Seq(Requests[s])
  <2>1. PICK l \in 0 .. MaxChunk : reqs \in [1 .. l -> Requests[s]]
    BY Zenon DEF Chunks
  <2> QED BY <2>1, OrderEntryAssumption
<1>4. /\ DOMAIN chunk' = Sessions /\ chunk'[s] = reqs /\ pc'[s] = "reply"
      /\ \A t \in Sessions : t # s => chunk'[t] = chunk[t] /\ pc'[t] = pc[t]
  BY <1>1, <1>2, Zenon
<1>5. "reply" \notin Holding /\ "reply" # "numbered"
  BY DEF Holding
<1>6. \A t \in Sessions : /\ chunk'[t] \in Seq(Requests[t])
                          /\ pc'[t] \in Holding => chunk'[t] # <<>>
                          /\ pc'[t] = "numbered" => Head(chunk'[t]).type = "New"
  BY <1>3, <1>4, <1>5, Zenon DEF ChunkInv
<1> QED BY <1>4, <1>6, Zenon DEF ChunkInv

(* The lock is taken for a message, and an id for a new order.             *)
LEMMA HoldChunk ==
  ASSUME ChunkInv, DOMAIN pc = Sessions, NEW s \in Sessions, Lock(s) \/ FetchId(s)
  PROVE  ChunkInv'
<1>1. chunk' = chunk /\ DOMAIN chunk = Sessions
  BY Zenon DEF Lock, FetchId, ChunkInv
<1>2. chunk[s] # <<>>
  BY DEF Lock, FetchId, ChunkInv, Holding
<1>3. /\ pc' = [pc EXCEPT ![s] = "locked"] \/ pc' = [pc EXCEPT ![s] = "numbered"]
      /\ pc' = [pc EXCEPT ![s] = "numbered"] => Head(chunk[s]).type = "New"
  <2>1. CASE Lock(s)
    BY <2>1 DEF Lock, Goto
  <2>2. CASE FetchId(s)
    BY <2>2, Zenon DEF FetchId, Goto
  <2> QED BY <2>1, <2>2, Zenon
<1>4. /\ \A t \in Sessions : t # s => pc'[t] = pc[t]
      /\ pc'[s] = "numbered" => Head(chunk[s]).type = "New"
  BY <1>3
<1>5. \A t \in Sessions : /\ chunk'[t] \in Seq(Requests[t])
                          /\ pc'[t] \in Holding => chunk'[t] # <<>>
                          /\ pc'[t] = "numbered" => Head(chunk'[t]).type = "New"
  BY <1>1, <1>2, <1>4, Zenon DEF ChunkInv
<1> QED BY <1>1, <1>5, Zenon DEF ChunkInv

(* Steps that leave the book, the reports and the clients alone.           *)
LEMMA SameBalance ==
  ASSUME ExplainInv, ChunkInv', UNCHANGED <<book, wire, events, up, entered, cancelled>>
  PROVE  ExplainInv'
<1>1. MessageInv'
  BY DEF ExplainInv, MessageInv
<1>2. BalanceInv'
  BY Zenon DEF ExplainInv, BalanceInv
<1> QED BY <1>1, <1>2 DEF ExplainInv

(* Steps that take the book no further, but report something.              *)
LEMMA SameReports ==
  ASSUME ExplainInv, ChunkInv', MessageInv', UNCHANGED <<book, up, entered, cancelled>>,
         NEW s \in Sessions,
         \A t \in Sessions : t # s => wire'[t] = wire[t] /\ events'[t] = events[t],
         up[s] => \A o : TradedBy(wire', events', o)[s] = TradedBy(wire, events, o)[s]
  PROVE  ExplainInv'
<1>1. ASSUME \A t \in Sessions : up[t], NEW o
      PROVE  TradedBy(wire', events', o) = TradedBy(wire, events, o)
  <2> DEFINE g == TradedBy(wire, events, o)
             h == TradedBy(wire', events', o)
  <2>1. /\ g = [t \in Sessions |-> g[t]] /\ h = [t \in Sessions |-> h[t]]
    BY Zenon DEF TradedBy
  <2>2. \A t \in Sessions : t # s => h[t] = g[t]
    BY Zenon DEF TradedBy
  <2>3. h[s] = g[s]
    BY <1>1, Zenon
  <2> HIDE DEF g, h
  <2>4. [t \in Sessions |-> h[t]] = [t \in Sessions |-> g[t]]
    BY <2>2, <2>3, Zenon
  <2>5. h = g
    BY <2>1, <2>4, Zenon
  <2> QED BY <2>5, Zenon DEF g, h
<1>2. BalanceInv'
  <2> SUFFICES ASSUME \A t \in Sessions : up'[t], NEW o \in Nat \ cancelled'
               PROVE  Balanced(book', entered', wire', events', o)
    BY Zenon DEF BalanceInv
  <2>1. Balanced(book, entered, wire, events, o)
    BY Zenon DEF ExplainInv, BalanceInv
  <2>2. TradedBy(wire', events', o) = TradedBy(wire, events, o)
    BY <1>1, Zenon
  <2> QED BY <2>1, <2>2, Zenon DEF Balanced
<1> QED BY <1>2 DEF ExplainInv

(* A reply is written: it says nothing of any order.                       *)
LEMMA WriteReplyExplains ==
  ASSUME IdInv, AckInv, ExplainInv, NEW s \in Sessions, NEW ok \in BOOLEAN, WriteReply(s, ok)
  PROVE  ExplainInv'
<1> DEFINE r == [type |-> "Reply"]
           w == wire[s]
<1>1. /\ Write(s, r, ok) /\ UNCHANGED <<pc, chunk, events, up, book, entered, cancelled>>
  BY Zenon DEF WriteReply, shared
<1>2. /\ \A t \in Sessions : t # s => wire'[t] = wire[t]
      /\ wire'[s] = IF up[s] THEN Append(w, r) ELSE w
  BY <1>1, WriteFacts, Zenon
<1>3. r \in Message /\ r.type # "Trade"
  BY DEF Message
<1>4. /\ w \in Seq(Message)
      /\ \A t \in Sessions : wire[t] \in Seq(Message) /\ events[t] \in Seq(Message)
  BY Zenon DEF ExplainInv, MessageInv
<1> HIDE DEF r, w
<1>5. MessageInv'
  <2>1. Append(w, r) \in Seq(Message)
    BY <1>3, <1>4
  <2> QED BY <1>1, <1>2, <1>4, <2>1, Zenon DEF MessageInv
<1>6. ASSUME up[s], NEW o PROVE TradedBy(wire', events', o)[s] = TradedBy(wire, events, o)[s]
  <2> DEFINE y == Told(o)
             n == Weight(y, w)
  <2>1. y \in [Message -> Nat] /\ y[r] = 0
    BY <1>3, LeftTold, Zenon
  <2> HIDE DEF y
  <2>2. Weight(y, Append(w, r)) = n + y[r] /\ n \in Nat
    BY <1>3, <1>4, <2>1, WeightAppend, WeightType, Zenon
  <2>3. wire'[s] = Append(w, r)
    BY <1>2, <1>6, Zenon
  <2> HIDE DEF n
  <2>4. Weight(y, wire'[s]) = n
    BY <2>1, <2>2, <2>3
  <2> QED BY <1>1, <2>4, Zenon DEF TradedBy, y, n, w
<1>7. ChunkInv'
  BY <1>1, SameChunk, Zenon DEF ExplainInv, IdInv, Alone
<1>8. \A t \in Sessions : t # s => wire'[t] = wire[t] /\ events'[t] = events[t]
  BY <1>1, <1>2, Zenon
<1> QED BY <1>1, <1>5, <1>6, <1>7, <1>8, SameReports, Zenon

(* A report goes from the events to the wire.                              *)
LEMMA ReportExplains ==
  ASSUME IdInv, AckInv, ExplainInv, NEW s \in Sessions, NEW ok \in BOOLEAN, Report(s, ok)
  PROVE  ExplainInv'
<1> DEFINE w == wire[s]
           e == events[s]
           h == Head(e)
<1>1. /\ Write(s, h, ok) /\ e # <<>> /\ UNCHANGED <<pc, chunk, up, book, entered, cancelled>>
      /\ events' = [events EXCEPT ![s] = IF ok THEN Tail(e) ELSE <<>>]
  BY Zenon DEF Report, shared
<1>2. /\ \A t \in Sessions : t # s => wire'[t] = wire[t]
      /\ wire'[s] = IF up[s] THEN Append(w, h) ELSE w
      /\ up[s] => ok
  BY <1>1, WriteFacts, Zenon
<1>3. DOMAIN events = Sessions
  BY Zenon DEF AckInv
<1>4. /\ events'[s] = IF ok THEN Tail(e) ELSE <<>>
      /\ \A t \in Sessions : t # s => events'[t] = events[t]
  BY <1>1, <1>3, Zenon
<1>5. /\ w \in Seq(Message) /\ e \in Seq(Message)
      /\ \A t \in Sessions : wire[t] \in Seq(Message) /\ events[t] \in Seq(Message)
  BY Zenon DEF ExplainInv, MessageInv
<1>6. ASSUME NEW o
      PROVE  /\ Told(o) \in [Message -> Nat] /\ h \in Message /\ Tail(e) \in Seq(Message)
             /\ Weight(Told(o), e) = Told(o)[h] + Weight(Told(o), Tail(e))
  <2> HIDE DEF e
  <2>1. Told(o) \in [Message -> Nat]
    BY LeftTold, Zenon
  <2> QED BY <1>1, <1>5, <2>1, WeightHead, Zenon
<1> HIDE DEF w, e, h
<1>7. MessageInv'
  <2>1. Append(w, h) \in Seq(Message) /\ <<>> \in Seq(Message)
    BY <1>5, <1>6
  <2>2. wire'[s] \in Seq(Message)
    BY <1>2, <1>5, <2>1, Zenon
  <2>3. events'[s] \in Seq(Message)
    BY <1>4, <1>6, <2>1, Zenon
  <2> QED BY <1>2, <1>4, <1>5, <2>2, <2>3, Zenon DEF MessageInv
<1>8. ASSUME up[s], NEW o PROVE TradedBy(wire', events', o)[s] = TradedBy(wire, events, o)[s]
  <2> DEFINE y == Told(o)
             n == Weight(y, w)
             k == y[h]
             l == Weight(y, Tail(e))
  <2>1. y \in [Message -> Nat] /\ Weight(y, e) = k + l
    BY <1>6, Zenon
  <2>2. Weight(y, Append(w, h)) = n + k /\ n \in Nat /\ l \in Nat
    <3> HIDE DEF y
    <3> QED BY <1>5, <1>6, <2>1, WeightAppend, WeightType, Zenon
  <2>3. k \in Nat
    <3> HIDE DEF y
    <3> QED BY <1>6, <2>1
  <2>4. wire'[s] = Append(w, h) /\ events'[s] = Tail(e)
    BY <1>2, <1>4, <1>8, Zenon
  <2>5. TradedBy(wire', events', o)[s] = (n + k) + l
    BY <2>2, <2>4, Zenon DEF TradedBy
  <2>6. TradedBy(wire, events, o)[s] = n + (k + l)
    BY <2>1, Zenon DEF TradedBy, w, e
  <2> HIDE DEF n, k, l
  <2>7. (n + k) + l = n + (k + l)
    BY <2>2, <2>3
  <2> QED BY <2>5, <2>6, <2>7, Zenon
<1>9. ChunkInv'
  BY <1>1, SameChunk, Zenon DEF ExplainInv, IdInv, Alone
<1>10. \A t \in Sessions : t # s => wire'[t] = wire[t] /\ events'[t] = events[t]
  BY <1>2, <1>4, Zenon
<1> QED BY <1>1, <1>7, <1>8, <1>9, <1>10, SameReports, Zenon

(* The message that a thread with the lock routes.                         *)
LEMMA Routed ==
  ASSUME ChunkInv, NEW s \in Sessions, pc[s] \in Holding
  PROVE  LET req == Head(chunk[s])
         IN  /\ req \in Sent /\ req.key \in Keys
             /\ pc[s] = "numbered" => req \in News /\ req.price \in Int /\ req.qty \in Nat
<1> DEFINE req == Head(chunk[s])
<1>1. chunk[s] \in Seq(Requests[s]) /\ chunk[s] # <<>>
  BY Zenon DEF ChunkInv
<1>2. req \in Requests[s]
  BY <1>1
<1>3. pc[s] = "numbered" => req.type = "New"
  BY Zenon DEF ChunkInv
<1> HIDE DEF req
<1>4. req \in Sent /\ req.key \in Keys
  BY <1>2, Zenon DEF Sent, Keys
<1>5. pc[s] = "numbered" => req \in News
  BY <1>3, <1>4, Zenon DEF News
<1>6. \A x \in News : x.price \in Int /\ x.qty \in Nat
  BY OrderEntryAssumption, Zenon
<1> QED BY <1>4, <1>5, <1>6, Zenon DEF req

(* The ids of the book are those of orders entered before.                 *)
LEMMA IdsDiffer ==
  ASSUME NEW b, NEW k \in Nat, IdList(b, k)
  PROVE  DistinctIds(b) /\ \A i \in 1 .. Len(b) : b[i].id # k
<1>1. Len(b) \in Nat
  BY ListFacts DEF IdList
<1>2. \A i \in 1 .. Len(b) : b[i].id \in Nat /\ b[i].id < k
  BY Zenon DEF IdList
<1>3. ASSUME NEW i \in 1 .. Len(b), NEW j \in 1 .. Len(b), b[i].id = b[j].id PROVE i = j
  <2>1. ~(b[i].id < b[j].id) /\ ~(b[j].id < b[i].id)
    BY <1>2, <1>3
  <2>2. ~(i < j) /\ ~(j < i)
    BY <2>1, Zenon DEF IdList
  <2> QED BY <1>1, <2>2
<1>4. \A i \in 1 .. Len(b) : b[i].id # k
  BY <1>2
<1> QED BY <1>3, <1>4, Zenon DEF DistinctIds

(* What the order of a submit and the fills make of the balance.           *)
LEMMA BalanceSubmit ==
  ASSUME NEW q, NEW r, NEW x \in Nat, NEW y \in Nat, NEW t \in Nat, NEW u, NEW v \in Nat,
         NEW n \in Nat, NEW new \in BOOLEAN,
         q = x + t, x + (IF new THEN n ELSE 0) = y + v, u = t + v,
         new => q = 0 /\ r = n, ~new => r = q
  PROVE  r = y + u
<1>1. CASE new
  BY <1>1
<1>2. CASE ~new
  BY <1>2
<1> QED BY <1>1, <1>2

(* A submit: what it takes from the orders is in the events.               *)
LEMMA SubmitExplained ==
  ASSUME IdInv, AckInv, ExplainInv, NEW s \in Sessions, Submit(s)
  PROVE  ExplainInv'
<1> DEFINE req == Head(chunk[s])
           order == [id |-> id[s], key |-> req.key, side |-> req.side, price |-> req.price,
                     leaves |-> req.qty]
           k == id[s]
<1>1. PICK f \in Allocations(algo, book, order) :
        book' = BookAfter(book, order, f) /\ Unlock(s, EventsOf(book, order, f))
  BY Zenon DEF Submit
<1>2. /\ pc[s] = "numbered" /\ cancelled' = cancelled
      /\ entered' = [o \in DOMAIN entered \cup {k} |->
                       IF o = k THEN [session |-> s, key |-> req.key, qty |-> req.qty]
                       ELSE entered[o]]
  BY Zenon DEF Submit
<1>3. k \in Nat /\ Numbered(book, entered, k)
  BY <1>2, Zenon DEF IdInv, Numbers
<1>4. ChunkInv /\ MessageInv /\ book \in Seq(Resting) /\ BalanceInv /\ DOMAIN pc = Sessions
  BY Zenon DEF ExplainInv, IdInv, Alone
<1>5. pc[s] \in Holding /\ pc[s] # "report"
  BY <1>2 DEF Holding
<1>6. req.key \in Keys /\ req \in News /\ req.price \in Int /\ req.qty \in Nat
  BY <1>2, <1>4, <1>5, Routed, Zenon
<1>7. order \in Resting /\ order.id = k /\ order.leaves = req.qty
  <2>1. req.side \in {r.side : r \in News}
    BY <1>6, Zenon
  <2> HIDE DEF req
  <2> QED BY <1>3, <1>6, <2>1 DEF Resting
<1>8. DistinctIds(book) /\ \A i \in 1 .. Len(book) : book[i].id # k
  BY <1>3, IdsDiffer, Zenon DEF Numbered
<1>9. k \notin DOMAIN entered
  BY <1>3 DEF Numbered
<1> DEFINE ev == EventsOf(book, order, f)
<1> HIDE DEF order, req, k
<1>10. \A o : Explained(book, order, f, o)
  BY <1>1, <1>4, <1>7, <1>8, SubmitExplains, Zenon
<1>11. book' \in Seq(Resting) /\ ev \in Seq(Message)
  BY <1>1, <1>10, Zenon DEF Explained
<1> HIDE DEF ev
<1>12. MessageInv' /\ \A o : ToldMore(ev, o)
  BY <1>1, <1>4, <1>5, <1>11, UnlockTraded, Zenon DEF ev
<1>13. ChunkInv' /\ up' = up
  BY <1>1, <1>4, <1>5, UnlockChunk, Zenon DEF Unlock
<1>14. ASSUME \A t \in Sessions : up[t], NEW o \in Nat \ cancelled
       PROVE  Balanced(book', entered', wire', events', o)
  <2> DEFINE x == Weight(Left(o), book)
             y == Weight(Left(o), book')
             t == Weight(TradedBy(wire, events, o), Threads)
             u == Weight(TradedBy(wire', events', o), Threads)
             v == Weight(Told(o), ev)
             n == order.leaves
             q == QtyOf(entered, o)
             r == QtyOf(entered', o)
             new == (o = k)
  <2>1. q = x + t
    BY <1>4, <1>14, Zenon DEF BalanceInv, Balanced
  <2>2. x + (IF new THEN n ELSE 0) = y + v
    BY <1>1, <1>7, <1>10, Zenon DEF Explained, ev
  <2>3. u = t + v
    BY <1>12, Zenon DEF ToldMore
  <2>4. x \in Nat /\ y \in Nat /\ v \in Nat
    <3>1. Left(o) \in [Resting -> Nat] /\ Told(o) \in [Message -> Nat]
      BY LeftTold, Zenon
    <3> QED BY <1>4, <1>11, <3>1, WeightType, Zenon
  <2>5. t \in Nat
    BY <1>4, TradedByType, Zenon DEF MessageInv
  <2>6. new => q = 0 /\ r = n
    <3> SUFFICES ASSUME o = k PROVE q = 0 /\ r = n
      BY Zenon
    <3>1. q = 0
      BY <1>9, Zenon DEF QtyOf
    <3>2. o \in DOMAIN entered' /\ entered'[o] = [session |-> s, key |-> req.key, qty |-> req.qty]
      BY <1>2, Zenon
    <3>3. entered'[o].qty = req.qty
      BY <3>2
    <3> QED BY <1>7, <3>1, <3>2, <3>3, Zenon DEF QtyOf
  <2>7. ~new => r = q
    <3> SUFFICES ASSUME o # k PROVE r = q
      BY Zenon
    <3>1. o \in DOMAIN entered' <=> o \in DOMAIN entered
      BY <1>2, Zenon
    <3>2. o \in DOMAIN entered => entered'[o] = entered[o]
      BY <1>2, Zenon
    <3> QED BY <3>1, <3>2, Zenon DEF QtyOf
  <2>8. n \in Nat /\ new \in BOOLEAN
    BY <1>6, <1>7, Zenon
  <2> HIDE DEF x, y, t, u, v, n, q, r, new
  <2>9. r = y + u
    BY <2>1, <2>2, <2>3, <2>4, <2>5, <2>6, <2>7, <2>8, BalanceSubmit
  <2> QED BY <2>9, Zenon DEF Balanced, r, y, u
<1>15. BalanceInv'
  BY <1>2, <1>13, <1>14, Zenon DEF BalanceInv
<1> QED BY <1>11, <1>12, <1>13, <1>15, Zenon DEF ExplainInv

(* A cancel: the orders that it takes out have their ids in cancelled.     *)
LEMMA CancelExplained ==
  ASSUME IdInv, AckInv, ExplainInv, NEW s \in Sessions, Cancel(s)
  PROVE  ExplainInv'
<1> DEFINE key == Head(chunk[s]).key
           e == [type |-> IF Known(book, key) THEN "CancelAck" ELSE "OrdReject", key |-> key]
           S == {o \in Elems(book) : o.key # key}
<1>1. /\ pc[s] = "locked" /\ book' = Keep(book, S) /\ Unlock(s, <<e>>) /\ entered' = entered
      /\ cancelled' = cancelled \cup {o.id : o \in {o \in Elems(book) : o.key = key}}
  BY Zenon DEF Cancel, BookWithout
<1>2. ChunkInv /\ MessageInv /\ book \in Seq(Resting) /\ BalanceInv /\ DOMAIN pc = Sessions
  BY Zenon DEF ExplainInv, IdInv, Alone
<1>3. pc[s] \in Holding /\ pc[s] # "report"
  BY <1>1 DEF Holding
<1>4. key \in Keys
  BY <1>2, <1>3, Routed, Zenon
<1> HIDE DEF key
<1>5. e \in Message /\ e.type # "Trade"
  <2>1. e \in [type : {"CancelAck", "OrdReject"}, key : Keys]
    BY <1>4
  <2>2. e.type # "Trade"
    OBVIOUS
  <2> QED BY <2>1, <2>2, Zenon DEF Message
<1> HIDE DEF e
<1>6. <<e>> \in Seq(Message) /\ Len(<<e>>) = 1 /\ <<e>>[1] = e
  BY <1>5
<1>7. MessageInv' /\ \A o : ToldMore(<<e>>, o)
  BY <1>1, <1>2, <1>3, <1>6, UnlockTraded, Zenon
<1>8. ChunkInv' /\ up' = up
  BY <1>1, <1>2, <1>3, UnlockChunk, Zenon DEF Unlock
<1>9. book' \in Seq(Resting)
  <2> HIDE DEF S
  <2> QED BY <1>1, <1>2, KeepElems, Zenon
<1>10. ASSUME \A t \in Sessions : up[t], NEW o \in Nat \ cancelled'
       PROVE  Balanced(book', entered', wire', events', o)
  <2>1. \A i \in 1 .. Len(book) : book[i] \in Elems(book) /\ book[i] \in Resting
    BY <1>2 DEF Elems
  <2>2. \A i \in 1 .. Len(book) : book[i] \notin S => book[i].id # o
    BY <1>1, <1>10, <2>1, Zenon
  <2>3. /\ Left(o) \in [Resting -> Nat] /\ Told(o) \in [Message -> Nat] /\ Told(o)[e] = 0
        /\ \A x \in Resting : x.id # o => Left(o)[x] = 0
    BY <1>5, LeftTold, Zenon
  <2>4. \A i \in 1 .. Len(book) : book[i] \notin S => Left(o)[book[i]] = 0
    BY <2>1, <2>2, <2>3, Zenon
  <2>5. Weight(Left(o), book') = Weight(Left(o), book)
    <3> HIDE DEF S
    <3> QED BY <1>1, <1>2, <2>3, <2>4, WeightKeep, Zenon
  <2>6. Weight(Told(o), <<e>>) = 0
    <3>1. \A i \in 1 .. Len(<<e>>) : Told(o)[<<e>>[i]] = 0
      BY <1>6, <2>3
    <3> QED BY <1>6, <2>3, <3>1, WeightZero, Zenon
  <2> DEFINE t == Weight(TradedBy(wire, events, o), Threads)
             u == Weight(TradedBy(wire', events', o), Threads)
  <2>7. t \in Nat /\ u = t + 0
    BY <1>2, <1>7, <2>6, TradedByType, Zenon DEF MessageInv, ToldMore
  <2>8. o \in Nat \ cancelled
    BY <1>1, <1>10, Zenon
  <2>9. Balanced(book, entered, wire, events, o)
    BY <1>2, <1>10, <2>8, Zenon DEF BalanceInv
  <2> HIDE DEF t, u
  <2>10. u = t
    BY <2>7
  <2> QED BY <1>1, <2>5, <2>9, <2>10, Zenon DEF Balanced, t, u
<1>11. BalanceInv'
  BY <1>8, <1>10, Zenon DEF BalanceInv
<1> QED BY <1>7, <1>8, <1>9, <1>11, Zenon DEF ExplainInv

(* A replace: nothing is reported.                                         *)
LEMMA ReplaceExplained ==
  ASSUME IdInv, AckInv, ExplainInv, NEW s \in Sessions, Replace(s)
  PROVE  ExplainInv'
<1>1. pc[s] = "locked" /\ Unlock(s, <<>>) /\ UNCHANGED <<book, entered, cancelled>>
  BY Zenon DEF Replace
<1>2. ChunkInv /\ MessageInv /\ book \in Seq(Resting) /\ BalanceInv /\ DOMAIN pc = Sessions
  BY Zenon DEF ExplainInv, IdInv, Alone
<1>3. pc[s] \in Holding /\ pc[s] # "report"
  BY <1>1 DEF Holding
<1>4. <<>> \in Seq(Message)
  OBVIOUS
<1>5. MessageInv' /\ \A o : ToldMore(<<>>, o)
  BY <1>1, <1>2, <1>3, <1>4, UnlockTraded, Zenon
<1>6. ChunkInv' /\ up' = up
  BY <1>1, <1>2, <1>3, UnlockChunk, Zenon DEF Unlock
<1>7. ASSUME \A t \in Sessions : up[t], NEW o \in Nat \ cancelled
      PROVE  Balanced(book', entered', wire', events', o)
  <2> DEFINE t == Weight(TradedBy(wire, events, o), Threads)
             u == Weight(TradedBy(wire', events', o), Threads)
  <2>1. Told(o) \in [Message -> Nat]
    BY LeftTold, Zenon
  <2>2. Weight(Told(o), <<>>) = 0
    BY <1>4, <2>1, WeightType, Zenon
  <2>3. t \in Nat /\ u = t + 0
    BY <1>2, <1>5, <2>2, TradedByType, Zenon DEF MessageInv, ToldMore
  <2>4. Balanced(book, entered, wire, events, o)
    BY <1>2, <1>7, Zenon DEF BalanceInv
  <2> HIDE DEF t, u
  <2>5. u = t
    BY <2>3
  <2> QED BY <1>1, <2>4, <2>5, Zenon DEF Balanced, t, u
<1>8. BalanceInv'
  BY <1>1, <1>6, <1>7, Zenon DEF BalanceInv
<1> QED BY <1>1, <1>2, <1>5, <1>6, <1>8, Zenon DEF ExplainInv

(* A client goes: from then on nothing is claimed.                         *)
LEMMA PeerClosesExplained ==
  ASSUME IdInv, AckInv, ExplainInv, NEW s \in Sessions, PeerCloses(s)
  PROVE  ExplainInv'
<1>1. /\ up' = [up EXCEPT ![s] = FALSE] /\ wire' = [wire EXCEPT ![s] = <<>>]
      /\ UNCHANGED <<pc, chunk, events, book>>
  BY Zenon DEF PeerCloses, shared
<1>2. DOMAIN up = Sessions /\ DOMAIN wire = Sessions /\ DOMAIN pc = Sessions
  BY Zenon DEF AckInv, IdInv, Alone
<1>3. /\ ~up'[s] /\ wire'[s] = <<>> /\ \A t \in Sessions : t # s => wire'[t] = wire[t]
  BY <1>1, <1>2, Zenon
<1>4. <<>> \in Seq(Message)
  OBVIOUS
<1>5. MessageInv'
  BY <1>1, <1>3, <1>4, Zenon DEF ExplainInv, MessageInv
<1>6. ChunkInv'
  BY <1>1, <1>2, SameChunk, Zenon DEF ExplainInv
<1>7. BalanceInv'
  BY <1>3, Zenon DEF BalanceInv
<1> QED BY <1>1, <1>5, <1>6, <1>7, Zenon DEF ExplainInv

(* No orders and no reports at first.                                      *)
LEMMA InitExplained == Init => ExplainInv
<1> SUFFICES ASSUME Init PROVE ExplainInv
  OBVIOUS
<1>1. /\ book = <<>> /\ pc = [s \in Sessions |-> "poll"] /\ chunk = [s \in Sessions |-> <<>>]
      /\ events = [s \in Sessions |-> <<>>] /\ wire = [s \in Sessions |-> <<>>] /\ entered = <<>>
  BY Zenon DEF Init
<1>2. \A X : <<>> \in Seq(X)
  OBVIOUS
<1>3. "poll" \notin Holding /\ "poll" # "numbered"
  BY DEF Holding
<1>4. ChunkInv
  BY <1>1, <1>2, <1>3, Zenon DEF ChunkInv
<1>5. MessageInv /\ book \in Seq(Resting)
  BY <1>1, <1>2, Zenon DEF MessageInv
<1>6. ASSUME NEW o \in Nat PROVE Balanced(book, entered, wire, events, o)
  <2> DEFINE g == TradedBy(wire, events, o)
  <2>1. Left(o) \in [Resting -> Nat] /\ Told(o) \in [Message -> Nat]
    BY LeftTold, Zenon
  <2>2. Weight(Left(o), <<>>) = 0 /\ Weight(Told(o), <<>>) = 0
    BY <1>2, <2>1, WeightType, Zenon
  <2>3. g \in [Sessions -> Nat]
    BY <1>5, TradedByType, Zenon DEF MessageInv
  <2>4. \A s \in Sessions : g[s] = 0 + 0
    BY <1>1, <2>2, Zenon DEF TradedBy
  <2> HIDE DEF g
  <2>5. \A s \in Sessions : g[s] = 0
    BY <2>4
  <2>6. Threads \in Seq(Sessions)
    BY ThreadsFacts, Zenon
  <2>7. \A i \in 1 .. Len(Threads) : Threads[i] \in Sessions
    BY <2>6
  <2>8. Weight(g, Threads) = 0
    BY <2>3, <2>5, <2>6, <2>7, WeightZero, Zenon
  <2>9. QtyOf(entered, o) = 0
    BY <1>1 DEF QtyOf
  <2>10. 0 = 0 + 0
    OBVIOUS
  <2> QED BY <1>1, <2>2, <2>8, <2>9, <2>10, Zenon DEF Balanced, g
<1>7. BalanceInv
  BY <1>6, Zenon DEF BalanceInv
<1> QED BY <1>4, <1>5, <1>7, Zenon DEF ExplainInv

(* Every step keeps it.                                                    *)
LEMMA NextExplained == IdInv /\ AckInv /\ ExplainInv /\ [Next]_vars => ExplainInv'
<1> SUFFICES ASSUME IdInv, AckInv, ExplainInv, [Next]_vars PROVE ExplainInv'
  OBVIOUS
<1>1. DOMAIN pc = Sessions /\ ChunkInv
  BY Zenon DEF IdInv, Alone, ExplainInv
<1>2. CASE UNCHANGED vars
  <2>1. UNCHANGED <<book, wire, events, up, entered, cancelled, chunk, pc>>
    BY <1>2, Zenon DEF vars, shared
  <2>2. ChunkInv'
    BY <1>1, <2>1, Zenon DEF ChunkInv
  <2> QED BY <2>1, <2>2, SameBalance, Zenon
<1>3. ASSUME NEW s \in Sessions, NEW reqs \in Chunks(s), NEW n, NEW close,
             Recv(s, reqs, n, close)
      PROVE  ExplainInv'
  <2>1. UNCHANGED <<book, wire, events, up, entered, cancelled>>
    BY <1>3, Zenon DEF Recv, shared
  <2>2. ChunkInv'
    BY <1>1, <1>3, RecvChunk, Zenon
  <2> QED BY <2>1, <2>2, SameBalance, Zenon
<1>4. ASSUME NEW s \in Sessions, Lock(s) \/ FetchId(s) PROVE ExplainInv'
  <2>1. UNCHANGED <<book, wire, events, up, entered, cancelled>>
    BY <1>4, Zenon DEF Lock, FetchId
  <2>2. ChunkInv'
    BY <1>1, <1>4, HoldChunk, Zenon
  <2> QED BY <2>1, <2>2, SameBalance, Zenon
<1>5. ASSUME NEW s \in Sessions, EndTurn(s) \/ Hangup(s) PROVE ExplainInv'
  <2>1. UNCHANGED <<book, wire, events, up, entered, cancelled, chunk>>
    BY <1>5, Zenon DEF EndTurn, Hangup, shared
  <2>2. \E place : place \notin Holding /\ pc' = [pc EXCEPT ![s] = place]
    BY <1>5 DEF EndTurn, Hangup, Goto, Holding
  <2>3. ChunkInv'
    BY <1>1, <2>1, <2>2, SameChunk, Zenon
  <2> QED BY <2>1, <2>3, SameBalance, Zenon
<1>6. CASE Next
  <2>1. PICK s \in Sessions :
          \/ \E reqs \in Chunks(s), n \in Replies, close \in BOOLEAN : Recv(s, reqs, n, close)
          \/ Thread(s) \/ PeerCloses(s)
    BY <1>6, Zenon DEF Next
  <2>2. CASE Thread(s)
    BY <2>2, <1>4, <1>5, WriteReplyExplains, ReportExplains, SubmitExplained, CancelExplained,
       ReplaceExplained, Zenon DEF Thread
  <2> QED BY <1>3, <2>1, <2>2, PeerClosesExplained, Zenon
<1> QED BY <1>2, <1>6

(* What a client was told, and will be, of an order.                       *)
LEMMA ReportsWeigh ==
  ASSUME MessageInv, NEW s \in Sessions, NEW o
  PROVE  TradedIn(ReportsOf(s), o) = TradedBy(wire, events, o)[s]
<1> DEFINE w == wire[s]
           e == events[s]
           S == {m \in Elems(w) : m.type # "Reply"}
           y == Told(o)
<1>1. w \in Seq(Message) /\ e \in Seq(Message)
  BY Zenon DEF MessageInv
<1>2. ReportsOf(s) = Keep(w, S) \o e /\ TradedBy(wire, events, o)[s] = Weight(y, w) + Weight(y, e)
  BY Zenon DEF ReportsOf, TradedBy
<1>3. y \in [Message -> Nat] /\ \A m \in Message : m.type # "Trade" => y[m] = 0
  BY LeftTold, Zenon
<1> HIDE DEF w, e
<1>4. \A i \in 1 .. Len(w) : w[i] \in Elems(w) /\ w[i] \in Message
  BY <1>1 DEF Elems
<1>5. "Reply" # "Trade"
  OBVIOUS
<1>6. \A i \in 1 .. Len(w) : w[i] \notin S => y[w[i]] = 0
  BY <1>3, <1>4, <1>5, Zenon
<1> HIDE DEF S
<1>7. Keep(w, S) \in Seq(Message) /\ Weight(y, Keep(w, S)) = Weight(y, w)
  <2> HIDE DEF y
  <2> QED BY <1>1, <1>3, <1>6, KeepElems, WeightKeep, Zenon
<1>8. Keep(w, S) \o e \in Seq(Message)
  BY <1>1, <1>7
<1>9. TradedIn(Keep(w, S) \o e, o) = Weight(y, Keep(w, S) \o e)
  BY <1>8, TradedInWeight, Zenon
<1>10. Weight(y, Keep(w, S) \o e) = Weight(y, Keep(w, S)) + Weight(y, e)
  <2> HIDE DEF y
  <2> QED BY <1>1, <1>3, <1>7, WeightConcat, Zenon DEF BothWeigh
<1> QED BY <1>2, <1>7, <1>9, <1>10, Zenon

(* The reports of all sessions account for the book: as long as no client  *)
(* has gone, what an order that was not cancelled has lost is in the Trade *)
(* reports that name it, for any number of threads, any requests, and both *)
(* algorithms.                                                             *)
THEOREM ReportsAddUp == Spec => []ReportsExplainBook
<1>1. IdInv /\ ExplainInv => ReportsExplainBook
  <2> SUFFICES ASSUME IdInv, ExplainInv, \A s \in Sessions : up[s],
                      NEW o \in DOMAIN entered \ cancelled
               PROVE  entered[o].qty = LeftIn(book, o)
                        + Sum([i \in DOMAIN Threads |-> TradedIn(ReportsOf(Threads[i]), o)])
    BY Zenon DEF ReportsExplainBook
  <2> DEFINE g == TradedBy(wire, events, o)
  <2>1. MessageInv /\ book \in Seq(Resting) /\ BalanceInv
    BY Zenon DEF ExplainInv
  <2>2. o \in Nat \ cancelled
    BY Zenon DEF IdInv, Numbers, Numbered
  <2>3. QtyOf(entered, o) = Weight(Left(o), book) + Weight(g, Threads)
    BY <2>1, <2>2, Zenon DEF BalanceInv, Balanced
  <2>4. QtyOf(entered, o) = entered[o].qty
    BY Zenon DEF QtyOf
  <2>5. LeftIn(book, o) = Weight(Left(o), book)
    BY <2>1, LeftInWeight, Zenon
  <2>6. Threads \in Seq(Sessions)
    BY ThreadsFacts, Zenon
  <2>7. DOMAIN Threads = 1 .. Len(Threads) /\ \A i \in 1 .. Len(Threads) : Threads[i] \in Sessions
    BY <2>6
  <2>8. \A i \in 1 .. Len(Threads) : TradedIn(ReportsOf(Threads[i]), o) = g[Threads[i]]
    BY <2>1, <2>7, ReportsWeigh, Zenon
  <2> HIDE DEF g
  <2>9. [i \in DOMAIN Threads |-> TradedIn(ReportsOf(Threads[i]), o)] = Values(g, Threads)
    BY <2>7, <2>8, Zenon DEF Values
  <2> QED BY <2>3, <2>4, <2>5, <2>9, Zenon DEF Weight
<1> QED BY <1>1, InitIds, NextIds, InitAcks, NextAcks, InitExplained, NextExplained, PTL DEF Spec

=============================================================================
