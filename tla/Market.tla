------------------------------- MODULE Market -------------------------------
(***************************************************************************)
(* The rules of matching, said without levels, lists, an index or cached   *)
(* totals.  A book is the sequence of the open orders by arrival; for each *)
(* of the two algorithms the rules say which fills an incoming order must  *)
(* get, and what becomes of the book.  Module Exchange makes them a        *)
(* specification, and module OrderEntry uses them for the shared book.     *)
(***************************************************************************)
EXTENDS Integers, Sequences, FiniteSetsExt, Lists

Within(side, limit, price) == IF side = "Buy" THEN price <= limit ELSE price >= limit

Better(side, p, q) == IF side = "Buy" THEN p < q ELSE p > q

(* The positions of the orders an aggressor may trade with.                *)
Crossing(book, side, limit) ==
  {i \in DOMAIN book : book[i].side # side /\ Within(side, limit, book[i].price)}

(* Their priority: best price first, and at a price the oldest first.      *)
Before(book, side, i, j) ==
  \/ Better(side, book[i].price, book[j].price)
  \/ book[i].price = book[j].price /\ i < j

(* Those in the set O that come before i.                                  *)
Ahead(book, side, O, i) == {j \in O : Before(book, side, j, i)}

(* The crossing positions in priority: the k-th is the one with k - 1      *)
(* ahead of it.                                                            *)
Matchable(book, side, limit) ==
  LET O == Crossing(book, side, limit)
  IN  [k \in 1 .. Cardinality(O) |->
         CHOOSE i \in O : Cardinality(Ahead(book, side, O, i)) = k - 1]

(* The fills f of the orders q, in priority, that an aggressor of a        *)
(* quantity must get: as much as there is; no price while a better one is  *)
(* open; at a price, time priority, which under pro-rata applies only to   *)
(* what exceeds an order's proportional share.                             *)
IsAllocation(algo, q, qty, f) ==
  LET open == [i \in DOMAIN q |-> q[i].leaves]
      level(i, g) == [j \in DOMAIN q |-> IF q[j].price = q[i].price THEN g[j] ELSE 0]
      share(i) == IF algo = "Fifo" THEN 0
                  ELSE (Sum(level(i, f)) * open[i]) \div Sum(level(i, open))
  IN  /\ \A i \in DOMAIN q : f[i] <= open[i]
      /\ \A i \in DOMAIN q : share(i) <= f[i]
      /\ Sum(f) = Min({qty, Sum(open)})
      /\ \A i, j \in DOMAIN q :
           i < j /\ f[j] > (IF q[i].price = q[j].price THEN share(j) ELSE 0)
             => f[i] = open[i]

(* The orders of a sequence that have something left.                      *)
Open(orders) == Keep(orders, {o \in Elems(orders) : o.leaves # 0})

Queue(book, order) == LET m == Matchable(book, order.side, order.price)
                      IN  [k \in DOMAIN m |-> book[m[k]]]

(* The fills a new order may get, and the book and the events they lead to. *)
Allocations(algo, book, order) ==
  LET q == Queue(book, order)
  IN  {f \in [DOMAIN q -> 0 .. order.leaves] : IsAllocation(algo, q, order.leaves, f)}

TradedAt(m, f, i) == IF i \in Range(m) THEN f[CHOOSE k \in DOMAIN m : m[k] = i] ELSE 0

Filled(book, m, f) ==
  [i \in DOMAIN book |-> [book[i] EXCEPT !.leaves = @ - TradedAt(m, f, i)]]

BookAfter(book, order, f) ==
  LET filled == Filled(book, Matchable(book, order.side, order.price), f)
  IN  Open(Append(filled, [order EXCEPT !.leaves = @ - Sum(f)]))

Trades(order, q, f) ==
  [i \in DOMAIN q |-> [type |-> "Trade", aggressor |-> order.id, resting |-> q[i].id,
                       price |-> q[i].price, qty |-> f[i]]]

EventsOf(book, order, f) ==
  LET trades == Trades(order, Queue(book, order), f)
  IN  <<[type |-> "Ack", id |-> order.id]>> \o Keep(trades, {t \in Elems(trades) : t.qty # 0})

(* Cancels.                                                                *)
Known(book, key) == \E i \in DOMAIN book : book[i].key = key

BookWithout(book, key) == Keep(book, {o \in Elems(book) : o.key # key})

=============================================================================
