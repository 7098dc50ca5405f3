---------------------------- MODULE BookExchange ----------------------------
(***************************************************************************)
(* Matcher implements Exchange: the price maps, intrusive lists, index and *)
(* cached totals are one way to keep a sequence of open orders.            *)
(***************************************************************************)
EXTENDS Matcher, TLC

Symmetry == Permutations(Keys)

(* The book as the sequence of its orders by id, which is by arrival.      *)
Arrivals ==
  LET ids == Keep([i \in 1 .. MaxOrders |-> i], DOMAIN orders)
  IN  [i \in 1 .. Len(ids) |->
         [id |-> ids[i], key |-> orders[ids[i]].key, side |-> orders[ids[i]].side,
          price |-> orders[ids[i]].price, leaves |-> orders[ids[i]].leaves]]

X == INSTANCE Exchange WITH book <- Arrivals, Ids <- OrderIds

(* Every call of the matcher has exactly the fills, the events and the     *)
(* resulting book that price priority, the algorithm's sharing rule and    *)
(* time priority call for (docs/pro-rata-matching.md): submit and cancel   *)
(* with their walks, sweeps and list surgery are atomic operations on a    *)
(* sequence of open orders.                                                *)
ImplementsExchange == X!Spec

=============================================================================
