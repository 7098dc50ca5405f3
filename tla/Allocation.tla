----------------------------- MODULE Allocation -----------------------------
(***************************************************************************)
(* How one price level shares an aggressor's quantity: the pure arithmetic *)
(* of Matcher::fill_level_prorata and Matcher::fill_level_fifo.            *)
(*                                                                         *)
(* A level is given by the sequence q of the leaves_qty of its orders,     *)
(* head (oldest) first.  The result is the sequence of fills, slot by      *)
(* slot.  Quantity is std::uint64_t, so every sum, product and difference  *)
(* is taken modulo Word, which stands for 2^64.                            *)
(*                                                                         *)
(* Here and in the other modules a definition Slip... is a plausible bug,  *)
(* the body of the definition it precedes with a mistake in it.  No        *)
(* specification uses them: with one in place of the original, a property  *)
(* must fail.                                                              *)
(***************************************************************************)
EXTENDS Integers, Sequences, Lists

CONSTANT Word   \* the number of values of Quantity

ASSUME WordAssumption == Word \in Nat \ {0}

Quantity == 0 .. Word - 1

MinOf(a, b) == IF a <= b THEN a ELSE b

(* total += x over a sequence: the sum of the first i elements.  Sum is    *)
(* the exact one, for stating properties; the code has only Total.         *)
RunningSum(q) ==
  LET sum[i \in 0 .. Len(q)] ==
        IF i = 0 THEN 0 ELSE (sum[i - 1] + q[i]) % Word
  IN  sum

Total(q) == RunningSum(q)[Len(q)]

(* What is left of an amount after the first i slots, each of which takes  *)
(* as much as its capacity allows.                                         *)
LeftOver(cap, amount) ==
  LET left[i \in 0 .. Len(cap)] ==
        IF i = 0 THEN amount ELSE left[i - 1] - MinOf(cap[i], left[i - 1])
  IN  left

(* Slip: the division before the product.                                  *)
SlipDivideFirst(q, toFill, total) ==
  [i \in 1 .. Len(q) |-> (toFill \div total) * q[i]]

(* floor(to_fill * size_i / total); the product wraps before the division. *)
FloorShare(q, toFill, total) ==
  [i \in 1 .. Len(q) |-> ((toFill * q[i]) % Word) \div total]

(* The rounding residual that step 2 hands out from the head of the level. *)
Residual(q, available) ==
  LET toFill == MinOf(available, Total(q))
  IN  (toFill - Total(FloorShare(q, toFill, Total(q)))) % Word

(* Slip: step 2 is forgotten, the residual is lost.                        *)
SlipNoResidual(q, available) ==
  IF Total(q) = 0 THEN [i \in 1 .. Len(q) |-> 0]
  ELSE FloorShare(q, MinOf(available, Total(q)), Total(q))

ProRata(q, available) ==
  LET share == FloorShare(q, MinOf(available, Total(q)), Total(q))
      left  == LeftOver([i \in 1 .. Len(q) |-> (q[i] - share[i]) % Word],
                        Residual(q, available))
  IN  IF Total(q) = 0 \/ available = 0
      THEN [i \in 1 .. Len(q) |-> 0]
      ELSE [i \in 1 .. Len(q) |-> (share[i] + (left[i - 1] - left[i])) % Word]

(* Slip: the walk starts at the youngest order.                            *)
SlipYoungestFirst(q, available) ==
  LET n == Len(q)
      left == LeftOver([i \in 1 .. n |-> q[n + 1 - i]], available)
  IN  [i \in 1 .. n |-> left[n - i] - left[n + 1 - i]]

Fifo(q, available) ==
  LET left == LeftOver(q, available)
  IN  [i \in 1 .. Len(q) |-> left[i - 1] - left[i]]

=============================================================================
