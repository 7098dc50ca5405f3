----------------------------- MODULE LevelFill ------------------------------
(***************************************************************************)
(* One call of Matcher::fill_level_prorata or fill_level_fifo on a level:  *)
(* the level's queue, the quantity the aggressor offers, and the fills the *)
(* call produces.  The module exists to state what a single level promises *)
(* independently of the book around it.                                    *)
(***************************************************************************)
EXTENDS Allocation

CONSTANT Queues   \* the levels considered: sequences of leaves_qty

ASSUME QueuesAssumption == Queues \subseteq Seq(Quantity)

VARIABLES queue,      \* leaves_qty of the level's orders, head first
          available,  \* the aggressor's leaves_qty on reaching the level
          allocator,  \* MatchAlgo
          given       \* <<>> before the call, then one fill per order

callVars == <<queue, available, allocator, given>>

CallInit == /\ queue \in Queues
            /\ available \in Quantity
            /\ allocator \in {"ProRata", "Fifo"}
            /\ given = <<>>

FillProRata == /\ allocator = "ProRata" /\ given = <<>>
               /\ given' = ProRata(queue, available)
               /\ UNCHANGED <<queue, available, allocator>>

FillFifo == /\ allocator = "Fifo" /\ given = <<>>
            /\ given' = Fifo(queue, available)
            /\ UNCHANGED <<queue, available, allocator>>

Fill == FillProRata \/ FillFifo

CallSpec == CallInit /\ [][Fill]_callVars

-----------------------------------------------------------------------------
Filled == given # <<>>

(* The level's quantity fits in a Quantity, so the denominator of the      *)
(* pro-rata pass is the real total.                                        *)
TotalFits == Sum(queue) < Word

(* No product to_fill * orig_leaves wraps.                                 *)
ProductsFit ==
  \A i \in 1 .. Len(queue) : MinOf(available, Sum(queue)) * queue[i] < Word

(* Both algorithms hand out exactly min(aggressor, level total), and never *)
(* more than an order has, as long as the level's total fits in 64 bits -  *)
(* even when the products of the pro-rata pass wrap.  This is the          *)
(* invariant of tests/property_test.cpp, beyond the sizes it draws.        *)
FillsConserve ==
  Filled /\ TotalFits =>
    /\ Sum(given) = MinOf(available, Sum(queue))
    /\ \A i \in 1 .. Len(queue) : given[i] \in 0 .. queue[i]

(* No order gets less than the floor of its exact share, and the units     *)
(* above the floor go to the oldest orders: an order gets more than its    *)
(* floor share only when every older order is completely filled.           *)
ProRataIsFair ==
  LET toFill   == MinOf(available, Sum(queue))
      share(i) == (toFill * queue[i]) \div Sum(queue)
  IN  Filled /\ allocator = "ProRata" /\ TotalFits /\ ProductsFit /\ Sum(queue) > 0 =>
        /\ \A i \in 1 .. Len(queue) : given[i] >= share(i)
        /\ \A i, j \in 1 .. Len(queue) :
             i < j /\ given[j] > share(j) => given[i] = queue[i]

(* Strict time priority: an order gets something only when every older     *)
(* order of the level is completely filled.                                *)
FifoIsStrict ==
  Filled /\ allocator = "Fifo" =>
    \A i, j \in 1 .. Len(queue) : i < j /\ given[j] > 0 => given[i] = queue[i]

(* "The residual (always < n, because each floor loses at most 1 unit and  *)
(* there are n floors)": docs/pro-rata-matching.md.  It holds while no     *)
(* product wraps.                                                          *)
ResidualBelowCountIfExact ==
  Filled /\ allocator = "ProRata" /\ TotalFits /\ ProductsFit /\ Sum(queue) > 0
    => Residual(queue, available) < Len(queue)

=============================================================================
