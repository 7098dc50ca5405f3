------------------------------ MODULE Exchange ------------------------------
(***************************************************************************)
(* What the order book promises: calls on a sequence of open orders that   *)
(* follow the rules of Market.  Module Matcher implements this one.        *)
(***************************************************************************)
EXTENDS Market

CONSTANTS Prices, Keys, MaxQty, Ids

VARIABLES
  book,  \* the open orders, oldest first
  algo,  \* the algorithm in use
  call,  \* the arguments of the last call
  out    \* and its events

bookVars == <<book, algo, call, out>>

Sides == {"Buy", "Sell"}

Init == book = <<>> /\ algo \in {"ProRata", "Fifo"} /\ call = [op |-> "None"] /\ out = <<>>

(* A new order, with an id above those in the book, trades; what is left   *)
(* of it joins the book.                                                   *)
Submit(key, side, price, qty) ==
  /\ call' = [op |-> "Submit", key |-> key, side |-> side, price |-> price, qty |-> qty]
  /\ \E id \in Ids :
       LET order == [id |-> id, key |-> key, side |-> side, price |-> price, leaves |-> qty]
       IN  /\ \A o \in Elems(book) : o.id < id
           /\ \E f \in Allocations(algo, book, order) :
                book' = BookAfter(book, order, f) /\ out' = EventsOf(book, order, f)
  /\ UNCHANGED algo

Cancel(key) ==
  /\ call' = [op |-> "Cancel", key |-> key]
  /\ book' = BookWithout(book, key)
  /\ out' = <<[type |-> "CancelResult", ok |-> Known(book, key)]>>
  /\ UNCHANGED algo

SetAlgo == /\ call' = [op |-> "SetAlgo"]
           /\ algo' \in {"ProRata", "Fifo"} /\ out' = <<>> /\ UNCHANGED book

Next == \/ \E key \in Keys, side \in Sides, price \in Prices, qty \in 0 .. MaxQty :
             Submit(key, side, price, qty)
        \/ \E key \in Keys : Cancel(key)
        \/ SetAlgo

Spec == Init /\ [][Next]_bookVars

=============================================================================
