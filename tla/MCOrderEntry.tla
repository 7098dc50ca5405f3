---------------------------- MODULE MCOrderEntry ----------------------------
(* Two clients at one price.                                               *)
EXTENDS OrderEntry

CONSTANTS a, b

New(key, side, qty) == [type |-> "New", key |-> key, side |-> side, price |-> 1, qty |-> qty]
Other(type, key) == [type |-> type, key |-> key]

(* A busy client, whose b2 can trade with a1 and with b1, and one that     *)
(* sends an order, or cancels or replaces b1, which session id 0 lets it.  *)
OwnIDs == [s \in {a, b} |->
             IF s = a THEN {New("a1", "Buy", 2), Other("Cancel", "b1"), Other("Replace", "b1")}
             ELSE {New("b1", "Buy", 1), New("b2", "Sell", 2)}]
OneAndTwo == [s \in {a, b} |-> IF s = a THEN 1 ELSE 2]

(* Both with the same ClOrdID.                                             *)
CommonID == [s \in {a, b} |-> {New("c", "Buy", 1)}]
OneEach == [s \in {a, b} |-> 1]

=============================================================================
