------------------------------ MODULE Matcher -------------------------------
(***************************************************************************)
(* The limit order book and the matcher: PriceLevel, OrderBook and         *)
(* Matcher of src/core.  Submit and Cancel are the two calls the server    *)
(* makes, each of them whole, under book_mu_; SetAlgo is the setter.       *)
(*                                                                         *)
(* Prices are the ladder 1 .. MaxPrice: only their order matters.  An      *)
(* index key stands for the pair (session, ClOrdID).                       *)
(***************************************************************************)
EXTENDS Allocation, Lists

CONSTANTS MaxPrice,   \* number of price levels on the ladder
          MaxQty,     \* largest OrderQty a client sends
          MaxOrders,  \* bound on the orders submitted in a behaviour
          Keys,       \* index keys: (session, ClOrdID)
          KeyReuse    \* may a client send a key that is still resting?

ASSUME MatcherAssumption == /\ MaxPrice \in Nat /\ MaxOrders \in Nat
                            /\ MaxQty \in Quantity
                            /\ KeyReuse \in BOOLEAN

Prices   == 1 .. MaxPrice
Sides    == {"Buy", "Sell"}
Algos    == {"ProRata", "Fifo"}
OrderIds == 1 .. MaxOrders

VARIABLES
  levels,  \* bids_ and asks_: side -> (price -> PriceLevel), empty ones too
  orders,  \* the Order objects the book owns: id -> Order
  index,   \* index_: key -> id
  algo,    \* Matcher::algo_
  nextId,  \* next_order_id_, the id of the next incoming order
  freed,   \* ids of orders destroyed while still linked in a level
  call,    \* the arguments of the last call, for stating properties
  out      \* the EventList (or CancelResult) of the last call

vars == <<levels, orders, index, algo, nextId, freed, call, out>>

Order == [key: Keys, side: Sides, price: Prices,
          orig: Quantity, leaves: Quantity]

Level == [queue: Seq(OrderIds), count: Int, total: Quantity]

Event == [type: {"Ack"}, id: OrderIds]
         \cup [type: {"Trade"}, aggressor: OrderIds, resting: OrderIds,
               price: Prices, qty: Quantity]
         \cup [type: {"CancelResult"}, ok: BOOLEAN]

Call == [op: {"None", "SetAlgo"}]
        \cup [op: {"Submit"}, key: Keys, side: Sides, price: Prices, qty: Quantity]
        \cup [op: {"Cancel"}, key: Keys]

-----------------------------------------------------------------------------
(* A std::map or std::unordered_map: a function on a subset of D into R.   *)
IsMap(f, D, R) == DOMAIN f \subseteq D /\ f \in [DOMAIN f -> R]

Without(f, S) == [x \in DOMAIN f \ S |-> f[x]]

With(f, x, y) == [z \in DOMAIN f \cup {x} |-> IF z = x THEN y ELSE f[z]]

-----------------------------------------------------------------------------
(* PriceLevel                                                              *)

EmptyLevel == [queue |-> <<>>, count |-> 0, total |-> 0]

(* Slip: new orders go to the head.                                        *)
SlipPushFront(lv, id, leaves) ==
  [queue |-> <<id>> \o lv.queue,
   count |-> lv.count + 1,
   total |-> (lv.total + leaves) % Word]

PushBack(lv, id, leaves) ==
  [queue |-> Append(lv.queue, id),
   count |-> lv.count + 1,
   total |-> (lv.total + leaves) % Word]

(* Slip: a signed total, from which the quantity is taken twice.           *)
SlipTwice(lv, gone, qty) ==
  LET queue == Keep(lv.queue, Elems(lv.queue) \ gone)
  IN  [queue |-> queue,
       count |-> lv.count - (Len(lv.queue) - Len(queue)),
       total |-> lv.total - 2 * qty]

(* unlink, for every order of the set gone, whose leaves_qty sum to qty.   *)
Unlink(lv, gone, qty) ==
  LET queue == Keep(lv.queue, Elems(lv.queue) \ gone)
  IN  [queue |-> queue,
       count |-> lv.count - (Len(lv.queue) - Len(queue)),
       total |-> (lv.total - qty) % Word]

(* Slip: partial fills do not reach total_qty_.                            *)
SlipNoDelta(lv, qty) == lv

NoteQtyDelta(lv, qty) == [lv EXCEPT !.total = (@ - qty) % Word]

-----------------------------------------------------------------------------
(* Matcher: walking the opposite side, best price first.                   *)

Opposite(side) == IF side = "Buy" THEN "Sell" ELSE "Buy"

(* Slip: an equal price does not trade.                                    *)
SlipStrict(side, limit, price) ==
  IF side = "Buy" THEN price < limit ELSE price > limit

Crosses(side, limit, price) ==
  IF side = "Buy" THEN price <= limit ELSE price >= limit

(* Slip: walk_asks and walk_bids are swapped.                              *)
SlipWorstFirst(side, r) == IF side = "Buy" THEN MaxPrice + 1 - r ELSE r

(* The r-th best price for an aggressor of a side, and conversely the rank *)
(* of a price: walk_asks goes up the ladder, walk_bids down.               *)
Rank(side, r) == IF side = "Buy" THEN r ELSE MaxPrice + 1 - r

Queue(side, price) ==
  IF price \in DOMAIN levels[side] THEN levels[side][price].queue ELSE <<>>

Leaves(queue) == [i \in 1 .. Len(queue) |-> orders[queue[i]].leaves]

(* The fills at the level of rank r when the aggressor reaches it with     *)
(* available left: on_level, which stops the walk at 0 and at the first    *)
(* level that does not cross.  Absent and empty levels are skipped.        *)
FillsAt(side, limit, r, available) ==
  LET price == Rank(side, r)
      q     == Leaves(Queue(Opposite(side), price))
  IN  IF available = 0 \/ ~Crosses(side, limit, price)
      THEN [i \in 1 .. Len(q) |-> 0]
      ELSE IF algo = "ProRata" THEN ProRata(q, available)
                               ELSE Fifo(q, available)

(* The aggressor's leaves_qty once the r best levels have been visited.    *)
LeftAfter(side, limit, qty) ==
  LET left[r \in 0 .. MaxPrice] ==
        IF r = 0 THEN qty
        ELSE (left[r - 1] - Total(FillsAt(side, limit, r, left[r - 1]))) % Word
  IN  left

(* match_aggressive as a whole: rank -> fills, slot by slot.               *)
Fills(side, limit, qty) ==
  [r \in Prices |-> FillsAt(side, limit, r, LeftAfter(side, limit, qty)[r - 1])]

(* leaves_qty of a resting order of the opposite side after the fills.     *)
LeavesAfter(side, fills, id) ==
  LET price == orders[id].price
      i     == Position(Queue(Opposite(side), price), id)
  IN  (orders[id].leaves - fills[Rank(side, price)][i]) % Word

(* Slip: no sweep after the match.                                         *)
SlipNoneGone(side, fills) == {}

(* The resting orders the fills bring to leaves_qty 0, which the sweep     *)
(* removes, and the others with their new leaves_qty.                      *)
Gone(side, fills) ==
  {o \in DOMAIN orders : /\ orders[o].side = Opposite(side)
                         /\ LeavesAfter(side, fills, o) = 0}

Remaining(side, fills) ==
  [o \in DOMAIN orders \ Gone(side, fills) |->
     IF orders[o].side = Opposite(side)
     THEN [orders[o] EXCEPT !.leaves = LeavesAfter(side, fills, o)]
     ELSE orders[o]]

(* Slip: fills of one unit are taken for none.                             *)
SlipSkipOnes(side, fills, r, aggressor) ==
  LET price  == Rank(side, r)
      q      == Queue(Opposite(side), price)
      trades == [i \in 1 .. Len(q) |->
                   [type |-> "Trade", aggressor |-> aggressor, resting |-> q[i],
                    price |-> price, qty |-> fills[r][i]]]
  IN  Keep(trades, {t \in Elems(trades) : t.qty > 1})

(* The trades of the level of rank r, in queue order, zero fills skipped.  *)
TradesAt(side, fills, r, aggressor) ==
  LET price  == Rank(side, r)
      q      == Queue(Opposite(side), price)
      trades == [i \in 1 .. Len(q) |->
                   [type |-> "Trade", aggressor |-> aggressor, resting |-> q[i],
                    price |-> price, qty |-> fills[r][i]]]
  IN  Keep(trades, {t \in Elems(trades) : t.qty # 0})

(* The EventList of submit: the Ack, then the trades level by level.       *)
Events(side, fills, id) ==
  LET ev[r \in 0 .. MaxPrice] ==
        IF r = 0 THEN <<[type |-> "Ack", id |-> id]>>
        ELSE ev[r - 1] \o TradesAt(side, fills, r, id)
  IN  ev[MaxPrice]

(* Slip: the sweep erases the index entry and does not unlink.             *)
SlipStaysLinked(side, fills, gone) ==
  [p \in DOMAIN levels[Opposite(side)] |->
     NoteQtyDelta(levels[Opposite(side)][p], Total(fills[Rank(side, p)]))]

(* The opposite side after the fills and the sweep of the orders in gone;  *)
(* the sweep walks the whole side, so no empty level stays on it.          *)
SweptSide(side, fills, gone) ==
  LET opp        == Opposite(side)
      swept(p)   == Unlink(NoteQtyDelta(levels[opp][p], Total(fills[Rank(side, p)])),
                           gone, 0)
  IN  [p \in {p \in DOMAIN levels[opp] : swept(p).queue # <<>>} |-> swept(p)]

(* OrderBook::rest on one side of the book.                                *)
RestOn(lvls, price, id, leaves) ==
  With(lvls, price,
       PushBack(IF price \in DOMAIN lvls THEN lvls[price] ELSE EmptyLevel,
                id, leaves))

-----------------------------------------------------------------------------
Init == /\ levels = [s \in Sides |-> <<>>]
        /\ orders = <<>>
        /\ index = <<>>
        /\ algo \in Algos
        /\ nextId = 1
        /\ freed = {}
        /\ call = [op |-> "None"]
        /\ out = <<>>

(* Matcher::submit of a new order.  rest links the order first and then    *)
(* emplaces it in index_: if the key is there already the emplacement does *)
(* nothing and the order is destroyed, still linked.  From then on the     *)
(* program's behaviour is undefined, and the model stops.                  *)
Submit(key, side, price, qty) ==
  LET opp    == Opposite(side)
      fills  == Fills(side, price, qty)
      left   == LeftAfter(side, price, qty)[MaxPrice]
      gone   == Gone(side, fills)
      kept   == Remaining(side, fills)
      keys   == Without(index, {orders[o].key : o \in gone})
      lost   == left > 0 /\ key \in DOMAIN keys
      rests  == left > 0 /\ key \notin DOMAIN keys
  IN  /\ freed = {}
      /\ nextId <= MaxOrders
      /\ KeyReuse \/ key \notin DOMAIN index
      /\ call' = [op |-> "Submit", key |-> key, side |-> side,
                  price |-> price, qty |-> qty]
      /\ nextId' = nextId + 1
      /\ out' = Events(side, fills, nextId)
      /\ levels' = [levels EXCEPT
                      ![opp]  = SweptSide(side, fills, gone),
                      ![side] = IF left > 0 THEN RestOn(@, price, nextId, left) ELSE @]
      /\ orders' = IF rests
                   THEN With(kept, nextId, [key |-> key, side |-> side, price |-> price,
                                            orig |-> qty, leaves |-> left])
                   ELSE kept
      /\ index' = IF rests THEN With(keys, key, nextId) ELSE keys
      /\ freed' = IF lost THEN {nextId} ELSE {}
      /\ UNCHANGED algo

(* OrderBook::cancel of a key the book knows: the level stays in the map,  *)
(* possibly empty.                                                         *)
Cancel(key) ==
  LET id == index[key]
      o  == orders[id]
  IN  /\ freed = {}
      /\ key \in DOMAIN index
      /\ levels' = IF o.price \in DOMAIN levels[o.side]
                   THEN [levels EXCEPT ![o.side][o.price] =
                           Unlink(@, {id}, o.leaves)]
                   ELSE levels
      /\ index' = Without(index, {key})
      /\ orders' = Without(orders, {id})
      /\ call' = [op |-> "Cancel", key |-> key]
      /\ out' = <<[type |-> "CancelResult", ok |-> TRUE]>>
      /\ UNCHANGED <<algo, nextId, freed>>

(* "unknown order"                                                         *)
CancelUnknown(key) ==
  /\ freed = {}
  /\ key \notin DOMAIN index
  /\ call' = [op |-> "Cancel", key |-> key]
  /\ out' = <<[type |-> "CancelResult", ok |-> FALSE]>>
  /\ UNCHANGED <<levels, orders, index, algo, nextId, freed>>

SetAlgo(a) == /\ freed = {}
              /\ algo' = a
              /\ call' = [op |-> "SetAlgo"]
              /\ out' = <<>>
              /\ UNCHANGED <<levels, orders, index, nextId, freed>>

Next == \/ \E key \in Keys, side \in Sides, price \in Prices, qty \in 0 .. MaxQty :
             Submit(key, side, price, qty)
        \/ \E key \in Keys : Cancel(key) \/ CancelUnknown(key)
        \/ \E a \in Algos : SetAlgo(a)

Spec == Init /\ [][Next]_vars

-----------------------------------------------------------------------------
(* What the quantities may add up to without wrapping: see Allocation.     *)
NoWrap == MaxOrders * MaxQty < Word

TypeOK ==
  /\ levels = [s \in Sides |-> levels[s]]
  /\ \A s \in Sides : IsMap(levels[s], Prices, Level)
  /\ IsMap(orders, OrderIds, Order)
  /\ IsMap(index, Keys, OrderIds)
  /\ algo \in Algos
  /\ nextId \in 1 .. MaxOrders + 1
  /\ freed \in SUBSET OrderIds
  /\ call \in Call
  /\ out \in Seq(Event)

(* Every resting order is linked in the one level of its side and price,   *)
(* nothing else is, and index_ names exactly the resting orders, each      *)
(* under its own key.                                                      *)
BookAgrees ==
  freed = {} =>
    /\ \A s \in Sides, p \in Prices :
         Elems(Queue(s, p)) =
           {o \in DOMAIN orders : orders[o].side = s /\ orders[o].price = p}
    /\ \A o \in DOMAIN orders :
         orders[o].key \in DOMAIN index /\ index[orders[o].key] = o
    /\ \A k \in DOMAIN index :
         index[k] \in DOMAIN orders /\ orders[index[k]].key = k

(* Within a level the orders stand in order of arrival, whatever partial   *)
(* fills, sweeps and cancels happened in between: "head = oldest".         *)
TimePriority ==
  \A s \in Sides, p \in Prices : Ascending(Queue(s, p))

(* count_ and total_qty_ are what a walk of the list would compute.        *)
CacheAgrees ==
  freed = {} =>
    \A s \in Sides : \A p \in DOMAIN levels[s] :
      /\ levels[s][p].count = Len(levels[s][p].queue)
      /\ levels[s][p].total = Total(Leaves(levels[s][p].queue))

(* Every resting order is open: the sweep has removed the filled ones, and *)
(* no fill made leaves_qty wrap.                                           *)
OpenOrders ==
  \A o \in DOMAIN orders : orders[o].leaves \in 1 .. orders[o].orig

(* The book is never crossed between calls.                                *)
NotCrossed ==
  \A b, a \in DOMAIN orders :
    orders[b].side = "Buy" /\ orders[a].side = "Sell"
      => orders[b].price < orders[a].price

-----------------------------------------------------------------------------
TradesOf(events) == {i \in 1 .. Len(events) : events[i].type = "Trade"}

(* The quantity of the trades at the positions I of an event list.         *)
Traded(events, I) ==
  Sum([i \in 1 .. Len(events) |-> IF i \in I THEN events[i].qty ELSE 0])

LeftIn(book, o) == IF o \in DOMAIN book THEN book[o].leaves ELSE 0

SubmitExplained ==
  call'.op = "Submit" /\ nextId' # nextId =>
    LET T == TradesOf(out')
    IN  /\ \A o \in DOMAIN orders :
             orders[o].leaves = LeftIn(orders', o)
                                + Traded(out', {i \in T : out'[i].resting = o})
        /\ freed' = {} => call'.qty = Traded(out', T) + LeftIn(orders', nextId)
        /\ \A i \in T : /\ out'[i].resting \in DOMAIN orders
                        /\ out'[i].price = orders[out'[i].resting].price
                        /\ Crosses(call'.side, call'.price, out'[i].price)

(* The event list of a submit accounts for every change of the book: the   *)
(* trades naming a resting order add up to what it lost, the aggressor's   *)
(* quantity is what it traded plus what rests, and no trade is outside the *)
(* limit or away from the resting order's price.                           *)
TradesExplainBook == [][SubmitExplained]_vars

Better(side, p, q) == IF side = "Buy" THEN p < q ELSE p > q

SubmitInPriority ==
  call'.op = "Submit" /\ nextId' # nextId =>
    LET T == TradesOf(out')
    IN  /\ \A i, j \in T : i < j =>
             \/ Better(call'.side, out'[i].price, out'[j].price)
             \/ out'[i].price = out'[j].price /\ out'[i].resting < out'[j].resting
        /\ \A i \in T : \A o \in DOMAIN orders' \ {nextId} :
             orders'[o].side # call'.side
               => ~Better(call'.side, orders'[o].price, out'[i].price)

(* Trades come out best price first and, at a price, oldest order first;   *)
(* and no trade happens at a price while a better one has open quantity.   *)
TradesInPriority == [][SubmitInPriority]_vars

=============================================================================
