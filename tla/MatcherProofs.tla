--------------------------- MODULE MatcherProofs ----------------------------
(***************************************************************************)
(* The invariants of the order book, for every number of prices, orders    *)
(* and keys.                                                               *)
(***************************************************************************)
EXTENDS Matcher, AllocationLemmas

-----------------------------------------------------------------------------
(* Levels and the walk over them, in a state of the book.                  *)

(* The book is well formed and its queues name owned orders only.          *)
Sound == TypeOK /\ BookAgrees /\ freed = {}

(* A level's queue is a list of order ids.                                 *)
LEMMA QueueType ==
  ASSUME TypeOK, NEW s \in Sides, NEW p \in Prices
  PROVE  Queue(s, p) \in Seq(OrderIds)
<1>1. IsMap(levels[s], Prices, Level)
  BY DEF TypeOK
<1> QED BY <1>1 DEF Queue, IsMap, Level

(* Every id in a queue names an order of that side and price, and every    *)
(* such order is in the queue.                                             *)
LEMMA QueueOrders ==
  ASSUME Sound, NEW s \in Sides, NEW p \in Prices
  PROVE  /\ \A i \in 1 .. Len(Queue(s, p)) :
              /\ Queue(s, p)[i] \in DOMAIN orders
              /\ orders[Queue(s, p)[i]].side = s
              /\ orders[Queue(s, p)[i]].price = p
         /\ \A o \in DOMAIN orders :
              orders[o].side = s /\ orders[o].price = p
                => \E i \in 1 .. Len(Queue(s, p)) : Queue(s, p)[i] = o
<1>1. Elems(Queue(s, p)) = {o \in DOMAIN orders : orders[o].side = s /\ orders[o].price = p}
  BY DEF Sound, BookAgrees
<1> QED BY <1>1 DEF Elems

(* The queue of its side and price holds each order of the book.           *)
LEMMA OrderIsQueued ==
  ASSUME Sound
  PROVE  \A s \in Sides, p \in Prices : \A o \in DOMAIN orders :
           orders[o].side = s /\ orders[o].price = p
             => \E i \in 1 .. Len(Queue(s, p)) : Queue(s, p)[i] = o
  BY QueueOrders

(* An order's record has the types of its fields.                          *)
LEMMA OrderType ==
  ASSUME TypeOK, NEW o \in DOMAIN orders
  PROVE  /\ o \in OrderIds /\ orders[o].key \in Keys /\ orders[o].side \in Sides
         /\ orders[o].price \in Prices /\ orders[o].orig \in Quantity
         /\ orders[o].leaves \in Quantity /\ orders[o] \in Order
<1>1. IsMap(orders, OrderIds, Order)
  BY DEF TypeOK
<1>2. o \in OrderIds /\ orders[o] \in Order
  BY <1>1 DEF IsMap
<1> QED BY <1>2 DEF Order

(* The leaves of a level, slot by slot.                                    *)
LEMMA LeavesType ==
  ASSUME Sound, NEW s \in Sides, NEW p \in Prices
  PROVE  /\ Leaves(Queue(s, p)) \in Seq(Quantity)
         /\ Len(Leaves(Queue(s, p))) = Len(Queue(s, p))
         /\ \A i \in 1 .. Len(Queue(s, p)) :
              Leaves(Queue(s, p))[i] = orders[Queue(s, p)[i]].leaves
<1> DEFINE q == Queue(s, p)
<1>1. q \in Seq(OrderIds) /\ Len(q) \in Nat
  BY QueueType DEF Sound
<1>2. \A i \in 1 .. Len(q) : orders[q[i]].leaves \in Quantity
  BY QueueOrders, OrderType DEF Sound
<1> HIDE DEF q
<1> QED BY <1>1, <1>2 DEF Leaves, q

(* Rank is an involution of the price ladder.                              *)
LEMMA RankFacts ==
  ASSUME NEW side \in Sides, NEW r \in Prices
  PROVE  Rank(side, r) \in Prices /\ Rank(side, Rank(side, r)) = r
  BY MatcherAssumption DEF Rank, Prices, Sides

(* The opposite of a side.                                                 *)
LEMMA OppositeFacts ==
  ASSUME NEW side \in Sides
  PROVE  Opposite(side) \in Sides /\ Opposite(side) # side
  BY DEF Opposite, Sides

(* The fills at a level are a Quantity per order of its queue.             *)
LEMMA FillsAtType ==
  ASSUME Sound, NEW side \in Sides, NEW limit, NEW r \in Prices,
         NEW available \in Quantity
  PROVE  /\ FillsAt(side, limit, r, available) \in Seq(Quantity)
         /\ Len(FillsAt(side, limit, r, available)) =
              Len(Queue(Opposite(side), Rank(side, r)))
<1> DEFINE q == Leaves(Queue(Opposite(side), Rank(side, r)))
           n == Len(Queue(Opposite(side), Rank(side, r)))
           z == [i \in 1 .. Len(q) |-> 0]
<1>1. q \in Seq(Quantity) /\ Len(q) = n
  BY RankFacts, OppositeFacts, LeavesType
<1>2. FillsAt(side, limit, r, available) \in {z, ProRata(q, available), Fifo(q, available)}
  BY DEF FillsAt
<1> HIDE DEF q, n
<1>3. z \in Seq(Quantity) /\ Len(z) = n
  <2>1. 0 \in Quantity /\ Len(q) \in Nat
    BY <1>1, WordAssumption DEF Quantity
  <2> QED BY <1>1, <2>1
<1>4. ProRata(q, available) \in Seq(Quantity) /\ Len(ProRata(q, available)) = n
  BY <1>1, ProRataType
<1>5. Fifo(q, available) \in Seq(Quantity) /\ Len(Fifo(q, available)) = n
  BY <1>1, FifoType
<1> HIDE DEF z
<1> QED BY <1>2, <1>3, <1>4, <1>5 DEF n

(* LeftAfter: the aggressor's leaves_qty level by level.                   *)
LEMMA LeftAfterDef ==
  ASSUME Sound, NEW side \in Sides, NEW limit, NEW qty \in Quantity
  PROVE  LET left == LeftAfter(side, limit, qty)
         IN  /\ left \in [0 .. MaxPrice -> Quantity]
             /\ left[0] = qty
             /\ \A r \in Prices :
                  left[r] = (left[r - 1] - Total(FillsAt(side, limit, r, left[r - 1]))) % Word
<1> DEFINE n == MaxPrice
           Step(r, x) == (x - Total(FillsAt(side, limit, r, x))) % Word
           step == [r \in 1 .. n |-> [x \in Quantity |-> Step(r, x)]]
           D(f) == f = [r \in 0 .. n |-> IF r = 0 THEN qty ELSE Step(r, f[r - 1])]
<1>0. n \in Nat
  BY MatcherAssumption
<1>1. step \in [1 .. n -> [Quantity -> Quantity]]
  <2>1. ASSUME NEW r \in 1 .. n, NEW x \in Quantity PROVE Step(r, x) \in Quantity
    <3>1. FillsAt(side, limit, r, x) \in Seq(Quantity)
      BY FillsAtType DEF Prices
    <3>2. FillsAt(side, limit, r, x) \in Seq(Nat)
      BY <3>1, WordAssumption DEF Quantity
    <3>3. Total(FillsAt(side, limit, r, x)) \in Quantity
      BY <3>2, TotalType
    <3>4. x - Total(FillsAt(side, limit, r, x)) \in Int
      BY <3>3, WordAssumption DEF Quantity
    <3>5. ASSUME NEW y \in Int PROVE y % Word \in Quantity
      BY WordAssumption DEF Quantity
    <3> QED BY <3>4, <3>5
  <2> HIDE DEF Step
  <2> QED BY <2>1
<1>2. PICK f : Iterates(f, n, Quantity, qty, step)
  <2> HIDE DEF step, n
  <2> QED BY <1>0, <1>1, Iteration
<1>3. D(f)
  <2> HIDE DEF Step
  <2>1. f \in [0 .. n -> Quantity] /\ f[0] = qty
    BY <1>2 DEF Iterates
  <2>2. \A r \in 1 .. n : f[r] = Step(r, f[r - 1])
    <3> SUFFICES ASSUME NEW r \in 1 .. n PROVE f[r] = Step(r, f[r - 1])
      OBVIOUS
    <3>1. f[r - 1] \in Quantity
      BY <1>0, <2>1
    <3>2. f[r] = step[r][f[r - 1]]
      BY <1>2 DEF Iterates
    <3> QED BY <3>1, <3>2
  <2> QED BY <1>0, <2>1, <2>2
<1>4. LeftAfter(side, limit, qty) = CHOOSE g : D(g)
  BY DEF LeftAfter
<1>5. D(LeftAfter(side, limit, qty))
  <2> HIDE DEF D
  <2> QED BY <1>3, <1>4
<1>6. ASSUME NEW g, D(g)
      PROVE  /\ g = [r \in 0 .. n |-> g[r]] /\ g[0] = qty
             /\ \A r \in 1 .. n : g[r] = Step(r, g[r - 1])
  <2> HIDE DEF n, Step
  <2>1. g = [r \in 0 .. n |-> g[r]]
    BY <1>6
  <2>2. g[0] = qty
    BY <1>6, <1>0
  <2>3. \A r \in 1 .. n : g[r] = Step(r, g[r - 1])
    BY <1>6, <1>0
  <2> QED BY <2>1, <2>2, <2>3, Zenon
<1>7. ASSUME NEW g, D(g) PROVE Iterates(g, n, Quantity, qty, step)
  <2>1. Follows(g, n, Quantity, qty, step)
    <3> HIDE DEF Step
    <3> QED BY <1>6, <1>7, ZenonT(60) DEF Follows
  <2> HIDE DEF step, n
  <2> QED BY <1>0, <1>1, <2>1, FollowsIterates
<1>8. LET left == LeftAfter(side, limit, qty)
      IN  /\ Iterates(left, n, Quantity, qty, step)
          /\ \A r \in 1 .. n : left[r] = Step(r, left[r - 1])
  <2> HIDE DEF D, step, n, Step
  <2> QED BY <1>5, <1>6, <1>7
<1> QED BY <1>8 DEF Iterates, Prices

(* The fills of a submit, rank by rank.                                    *)
LEMMA FillsType ==
  ASSUME Sound, NEW side \in Sides, NEW limit, NEW qty \in Quantity, NEW r \in Prices
  PROVE  /\ Fills(side, limit, qty)[r] =
              FillsAt(side, limit, r, LeftAfter(side, limit, qty)[r - 1])
         /\ LeftAfter(side, limit, qty)[r - 1] \in Quantity
         /\ Fills(side, limit, qty)[r] \in Seq(Quantity)
         /\ Len(Fills(side, limit, qty)[r]) = Len(Queue(Opposite(side), Rank(side, r)))
<1>1. Fills(side, limit, qty)[r] =
        FillsAt(side, limit, r, LeftAfter(side, limit, qty)[r - 1])
  BY DEF Fills
<1>2. LeftAfter(side, limit, qty)[r - 1] \in Quantity
  <2>1. r - 1 \in 0 .. MaxPrice
    BY MatcherAssumption DEF Prices
  <2>2. LeftAfter(side, limit, qty) \in [0 .. MaxPrice -> Quantity]
    BY LeftAfterDef, SMTT(60)
  <2> QED BY <2>1, <2>2
<1> QED BY <1>1, <1>2, FillsAtType

(* A resting order of the opposite side has a slot in its queue, and its   *)
(* leaves_qty after the fills is a Quantity.                               *)
LEMMA LeavesAfterType ==
  ASSUME Sound, NEW side \in Sides, NEW limit, NEW qty \in Quantity,
         NEW o \in DOMAIN orders, orders[o].side = Opposite(side)
  PROVE  LET p     == orders[o].price
             q     == Queue(Opposite(side), p)
             fills == Fills(side, limit, qty)
         IN  /\ Position(q, o) \in 1 .. Len(q) /\ q[Position(q, o)] = o
             /\ fills[Rank(side, p)][Position(q, o)] \in Quantity
             /\ LeavesAfter(side, fills, o) =
                  (orders[o].leaves - fills[Rank(side, p)][Position(q, o)]) % Word
             /\ LeavesAfter(side, fills, o) \in Quantity
<1> DEFINE p == orders[o].price
           q == Queue(Opposite(side), p)
           fills == Fills(side, limit, qty)
           i == Position(q, o)
           f == fills[Rank(side, p)]
<1>1. p \in Prices /\ orders[o].leaves \in Quantity
  BY OrderType DEF Sound
<1>2. i \in 1 .. Len(q) /\ q[i] = o
  <2>1. \E k \in 1 .. Len(q) : q[k] = o
    BY <1>1, QueueOrders, OppositeFacts
  <2> HIDE DEF q
  <2> QED BY <2>1 DEF Position
<1>3. f \in Seq(Quantity) /\ Len(f) = Len(q)
  <2>1. Rank(side, p) \in Prices /\ Rank(side, Rank(side, p)) = p
    BY <1>1, RankFacts
  <2> HIDE DEF p
  <2> QED BY <2>1, FillsType
<1>4. LeavesAfter(side, fills, o) = (orders[o].leaves - f[i]) % Word
  BY DEF LeavesAfter
<1> HIDE DEF p, q, f, i, fills
<1>5. f[i] \in Quantity
  BY <1>2, <1>3
<1>6. orders[o].leaves - f[i] \in Int
  BY <1>1, <1>5, WordAssumption DEF Quantity
<1>7. ASSUME NEW y \in Int PROVE y % Word \in Quantity
  BY WordAssumption DEF Quantity
<1>8. LeavesAfter(side, fills, o) \in Quantity
  BY <1>4, <1>6, <1>7
<1> QED BY <1>2, <1>4, <1>5, <1>8 DEF p, q, f, i, fills

-----------------------------------------------------------------------------
(* What a submit does to the levels.                                       *)

QueueOn(lvls, p) == IF p \in DOMAIN lvls THEN lvls[p].queue ELSE <<>>

(* Unlinking from a level that noted a change of quantity.                 *)
LEMMA UnlinkType ==
  ASSUME NEW lv \in Level, NEW gone, NEW x \in Int, NEW y \in Int
  PROVE  /\ Unlink(lv, gone, x) \in Level
         /\ Unlink(lv, gone, x).queue = Keep(lv.queue, Elems(lv.queue) \ gone)
         /\ Unlink(NoteQtyDelta(lv, y), gone, x) \in Level
         /\ Unlink(NoteQtyDelta(lv, y), gone, x).queue =
              Keep(lv.queue, Elems(lv.queue) \ gone)
<1> DEFINE K(q) == Keep(q, Elems(q) \ gone)
<1>1. ASSUME NEW z \in Int PROVE z % Word \in Quantity
  BY WordAssumption DEF Quantity
<1>2. ASSUME NEW l \in Level
      PROVE  Unlink(l, gone, x) \in Level /\ Unlink(l, gone, x).queue = K(l.queue)
  <2>1. l.queue \in Seq(OrderIds) /\ l.count \in Int /\ l.total \in Quantity
    BY DEF Level
  <2>2. K(l.queue) \in Seq(OrderIds)
    BY <2>1, KeepElems
  <2>3. Unlink(l, gone, x) =
          [queue |-> K(l.queue),
           count |-> l.count - (Len(l.queue) - Len(K(l.queue))),
           total |-> (l.total - x) % Word]
    BY DEF Unlink
  <2> HIDE DEF K
  <2>4. l.total - x \in Int
    BY <2>1, WordAssumption DEF Quantity
  <2>5. l.count - (Len(l.queue) - Len(K(l.queue))) \in Int
    <3>1. ASSUME NEW q \in Seq(OrderIds) PROVE Len(q) \in Int
      OBVIOUS
    <3>2. Len(l.queue) \in Int /\ Len(K(l.queue)) \in Int /\ l.count \in Int
      BY <2>1, <2>2, <3>1
    <3>3. ASSUME NEW a \in Int, NEW b \in Int, NEW c \in Int PROVE a - (b - c) \in Int
      OBVIOUS
    <3> QED BY <3>2, <3>3, Zenon
  <2>6. (l.total - x) % Word \in Quantity
    BY <1>1, <2>4
  <2> QED BY <2>2, <2>3, <2>5, <2>6 DEF Level
<1>3. NoteQtyDelta(lv, y) \in Level /\ NoteQtyDelta(lv, y).queue = lv.queue
  <2>1. lv.total - y \in Int
    BY WordAssumption DEF Quantity, Level
  <2>2. (lv.total - y) % Word \in Quantity
    BY <1>1, <2>1
  <2> QED BY <2>2 DEF Level, NoteQtyDelta
<1> QED BY <1>2, <1>3, ZenonT(60)

(* Nothing is left of an empty list.                                       *)
LEMMA KeepEmpty ==
  ASSUME NEW S
  PROVE  Keep(<<>>, S) = <<>>
<1>1. <<>> \in Seq(Nat) /\ Len(<<>>) = 0
  OBVIOUS
<1>2. ASSUME NEW s \in Seq(Nat) PROVE KeptPrefix(s, S)[0] = <<>>
  BY KeptPrefixDef
<1> QED BY <1>1, <1>2, ZenonT(60) DEF Keep

(* The levels lvls of a side are those it had, without the orders gone.    *)
SweptTo(side, lvls, gone) ==
  /\ IsMap(lvls, Prices, Level)
  /\ \A p \in Prices :
       QueueOn(lvls, p) = Keep(Queue(side, p), Elems(Queue(side, p)) \ gone)

(* The sweep leaves, at every price, the orders that are not gone.         *)
LEMMA SweptSideFacts ==
  ASSUME Sound, NEW side \in Sides, NEW limit, NEW qty \in Quantity, NEW gone
  PROVE  SweptTo(Opposite(side), SweptSide(side, Fills(side, limit, qty), gone), gone)
<1> DEFINE opp == Opposite(side)
           fills == Fills(side, limit, qty)
           lvls == SweptSide(side, fills, gone)
           swept(p) == Unlink(NoteQtyDelta(levels[opp][p], Total(fills[Rank(side, p)])),
                              gone, 0)
<1>1. opp \in Sides /\ IsMap(levels[opp], Prices, Level)
  BY OppositeFacts DEF Sound, TypeOK
<1>2. lvls = [p \in {p \in DOMAIN levels[opp] : swept(p).queue # <<>>} |-> swept(p)]
  BY DEF SweptSide
<1>3. ASSUME NEW p \in DOMAIN levels[opp]
      PROVE  /\ p \in Prices /\ swept(p) \in Level
             /\ swept(p).queue = Keep(Queue(opp, p), Elems(Queue(opp, p)) \ gone)
  <2>1. p \in Prices /\ levels[opp][p] \in Level /\ Queue(opp, p) = levels[opp][p].queue
    BY <1>1 DEF IsMap, Queue
  <2>2. Rank(side, p) \in Prices
    BY <2>1, RankFacts
  <2>3. fills[Rank(side, p)] \in Seq(Nat)
    <3>1. fills[Rank(side, p)] \in Seq(Quantity)
      BY <2>2, FillsType
    <3> QED BY <3>1, WordAssumption DEF Quantity
  <2>4. Total(fills[Rank(side, p)]) \in Int /\ 0 \in Int
    BY <2>3, TotalType, WordAssumption DEF Quantity
  <2>5. ASSUME NEW lv \in Level, NEW y \in Int
        PROVE  /\ Unlink(NoteQtyDelta(lv, y), gone, 0) \in Level
               /\ Unlink(NoteQtyDelta(lv, y), gone, 0).queue =
                    Keep(lv.queue, Elems(lv.queue) \ gone)
    BY <2>4, UnlinkType, ZenonT(60)
  <2> HIDE DEF fills, opp
  <2> QED BY <2>1, <2>4, <2>5, Zenon
<1>4. ASSUME NEW p \in Prices, p \notin DOMAIN levels[opp]
      PROVE  Queue(opp, p) = <<>>
  BY <1>4 DEF Queue
<1> HIDE DEF lvls, swept, opp
<1>5. IsMap(lvls, Prices, Level)
  BY <1>2, <1>3, ZenonT(60) DEF IsMap
<1>6. ASSUME NEW p \in Prices
      PROVE  QueueOn(lvls, p) = Keep(Queue(opp, p), Elems(Queue(opp, p)) \ gone)
  <2>1. CASE p \notin DOMAIN levels[opp]
    <3>1. Keep(Queue(opp, p), Elems(Queue(opp, p)) \ gone) = <<>>
      BY <1>4, <2>1, KeepEmpty
    <3> QED BY <1>2, <2>1, <3>1 DEF QueueOn
  <2>2. CASE p \in DOMAIN levels[opp]
    BY <1>2, <1>3, <2>2 DEF QueueOn
  <2> QED BY <2>1, <2>2
<1>7. SweptTo(opp, lvls, gone)
  BY <1>5, <1>6, Zenon DEF SweptTo
<1> QED BY <1>7, Zenon DEF lvls, opp, fills

(* Resting appends to one queue and leaves the others alone.               *)
LEMMA RestOnFacts ==
  ASSUME NEW lvls, IsMap(lvls, Prices, Level), NEW price \in Prices,
         NEW id \in OrderIds, NEW leaves \in Quantity
  PROVE  /\ IsMap(RestOn(lvls, price, id, leaves), Prices, Level)
         /\ \A p \in Prices :
              QueueOn(RestOn(lvls, price, id, leaves), p) =
                IF p = price THEN Append(QueueOn(lvls, p), id) ELSE QueueOn(lvls, p)
<1> DEFINE old == IF price \in DOMAIN lvls THEN lvls[price] ELSE EmptyLevel
           new == PushBack(old, id, leaves)
<1>1. ASSUME NEW z \in Int PROVE z % Word \in Quantity
  BY WordAssumption DEF Quantity
<1>2. old \in Level /\ old.queue = QueueOn(lvls, price)
  <2>1. EmptyLevel \in Level /\ EmptyLevel.queue = <<>>
    BY WordAssumption DEF EmptyLevel, Level, Quantity
  <2> QED BY <2>1 DEF IsMap, QueueOn
<1> HIDE DEF old
<1>3. new \in Level /\ new.queue = Append(QueueOn(lvls, price), id)
  <2>1. old.queue \in Seq(OrderIds) /\ old.count \in Int /\ old.total \in Quantity
    BY <1>2 DEF Level
  <2>2. old.total + leaves \in Int
    BY <2>1, WordAssumption DEF Quantity
  <2>3. (old.total + leaves) % Word \in Quantity
    BY <1>1, <2>2
  <2>4. Append(old.queue, id) \in Seq(OrderIds) /\ old.count + 1 \in Int
    BY <2>1
  <2> QED BY <1>2, <2>3, <2>4 DEF PushBack, Level
<1>4. RestOn(lvls, price, id, leaves) = With(lvls, price, new)
  BY DEF RestOn, old
<1> HIDE DEF new
<1>5. DOMAIN lvls \subseteq Prices /\ \A p \in DOMAIN lvls : lvls[p] \in Level
  BY DEF IsMap
<1> QED BY <1>3, <1>4, <1>5, ZenonT(60) DEF With, IsMap, QueueOn

(* The trades of a level are events.                                       *)
LEMMA TradesAtType ==
  ASSUME Sound, NEW side \in Sides, NEW limit, NEW qty \in Quantity,
         NEW r \in Prices, NEW id \in OrderIds
  PROVE  TradesAt(side, Fills(side, limit, qty), r, id) \in Seq(Event)
<1> DEFINE fills == Fills(side, limit, qty)
           price == Rank(side, r)
           q == Queue(Opposite(side), price)
           trade(i) == [type |-> "Trade", aggressor |-> id, resting |-> q[i],
                        price |-> price, qty |-> fills[r][i]]
           trades == [i \in 1 .. Len(q) |-> trade(i)]
           S == {t \in Elems(trades) : t.qty # 0}
<1>1. price \in Prices /\ q \in Seq(OrderIds) /\ Len(q) \in Nat
  BY RankFacts, OppositeFacts, QueueType DEF Sound
<1>2. fills[r] \in Seq(Quantity) /\ Len(fills[r]) = Len(q)
  BY FillsType, SMTT(60)
<1>3. TradesAt(side, fills, r, id) = Keep(trades, S)
  BY DEF TradesAt
<1> HIDE DEF fills, price, q
<1>4. ASSUME NEW i \in 1 .. Len(q) PROVE trade(i) \in Event
  <2>1. q[i] \in OrderIds /\ fills[r][i] \in Quantity
    BY <1>1, <1>2
  <2> QED BY <1>1, <2>1 DEF Event
<1> HIDE DEF trade
<1>5. trades \in Seq(Event)
  BY <1>1, <1>4
<1> HIDE DEF trades, S
<1>6. Keep(trades, S) \in Seq(Event)
  BY <1>5, KeepElems
<1> QED BY <1>3, <1>6 DEF fills

(* The event list as it grows from level to level.                         *)
EventsGrow(ev, side, fills, id) ==
  /\ ev \in [0 .. MaxPrice -> Seq(Event)]
  /\ ev[0] = <<[type |-> "Ack", id |-> id]>>
  /\ \A r \in Prices : ev[r] = ev[r - 1] \o TradesAt(side, fills, r, id)
  /\ ev[MaxPrice] = Events(side, fills, id)

(* The event list of a submit grows so.                                    *)
LEMMA EventsUnfold ==
  ASSUME Sound, NEW side \in Sides, NEW limit, NEW qty \in Quantity,
         NEW id \in OrderIds
  PROVE  \E ev : EventsGrow(ev, side, Fills(side, limit, qty), id)
<1> DEFINE n == MaxPrice
           Z == Seq(Event)
           a == <<[type |-> "Ack", id |-> id]>>
           trades(r) == TradesAt(side, Fills(side, limit, qty), r, id)
           Step(r, x) == x \o trades(r)
           step == [r \in 1 .. n |-> [x \in Z |-> Step(r, x)]]
           D(f) == f = [r \in 0 .. n |-> IF r = 0 THEN a ELSE Step(r, f[r - 1])]
<1>0. n \in Nat
  BY MatcherAssumption
<1>1. a \in Z /\ step \in [1 .. n -> [Z -> Z]]
  <2>1. ASSUME NEW r \in 1 .. n, NEW x \in Z PROVE Step(r, x) \in Z
    <3>1. trades(r) \in Seq(Event)
      BY TradesAtType DEF Prices
    <3> HIDE DEF trades
    <3> QED BY <3>1
  <2>2. a \in Z
    <3>1. [type |-> "Ack", id |-> id] \in Event
      BY DEF Event
    <3> QED BY <3>1
  <2> HIDE DEF Z, Step, a
  <2> QED BY <2>1, <2>2
<1>2. PICK f : Iterates(f, n, Z, a, step)
  <2> HIDE DEF step, n, Z, a
  <2> QED BY <1>0, <1>1, Iteration
<1>3. D(f)
  <2> HIDE DEF Z, Step, a
  <2>1. f \in [0 .. n -> Z] /\ f[0] = a
    BY <1>2 DEF Iterates
  <2>2. \A r \in 1 .. n : f[r] = Step(r, f[r - 1])
    <3> SUFFICES ASSUME NEW r \in 1 .. n PROVE f[r] = Step(r, f[r - 1])
      OBVIOUS
    <3>1. f[r - 1] \in Z
      BY <1>0, <2>1
    <3>2. f[r] = step[r][f[r - 1]]
      BY <1>2 DEF Iterates
    <3> QED BY <3>1, <3>2
  <2> QED BY <1>0, <2>1, <2>2
<1>4. Events(side, Fills(side, limit, qty), id) = (CHOOSE g : D(g))[n]
  BY DEF Events
<1>5. D(CHOOSE g : D(g))
  <2> HIDE DEF D
  <2> QED BY <1>3
<1>6. ASSUME NEW g, D(g)
      PROVE  /\ g = [r \in 0 .. n |-> g[r]] /\ g[0] = a
             /\ \A r \in 1 .. n : g[r] = Step(r, g[r - 1])
  <2> HIDE DEF n, Step, a
  <2>1. g = [r \in 0 .. n |-> g[r]]
    BY <1>6
  <2>2. g[0] = a
    BY <1>6, <1>0
  <2>3. \A r \in 1 .. n : g[r] = Step(r, g[r - 1])
    BY <1>6, <1>0
  <2> QED BY <2>1, <2>2, <2>3
<1>7. ASSUME NEW g, D(g) PROVE g \in [0 .. n -> Z]
  <2>1. Follows(g, n, Z, a, step)
    <3> HIDE DEF Z, Step, a
    <3> QED BY <1>6, <1>7, ZenonT(60) DEF Follows
  <2>2. Iterates(g, n, Z, a, step)
    <3> HIDE DEF step, n, Z, a
    <3> QED BY <1>0, <1>1, <2>1, FollowsIterates
  <2> QED BY <2>2, Zenon DEF Iterates
<1> DEFINE ev == CHOOSE g : D(g)
<1>8. EventsGrow(ev, side, Fills(side, limit, qty), id)
  <2>1. ev \in [0 .. n -> Z] /\ ev[0] = a /\ \A r \in 1 .. n : ev[r] = Step(r, ev[r - 1])
    <3> HIDE DEF D, Z, n, Step, a
    <3> QED BY <1>5, <1>6, <1>7, Zenon
  <2> HIDE DEF ev
  <2> QED BY <1>4, <2>1, Zenon DEF EventsGrow, Prices, ev
<1> HIDE DEF ev
<1> QED BY <1>8

(* The event list of a submit is one.                                      *)
LEMMA EventsType ==
  ASSUME Sound, NEW side \in Sides, NEW limit, NEW qty \in Quantity,
         NEW id \in OrderIds
  PROVE  Events(side, Fills(side, limit, qty), id) \in Seq(Event)
<1>1. PICK ev : EventsGrow(ev, side, Fills(side, limit, qty), id)
  BY EventsUnfold, Zenon
<1>2. MaxPrice \in 0 .. MaxPrice
  BY MatcherAssumption, SMTT(60)
<1> QED BY <1>1, <1>2, Zenon DEF EventsGrow

KeptOrders(side, fills, kept) ==
  /\ IsMap(kept, OrderIds, Order)
  /\ DOMAIN kept = DOMAIN orders \ Gone(side, fills)
  /\ \A o \in DOMAIN kept :
       /\ kept[o].side = orders[o].side /\ kept[o].price = orders[o].price
       /\ kept[o].key = orders[o].key /\ kept[o].orig = orders[o].orig
       /\ kept[o].leaves = IF orders[o].side = Opposite(side)
                           THEN LeavesAfter(side, fills, o)
                           ELSE orders[o].leaves

(* What the fills leave of the orders of the book.                         *)
LEMMA RemainingFacts ==
  ASSUME Sound, NEW side \in Sides, NEW limit, NEW qty \in Quantity
  PROVE  KeptOrders(side, Fills(side, limit, qty),
                    Remaining(side, Fills(side, limit, qty)))
<1> DEFINE fills == Fills(side, limit, qty)
           kept == Remaining(side, fills)
           gone == Gone(side, fills)
           after(o) == LeavesAfter(side, fills, o)
<1>1. ASSUME NEW o \in DOMAIN orders, orders[o].side = Opposite(side)
      PROVE  after(o) \in Quantity
  BY <1>1, LeavesAfterType
<1>2. ASSUME NEW o \in DOMAIN orders PROVE o \in OrderIds /\ orders[o] \in Order
  BY OrderType DEF Sound
<1>3. kept = [o \in DOMAIN orders \ gone |->
                IF orders[o].side = Opposite(side)
                THEN [orders[o] EXCEPT !.leaves = after(o)] ELSE orders[o]]
  BY DEF Remaining
<1> HIDE DEF fills, kept, gone, after
<1>4. DOMAIN kept = DOMAIN orders \ gone
  BY <1>3, ZenonT(60)
<1>5. ASSUME NEW o \in DOMAIN kept
      PROVE  /\ kept[o] \in Order
             /\ kept[o].side = orders[o].side /\ kept[o].price = orders[o].price
             /\ kept[o].key = orders[o].key /\ kept[o].orig = orders[o].orig
             /\ kept[o].leaves = IF orders[o].side = Opposite(side)
                                 THEN after(o) ELSE orders[o].leaves
  <2>1. o \in DOMAIN orders /\ orders[o] \in Order
    BY <1>2, <1>4
  <2>2. CASE orders[o].side = Opposite(side)
    <3>1. kept[o] = [orders[o] EXCEPT !.leaves = after(o)] /\ after(o) \in Quantity
      BY <1>1, <1>3, <1>4, <2>1, <2>2
    <3> QED BY <2>1, <2>2, <3>1 DEF Order
  <2>3. CASE orders[o].side # Opposite(side)
    BY <1>3, <1>4, <2>1, <2>3
  <2> QED BY <2>2, <2>3
<1>6. IsMap(kept, OrderIds, Order)
  <2>1. kept = [o \in DOMAIN kept |-> kept[o]]
    BY <1>3, SMTT(60)
  <2> QED BY <1>2, <1>4, <1>5, <2>1 DEF IsMap
<1> QED BY <1>4, <1>5, <1>6 DEF KeptOrders, fills, kept, gone, after

SubmitEffect(side, price, qty) ==
  LET opp   == Opposite(side)
      fills == Fills(side, price, qty)
      gone  == Gone(side, fills)
      left  == LeftAfter(side, price, qty)[MaxPrice]
  IN  /\ qty \in Quantity /\ left \in Quantity /\ nextId \in OrderIds
      /\ levels' = [s \in Sides |-> levels'[s]]
      /\ levels'[opp] = SweptSide(side, fills, gone)
      /\ levels'[side] = IF left > 0 THEN RestOn(levels[side], price, nextId, left)
                                     ELSE levels[side]
      /\ \A s \in Sides : IsMap(levels'[s], Prices, Level)
      /\ \A p \in Prices :
           /\ Queue(opp, p)' = Keep(Queue(opp, p), Elems(Queue(opp, p)) \ gone)
           /\ Queue(side, p)' = IF left > 0 /\ p = price
                                THEN Append(Queue(side, p), nextId)
                                ELSE Queue(side, p)

(* The levels after a submit: the opposite side is swept, and a residual   *)
(* is appended to one queue of the order's own side.                       *)
LEMMA SubmitLevels ==
  ASSUME Sound, NEW key \in Keys, NEW side \in Sides, NEW price \in Prices,
         NEW qty \in 0 .. MaxQty, Submit(key, side, price, qty)
  PROVE  SubmitEffect(side, price, qty)
<1> DEFINE opp == Opposite(side)
           fills == Fills(side, price, qty)
           gone == Gone(side, fills)
           left == LeftAfter(side, price, qty)[MaxPrice]
           swept == SweptSide(side, fills, gone)
           rest == RestOn(levels[side], price, nextId, left)
<1>1. qty \in Quantity
  BY MatcherAssumption, WordAssumption DEF Quantity
<1>2. left \in Quantity
  <2>1. LeftAfter(side, price, qty) \in [0 .. MaxPrice -> Quantity]
    BY <1>1, LeftAfterDef
  <2>2. MaxPrice \in 0 .. MaxPrice
    BY MatcherAssumption, SMTT(60)
  <2> QED BY <2>1, <2>2
<1>3. nextId \in OrderIds
  BY MatcherAssumption, SMTT(60) DEF Submit, Sound, TypeOK, OrderIds
<1>4. levels' = [levels EXCEPT ![opp] = swept, ![side] = IF left > 0 THEN rest ELSE @]
  BY OppositeFacts, ZenonT(60) DEF Submit
<1>5. /\ levels = [s \in Sides |-> levels[s]]
      /\ \A s \in Sides : IsMap(levels[s], Prices, Level)
  BY DEF Sound, TypeOK
<1>6. opp \in Sides /\ opp # side /\ \A s \in Sides : s = opp \/ s = side
  BY DEF Sides, Opposite
<1>7. /\ IsMap(swept, Prices, Level)
      /\ \A p \in Prices : QueueOn(swept, p) = Keep(Queue(opp, p), Elems(Queue(opp, p)) \ gone)
  <2>1. SweptTo(opp, swept, gone)
    BY <1>1, SweptSideFacts, Zenon
  <2> QED BY <2>1, Zenon DEF SweptTo
<1>8. /\ IsMap(rest, Prices, Level)
      /\ \A p \in Prices :
           QueueOn(rest, p) = IF p = price THEN Append(QueueOn(levels[side], p), nextId)
                                           ELSE QueueOn(levels[side], p)
  <2> HIDE DEF left
  <2> QED BY <1>2, <1>3, <1>5, RestOnFacts
<1>9. \A s \in Sides, p \in Prices :
        Queue(s, p) = QueueOn(levels[s], p) /\ Queue(s, p)' = QueueOn(levels'[s], p)
  BY DEF Queue, QueueOn
<1> HIDE DEF opp, gone, left, swept, rest
<1>10. /\ levels' = [s \in Sides |-> levels'[s]]
       /\ levels'[opp] = swept /\ levels'[side] = IF left > 0 THEN rest ELSE levels[side]
  <2>1. \A s \in Sides : s \in DOMAIN levels
    BY <1>5
  <2>2. DOMAIN levels' = Sides /\ levels' = [s \in DOMAIN levels' |-> levels'[s]]
    BY <1>4, <1>5, Zenon
  <2> QED BY <1>4, <1>6, <2>1, <2>2
<1>11. \A s \in Sides : IsMap(levels'[s], Prices, Level)
  BY <1>5, <1>6, <1>7, <1>8, <1>10
<1>12. \A p \in Prices :
         Queue(opp, p)' = Keep(Queue(opp, p), Elems(Queue(opp, p)) \ gone)
  BY <1>6, <1>7, <1>9, <1>10
<1>13. \A p \in Prices : Queue(side, p)' = IF left > 0 /\ p = price
                                          THEN Append(Queue(side, p), nextId)
                                          ELSE Queue(side, p)
  BY <1>8, <1>9, <1>10
<1> QED BY <1>1, <1>2, <1>3, <1>10, <1>11, <1>12, <1>13, Zenon
       DEF SubmitEffect, opp, gone, fills, left, swept, rest

-----------------------------------------------------------------------------
(* The structure of the book, an inductive invariant: besides the parts    *)
(* the runs check, the ids in the queues are below next_order_id_, which   *)
(* is what makes a new order the youngest of its level.                    *)

IdsBelow ==
  \A s \in Sides, p \in Prices : \A i \in 1 .. Len(Queue(s, p)) : Queue(s, p)[i] < nextId

Struct == TypeOK /\ BookAgrees /\ TimePriority /\ IdsBelow

(* The order's id is new.                                                  *)
LEMMA NewId ==
  ASSUME Sound, IdsBelow
  PROVE  nextId \notin DOMAIN orders
<1> SUFFICES ASSUME nextId \in DOMAIN orders PROVE FALSE
  OBVIOUS
<1> DEFINE s == orders[nextId].side
           p == orders[nextId].price
<1>1. s \in Sides /\ p \in Prices /\ nextId \in OrderIds
  BY OrderType, SMTT(60) DEF Sound
<1>2. orders[nextId].side = s /\ orders[nextId].price = p
  OBVIOUS
<1> HIDE DEF s, p
<1>3. PICK i \in 1 .. Len(Queue(s, p)) : Queue(s, p)[i] = nextId
  BY <1>1, <1>2, OrderIsQueued, ZenonT(60)
<1>4. nextId < nextId
  BY <1>1, <1>3 DEF IdsBelow
<1>5. nextId \in Int
  BY <1>1, SMTT(60) DEF OrderIds
<1> QED BY <1>4, <1>5

(* In an ascending list every element has one position.                    *)
LEMMA OnePosition ==
  ASSUME NEW q \in Seq(Nat), Ascending(q), NEW i \in 1 .. Len(q)
  PROVE  /\ \A j \in 1 .. Len(q) : q[j] = q[i] => j = i
         /\ Position(q, q[i]) = i
<1>1. ASSUME NEW j \in 1 .. Len(q), q[j] = q[i] PROVE j = i
  <2>1. q[i] \in Nat /\ q[j] \in Nat
    OBVIOUS
  <2>2. ~(i < j) /\ ~(j < i)
    BY <1>1, <2>1 DEF Ascending
  <2> QED BY <2>2
<1>2. Position(q, q[i]) \in 1 .. Len(q) /\ q[Position(q, q[i])] = q[i]
  BY Zenon DEF Position
<1> QED BY <1>1, <1>2, Zenon

(* A submit keeps the types.                                               *)
LEMMA SubmitType ==
  ASSUME Sound, NEW key \in Keys, NEW side \in Sides, NEW price \in Prices,
         NEW qty \in 0 .. MaxQty, Submit(key, side, price, qty)
  PROVE  TypeOK'
<1> DEFINE fills == Fills(side, price, qty)
           gone == Gone(side, fills)
           left == LeftAfter(side, price, qty)[MaxPrice]
           kept == Remaining(side, fills)
           keys == Without(index, {orders[o].key : o \in gone})
           new == [key |-> key, side |-> side, price |-> price,
                   orig |-> qty, leaves |-> left]
<1>1. /\ qty \in Quantity /\ left \in Quantity /\ nextId \in OrderIds
      /\ levels' = [s \in Sides |-> levels'[s]]
      /\ \A s \in Sides : IsMap(levels'[s], Prices, Level)
  BY SubmitLevels, SMTT(60) DEF SubmitEffect
<1>2. IsMap(kept, OrderIds, Order)
  BY <1>1, RemainingFacts, ZenonT(60) DEF KeptOrders
<1>3. IsMap(keys, Keys, OrderIds)
  <2>1. IsMap(index, Keys, OrderIds)
    BY DEF Sound, TypeOK
  <2> QED BY <2>1 DEF IsMap, Without
<1>4. new \in Order
  <2> HIDE DEF left
  <2> QED BY <1>1 DEF Order
<1>5. Events(side, fills, nextId) \in Seq(Event)
  BY <1>1, EventsType
<1>6. /\ orders' = kept \/ orders' = With(kept, nextId, new)
      /\ index' = keys \/ index' = With(keys, key, nextId)
      /\ out' = Events(side, fills, nextId)
      /\ freed' = {} \/ freed' = {nextId}
      /\ nextId' = nextId + 1 /\ algo' = algo
      /\ call' = [op |-> "Submit", key |-> key, side |-> side, price |-> price, qty |-> qty]
  BY Zenon DEF Submit
<1> HIDE DEF fills, left, kept, keys, new
<1>7. IsMap(orders', OrderIds, Order)
  BY <1>1, <1>2, <1>4, <1>6, SMTT(60) DEF IsMap, With
<1>8. IsMap(index', Keys, OrderIds)
  BY <1>1, <1>3, <1>6, SMTT(60) DEF IsMap, With
<1>9. out' \in Seq(Event) /\ freed' \in SUBSET OrderIds /\ call' \in Call
  BY <1>1, <1>5, <1>6, SMTT(60) DEF Call
<1>10. nextId' \in 1 .. MaxOrders + 1 /\ algo' \in Algos
  BY <1>1, <1>6, MatcherAssumption, SMTT(60) DEF OrderIds, Sound, TypeOK
<1> QED BY <1>1, <1>7, <1>8, <1>9, <1>10, SMTT(60) DEF TypeOK

(* A submit keeps levels, orders and index in agreement, unless it loses   *)
(* the order it rests.                                                     *)
LEMMA SubmitBook ==
  ASSUME Sound, IdsBelow, NEW key \in Keys, NEW side \in Sides, NEW price \in Prices,
         NEW qty \in 0 .. MaxQty, Submit(key, side, price, qty)
  PROVE  BookAgrees'
<1> DEFINE opp == Opposite(side)
           fills == Fills(side, price, qty)
           gone == Gone(side, fills)
           left == LeftAfter(side, price, qty)[MaxPrice]
           kept == Remaining(side, fills)
           lostKeys == {orders[o].key : o \in gone}
           keys == Without(index, lostKeys)
           new == [key |-> key, side |-> side, price |-> price,
                   orig |-> qty, leaves |-> left]
           rests == left > 0 /\ key \notin DOMAIN keys
<1> SUFFICES ASSUME freed' = {}
             PROVE  /\ \A s \in Sides, p \in Prices :
                         Elems(Queue(s, p)') =
                           {o \in DOMAIN orders' : orders'[o].side = s /\ orders'[o].price = p}
                    /\ \A o \in DOMAIN orders' :
                         orders'[o].key \in DOMAIN index' /\ index'[orders'[o].key] = o
                    /\ \A k \in DOMAIN index' :
                         index'[k] \in DOMAIN orders' /\ orders'[index'[k]].key = k
  BY SMTT(60) DEF BookAgrees, Elems
<1>1. /\ qty \in Quantity /\ left \in Quantity /\ nextId \in OrderIds
      /\ \A p \in Prices :
           /\ Queue(opp, p)' = Keep(Queue(opp, p), Elems(Queue(opp, p)) \ gone)
           /\ Queue(side, p)' = IF left > 0 /\ p = price
                                THEN Append(Queue(side, p), nextId) ELSE Queue(side, p)
  <2>1. SubmitEffect(side, price, qty)
    BY SubmitLevels, ZenonT(60)
  <2> QED BY <2>1, Zenon DEF SubmitEffect
<1>2. /\ DOMAIN kept = DOMAIN orders \ gone
      /\ \A o \in DOMAIN kept :
           /\ kept[o].side = orders[o].side /\ kept[o].price = orders[o].price
           /\ kept[o].key = orders[o].key
  <2>1. qty \in Quantity
    BY <1>1
  <2>2. KeptOrders(side, fills, kept)
    BY <2>1, RemainingFacts, SMTT(60)
  <2> QED BY <2>2, ZenonT(60) DEF KeptOrders
<1>3. /\ left > 0 => key \notin DOMAIN keys
      /\ orders' = IF rests THEN With(kept, nextId, new) ELSE kept
      /\ index' = IF rests THEN With(keys, key, nextId) ELSE keys
  BY Zenon DEF Submit
<1>4. gone \subseteq {o \in DOMAIN orders : orders[o].side = opp}
  BY DEF Gone
<1>5. opp \in Sides /\ opp # side /\ \A s \in Sides : s = opp \/ s = side
  BY SMTT(60) DEF Sides, Opposite
<1>6. /\ \A s \in Sides, p \in Prices :
           Elems(Queue(s, p)) =
             {o \in DOMAIN orders : orders[o].side = s /\ orders[o].price = p}
      /\ \A o \in DOMAIN orders :
           orders[o].key \in DOMAIN index /\ index[orders[o].key] = o
      /\ \A k \in DOMAIN index :
           index[k] \in DOMAIN orders /\ orders[index[k]].key = k
  BY ZenonT(60) DEF Sound, BookAgrees
<1>7. \A s \in Sides, p \in Prices : Queue(s, p) \in Seq(OrderIds)
  BY QueueType DEF Sound
<1>8. nextId \notin DOMAIN orders
  <2> SUFFICES ASSUME nextId \in DOMAIN orders PROVE FALSE
    OBVIOUS
  <2> DEFINE s == orders[nextId].side
             p == orders[nextId].price
  <2>1. s \in Sides /\ p \in Prices
    BY OrderType, SMTT(60) DEF Sound
  <2>2. orders[nextId].side = s /\ orders[nextId].price = p
    OBVIOUS
  <2> HIDE DEF s, p
  <2>3. PICK i \in 1 .. Len(Queue(s, p)) : Queue(s, p)[i] = nextId
    BY <2>1, <2>2, OrderIsQueued, ZenonT(60)
  <2>4. nextId < nextId
    BY <2>1, <2>3 DEF IdsBelow
  <2>5. nextId \in Int
    BY <1>1, SMTT(60) DEF OrderIds
  <2> QED BY <2>4, <2>5
<1>9. \A o \in DOMAIN orders \ gone : orders[o].key \notin lostKeys
  BY <1>4, <1>6, SMTT(60)
<1>10. /\ DOMAIN keys = DOMAIN index \ lostKeys
       /\ \A k \in DOMAIN keys : keys[k] = index[k]
  BY DEF Without
<1>11. /\ DOMAIN orders' = DOMAIN kept \cup (IF rests THEN {nextId} ELSE {})
       /\ \A o \in DOMAIN kept : orders'[o] = kept[o]
       /\ rests => orders'[nextId] = new
  <2>1. nextId \notin DOMAIN kept
    BY <1>2, <1>8, SMTT(60)
  <2> HIDE DEF kept, new, rests
  <2> QED BY <1>3, <2>1, ZenonT(60) DEF With
<1>12. /\ DOMAIN index' = DOMAIN keys \cup (IF rests THEN {key} ELSE {})
       /\ \A k \in DOMAIN keys : index'[k] = keys[k]
       /\ rests => index'[key] = nextId
  <2>1. rests => key \notin DOMAIN keys
    BY ZenonT(60)
  <2> HIDE DEF keys, rests
  <2> QED BY <1>3, <2>1, SMTT(60) DEF With
<1>13. new.side = side /\ new.price = price /\ new.key = key
  BY SMTT(60)
<1>14. rests <=> left > 0
  BY <1>3, ZenonT(60)
<1> HIDE DEF opp, fills, gone, left, kept, lostKeys, keys, new, rests
<1>15. ASSUME NEW p \in Prices
       PROVE  Elems(Queue(opp, p)') =
                {o \in DOMAIN orders' : orders'[o].side = opp /\ orders'[o].price = p}
  <2>1. Elems(Queue(opp, p)') = Elems(Queue(opp, p)) \cap (Elems(Queue(opp, p)) \ gone)
    BY <1>1, <1>5, <1>7, KeepElems, ZenonT(60)
  <2> QED BY <1>2, <1>5, <1>6, <1>11, <1>13, <2>1, SMTT(60)
<1>16. ASSUME NEW p \in Prices
       PROVE  Elems(Queue(side, p)') =
                {o \in DOMAIN orders' : orders'[o].side = side /\ orders'[o].price = p}
  <2>1. Elems(Queue(side, p)') = Elems(Queue(side, p))
                                 \cup (IF rests /\ p = price THEN {nextId} ELSE {})
    <3>1. CASE rests /\ p = price
      <4>1. Queue(side, p)' = Append(Queue(side, p), nextId)
        BY <1>1, <1>14, <3>1, Zenon
      <4>2. Queue(side, p) \in Seq(OrderIds) /\ nextId \in OrderIds
        BY <1>1, <1>7
      <4>3. Elems(Append(Queue(side, p), nextId)) = Elems(Queue(side, p)) \cup {nextId}
        BY <4>2, ElemsAppend
      <4> QED BY <3>1, <4>1, <4>3
    <3>2. CASE ~(rests /\ p = price)
      BY <1>1, <1>14, <3>2, ZenonT(60)
    <3> QED BY <3>1, <3>2
  <2>2. \A o \in DOMAIN orders : orders[o].side = side => o \in DOMAIN kept
    BY <1>2, <1>4, <1>5
  <2> SUFFICES ASSUME NEW o
               PROVE  o \in Elems(Queue(side, p)')
                      <=> o \in DOMAIN orders' /\ orders'[o].side = side /\ orders'[o].price = p
    OBVIOUS
  <2>3. o \in Elems(Queue(side, p))
        <=> o \in DOMAIN orders /\ orders[o].side = side /\ orders[o].price = p
    <3>1. Elems(Queue(side, p)) =
            {x \in DOMAIN orders : orders[x].side = side /\ orders[x].price = p}
      BY <1>6, Zenon
    <3> QED BY <3>1, Zenon
  <2>4. CASE o = nextId
    BY <1>2, <1>8, <1>11, <1>13, <2>1, <2>3, <2>4, ZenonT(60)
  <2>5. CASE o # nextId
    BY <1>2, <1>11, <2>1, <2>2, <2>3, <2>5, ZenonT(60)
  <2> QED BY <2>4, <2>5
<1>17. \A o \in DOMAIN orders' :
         orders'[o].key \in DOMAIN index' /\ index'[orders'[o].key] = o
  <2> SUFFICES ASSUME NEW o \in DOMAIN orders'
               PROVE  orders'[o].key \in DOMAIN index' /\ index'[orders'[o].key] = o
    OBVIOUS
  <2>1. CASE o \in DOMAIN kept
    <3>1. o \in DOMAIN orders \ gone /\ orders'[o].key = orders[o].key
      BY <1>2, <1>11, <2>1, ZenonT(60)
    <3>2. orders[o].key \in DOMAIN keys /\ keys[orders[o].key] = o
      BY <1>6, <1>9, <1>10, <3>1, ZenonT(60)
    <3> QED BY <1>12, <3>1, <3>2, ZenonT(60)
  <2>2. CASE rests /\ o = nextId
    BY <1>11, <1>12, <1>13, <2>2, ZenonT(60)
  <2> QED BY <1>11, <2>1, <2>2, ZenonT(60)
<1>18. \A k \in DOMAIN index' :
         index'[k] \in DOMAIN orders' /\ orders'[index'[k]].key = k
  <2> SUFFICES ASSUME NEW k \in DOMAIN index'
               PROVE  index'[k] \in DOMAIN orders' /\ orders'[index'[k]].key = k
    OBVIOUS
  <2>1. CASE k \in DOMAIN keys
    <3>1. index[k] \in DOMAIN orders /\ orders[index[k]].key = k /\ k \notin lostKeys
      BY <1>6, <1>10, <2>1, ZenonT(60)
    <3>2. index[k] \in DOMAIN kept
      BY <1>2, <3>1, ZenonT(60) DEF lostKeys
    <3>3. index'[k] = index[k] /\ orders'[index[k]] = kept[index[k]]
      BY <1>10, <1>11, <1>12, <2>1, <3>2, ZenonT(60)
    <3>4. index[k] \in DOMAIN orders' /\ kept[index[k]].key = k
      BY <1>2, <1>11, <3>1, <3>2, ZenonT(60)
    <3> QED BY <3>3, <3>4, Zenon
  <2>2. CASE rests /\ k = key
    BY <1>11, <1>12, <1>13, <2>2, ZenonT(60)
  <2> QED BY <1>12, <2>1, <2>2, ZenonT(60)
<1>19. \A s \in Sides, p \in Prices :
         Elems(Queue(s, p)') =
           {o \in DOMAIN orders' : orders'[o].side = s /\ orders'[o].price = p}
  <2> SUFFICES ASSUME NEW s \in Sides, NEW p \in Prices
               PROVE  Elems(Queue(s, p)') =
                        {o \in DOMAIN orders' : orders'[o].side = s /\ orders'[o].price = p}
    OBVIOUS
  <2>1. CASE s = opp
    BY <1>15, <2>1
  <2>2. CASE s = side
    BY <1>16, <2>2
  <2> QED BY <1>5, <2>1, <2>2, Zenon
<1> QED BY <1>17, <1>18, <1>19, Zenon

(* A submit keeps every level in order of arrival.                         *)
LEMMA SubmitPriority ==
  ASSUME Sound, TimePriority, IdsBelow, NEW key \in Keys, NEW side \in Sides,
         NEW price \in Prices, NEW qty \in 0 .. MaxQty, Submit(key, side, price, qty)
  PROVE  TimePriority' /\ IdsBelow'
<1> DEFINE opp == Opposite(side)
           gone == Gone(side, Fills(side, price, qty))
           left == LeftAfter(side, price, qty)[MaxPrice]
<1>1. /\ qty \in Quantity /\ left \in Quantity /\ nextId \in OrderIds
      /\ \A p \in Prices :
           /\ Queue(opp, p)' = Keep(Queue(opp, p), Elems(Queue(opp, p)) \ gone)
           /\ Queue(side, p)' = IF left > 0 /\ p = price
                                THEN Append(Queue(side, p), nextId) ELSE Queue(side, p)
  <2>1. SubmitEffect(side, price, qty)
    BY SubmitLevels
  <2> QED BY <2>1, Zenon DEF SubmitEffect
<1>2. opp \in Sides /\ \A s \in Sides : s = opp \/ s = side
  BY DEF Sides, Opposite
<1>3. \A s \in Sides, p \in Prices :
        /\ Queue(s, p) \in Seq(OrderIds) /\ Ascending(Queue(s, p))
        /\ \A i \in 1 .. Len(Queue(s, p)) : Queue(s, p)[i] < nextId
  BY QueueType DEF Sound, TimePriority, IdsBelow
<1>4. nextId' = nextId + 1 /\ nextId \in Nat
  <2>1. nextId' = nextId + 1
    BY ZenonT(60) DEF Submit
  <2>2. nextId \in Nat
    BY <1>1 DEF OrderIds
  <2> QED BY <2>1, <2>2
<1> HIDE DEF opp, gone, left
<1>5. ASSUME NEW q \in Seq(OrderIds), Ascending(q), \A i \in 1 .. Len(q) : q[i] < nextId
      PROVE  /\ \A i \in 1 .. Len(q) : q[i] < nextId'
             /\ Ascending(Append(q, nextId))
             /\ \A i \in 1 .. Len(Append(q, nextId)) : Append(q, nextId)[i] < nextId'
  <2> DEFINE u == Append(q, nextId)
  <2>1. /\ Len(u) = Len(q) + 1 /\ u[Len(q) + 1] = nextId /\ Len(q) \in Nat
        /\ \A i \in 1 .. Len(q) : u[i] = q[i]
    BY <1>1, AppendFacts
  <2>2. \A i \in 1 .. Len(q) : q[i] \in Nat
    BY MatcherAssumption DEF OrderIds
  <2>3. \A i \in 1 .. Len(q) : q[i] < nextId'
    BY <1>4, <1>5, <2>2
  <2> HIDE DEF u
  <2>4. \A i \in 1 .. Len(u) : i = Len(q) + 1 \/ i \in 1 .. Len(q)
    BY <2>1, SMTT(60)
  <2>5. Ascending(u)
    <3> SUFFICES ASSUME NEW a \in 1 .. Len(u), NEW b \in 1 .. Len(u), a < b
                 PROVE  u[a] < u[b]
      BY DEF Ascending
    <3>1. a \in 1 .. Len(q)
      BY <2>1
    <3>2. CASE b = Len(q) + 1
      BY <1>5, <2>1, <3>1, <3>2
    <3>3. CASE b \in 1 .. Len(q)
      BY <1>5, <2>1, <3>1, <3>3 DEF Ascending
    <3> QED BY <2>4, <3>2, <3>3, SMTT(60)
  <2>6. \A i \in 1 .. Len(u) : u[i] < nextId'
    BY <1>4, <2>1, <2>3, <2>4, SMTT(60)
  <2> QED BY <2>3, <2>5, <2>6, SMTT(60) DEF u
<1>6. ASSUME NEW q \in Seq(OrderIds), Ascending(q), \A i \in 1 .. Len(q) : q[i] < nextId,
             NEW S
      PROVE  Ascending(Keep(q, S)) /\ \A i \in 1 .. Len(Keep(q, S)) : Keep(q, S)[i] < nextId'
  <2>1. q \in Seq(Nat)
    BY MatcherAssumption DEF OrderIds
  <2>2. Ascending(Keep(q, S))
    BY <1>6, <2>1, KeepAscending
  <2>3. Elems(Keep(q, S)) \subseteq Elems(q)
    BY KeepElems
  <2>4. \A e \in Elems(q) : e < nextId'
    BY <1>5, <1>6 DEF Elems
  <2> QED BY <2>2, <2>3, <2>4 DEF Elems
<1>7. ASSUME NEW s \in Sides, NEW p \in Prices
      PROVE  Ascending(Queue(s, p)') /\ \A i \in 1 .. Len(Queue(s, p)') : Queue(s, p)'[i] < nextId'
  <2>1. CASE s = opp
    BY <1>1, <1>3, <1>6, <2>1, ZenonT(60)
  <2>2. CASE s = side
    BY <1>1, <1>3, <1>5, <2>2, Zenon
  <2> QED BY <1>2, <2>1, <2>2, SMTT(60)
<1> QED BY <1>7 DEF TimePriority, IdsBelow, Ascending

CancelEffect(id) ==
  /\ levels' = [s \in Sides |-> levels'[s]]
  /\ \A s \in Sides : IsMap(levels'[s], Prices, Level)
  /\ \A s \in Sides, p \in Prices :
       Queue(s, p)' = IF s = orders[id].side /\ p = orders[id].price
                      THEN Keep(Queue(s, p), Elems(Queue(s, p)) \ {id})
                      ELSE Queue(s, p)
  /\ orders[id].price \in DOMAIN levels[orders[id].side]
  /\ levels'[orders[id].side] =
       [levels[orders[id].side] EXCEPT
          ![orders[id].price] = Unlink(@, {id}, orders[id].leaves)]
  /\ \A s \in Sides : s # orders[id].side => levels'[s] = levels[s]

(* The levels after a cancel: one order leaves its queue.                  *)
LEMMA CancelLevels ==
  ASSUME Sound, NEW key \in Keys, Cancel(key)
  PROVE  /\ index[key] \in DOMAIN orders /\ orders[index[key]].key = key
         /\ CancelEffect(index[key])
<1> DEFINE id == index[key]
           side == orders[id].side
           price == orders[id].price
           new == Unlink(levels[side][price], {id}, orders[id].leaves)
<1>1. id \in DOMAIN orders /\ orders[id].key = key
  BY DEF Cancel, Sound, BookAgrees
<1>2. side \in Sides /\ price \in Prices /\ orders[id].leaves \in Int
  <2>1. side \in Sides /\ price \in Prices /\ orders[id].leaves \in Quantity
    BY <1>1, OrderType, Zenon DEF Sound
  <2>2. Quantity \subseteq Int
    BY WordAssumption DEF Quantity
  <2> QED BY <2>1, <2>2, Zenon
<1>3. levels' = IF price \in DOMAIN levels[side]
                THEN [levels EXCEPT ![side][price] = new] ELSE levels
  BY DEF Cancel
<1>4. /\ levels = [s \in Sides |-> levels[s]]
      /\ \A s \in Sides : IsMap(levels[s], Prices, Level)
  BY ZenonT(60) DEF Sound, TypeOK
<1>5. price \in DOMAIN levels[side]
  <2>1. \E i \in 1 .. Len(Queue(side, price)) : Queue(side, price)[i] = id
    BY <1>1, <1>2, OrderIsQueued, ZenonT(60)
  <2>2. Queue(side, price) # <<>>
    BY <2>1, SMTT(60)
  <2> QED BY <2>2 DEF Queue
<1>6. /\ new \in Level
      /\ new.queue = Keep(Queue(side, price), Elems(Queue(side, price)) \ {id})
  <2>1. levels[side][price] \in Level
    BY <1>2, <1>4, <1>5 DEF IsMap
  <2>2. ASSUME NEW lv \in Level, NEW x \in Int, NEW gone
        PROVE  Unlink(lv, gone, x) \in Level
               /\ Unlink(lv, gone, x).queue = Keep(lv.queue, Elems(lv.queue) \ gone)
    BY UnlinkType, Zenon
  <2>3. new.queue = Keep(levels[side][price].queue, Elems(levels[side][price].queue) \ {id})
    BY <1>2, <2>1, <2>2, ZenonT(60)
  <2>4. Queue(side, price) = levels[side][price].queue
    BY <1>5 DEF Queue
  <2> QED BY <1>2, <2>1, <2>2, <2>3, <2>4, ZenonT(60)
<1> HIDE DEF new, side, price
<1>7. levels' = [levels EXCEPT ![side] = [levels[side] EXCEPT ![price] = new]]
  BY <1>3, <1>5
<1>8. /\ levels' = [s \in Sides |-> levels'[s]]
      /\ levels'[side] = [levels[side] EXCEPT ![price] = new]
      /\ \A s \in Sides : s # side => levels'[s] = levels[s]
  <2>1. DOMAIN levels' = Sides /\ levels' = [s \in DOMAIN levels' |-> levels'[s]]
    BY <1>4, <1>7, ZenonT(60)
  <2> QED BY <1>2, <1>4, <1>7, <2>1
<1>9. \A s \in Sides : IsMap(levels'[s], Prices, Level)
  <2>1. IsMap(levels'[side], Prices, Level)
    <3>1. ASSUME NEW f, IsMap(f, Prices, Level), NEW x \in DOMAIN f, NEW y \in Level
          PROVE  IsMap([f EXCEPT ![x] = y], Prices, Level)
      BY <3>1 DEF IsMap
    <3>2. IsMap(levels[side], Prices, Level) /\ new \in Level
      BY <1>2, <1>4, <1>6
    <3>3. IsMap([levels[side] EXCEPT ![price] = new], Prices, Level)
      BY <1>5, <3>1, <3>2, Zenon
    <3> QED BY <1>8, <3>3, Zenon
  <2> QED BY <1>4, <1>8, <2>1
<1>10. ASSUME NEW s \in Sides, NEW p \in Prices
       PROVE  Queue(s, p)' = IF s = side /\ p = price
                             THEN Keep(Queue(s, p), Elems(Queue(s, p)) \ {id})
                             ELSE Queue(s, p)
  <2>1. CASE s # side
    BY <1>8, <2>1 DEF Queue
  <2>2. CASE s = side /\ p # price
    BY <1>8, <2>2 DEF Queue
  <2>3. CASE s = side /\ p = price
    <3>1. Queue(s, p)' = new.queue
      BY <1>5, <1>8, <2>3 DEF Queue
    <3> QED BY <1>6, <2>3, <3>1
  <2> QED BY <2>1, <2>2, <2>3
<1> QED BY <1>1, <1>5, <1>8, <1>9, <1>10, ZenonT(60) DEF CancelEffect, side, price, new

(* A cancel keeps the structure of the book.                               *)
LEMMA CancelStruct ==
  ASSUME Sound, Struct, NEW key \in Keys, Cancel(key)
  PROVE  Struct'
<1> DEFINE id == index[key]
<1>1. id \in DOMAIN orders /\ orders[id].key = key /\ CancelEffect(id)
  BY CancelLevels, SMTT(60)
<1>2. /\ levels' = [s \in Sides |-> levels'[s]]
      /\ \A s \in Sides : IsMap(levels'[s], Prices, Level)
      /\ \A s \in Sides, p \in Prices :
           Queue(s, p)' = IF s = orders[id].side /\ p = orders[id].price
                          THEN Keep(Queue(s, p), Elems(Queue(s, p)) \ {id})
                          ELSE Queue(s, p)
  BY <1>1, SMTT(60) DEF CancelEffect
<1>3. /\ key \in DOMAIN index
      /\ index' = Without(index, {key}) /\ orders' = Without(orders, {id})
      /\ call' = [op |-> "Cancel", key |-> key]
      /\ out' = <<[type |-> "CancelResult", ok |-> TRUE]>>
      /\ algo' = algo /\ nextId' = nextId /\ freed' = freed
  BY ZenonT(60) DEF Cancel
<1>4. /\ DOMAIN index' = DOMAIN index \ {key} /\ \A k \in DOMAIN index' : index'[k] = index[k]
      /\ DOMAIN orders' = DOMAIN orders \ {id} /\ \A o \in DOMAIN orders' : orders'[o] = orders[o]
  BY <1>3 DEF Without
<1>5. \A s \in Sides, p \in Prices :
        /\ Queue(s, p) \in Seq(OrderIds) /\ Ascending(Queue(s, p))
        /\ \A i \in 1 .. Len(Queue(s, p)) : Queue(s, p)[i] < nextId
  BY QueueType DEF Sound, Struct, TimePriority, IdsBelow
<1>6. TypeOK'
  <2>1. IsMap(index', Keys, OrderIds)
    BY <1>3, SMTT(60) DEF Sound, TypeOK, IsMap, Without
  <2>2. IsMap(orders', OrderIds, Order)
    BY <1>3, SMTT(60) DEF Sound, TypeOK, IsMap, Without
  <2>3. out' \in Seq(Event) /\ call' \in Call
    <3>1. [type |-> "CancelResult", ok |-> TRUE] \in Event
      BY SMTT(60) DEF Event
    <3> QED BY <1>3, <3>1, SMTT(60) DEF Call
  <2>4. algo' \in Algos /\ nextId' \in 1 .. MaxOrders + 1 /\ freed' \in SUBSET OrderIds
    BY <1>3, SMTT(60) DEF Sound, TypeOK
  <2> QED BY <1>2, <2>1, <2>2, <2>3, <2>4, SMTT(60) DEF TypeOK
<1>7. BookAgrees'
  <2>1. /\ \A s \in Sides, p \in Prices :
             Elems(Queue(s, p)) =
               {o \in DOMAIN orders : orders[o].side = s /\ orders[o].price = p}
        /\ \A o \in DOMAIN orders :
             orders[o].key \in DOMAIN index /\ index[orders[o].key] = o
        /\ \A k \in DOMAIN index :
             index[k] \in DOMAIN orders /\ orders[index[k]].key = k
    BY SMTT(60) DEF Sound, BookAgrees
  <2>2. ASSUME NEW s \in Sides, NEW p \in Prices
        PROVE  Elems(Queue(s, p)') =
                 {o \in DOMAIN orders' : orders'[o].side = s /\ orders'[o].price = p}
    <3>1. CASE s = orders[id].side /\ p = orders[id].price
      <4>1. Elems(Queue(s, p)') = Elems(Queue(s, p)) \cap (Elems(Queue(s, p)) \ {id})
        <5>1. Queue(s, p)' = Keep(Queue(s, p), Elems(Queue(s, p)) \ {id})
          BY <1>2, <3>1
        <5>2. Queue(s, p) \in Seq(OrderIds)
          BY <1>5
        <5>3. Elems(Keep(Queue(s, p), Elems(Queue(s, p)) \ {id})) =
                Elems(Queue(s, p)) \cap (Elems(Queue(s, p)) \ {id})
          BY <5>2, KeepElems
        <5> QED BY <5>1, <5>3, SMTT(60)
      <4>2. Elems(Queue(s, p)') = Elems(Queue(s, p)) \ {id}
        BY <4>1, Zenon
      <4>3. Elems(Queue(s, p)) =
              {o \in DOMAIN orders : orders[o].side = s /\ orders[o].price = p}
        BY <2>1, ZenonT(60)
      <4> QED BY <1>4, <4>2, <4>3, SMTT(60)
    <3>2. CASE ~(s = orders[id].side /\ p = orders[id].price)
      <4>1. Queue(s, p)' = Queue(s, p)
        BY <1>2, <3>2, ZenonT(60)
      <4> QED BY <1>4, <2>1, <3>2, <4>1, SMTT(60)
    <3> QED BY <3>1, <3>2, SMTT(60)
  <2>3. /\ \A o \in DOMAIN orders' :
             orders'[o].key \in DOMAIN index' /\ index'[orders'[o].key] = o
        /\ \A k \in DOMAIN index' :
             index'[k] \in DOMAIN orders' /\ orders'[index'[k]].key = k
    BY <1>1, <1>4, <2>1, SMTT(60)
  <2> QED BY <2>2, <2>3, SMTT(60) DEF BookAgrees, Elems
<1>8. TimePriority' /\ IdsBelow'
  <2> SUFFICES ASSUME NEW s \in Sides, NEW p \in Prices
               PROVE  /\ Ascending(Queue(s, p)')
                      /\ \A i \in 1 .. Len(Queue(s, p)') : Queue(s, p)'[i] < nextId'
    BY DEF TimePriority, IdsBelow, Ascending
  <2> DEFINE q == Queue(s, p)
             k == Keep(q, Elems(q) \ {id})
  <2>1. q \in Seq(OrderIds) /\ Ascending(q) /\ \A i \in 1 .. Len(q) : q[i] < nextId
    BY <1>5
  <2>2. q \in Seq(Nat)
    BY <2>1, MatcherAssumption, SMTT(60) DEF OrderIds
  <2>3. Ascending(k)
    <3> HIDE DEF q
    <3> QED BY <2>1, <2>2, KeepAscending, SMTT(60)
  <2>4. \A i \in 1 .. Len(k) : k[i] < nextId
    <3>1. Elems(k) \subseteq Elems(q)
      <4> HIDE DEF q
      <4> QED BY <2>1, KeepElems
    <3> HIDE DEF q, k
    <3> QED BY <2>1, <3>1, ZenonT(60) DEF Elems
  <2>5. Queue(s, p)' = q \/ Queue(s, p)' = k
    BY <1>2
  <2>6. nextId' = nextId
    BY <1>3
  <2> HIDE DEF q, k
  <2> QED BY <2>1, <2>3, <2>4, <2>5, <2>6
<1> QED BY <1>6, <1>7, <1>8, SMTT(60) DEF Struct

(* The structure of the book is inductive.                                 *)
LEMMA StructStep ==
  ASSUME Struct, [Next]_vars
  PROVE  Struct'
<1>1. ASSUME NEW key \in Keys, NEW side \in Sides, NEW price \in Prices,
             NEW qty \in 0 .. MaxQty, Submit(key, side, price, qty)
      PROVE  Struct'
  <2>1. Sound /\ TimePriority /\ IdsBelow
    BY <1>1, ZenonT(60) DEF Submit, Struct, Sound
  <2> QED BY <1>1, <2>1, SubmitType, SubmitBook, SubmitPriority, SMTT(60) DEF Struct
<1>2. ASSUME NEW key \in Keys, Cancel(key) PROVE Struct'
  <2>1. Sound
    BY <1>2 DEF Cancel, Struct, Sound
  <2> QED BY <1>2, <2>1, CancelStruct, ZenonT(60)
<1>3. ASSUME UNCHANGED <<levels, orders, index, nextId, freed>>,
             algo' \in Algos, call' \in Call, out' \in Seq(Event)
      PROVE  Struct'
  <2>1. \A s \in Sides, p \in Prices : Queue(s, p)' = Queue(s, p)
    BY <1>3 DEF Queue
  <2>2. TypeOK'
    BY <1>3, ZenonT(60) DEF Struct, TypeOK
  <2>3. BookAgrees'
    BY <1>3, <2>1, SMTT(60) DEF Struct, BookAgrees, Elems
  <2>4. TimePriority' /\ IdsBelow'
    BY <1>3, <2>1, SMTT(60) DEF Struct, TimePriority, IdsBelow, Ascending
  <2> QED BY <2>2, <2>3, <2>4, SMTT(60) DEF Struct
<1>4. ASSUME NEW key \in Keys, CancelUnknown(key) PROVE Struct'
  <2>1. [type |-> "CancelResult", ok |-> FALSE] \in Event
    BY DEF Event
  <2>2. algo' \in Algos /\ call' \in Call /\ out' \in Seq(Event)
    BY <1>4, <2>1 DEF CancelUnknown, Struct, TypeOK, Call
  <2> QED BY <1>3, <1>4, <2>2 DEF CancelUnknown
<1>5. ASSUME NEW a \in Algos, SetAlgo(a) PROVE Struct'
  <2>1. algo' \in Algos /\ call' \in Call /\ out' \in Seq(Event)
    BY <1>5, SMTT(60) DEF SetAlgo, Call
  <2> QED BY <1>3, <1>5, <2>1, SMTT(60) DEF SetAlgo
<1>6. ASSUME UNCHANGED vars PROVE Struct'
  BY <1>3, <1>6 DEF vars, Struct, TypeOK
<1> QED BY <1>1, <1>2, <1>4, <1>5, <1>6, SMTT(60) DEF Next

(* The book starts empty.                                                  *)
LEMMA StructInit ==
  ASSUME Init
  PROVE  Struct
<1>1. \A s \in Sides, p \in Prices : Queue(s, p) = <<>>
  BY DEF Init, Queue
<1>2. TypeOK
  <2>1. nextId \in 1 .. MaxOrders + 1 /\ algo \in Algos /\ freed \in SUBSET OrderIds
    BY MatcherAssumption DEF Init
  <2>2. /\ levels = [s \in Sides |-> levels[s]]
        /\ \A s \in Sides : IsMap(levels[s], Prices, Level)
    BY DEF Init, IsMap
  <2>3. IsMap(orders, OrderIds, Order) /\ IsMap(index, Keys, OrderIds)
    BY SMTT(60) DEF Init, IsMap
  <2>4. call \in Call /\ out \in Seq(Event)
    BY SMTT(60) DEF Init, Call
  <2> QED BY <2>1, <2>2, <2>3, <2>4 DEF TypeOK
<1>3. BookAgrees /\ TimePriority /\ IdsBelow
  BY <1>1 DEF Init, BookAgrees, TimePriority, IdsBelow, Ascending, Elems
<1> QED BY <1>2, <1>3 DEF Struct

(* Whatever is submitted, cancelled or reused, and even if quantities      *)
(* wrap: the types hold, index_, levels and orders agree until an order is *)
(* lost, and every level stands in order of arrival.                       *)
THEOREM StructureKept == Spec => [](TypeOK /\ BookAgrees /\ TimePriority)
<1>1. Init => Struct
  BY StructInit
<1>2. Struct /\ [Next]_vars => Struct'
  BY StructStep
<1>3. Struct => TypeOK /\ BookAgrees /\ TimePriority
  BY DEF Struct
<1> QED BY <1>1, <1>2, <1>3, PTL DEF Spec

(* The orders of one level are always matched in the order in which they   *)
(* were submitted, whatever was cancelled or filled in between.            *)
THEOREM ArrivalKept == Spec => []TimePriority
  BY StructureKept, PTL

=============================================================================
