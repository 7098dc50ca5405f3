\* Four orders at two prices; keys only ever name orders, so they may be permuted.
SPECIFICATION Spec
CONSTANTS
  Word = 64
  MaxPrice = 2
  MaxQty = 3
  MaxOrders = 4
  Keys = {k1, k2, k3}
  KeyReuse = FALSE
SYMMETRY Symmetry
INVARIANTS
  TypeOK
  BookAgrees
  TimePriority
  CacheAgrees
  OpenOrders
  NotCrossed
PROPERTIES
  TradesExplainBook
  TradesInPriority
  ImplementsExchange
