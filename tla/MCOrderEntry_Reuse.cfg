\* Two clients use the same ClOrdID.
CONSTANTS
  a = a
  b = b
  Sessions = {a, b}
  Algos = {"ProRata"}
  Requests <- CommonID
  MaxRequests <- OneEach
  MaxChunk = 1
  Replies = {0}
SPECIFICATION Spec
INVARIANT ReuseAcrossSessions
CHECK_DEADLOCK FALSE
