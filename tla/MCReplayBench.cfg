\* Ten orders, two in a chunk, each with an Ack and at most two Trades.
CONSTANTS
  Orders = 10
  MaxTrades = 2
  ChunkSize = 2
  RoomToServer = 2
  RoomToClient = 6
SPECIFICATION BenchSpec
INVARIANT NoReportLost
PROPERTY BlockEnds
CHECK_DEADLOCK FALSE
