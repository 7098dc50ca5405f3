SPECIFICATION CallSpec
CONSTANTS
  Word = 16
  MaxCount = 3
  MaxLeaves = 8
  Queues <- MCQueues
INVARIANTS
  FillsConserve
  ProRataIsFair
  FifoIsStrict
  ResidualBelowCountIfExact
CHECK_DEADLOCK FALSE
