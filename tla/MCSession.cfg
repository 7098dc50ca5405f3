\* Sequence numbers: the acceptor with a ring of two, timers off.
CONSTANTS
  HeartBtInt = 0
  HistorySize = 2
  ResetOnLogon = TRUE
  ActiveSide = FALSE
  SeqWord = 16
  PeerSeqs = {1, 2, 3, 4}
  PeerRanges <- Ranges
  MaxOut = 5
SPECIFICATION Spec
INVARIANTS TypeOK HistoryIsTail ResendAnswers AppInOrder
PROPERTY DispatchWithinSession
