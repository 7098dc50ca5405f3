\* Timers: both sides, no history, HeartBtInt 2.
CONSTANTS
  HeartBtInt = 2
  HistorySize = 0
  ResetOnLogon = TRUE
  ActiveSide = TRUE
  SeqWord = 16
  PeerSeqs = {1, 2}
  PeerRanges <- FewRanges
  MaxOut = 5
SPECIFICATION Spec
PROPERTY ImplementsHeartbeat
