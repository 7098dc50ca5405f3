\* Seven numbers, any of them lost but the last; a peer that answers every request, or each number once.
CONSTANTS
  HeartBtInt = 0
  HistorySize = 1
  ResetOnLogon = TRUE
  ActiveSide = FALSE
  SeqWord = 128
  PeerSeqs = {}
  PeerRanges = {}
  MaxOut = 99
  AppSeqs = {2, 5, 6, 7}
  LastSeq = 7
SPECIFICATION GapFairSpec
INVARIANT EachOnceInOrder
PROPERTY Recovers
CHECK_DEADLOCK FALSE
