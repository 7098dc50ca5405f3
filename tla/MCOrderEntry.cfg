\* Two threads, one price, one request and two, in one chunk or in two.
CONSTANTS
  a = a
  b = b
  Sessions = {a, b}
  Algos = {"ProRata"}
  Requests <- OwnIDs
  MaxRequests <- OneAndTwo
  MaxChunk = 2
  Replies = {0, 1}
SPECIFICATION FairSpec
INVARIANTS TypeOK IdsFollowArrival  AckedOnce
 
CHECK_DEADLOCK FALSE
