----------------------------- MODULE OrderEntry -----------------------------
(***************************************************************************)
(* The session threads of TcpServer at the shared book: session_loop from  *)
(* the chunk a thread has received to the reports it writes.  A thread     *)
(* writes the session's own replies, then routes the application messages  *)
(* of the chunk one by one, each under book_mu_, and writes the reports of *)
(* each before the next.  Threads interleave between any two steps.        *)
(*                                                                         *)
(* The book follows the rules of Market, as Matcher does; a key is a       *)
(* ClOrdID alone, as every order has session id 0.  What the session makes *)
(* of a chunk (replies, application messages, disconnect) is module        *)
(* Session; here it is any.                                                *)
(***************************************************************************)
EXTENDS Market

CONSTANTS
  Sessions,     \* the session threads
  Algos,        \* the algorithms main may choose
  Requests,     \* session -> the application messages its client may send
  MaxRequests,  \* session -> bound on the client's requests and the session's replies
  MaxChunk,     \* bound on the application messages in a chunk
  Replies       \* the numbers of session replies a chunk may have

Sent == UNION {Requests[s] : s \in Sessions}
News == {req \in Sent : req.type = "New"}

ASSUME OrderEntryAssumption ==
  /\ IsFiniteSet(Sessions) /\ Algos \subseteq {"ProRata", "Fifo"}
  /\ \A req \in News : req.price \in Int /\ req.qty \in Nat
  /\ MaxRequests \in [Sessions -> Nat] /\ MaxChunk \in Nat /\ Replies \subseteq Nat

VARIABLES
  book, algo,  \* book_ and matcher_
  nextId,      \* next_order_id_
  lock,        \* the threads holding book_mu_
  msgsIn,      \* msgs_in_
  msgsOut,     \* msgs_out_
  freed,       \* an order was destroyed while still linked
  pc,          \* where each thread is
  replies,     \* number of messages of step.out not yet written
  chunk,       \* step.app from the message being routed on
  id,          \* o->id
  events,      \* the events not yet reported
  disconnect,  \* step.disconnect
  up,          \* the peer has not closed the connection
  wire,        \* what the peer has got, as long as it is there
  asked,       \* number of requests and session replies, for the bound
  entered,     \* auxiliary: the orders, by id, with their session
  cancelled    \* auxiliary: ids of cancelled orders

shared == <<book, algo, nextId, lock, freed, entered, cancelled>>
counters == <<msgsIn, msgsOut>>
vars == <<shared, counters, pc, replies, chunk, id, events, disconnect, up, wire, asked>>

Keys == {req.key : req \in Sent}
Prices == {req.price : req \in News}
MaxQty == Max({req.qty : req \in News})
Ids == 1 .. MapThenSumSet(LAMBDA s : MaxRequests[s], Sessions)
Orders == [id : Ids, key : Keys, side : {req.side : req \in News}, price : Prices,
           leaves : 1 .. MaxQty]

(* A client gives a ClOrdID to one order only.                             *)
Fresh(s, reqs) ==
  LET new == {i \in DOMAIN reqs : reqs[i].type = "New"}
      old == {entered[o].key : o \in {o \in DOMAIN entered : entered[o].session = s}}
  IN  /\ \A i \in new : reqs[i].key \notin old
      /\ \A i, j \in new : i # j => reqs[i].key # reqs[j].key

Goto(s, place) == pc' = [pc EXCEPT ![s] = place]

-----------------------------------------------------------------------------
Init ==
  /\ book = <<>> /\ algo \in Algos /\ nextId = 1 /\ lock = {}
  /\ msgsIn = 0 /\ msgsOut = 0 /\ freed = FALSE
  /\ pc = [s \in Sessions |-> "poll"]
  /\ replies = [s \in Sessions |-> 0] /\ chunk = [s \in Sessions |-> <<>>]
  /\ id = [s \in Sessions |-> 0] /\ events = [s \in Sessions |-> <<>>]
  /\ disconnect = [s \in Sessions |-> FALSE]
  /\ up = [s \in Sessions |-> TRUE] /\ wire = [s \in Sessions |-> <<>>]
  /\ asked = [s \in Sessions |-> 0]
  /\ entered = <<>> /\ cancelled = {}

(* recv, on_bytes and tick, or the tick of an idle turn, with any outcome. *)
Recv(s, reqs, n, close) ==
  /\ pc[s] = "poll" /\ ~freed /\ Fresh(s, reqs)
  /\ asked[s] + n + Len(reqs) <= MaxRequests[s]
  /\ asked' = [asked EXCEPT ![s] = @ + n + Len(reqs)]
  /\ replies' = [replies EXCEPT ![s] = n]
  /\ chunk' = [chunk EXCEPT ![s] = reqs]
  /\ disconnect' = [disconnect EXCEPT ![s] = close]
  /\ Goto(s, "reply")
  /\ UNCHANGED <<shared, counters, id, events, up, wire>>

(* write_all: to a peer that is gone, the write fails or goes nowhere.     *)
Write(s, msg, ok) ==
  /\ ok \/ ~up[s]
  /\ wire' = IF ok /\ up[s] THEN [wire EXCEPT ![s] = Append(@, msg)] ELSE wire
  /\ msgsOut' = IF ok THEN msgsOut + 1 ELSE msgsOut
  /\ disconnect' = IF ok THEN disconnect ELSE [disconnect EXCEPT ![s] = TRUE]

(* Slip: one message more than there are.                                  *)
SlipOneMore(s, ok) ==
  /\ pc[s] = "reply" /\ replies[s] >= 0
  /\ Write(s, [type |-> "Reply"], ok)
  /\ replies' = [replies EXCEPT ![s] = @ - 1]
  /\ UNCHANGED <<shared, msgsIn, pc, chunk, id, events, up, asked>>

(* A message of step.out; a failed write skips the others.                 *)
WriteReply(s, ok) ==
  /\ pc[s] = "reply" /\ replies[s] > 0
  /\ Write(s, [type |-> "Reply"], ok)
  /\ replies' = [replies EXCEPT ![s] = IF ok THEN @ - 1 ELSE 0]
  /\ UNCHANGED <<shared, msgsIn, pc, chunk, id, events, up, asked>>

(* Slip: the lock is not taken.                                            *)
SlipUnlocked(s) ==
  /\ pc[s] \in {"reply", "report"} /\ replies[s] = 0 /\ events[s] = <<>> /\ chunk[s] # <<>>
  /\ ~freed
  /\ msgsIn' = msgsIn + 1
  /\ Goto(s, "locked")
  /\ UNCHANGED <<shared, msgsOut, replies, chunk, id, events, disconnect, up, wire, asked>>

(* Slip: the reports of the last message may still wait.                   *)
SlipEarly(s) ==
  /\ pc[s] \in {"reply", "report"} /\ replies[s] = 0 /\ chunk[s] # <<>>
  /\ lock = {} /\ ~freed
  /\ lock' = {s}
  /\ msgsIn' = msgsIn + 1
  /\ Goto(s, "locked")
  /\ UNCHANGED <<book, algo, nextId, freed, entered, cancelled, msgsOut, replies, chunk, id,
                 events, disconnect, up, wire, asked>>

(* The next application message: counted, and book_mu_ acquired.           *)
Lock(s) ==
  /\ pc[s] \in {"reply", "report"} /\ replies[s] = 0 /\ events[s] = <<>> /\ chunk[s] # <<>>
  /\ lock = {} /\ ~freed
  /\ lock' = {s}
  /\ msgsIn' = msgsIn + 1
  /\ Goto(s, "locked")
  /\ UNCHANGED <<book, algo, nextId, freed, entered, cancelled, msgsOut, replies, chunk, id,
                 events, disconnect, up, wire, asked>>

(* Slip: an early continue leaves the mutex locked.                        *)
SlipKeepLock(s, ev) ==
  /\ chunk' = [chunk EXCEPT ![s] = Tail(@)]
  /\ events' = [events EXCEPT ![s] = ev]
  /\ lock' = IF ev = <<>> THEN lock ELSE lock \ {s}
  /\ Goto(s, "report")
  /\ UNCHANGED <<algo, counters, replies, disconnect, up, wire, asked>>

(* The end of the locked block, with the events of the message.            *)
Unlock(s, ev) ==
  /\ chunk' = [chunk EXCEPT ![s] = Tail(@)]
  /\ events' = [events EXCEPT ![s] = ev]
  /\ lock' = lock \ {s}
  /\ Goto(s, "report")
  /\ UNCHANGED <<algo, counters, replies, disconnect, up, wire, asked>>

FetchId(s) ==
  /\ pc[s] = "locked" /\ Head(chunk[s]).type = "New"
  /\ id' = [id EXCEPT ![s] = nextId]
  /\ nextId' = nextId + 1
  /\ Goto(s, "numbered")
  /\ UNCHANGED <<book, algo, lock, freed, entered, cancelled, counters, replies, chunk, events,
                 disconnect, up, wire, asked>>

(* matcher_.submit.  If the ClOrdID is resting already, what is left of    *)
(* the order is destroyed while linked in its level; the behaviour is then *)
(* undefined, and the model stops.                                         *)
Submit(s) ==
  LET req == Head(chunk[s])
      order == [id |-> id[s], key |-> req.key, side |-> req.side, price |-> req.price,
                leaves |-> req.qty]
  IN  /\ pc[s] = "numbered"
      /\ \E f \in Allocations(algo, book, order) :
           LET after == BookAfter(book, order, f)
               rests == after # <<>> /\ after[Len(after)].id = order.id
           IN  /\ freed' = (rests /\ \E i \in 1 .. Len(after) - 1 : after[i].key = req.key)
               /\ book' = after
               /\ Unlock(s, EventsOf(book, order, f))
      /\ entered' = [o \in DOMAIN entered \cup {id[s]} |->
                     IF o = id[s] THEN [session |-> s, key |-> req.key, qty |-> req.qty]
                     ELSE entered[o]]
      /\ id' = [id EXCEPT ![s] = 0]
      /\ UNCHANGED <<nextId, cancelled>>

(* book_.cancel, of a known and of an unknown order.                       *)
Cancel(s) ==
  LET key == Head(chunk[s]).key
  IN  /\ pc[s] = "locked" /\ Head(chunk[s]).type = "Cancel"
      /\ book' = BookWithout(book, key)
      /\ cancelled' = cancelled \cup {o.id : o \in {o \in Elems(book) : o.key = key}}
      /\ Unlock(s, <<[type |-> IF Known(book, key) THEN "CancelAck" ELSE "OrdReject", key |-> key]>>)
      /\ UNCHANGED <<nextId, freed, entered, id>>

(* An OrderCancelReplace matches neither branch.                           *)
Replace(s) ==
  /\ pc[s] = "locked" /\ Head(chunk[s]).type = "Replace"
  /\ Unlock(s, <<>>)
  /\ UNCHANGED <<book, nextId, freed, entered, cancelled, id>>

(* Slip: the loop breaks after a report that was written.                  *)
SlipFirstOnly(s, ok) ==
  /\ pc[s] = "report" /\ events[s] # <<>>
  /\ Write(s, Head(events[s]), ok)
  /\ events' = [events EXCEPT ![s] = <<>>]
  /\ UNCHANGED <<shared, msgsIn, pc, replies, chunk, id, up, asked>>

(* One event becomes an ExecutionReport.  A failed write ends the reports  *)
(* of this message, not the routing of the chunk.                          *)
Report(s, ok) ==
  /\ pc[s] = "report" /\ events[s] # <<>>
  /\ Write(s, Head(events[s]), ok)
  /\ events' = [events EXCEPT ![s] = IF ok THEN Tail(@) ELSE <<>>]
  /\ UNCHANGED <<shared, msgsIn, pc, replies, chunk, id, up, asked>>

EndTurn(s) ==
  /\ pc[s] \in {"reply", "report"} /\ replies[s] = 0 /\ events[s] = <<>> /\ chunk[s] = <<>>
  /\ Goto(s, IF disconnect[s] THEN "closed" ELSE "poll")
  /\ UNCHANGED <<shared, counters, replies, chunk, id, events, disconnect, up, wire, asked>>

(* recv returns 0.                                                         *)
Hangup(s) ==
  /\ pc[s] = "poll" /\ ~up[s]
  /\ Goto(s, "closed")
  /\ UNCHANGED <<shared, counters, replies, chunk, id, events, disconnect, up, wire, asked>>

PeerCloses(s) ==
  /\ up[s] /\ pc[s] # "closed"
  /\ up' = [up EXCEPT ![s] = FALSE] /\ wire' = [wire EXCEPT ![s] = <<>>]
  /\ UNCHANGED <<shared, counters, pc, replies, chunk, id, events, disconnect, asked>>

Thread(s) ==
  \/ \E ok \in BOOLEAN : WriteReply(s, ok) \/ Report(s, ok)
  \/ Lock(s) \/ FetchId(s) \/ Submit(s) \/ Cancel(s) \/ Replace(s) \/ EndTurn(s) \/ Hangup(s)

Chunks(s) == UNION {[1 .. n -> Requests[s]] : n \in 0 .. MaxChunk}

Next == \E s \in Sessions :
          \/ \E reqs \in Chunks(s), n \in Replies, close \in BOOLEAN : Recv(s, reqs, n, close)
          \/ Thread(s) \/ PeerCloses(s)

Spec == Init /\ [][Next]_vars

(* Threads are scheduled, and a thread waiting for the mutex gets it when  *)
(* the others have nothing more to do with it.                             *)
FairSpec == Spec /\ \A s \in Sessions : WF_vars(Thread(s))

-----------------------------------------------------------------------------
TypeOK ==
  /\ Elems(book) \subseteq Orders /\ nextId \in Ids \cup {Cardinality(Ids) + 1}
  /\ lock \subseteq Sessions /\ msgsIn \in Nat /\ msgsOut \in Nat /\ freed \in BOOLEAN
  /\ \A s \in Sessions :
       /\ pc[s] \in {"poll", "reply", "locked", "numbered", "report", "closed"}
       /\ replies[s] \in Replies \cup {0} /\ chunk[s] \in Chunks(s)
       /\ id[s] \in Ids \cup {0} /\ disconnect[s] \in BOOLEAN

(* Order ids come from an atomic counter, priority from the order of the   *)
(* calls at the book: as both happen under book_mu_, ids tell the order of *)
(* arrival, across all sessions.                                           *)
IdsFollowArrival ==
  \A i, j \in DOMAIN book : i < j => book[i].id < book[j].id

(* The reports of s that were written or still wait.                       *)
ReportsOf(s) == Keep(wire[s], {m \in Elems(wire[s]) : m.type # "Reply"}) \o events[s]

(* What the Trade reports among them that name order o add up to.          *)
TradedIn(reports, o) ==
  Sum([i \in DOMAIN reports |->
         IF reports[i].type = "Trade" /\ o \in {reports[i].aggressor, reports[i].resting}
         THEN reports[i].qty ELSE 0])

LeftIn(orders, o) ==
  Sum([i \in DOMAIN orders |-> IF orders[i].id = o THEN orders[i].leaves ELSE 0])

(* The session threads, in some order.                                     *)
Threads == CHOOSE e \in Bijection(1 .. Cardinality(Sessions), Sessions) : TRUE

(* As long as no client has gone, the reports of all sessions together     *)
(* account for the book: what an order has lost since it was entered is in *)
(* the Trade reports that name it, some of them sent to other sessions,    *)
(* whatever the interleaving of locks, matching and reporting.             *)
ReportsExplainBook ==
  (\A s \in Sessions : up[s]) =>
    \A o \in DOMAIN entered \ cancelled :
      entered[o].qty =
        LeftIn(book, o) + Sum([i \in DOMAIN Threads |-> TradedIn(ReportsOf(Threads[i]), o)])

(* A client that has not gone is acknowledged each of its orders, once and *)
(* in the order of their ids, across chunks, partial failures and the      *)
(* other threads.                                                          *)
AckedOnce ==
  \A s \in Sessions :
    LET acks == Keep(ReportsOf(s), {m \in Elems(ReportsOf(s)) : m.type = "Ack"})
        ids  == [i \in 1 .. Len(acks) |-> acks[i].id]
    IN  up[s] => /\ Ascending(ids)
                 /\ Elems(ids) = {o \in DOMAIN entered : entered[o].session = s}

(* Every message a thread has received is routed and its reports are       *)
(* written, or given up because the client has gone, whoever else waits    *)
(* for book_mu_.                                                           *)
RequestsServed ==
  \A s \in Sessions : pc[s] = "reply" ~> pc[s] \in {"poll", "closed"} \/ freed

(* "the index is keyed by (session, ClOrdID) since the FIX spec allows     *)
(* reuse across sessions" (order_book.h).                                  *)
ReuseAcrossSessions == ~freed

=============================================================================
