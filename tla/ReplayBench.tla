---------------------------- MODULE ReplayBench -----------------------------
(***************************************************************************)
(* The closed loop of bench/replay_bench.cpp after its Logon: a client     *)
(* sends an order, waits for an ExecutionReport, and drains the socket;    *)
(* the server's session thread takes orders in chunks and writes an Ack    *)
(* and some Trades for each.  An order is its number, and a report is the  *)
(* number of its order.  Both sockets hold a bounded amount.               *)
(***************************************************************************)
EXTENDS Integers, Sequences

CONSTANTS
  Orders,        \* n_msgs
  MaxTrades,     \* bound on the Trades of an order
  ChunkSize,     \* the orders one recv of the server can return
  RoomToServer,  \* the orders the sockets hold on their way to the server
  RoomToClient   \* and the reports on their way back

(* The reports of a chunk fit: a chunk is 8 kB, a socket buffer 1 MB.      *)
ASSUME BenchAssumption ==
  /\ {Orders, MaxTrades, ChunkSize, RoomToServer, RoomToClient} \subseteq Nat
  /\ ChunkSize * (1 + MaxTrades) <= RoomToClient

VARIABLES
  bench,     \* where run_block is
  sent,      \* number of the last order sent
  buf,       \* buf: reports received and not parsed
  popped,    \* the order whose report the last wait has returned
  toServer,  \* orders in the sockets
  batch,     \* step.app: orders the server has received
  pending,   \* the reports of the order being routed
  toClient   \* reports in the sockets

clientVars == <<bench, sent, buf, popped>>
serverVars == <<batch, pending>>
benchVars == <<clientVars, toServer, serverVars, toClient>>

BenchInit == /\ bench = "send" /\ sent = 0 /\ buf = <<>> /\ popped = 0
        /\ toServer = <<>> /\ batch = <<>> /\ pending = <<>> /\ toClient = <<>>

(* send_all blocks while the server does not take orders.                  *)
SendOrder ==
  /\ bench = "send" /\ sent < Orders /\ Len(toServer) < RoomToServer
  /\ sent' = sent + 1 /\ toServer' = Append(toServer, sent + 1) /\ bench' = "wait"
  /\ UNCHANGED <<buf, popped, serverVars, toClient>>

(* Slip: what was received with an earlier report is thrown away.          *)
SlipFresh ==
  /\ bench = "wait" /\ buf # <<>>
  /\ popped' = Head(buf) /\ buf' = <<>> /\ bench' = "drain"
  /\ UNCHANGED <<sent, toServer, serverVars, toClient>>

(* wait_for_exec_report: the first report in buf, if there is one.         *)
WaitPops ==
  /\ bench = "wait" /\ buf # <<>>
  /\ popped' = Head(buf) /\ buf' = Tail(buf) /\ bench' = "drain"
  /\ UNCHANGED <<sent, toServer, serverVars, toClient>>

(* Otherwise it polls and receives, or its deadline passes.                *)
WaitReceives ==
  /\ bench = "wait" /\ buf = <<>> /\ toClient # <<>>
  /\ \E n \in 1 .. Len(toClient) : /\ buf' = SubSeq(toClient, 1, n)
                                   /\ toClient' = SubSeq(toClient, n + 1, Len(toClient))
  /\ UNCHANGED <<bench, sent, popped, toServer, serverVars>>

WaitFails ==
  /\ bench = "wait" /\ buf = <<>> /\ bench' = "failed"
  /\ UNCHANGED <<sent, buf, popped, toServer, serverVars, toClient>>

(* Slip: no drain.                                                         *)
SlipNoDrain ==
  /\ bench = "drain"
  /\ bench' = IF sent = Orders THEN "done" ELSE "send"
  /\ UNCHANGED <<sent, buf, popped, toServer, serverVars, toClient>>

(* drain_nonblocking takes all there is, and the block goes on.            *)
Drain ==
  /\ bench = "drain"
  /\ buf' = buf \o toClient /\ toClient' = <<>>
  /\ bench' = IF sent = Orders THEN "done" ELSE "send"
  /\ UNCHANGED <<sent, popped, toServer, serverVars>>

(* The server: recv, routing, and write_all, which blocks as well.  An     *)
(* order trades with earlier ones.                                         *)
Recv ==
  /\ batch = <<>> /\ pending = <<>> /\ toServer # <<>>
  /\ \E n \in 1 .. ChunkSize : /\ n <= Len(toServer)
                               /\ batch' = SubSeq(toServer, 1, n)
                               /\ toServer' = SubSeq(toServer, n + 1, Len(toServer))
  /\ UNCHANGED <<clientVars, pending, toClient>>

Route ==
  /\ batch # <<>> /\ pending = <<>>
  /\ \E k \in 0 .. MaxTrades : k < Head(batch) /\ pending' = [i \in 1 .. k + 1 |-> Head(batch)]
  /\ batch' = Tail(batch)
  /\ UNCHANGED <<clientVars, toServer, toClient>>

Write ==
  /\ pending # <<>> /\ Len(toClient) < RoomToClient
  /\ toClient' = Append(toClient, Head(pending)) /\ pending' = Tail(pending)
  /\ UNCHANGED <<clientVars, toServer, batch>>

Client == SendOrder \/ WaitPops \/ WaitReceives \/ WaitFails \/ Drain
Server == Recv \/ Route \/ Write

BenchNext == Client \/ Server

BenchSpec == BenchInit /\ [][BenchNext]_benchVars /\ WF_benchVars(Client) /\ WF_benchVars(Server)

-----------------------------------------------------------------------------
(* The client takes the reports in the order of the orders and passes over *)
(* none of an order: between the last one it has taken and the last one    *)
(* written every order has one, wherever it waits.                         *)
NoReportLost ==
  LET stream == <<popped>> \o buf \o toClient \o pending
  IN  \A i \in 1 .. Len(stream) - 1 : stream[i + 1] - stream[i] \in {0, 1}

(* The block ends: client and server never block each other in send(),     *)
(* because the client drains the socket once for every order it sends      *)
(* ("so the server's send buffer never fills up").                         *)
BlockEnds == <>(bench \in {"done", "failed"})

=============================================================================
