----------------------------- MODULE Lifecycle ------------------------------
(***************************************************************************)
(* The threads of the server from main's start() to the end of stop():     *)
(* main, the acceptor, and one thread for each connection.  Connections,   *)
(* the signal and the peers are the environment.  What a session thread    *)
(* does with the bytes is modules Session and OrderEntry; here a turn of   *)
(* its loop has something to write, or nothing, or ends the session.       *)
(***************************************************************************)
EXTENDS Integers, FiniteSets

CONSTANTS
  Clients,  \* the peers, each with at most one connection
  Backlog,  \* the connections listen() lets wait
  None      \* no connection

ASSUME LifecycleAssumption == Backlog \in Nat /\ None \notin Clients

VARIABLES
  gStop,     \* g_stop
  running,   \* running_
  listenFd,  \* listen_fd_ holds the listening socket, and not -1
  sock,      \* the listening socket
  shut,      \* it was shut down
  main,      \* where main is
  acceptor,  \* where the acceptor is
  cli,       \* its local cli
  mu,        \* who holds sessions_mu_
  threads,   \* session_threads_: the connections whose thread is not joined
  session,   \* where each session thread is
  conn,      \* each connection, as the kernel has it
  peer       \* what each peer does

server == <<gStop, running, listenFd, sock, shut, main>>
threadVars == <<acceptor, cli, session, peer>>
lifecycleVars == <<server, mu, threads, conn, threadVars>>

LifecycleInit ==
  /\ gStop = FALSE /\ running = FALSE /\ listenFd = FALSE /\ sock = "none" /\ shut = FALSE
  /\ main = "start" /\ acceptor = "none" /\ cli = None /\ mu = "free"
  /\ threads = {} /\ session = [c \in Clients |-> "none"]
  /\ conn = [c \in Clients |-> "none"] /\ peer = [c \in Clients |-> "reading"]

-----------------------------------------------------------------------------
Main(from, to) == main = from /\ main' = to /\ UNCHANGED <<cli, session, peer>>

(* start() up to listen(); a failed call closes the socket.                *)
Start(ok) ==
  /\ Main("start", IF ok THEN "publish" ELSE "failed")
  /\ sock' = IF ok THEN "open" ELSE "closed"
  /\ UNCHANGED <<gStop, running, listenFd, shut, mu, threads, conn, acceptor>>

Publish ==
  /\ Main("publish", "spawn") /\ listenFd' = TRUE /\ running' = TRUE
  /\ UNCHANGED <<gStop, sock, shut, mu, threads, conn, acceptor>>

Spawn ==
  /\ Main("spawn", "wait") /\ acceptor' = "test"
  /\ UNCHANGED <<gStop, running, listenFd, sock, shut, mu, threads, conn>>

(* main sleeps until on_sig has run.                                       *)
Wait == /\ gStop /\ Main("wait", "stop")
        /\ UNCHANGED <<gStop, running, listenFd, sock, shut, mu, threads, conn, acceptor>>

(* stop().  The second call, by the destructor, finds running_ false.      *)
Stop == /\ Main("stop", "unpublish") /\ running' = FALSE
        /\ UNCHANGED <<gStop, listenFd, sock, shut, mu, threads, conn, acceptor>>

Unpublish ==
  /\ Main("unpublish", "shutdown") /\ listenFd' = FALSE
  /\ UNCHANGED <<gStop, running, sock, shut, mu, threads, conn, acceptor>>

(* Slip: the socket is only closed, which does not wake the acceptor.      *)
SlipNoShutdown ==
  /\ Main("shutdown", "close") /\ sock' = "closed"
  /\ conn' = [c \in Clients |-> IF conn[c] = "queued" THEN "reset" ELSE conn[c]]
  /\ UNCHANGED <<gStop, running, listenFd, shut, mu, threads, acceptor>>

(* The connections that were waiting are reset.                            *)
Shutdown ==
  /\ Main("shutdown", "close") /\ shut' = TRUE
  /\ conn' = [c \in Clients |-> IF conn[c] = "queued" THEN "reset" ELSE conn[c]]
  /\ UNCHANGED <<gStop, running, listenFd, sock, mu, threads, acceptor>>

Close ==
  /\ Main("close", "joinAcceptor") /\ sock' = "closed"
  /\ UNCHANGED <<gStop, running, listenFd, shut, mu, threads, conn, acceptor>>

(* Slip: the acceptor is not waited for.                                   *)
SlipNoJoin ==
  /\ Main("joinAcceptor", "lockSessions")
  /\ UNCHANGED <<gStop, running, listenFd, sock, shut, mu, threads, conn, acceptor>>

JoinAcceptor ==
  /\ acceptor = "done" /\ Main("joinAcceptor", "lockSessions")
  /\ UNCHANGED <<gStop, running, listenFd, sock, shut, mu, threads, conn, acceptor>>

LockSessions ==
  /\ mu = "free" /\ Main("lockSessions", "joinSessions") /\ mu' = "main"
  /\ UNCHANGED <<gStop, running, listenFd, sock, shut, threads, conn, acceptor>>

JoinSession(c) ==
  /\ c \in threads /\ session[c] = "done" /\ Main("joinSessions", "joinSessions")
  /\ threads' = threads \ {c}
  /\ UNCHANGED <<gStop, running, listenFd, sock, shut, mu, conn, acceptor>>

Exit ==
  /\ threads = {} /\ Main("joinSessions", "exited") /\ mu' = "free"
  /\ UNCHANGED <<gStop, running, listenFd, sock, shut, threads, conn, acceptor>>

MainStep ==
  \/ \E ok \in BOOLEAN : Start(ok)
  \/ Publish \/ Spawn \/ Wait \/ Stop \/ Unpublish \/ Shutdown \/ Close
  \/ JoinAcceptor \/ LockSessions \/ Exit \/ \E c \in Clients : JoinSession(c)

-----------------------------------------------------------------------------
(* The acceptor: accept_loop.                                              *)
Acceptor(from, to) == acceptor = from /\ acceptor' = to /\ UNCHANGED <<server, peer>>

Test == /\ Acceptor("test", IF running THEN "load" ELSE "done")
        /\ UNCHANGED <<cli, mu, threads, session, conn>>

Load == /\ Acceptor("load", IF listenFd THEN "enter" ELSE "done")
        /\ UNCHANGED <<cli, mu, threads, session, conn>>

(* accept() on a descriptor that is already closed fails at once.          *)
Enter == /\ Acceptor("enter", IF sock = "closed" THEN "error" ELSE "accept")
         /\ UNCHANGED <<cli, mu, threads, session, conn>>

Accept(c) ==
  /\ ~shut /\ conn[c] = "queued" /\ Acceptor("accept", "lock")
  /\ cli' = c /\ conn' = [conn EXCEPT ![c] = "open"]
  /\ UNCHANGED <<mu, threads, session>>

(* Slip: the result of accept() is not looked at.                          *)
SlipUnchecked ==
  /\ Acceptor("accept", "lock")
  /\ shut \/ \E c \in Clients : conn[c] = "queued"
  /\ UNCHANGED <<cli, mu, threads, session, conn>>

(* The socket was shut down, or something is wrong with a connection.      *)
AcceptFails ==
  /\ Acceptor("accept", "error")
  /\ shut \/ \E c \in Clients : conn[c] = "queued"
  /\ UNCHANGED <<cli, mu, threads, session, conn>>

(* Slip: any error ends the loop.                                          *)
SlipReturn == /\ Acceptor("error", "done")
              /\ UNCHANGED <<cli, mu, threads, session, conn>>

Retest == /\ Acceptor("error", IF running THEN "test" ELSE "done")
          /\ UNCHANGED <<cli, mu, threads, session, conn>>

AcceptorLocks ==
  /\ mu = "free" /\ Acceptor("lock", "emplace") /\ mu' = "acceptor"
  /\ UNCHANGED <<cli, threads, session, conn>>

Emplace ==
  /\ Acceptor("emplace", "test") /\ mu' = "free" /\ cli' = None
  /\ threads' = threads \cup {cli} /\ session' = [session EXCEPT ![cli] = "test"]
  /\ UNCHANGED conn

AcceptorStep ==
  \/ Test \/ Load \/ Enter \/ AcceptFails \/ Retest \/ AcceptorLocks \/ Emplace
  \/ \E c \in Clients : Accept(c)

-----------------------------------------------------------------------------
(* A session thread: session_loop.                                         *)
Session(c, from, to) ==
  /\ session[c] = from /\ session' = [session EXCEPT ![c] = to]
  /\ UNCHANGED <<server, acceptor, cli, mu, threads, peer>>

TestRunning(c) == Session(c, "test", IF running THEN "poll" ELSE "close") /\ UNCHANGED conn

(* poll returns, with data or after its 250 ms: the turn has something to  *)
(* write, or nothing, or ends the session with nothing to say, because the *)
(* peer has gone or has sent no Logon.                                     *)
Turn(c) ==
  /\ \E next \in {"test", "write", "close"} : Session(c, "poll", next)
  /\ UNCHANGED conn

(* write_all: send() blocks while the peer does not read, and fails when   *)
(* it is gone; the session may have asked for a disconnect.                *)
WriteAll(c) ==
  /\ \/ peer[c] # "stalled" /\ Session(c, "write", "close")
     \/ peer[c] = "reading" /\ Session(c, "write", "test")
  /\ UNCHANGED conn

CloseFd(c) == Session(c, "close", "done") /\ conn' = [conn EXCEPT ![c] = "closed"]

SessionStep(c) == TestRunning(c) \/ Turn(c) \/ WriteAll(c) \/ CloseFd(c)

-----------------------------------------------------------------------------
(* The peers, and the signal.                                              *)
Connect(c) ==
  /\ sock = "open" /\ ~shut /\ conn[c] = "none"
  /\ Cardinality({d \in Clients : conn[d] = "queued"}) < Backlog
  /\ conn' = [conn EXCEPT ![c] = "queued"]
  /\ UNCHANGED <<server, mu, threads, threadVars>>

Peer(c, from, to) ==
  /\ peer[c] \in from /\ peer' = [peer EXCEPT ![c] = to]
  /\ UNCHANGED <<server, mu, threads, conn, acceptor, cli, session>>

Reads(c) == Peer(c, {"stalled"}, "reading")

PeerStep(c) == \/ Connect(c) \/ Reads(c) \/ Peer(c, {"reading"}, "stalled")
               \/ conn[c] # "none" /\ Peer(c, {"reading", "stalled"}, "gone")

(* SIGINT or SIGTERM; before the handlers are installed the process ends.  *)
Signal == /\ main = "wait" /\ gStop' = TRUE
          /\ UNCHANGED <<running, listenFd, sock, shut, main, mu, threads, conn, threadVars>>

LifecycleNext == \/ MainStep \/ AcceptorStep \/ Signal
        \/ \E c \in Clients : SessionStep(c) \/ PeerStep(c)

LifecycleSpec == LifecycleInit /\ [][LifecycleNext]_lifecycleVars

(* Every thread is scheduled; accept() does not fail for ever while a      *)
(* connection waits; and a peer reads often enough for a write to end, or  *)
(* goes away.                                                              *)
LifecycleFairness ==
  /\ WF_lifecycleVars(MainStep) /\ WF_lifecycleVars(AcceptorStep)
  /\ \A c \in Clients : /\ WF_lifecycleVars(SessionStep(c)) /\ SF_lifecycleVars(Accept(c))
                        /\ WF_lifecycleVars(Reads(c)) /\ SF_lifecycleVars(WriteAll(c))

LifecycleFairSpec == LifecycleSpec /\ LifecycleFairness

-----------------------------------------------------------------------------
LifecycleTypeOK ==
  /\ gStop \in BOOLEAN /\ running \in BOOLEAN /\ listenFd \in BOOLEAN /\ shut \in BOOLEAN
  /\ sock \in {"none", "open", "closed"} /\ mu \in {"free", "main", "acceptor"}
  /\ main \in {"start", "publish", "spawn", "wait", "stop", "unpublish", "shutdown", "close",
               "joinAcceptor", "lockSessions", "joinSessions", "exited", "failed"}
  /\ acceptor \in {"none", "test", "load", "enter", "accept", "error", "lock", "emplace", "done"}
  /\ cli \in Clients \cup {None} /\ threads \subseteq Clients
  /\ session \in [Clients -> {"none", "test", "poll", "write", "close", "done"}]
  /\ conn \in [Clients -> {"none", "queued", "open", "closed", "reset"}]
  /\ peer \in [Clients -> {"reading", "stalled", "gone"}]

(* Once main has returned from stop() nothing of the server is left: the   *)
(* acceptor and all session threads have ended, also the thread of a       *)
(* connection that was accepted while stop() was already running, and the  *)
(* listening socket and all connections are closed.                        *)
NothingLeft ==
  main = "exited" =>
    /\ acceptor = "done" /\ sock = "closed"
    /\ \A c \in Clients : session[c] \in {"none", "done"} /\ conn[c] \notin {"queued", "open"}

(* After a signal the server stops: main is never left waiting for a       *)
(* thread that is blocked in accept(), in poll(), or at sessions_mu_.      *)
SignalStops == gStop ~> main = "exited"

(* A connection never waits for ever: it gets a thread, or is reset when   *)
(* the server stops; a failed accept() does not end the acceptor.          *)
ConnectionsServed ==
  \A c \in Clients : conn[c] = "queued" ~> session[c] # "none" \/ conn[c] = "reset"

=============================================================================
