-------------------------- MODULE ConnectionProofs --------------------------
(***************************************************************************)
(* One connection from its first byte to its last.  The timers of          *)
(* fix::Session, for every HeartBtInt; stop(), which leaves no connection  *)
(* and no thread behind, for any number of connections; the framing of     *)
(* messages, for every stream and every way to cut it; and the closed loop *)
(* of the benchmark's client, for any number of orders.                    *)
(***************************************************************************)
EXTENDS Heartbeat, Lifecycle, Framing, ReplayBench, ListLemmas

-----------------------------------------------------------------------------
(* The timers.                                                             *)

(* The window and the cap, as numbers.                                     *)
LEMMA WindowFacts ==
  /\ Window \in Nat /\ Cap \in Nat /\ Cap = 2 * Window + 1
  /\ HeartBtInt > 0 => HeartBtInt <= Window /\ Window > 0
<1>1. HeartBtInt \in Nat /\ HeartBtInt \div 2 \in Nat
  BY HeartBtAssumption
<1> QED BY <1>1 DEF Window, Cap

(* What the rules of tick keep between two ticks.  The two phases of       *)
(* silence are told apart by outstanding: before the TestRequest the peer  *)
(* has been silent for at most a window; after it, for exactly a window    *)
(* more than the age of the TestRequest.                                   *)
Silence ==
  LoggedOn =>
    /\ armed
    /\ ~outstanding => sinceIn <= Window /\ (~due => sinceIn < Window)
    /\ outstanding => /\ sinceIn = sinceTest + Window
                      /\ sinceTest <= Window /\ (~due => sinceTest < Window)

(* A session that was told to disconnect is not logged in any more, so     *)
(* that the tick after a fatal on_bytes does nothing.                      *)
ClosedIsOut == closed => state # "LoggedIn"

IInv == TypeOK /\ HeartbeatPunctual /\ Silence /\ ClosedIsOut

(* The invariant implies the bound on a silent peer.                       *)
LEMMA SilenceBound == IInv => DeadPeerBound
  BY WindowFacts DEF IInv, TypeOK, Silence, DeadPeerBound, LoggedOn, Age

(* Ages stay ages.                                                         *)
LEMMA AgeFacts ==
  /\ 0 \in Age /\ Cap \in Age
  /\ \A a \in Age : a \in Nat /\ Older(a) \in Age /\ (a < Cap => Older(a) = a + 1)
  BY WindowFacts DEF Age, Older

(* The initial state satisfies the invariant.                              *)
LEMMA InvInit == Init => IInv
<1> SUFFICES ASSUME Init PROVE IInv
  OBVIOUS
<1>1. TypeOK
  BY AgeFacts, Zenon DEF Init, TypeOK, States
<1>2. ~LoggedOn
  BY DEF Init, LoggedOn
<1>3. ClosedIsOut
  BY DEF Init, ClosedIsOut
<1> QED BY <1>1, <1>2, <1>3 DEF IInv, HeartbeatPunctual, Silence

(* Every action keeps the types.                                           *)
LEMMA TypeNext ==
  ASSUME TypeOK, [Next]_vars
  PROVE  TypeOK'
<1> USE AgeFacts DEF TypeOK, States
<1>1. CASE InitiateLogon
  BY <1>1, Zenon DEF InitiateLogon
<1>2. ASSUME NEW ok \in BOOLEAN, Admission(ok) PROVE TypeOK'
  <2>1. closed' \in BOOLEAN /\ state' \in States
    BY <1>2, Zenon DEF Admission
  <2> QED BY <1>2, <2>1, Zenon DEF Admission
<1>3. CASE NotALogon
  BY <1>3, Zenon DEF NotALogon
<1>4. ASSUME NEW answered \in BOOLEAN, Inbound(answered) PROVE TypeOK'
  <2>1. sinceOut' \in Age
    BY <1>4, Zenon DEF Inbound
  <2> QED BY <1>4, <2>1, Zenon DEF Inbound
<1>5. ASSUME NEW after \in {"LogoutSent", "Disconnected"}, NEW answered \in BOOLEAN,
             InboundFatal(after, answered)
      PROVE  TypeOK'
  <2>1. sinceOut' \in Age /\ state' \in States
    BY <1>5, Zenon DEF InboundFatal
  <2> QED BY <1>5, <2>1, Zenon DEF InboundFatal
<1>6. CASE Malformed
  BY <1>6, Zenon DEF Malformed
<1>7. CASE Send
  BY <1>7, Zenon DEF Send
<1>8. CASE Tick
  <2>1. due' = FALSE /\ alive' = alive
    BY <1>8 DEF Tick
  <2>2. CASE TickTest
    BY <2>1, <2>2, Zenon DEF TickTest
  <2>3. CASE TickTimeout
    BY <2>1, <2>3, Zenon DEF TickTimeout
  <2>4. CASE TickBeat
    BY <2>1, <2>4, Zenon DEF TickBeat
  <2>5. CASE TickIdle
    BY <2>1, <2>5, Zenon DEF TickIdle, timers
  <2> QED BY <1>8, <2>2, <2>3, <2>4, <2>5, Zenon DEF Tick
<1>9. CASE Advance
  BY <1>9, Zenon DEF Advance
<1>10. CASE PeerDies
  BY <1>10, Zenon DEF PeerDies, timers
<1>11. CASE Reconnect
  BY <1>11, Zenon DEF Reconnect
<1>12. CASE SendLogout
  BY <1>12, Zenon DEF SendLogout
<1>13. CASE UNCHANGED vars
  BY <1>13, Zenon DEF vars, timers
<1> QED BY <1>1, <1>2, <1>3, <1>4, <1>5, <1>6, <1>7, <1>8, <1>9, <1>10, <1>11, <1>12, <1>13, Zenon
        DEF Next, Receive

(* No action closes a session that stays logged in.                        *)
LEMMA ClosedNext ==
  ASSUME ClosedIsOut, [Next]_vars
  PROVE  ClosedIsOut'
<1> USE DEF ClosedIsOut
<1>1. CASE InitiateLogon \/ SendLogout \/ NotALogon \/ Malformed \/ Send \/ Advance
           \/ PeerDies \/ Reconnect \/ UNCHANGED vars
  BY <1>1, Zenon DEF InitiateLogon, SendLogout, NotALogon, Malformed, Send, Advance, PeerDies,
                     Reconnect, vars
<1>2. ASSUME NEW ok \in BOOLEAN, Admission(ok) PROVE ClosedIsOut'
  BY <1>2, Zenon DEF Admission
<1>3. ASSUME NEW answered, Inbound(answered) PROVE ClosedIsOut'
  BY <1>3 DEF Inbound
<1>4. ASSUME NEW after \in {"LogoutSent", "Disconnected"}, NEW answered,
             InboundFatal(after, answered)
      PROVE  ClosedIsOut'
  BY <1>4 DEF InboundFatal
<1>5. CASE Tick
  BY <1>5, Zenon DEF Tick, TickTest, TickTimeout, TickBeat, TickIdle
<1> QED BY <1>1, <1>2, <1>3, <1>4, <1>5, Zenon DEF Next, Receive

(* Every action keeps the invariant.                                       *)
LEMMA InvNext ==
  ASSUME IInv, [Next]_vars
  PROVE  IInv'
<1>1. TypeOK /\ TypeOK'
  BY TypeNext DEF IInv
<1>a. ClosedIsOut'
  BY ClosedNext DEF IInv
<1> SUFFICES ASSUME LoggedOn'
             PROVE  HeartbeatPunctual' /\ Silence'
  BY <1>1, <1>a DEF IInv, HeartbeatPunctual, Silence
<1>2. HeartBtInt \in Nat /\ HeartBtInt > 0 /\ state' = "LoggedIn" /\ ~closed'
  BY HeartBtAssumption DEF LoggedOn
<1>3. /\ sinceIn \in Nat /\ sinceOut \in Nat /\ sinceTest \in Nat
      /\ Window \in Nat /\ Cap = 2 * Window + 1 /\ HeartBtInt <= Window /\ Window > 0
  BY <1>1, <1>2, AgeFacts, WindowFacts DEF TypeOK
<1>4. ASSUME NEW ok \in BOOLEAN, Admission(ok) PROVE HeartbeatPunctual' /\ Silence'
  <2>1. sinceIn' = 0 /\ sinceOut' = 0 /\ outstanding' = FALSE /\ armed' = TRUE
    BY <1>4 DEF Admission
  <2> QED BY <1>2, <1>3, <2>1 DEF HeartbeatPunctual, Silence
<1>5. ASSUME LoggedOn, armed' = armed, outstanding' = outstanding, due' = due,
             sinceIn' = sinceIn, sinceTest' = sinceTest,
             sinceOut' = sinceOut \/ sinceOut' = 0
      PROVE  HeartbeatPunctual' /\ Silence'
  <2>1. HeartbeatPunctual'
    BY <1>2, <1>3, <1>5 DEF IInv, HeartbeatPunctual
  <2>2. Silence'
    BY <1>5 DEF IInv, Silence
  <2> QED BY <2>1, <2>2
<1>6. ASSUME NEW answered \in BOOLEAN, Inbound(answered)
      PROVE  HeartbeatPunctual' /\ Silence'
  <2>1. /\ LoggedOn /\ armed' = armed /\ outstanding' = FALSE /\ due' = due
        /\ sinceIn' = 0 /\ (sinceOut' = sinceOut \/ sinceOut' = 0)
    BY <1>2, <1>6 DEF Inbound, LoggedOn
  <2>2. HeartbeatPunctual'
    BY <1>2, <1>3, <2>1 DEF IInv, HeartbeatPunctual
  <2>3. Silence'
    BY <1>2, <1>3, <2>1 DEF IInv, Silence
  <2> QED BY <2>2, <2>3
<1>7. CASE Send
  BY <1>2, <1>5, <1>7 DEF Send, LoggedOn
<1>8. CASE Tick
  <2>1. due' = FALSE
    BY <1>8 DEF Tick
  <2>2. CASE TickTest
    <3>1. /\ LoggedOn /\ armed' = armed /\ outstanding' = TRUE /\ outstanding = FALSE
          /\ sinceOut' = 0 /\ sinceTest' = 0 /\ sinceIn' = sinceIn /\ sinceIn >= Window
      BY <1>1, <1>2, <2>1, <2>2 DEF TickTest, Ticking, TestDue, LoggedOn, TypeOK
    <3>2. armed /\ sinceIn <= Window
      BY <3>1 DEF IInv, Silence
    <3>3. HeartbeatPunctual'
      BY <1>2, <3>1 DEF HeartbeatPunctual
    <3>4. Silence'
      BY <1>3, <3>1, <3>2 DEF Silence
    <3> QED BY <3>3, <3>4
  <2>3. CASE TickTimeout
    BY <1>2, <2>3 DEF TickTimeout
  <2>4. ASSUME LoggedOn, ~TestDue, ~TimedOut, armed' = armed, outstanding' = outstanding,
               sinceIn' = sinceIn, sinceTest' = sinceTest, sinceOut' < HeartBtInt
        PROVE  HeartbeatPunctual' /\ Silence'
    <3>1. HeartbeatPunctual'
      BY <1>2, <2>4, <1>1, AgeFacts DEF HeartbeatPunctual, TypeOK
    <3>2. Silence'
      BY <1>3, <2>4 DEF IInv, Silence, TestDue, TimedOut
    <3> QED BY <3>1, <3>2
  <2>5. CASE TickBeat
    BY <1>2, <2>1, <2>4, <2>5 DEF TickBeat, LoggedOn
  <2>6. CASE TickIdle
    <3>1. /\ LoggedOn /\ armed' = armed /\ outstanding' = outstanding
          /\ sinceIn' = sinceIn /\ sinceTest' = sinceTest /\ sinceOut' = sinceOut
      BY <1>2, <2>1, <2>6 DEF TickIdle, timers, LoggedOn
    <3>2. Ticking
      BY <3>1 DEF IInv, Silence, LoggedOn, Ticking
    <3>3. sinceOut < HeartBtInt /\ ~TestDue /\ ~TimedOut
      BY <1>2, <1>3, <2>6, <3>2 DEF TickIdle, BeatDue
    <3> QED BY <2>4, <3>1, <3>3
  <2> QED BY <1>8, <2>2, <2>3, <2>5, <2>6 DEF Tick
<1>9. CASE Advance
  <2>1. /\ LoggedOn /\ armed' = armed /\ outstanding' = outstanding
        /\ due = FALSE /\ due' = TRUE
    BY <1>1, <1>2, <1>9 DEF Advance, LoggedOn, TypeOK
  <2>2. sinceOut < HeartBtInt /\ armed
    BY <2>1 DEF IInv, HeartbeatPunctual, Silence
  <2>3. /\ outstanding \/ sinceIn < Window
        /\ ~outstanding \/ (sinceIn = sinceTest + Window /\ sinceTest < Window)
    BY <2>1 DEF IInv, Silence
  <2>4. sinceIn < Cap /\ sinceOut < Cap
    BY <1>2, <1>3, <2>2, <2>3
  <2>5. sinceOut' = sinceOut + 1 /\ sinceIn' = sinceIn + 1
    BY <1>1, <1>9, <2>4, AgeFacts DEF Advance, TypeOK
  <2>6. outstanding => sinceTest' = sinceTest + 1
    <3>1. outstanding => sinceTest < Cap
      BY <1>3, <2>3
    <3> QED BY <1>1, <1>9, <3>1, AgeFacts DEF Advance, TypeOK
  <2>7. HeartbeatPunctual'
    BY <1>2, <1>3, <2>1, <2>2, <2>5 DEF HeartbeatPunctual
  <2>8. Silence'
    BY <1>3, <2>1, <2>2, <2>3, <2>5, <2>6 DEF Silence
  <2> QED BY <2>7, <2>8
<1>10. CASE PeerDies
  BY <1>2, <1>5, <1>10 DEF PeerDies, LoggedOn, timers
<1>11. CASE UNCHANGED vars
  BY <1>2, <1>5, <1>11 DEF vars, LoggedOn, timers
<1>12. CASE InitiateLogon \/ SendLogout \/ NotALogon \/ Malformed \/ Reconnect
  BY <1>2, <1>12 DEF InitiateLogon, SendLogout, NotALogon, Malformed, Reconnect
<1>13. ASSUME NEW after, NEW answered, InboundFatal(after, answered) PROVE FALSE
  BY <1>2, <1>13 DEF InboundFatal
<1> QED BY <1>4, <1>6, <1>7, <1>8, <1>9, <1>10, <1>11, <1>12, <1>13 DEF Next, Receive

(* For every HeartBtInt: a logged-in session is never silent for longer    *)
(* than HeartBtInt.                                                        *)
THEOREM TimerBounds == Spec => [](TypeOK /\ HeartbeatPunctual)
<1>1. IInv => TypeOK /\ HeartbeatPunctual
  BY DEF IInv
<1> QED BY InvInit, InvNext, <1>1, PTL DEF Spec

(* For every HeartBtInt: a session never stays logged in for more than     *)
(* twice the window with a silent peer.                                    *)
THEOREM SilenceBounded == Spec => []DeadPeerBound
  BY InvInit, InvNext, SilenceBound, PTL DEF Spec

(* For every HeartBtInt: tick gives a peer two full windows before it      *)
(* disconnects it.                                                         *)
THEOREM TimeoutIsPatient == Spec => PatientTimeout
<1>1. ASSUME IInv, TickTimeout PROVE sinceIn >= 2 * Window /\ sinceTest >= Window
  <2>1. LoggedOn /\ outstanding /\ sinceTest >= Window
    BY <1>1 DEF IInv, ClosedIsOut, TickTimeout, TimedOut, Ticking, LoggedOn
  <2>2. sinceIn = sinceTest + Window
    BY <1>1, <2>1 DEF IInv, Silence
  <2>3. sinceTest \in Nat /\ Window \in Nat
    BY <1>1, AgeFacts, WindowFacts DEF IInv, TypeOK
  <2> QED BY <2>1, <2>2, <2>3
<1>2. IInv /\ [Next]_vars
        => [TickTimeout => sinceIn >= 2 * Window /\ sinceTest >= Window]_vars
  BY <1>1
<1> QED BY InvInit, InvNext, <1>2, PTL DEF Spec, PatientTimeout

-----------------------------------------------------------------------------
(* The threads of the server.                                              *)

Joined == {"lockSessions", "joinSessions", "exited"}

(* What makes NothingLeft inductive: who still answers for each connection *)
(* and each thread.  A connection that is open is in the acceptor's hand   *)
(* or has a thread at work; a thread at work is in session_threads_; and   *)
(* the acceptor has ended before stop() turns to session_threads_.         *)
Accounted ==
  /\ main \in {"start", "publish", "spawn"} => acceptor = "none"
  /\ main \in Joined => acceptor = "done"
  /\ main \in Joined \cup {"joinAcceptor"} => sock = "closed" /\ shut
  /\ main = "close" => shut
  /\ main = "exited" => threads = {}
  /\ shut => \A c \in Clients : conn[c] # "queued"
  /\ cli # None <=> acceptor \in {"lock", "emplace"}
  /\ \A c \in Clients : c \notin threads => session[c] \in {"none", "done"}
  /\ \A c \in Clients : conn[c] = "open" => cli = c \/ session[c] \notin {"none", "done"}

StopInv == LifecycleTypeOK /\ Accounted

(* Nothing has been started.                                               *)
LEMMA InitStopInv ==
  ASSUME LifecycleInit
  PROVE  StopInv
  BY LifecycleAssumption, Zenon DEF LifecycleInit, StopInv, LifecycleTypeOK, Accounted, Joined

(* The steps of main: start(), the wait for a signal, stop().              *)
LEMMA MainKeeps ==
  ASSUME StopInv, MainStep
  PROVE  StopInv'
<1> USE LifecycleAssumption DEF StopInv, LifecycleTypeOK, Accounted, Joined, Main
<1>1. ASSUME NEW ok \in BOOLEAN, Start(ok) PROVE StopInv'
  BY <1>1 DEF Start
<1>2. CASE Publish
  BY <1>2 DEF Publish
<1>3. CASE Spawn
  BY <1>3 DEF Spawn
<1>4. CASE Wait
  BY <1>4 DEF Wait
<1>5. CASE Stop
  BY <1>5, ZenonT(60) DEF Stop
<1>6. CASE Unpublish
  BY <1>6, ZenonT(60) DEF Unpublish
<1>7. CASE Shutdown
  BY <1>7 DEF Shutdown
<1>8. CASE Close
  BY <1>8 DEF Close
<1>9. CASE JoinAcceptor
  BY <1>9 DEF JoinAcceptor
<1>10. CASE LockSessions
  BY <1>10 DEF LockSessions
<1>11. CASE Exit
  BY <1>11 DEF Exit
<1>12. ASSUME NEW c \in Clients, JoinSession(c) PROVE StopInv'
  BY <1>12 DEF JoinSession
<1> QED
  BY <1>1, <1>2, <1>3, <1>4, <1>5, <1>6, <1>7, <1>8, <1>9, <1>10, <1>11, <1>12, Zenon DEF MainStep

(* The steps of accept_loop.                                               *)
LEMMA AcceptorKeeps ==
  ASSUME StopInv, AcceptorStep
  PROVE  StopInv'
<1> USE LifecycleAssumption DEF StopInv, LifecycleTypeOK, Accounted, Joined, Acceptor, server
<1>1. CASE Test
  BY <1>1 DEF Test
<1>2. CASE Load
  BY <1>2 DEF Load
<1>3. CASE Enter
  BY <1>3 DEF Enter
<1>4. CASE AcceptFails
  BY <1>4 DEF AcceptFails
<1>5. CASE Retest
  BY <1>5 DEF Retest
<1>6. CASE AcceptorLocks
  BY <1>6 DEF AcceptorLocks
<1>7. CASE Emplace
  BY <1>7 DEF Emplace
<1>8. ASSUME NEW c \in Clients, Accept(c) PROVE StopInv'
  BY <1>8 DEF Accept
<1> QED
  BY <1>1, <1>2, <1>3, <1>4, <1>5, <1>6, <1>7, <1>8, Zenon DEF AcceptorStep

(* The steps of a session thread.                                          *)
LEMMA SessionKeeps ==
  ASSUME StopInv, NEW c \in Clients, SessionStep(c)
  PROVE  StopInv'
<1> USE LifecycleAssumption DEF StopInv, LifecycleTypeOK, Accounted, Joined, Session, server
<1>1. CASE TestRunning(c)
  BY <1>1 DEF TestRunning
<1>2. CASE Turn(c)
  BY <1>2 DEF Turn
<1>3. CASE WriteAll(c)
  BY <1>3 DEF WriteAll
<1>4. CASE CloseFd(c)
  BY <1>4 DEF CloseFd
<1> QED
  BY <1>1, <1>2, <1>3, <1>4, Zenon DEF SessionStep

(* The signal and the peers.                                               *)
LEMMA EnvironmentKeeps ==
  ASSUME StopInv, Signal \/ \E c \in Clients : PeerStep(c)
  PROVE  StopInv'
<1> USE LifecycleAssumption DEF StopInv, LifecycleTypeOK, Accounted, Joined, server, threadVars
<1>1. CASE Signal
  BY <1>1 DEF Signal
<1>2. ASSUME NEW c \in Clients, Connect(c) PROVE StopInv'
  BY <1>2 DEF Connect
<1>3. ASSUME NEW c \in Clients, NEW from, NEW to \in {"reading", "stalled", "gone"},
             Peer(c, from, to)
      PROVE  StopInv'
  BY <1>3 DEF Peer
<1> QED
  BY <1>1, <1>2, <1>3, Zenon DEF PeerStep, Reads

(* stop() leaves nothing behind, whatever the interleaving of main, the    *)
(* acceptor and the session threads, and for any number of connections.    *)
THEOREM NothingLeftBehind == LifecycleSpec => [](LifecycleTypeOK /\ NothingLeft)
<1>1. StopInv /\ [LifecycleNext]_lifecycleVars => StopInv'
  <2> SUFFICES ASSUME StopInv, [LifecycleNext]_lifecycleVars PROVE StopInv'
    OBVIOUS
  <2>1. CASE UNCHANGED lifecycleVars
    BY <2>1 DEF StopInv, LifecycleTypeOK, Accounted, Joined, lifecycleVars, server, threadVars
  <2> QED
    BY <2>1, MainKeeps, AcceptorKeeps, SessionKeeps, EnvironmentKeeps DEF LifecycleNext
<1>2. StopInv => LifecycleTypeOK /\ NothingLeft
  BY LifecycleAssumption DEF StopInv, LifecycleTypeOK, Accounted, Joined, NothingLeft
<1> QED
  BY InitStopInv, <1>1, <1>2, PTL DEF LifecycleSpec

-----------------------------------------------------------------------------
(* Facts about lists and sums.                                             *)

(* Lists with the same elements at the same places are the same.           *)
LEMMA SameList ==
  ASSUME NEW S, NEW s \in Seq(S), NEW t \in Seq(S), Len(s) = Len(t),
         \A i \in 1 .. Len(s) : s[i] = t[i]
  PROVE  s = t
  OBVIOUS

(* Concatenation is associative.                                           *)
Joins(s, t, u) == (s \o t) \o u = s \o (t \o u)

LEMMA Associative == \A s, t, u \in Seq(Nat) : Joins(s, t, u)
<1> USE DEF Joins
<1> TAKE s, t, u \in Seq(Nat)
<1>1. (s \o t) \o u \in Seq(Nat) /\ s \o (t \o u) \in Seq(Nat)
  OBVIOUS
<1>2. Len((s \o t) \o u) = Len(s \o (t \o u))
  OBVIOUS
<1>3. ASSUME NEW i \in 1 .. Len((s \o t) \o u)
      PROVE  ((s \o t) \o u)[i] = (s \o (t \o u))[i]
  OBVIOUS
<1> QED BY <1>1, <1>2, <1>3, SameList, Zenon

(* A list is its head and its tail, and the empty list adds nothing.       *)
LEMMA HeadAndTail ==
  \A s \in Seq(Nat) :
    /\ s # <<>> => s = <<Head(s)>> \o Tail(s) /\ Head(s) \in Nat /\ Tail(s) \in Seq(Nat)
    /\ <<>> \o s = s /\ s \o <<>> = s
<1> TAKE s \in Seq(Nat)
<1>1. ASSUME s # <<>> PROVE s = <<Head(s)>> \o Tail(s) /\ Head(s) \in Nat /\ Tail(s) \in Seq(Nat)
  BY <1>1
<1>2. <<>> \o s = s /\ s \o <<>> = s
  OBVIOUS
<1> QED BY <1>1, <1>2

(* A list cut in two.                                                      *)
LEMMA CutInTwo ==
  ASSUME NEW S, NEW s \in Seq(S), NEW n \in 0 .. Len(s)
  PROVE  /\ SubSeq(s, 1, n) \in Seq(S) /\ SubSeq(s, n + 1, Len(s)) \in Seq(S)
         /\ SubSeq(s, 1, n) \o SubSeq(s, n + 1, Len(s)) = s
<1> DEFINE t == SubSeq(s, 1, n)
           u == SubSeq(s, n + 1, Len(s))
<1>1. /\ t \in Seq(S) /\ Len(t) = n
      /\ \A i \in 1 .. n : t[i] = s[i]
  OBVIOUS
<1>2. /\ u \in Seq(S) /\ Len(u) = Len(s) - n
      /\ \A i \in 1 .. Len(s) - n : u[i] = s[n + i]
  OBVIOUS
<1> HIDE DEF t, u
<1>3. t \o u \in Seq(S) /\ Len(t \o u) = Len(s)
  BY <1>1, <1>2
<1>4. ASSUME NEW i \in 1 .. Len(s) PROVE (t \o u)[i] = s[i]
  <2>1. CASE i <= n
    <3>1. i \in 1 .. Len(t)
      BY <1>1, <2>1
    <3>a. t \in Seq(S) /\ u \in Seq(S)
      BY <1>1, <1>2, Zenon
    <3>2. (t \o u)[i] = t[i]
      BY <3>a, <3>1
    <3> QED BY <1>1, <3>1, <3>2
  <2>2. CASE i > n
    <3>1. i - n \in 1 .. Len(s) - n /\ n + (i - n) = i
      BY <2>2
    <3>2. (t \o u)[i] = u[i - n]
      <4>1. t \in Seq(S) /\ u \in Seq(S) /\ Len(t) = n /\ Len(u) = Len(s) - n
        BY <1>1, <1>2, Zenon
      <4>2. i \in Len(t) + 1 .. Len(t) + Len(u)
        BY <2>2, <4>1
      <4>3. (t \o u)[i] = u[i - Len(t)]
        BY <4>1, <4>2
      <4> QED BY <4>1, <4>3, Zenon
    <3> QED BY <1>2, <3>1, <3>2, Zenon
  <2>3. i <= n \/ i > n
    OBVIOUS
  <2> QED BY <2>1, <2>2, <2>3, Zenon
<1>5. t \o u = s
  <2>1. \A i \in 1 .. Len(s) : (t \o u)[i] = s[i]
    BY <1>4, Zenon
  <2> QED BY <1>3, <2>1, SameList, Zenon
<1> QED BY <1>1, <1>2, <1>5, Zenon DEF t, u

(* The first and the last element of a concatenation.                      *)
LEMMA EndsOfConcat ==
  ASSUME NEW S, NEW s \in Seq(S), NEW t \in Seq(S)
  PROVE  /\ s # <<>> => (s \o t)[1] = s[1]
         /\ t # <<>> => (s \o t)[Len(s \o t)] = t[Len(t)]
  OBVIOUS

(* Counting to a - 1 and on to b - 1.                                      *)
LEMMA CountOn ==
  ASSUME NEW a \in Nat \ {0}, NEW b \in Nat, b >= a
  PROVE  [i \in 1 .. a - 1 |-> i] \o [i \in 1 .. b - a |-> a + i - 1] = [i \in 1 .. b - 1 |-> i]
<1> DEFINE s == [i \in 1 .. a - 1 |-> i]
           t == [i \in 1 .. b - a |-> a + i - 1]
           u == [i \in 1 .. b - 1 |-> i]
<1>0. a - 1 \in Nat /\ b - a \in Nat /\ b - 1 \in Nat
  OBVIOUS
<1>1. s \in Seq(Nat) /\ Len(s) = a - 1 /\ \A i \in 1 .. a - 1 : s[i] = i
  BY <1>0
<1>2. /\ t \in Seq(Nat) /\ Len(t) = b - a
      /\ \A i \in 1 .. b - a : t[i] = a + i - 1
  <2>1. \A i \in 1 .. b - a : a + i - 1 \in Nat
    BY <1>0
  <2> QED BY <1>0, <2>1
<1>3. u \in Seq(Nat) /\ Len(u) = b - 1 /\ \A i \in 1 .. b - 1 : u[i] = i
  BY <1>0
<1> HIDE DEF s, t, u
<1>4. s \o t \in Seq(Nat) /\ Len(s \o t) = b - 1
  BY <1>1, <1>2
<1>5. ASSUME NEW i \in 1 .. b - 1 PROVE (s \o t)[i] = i
  <2>1. CASE i \in 1 .. a - 1
    BY <1>1, <1>2, <2>1
  <2>2. CASE i \in a .. b - 1
    <3>1. i - (a - 1) \in 1 .. b - a /\ a + (i - (a - 1)) - 1 = i
      BY <2>2
    <3>2. (s \o t)[i] = t[i - (a - 1)]
      BY <1>1, <1>2, <2>2
    <3> QED BY <1>2, <3>1, <3>2
  <2>3. i \in 1 .. a - 1 \/ i \in a .. b - 1
    OBVIOUS
  <2> QED BY <2>1, <2>2, <2>3, Zenon
<1>6. s \o t = u
  <2>1. \A i \in 1 .. Len(s \o t) : (s \o t)[i] = u[i]
    <3> SUFFICES ASSUME NEW i \in 1 .. b - 1 PROVE (s \o t)[i] = u[i]
      BY <1>4, Zenon
    <3> QED BY <1>3, <1>5, Zenon
  <2> QED BY <1>3, <1>4, <2>1, SameList, Zenon
<1> QED BY <1>6 DEF s, t, u

(* A set of naturals that is not empty has a least element.                *)
LEMMA LeastElement ==
  ASSUME NEW S, S \subseteq Nat, S # {}
  PROVE  \E x \in S : \A y \in S : x <= y
<1>1. PICK x \in S : \A y \in S : ~(<<y, x>> \in OpToRel(<, Nat))
  BY WFMin, NatLessThanWellFounded, Zenon
<1>2. ASSUME NEW y \in S PROVE x <= y
  <2>1. x \in Nat /\ y \in Nat
    OBVIOUS
  <2>2. ~(y < x)
    BY <1>1, <2>1, Zenon DEF OpToRel
  <2> QED BY <2>1, <2>2
<1> QED BY <1>2

(* The partial sums of naturals do not decrease.                           *)
LEMMA PartialSumsMonotone ==
  ASSUME NEW q \in Seq(Nat), NEW i \in 0 .. Len(q), NEW j \in 0 .. Len(q), i <= j
  PROVE  PartialSums(q)[i] <= PartialSums(q)[j]
<1> DEFINE n == Len(q)
           P == PartialSums(q)
           T == {k \in 0 .. n - i : P[i] <= P[i + k]}
<1>0. n \in Nat /\ i \in 0 .. n /\ j \in 0 .. n
  OBVIOUS
<1>1. /\ P \in [0 .. n -> Nat]
      /\ \A k \in 1 .. n : P[k] = P[k - 1] + q[k]
  BY PartialSumsDef
<1>2. \A k \in 1 .. n : q[k] \in Nat
  OBVIOUS
<1> HIDE DEF P, n
<1>3. 0 \in T
  <2>1. P[i] \in Nat
    BY <1>0, <1>1
  <2> QED BY <1>0, <2>1
<1>4. \A k \in 1 .. n - i : k - 1 \in T => k \in T
  <2> SUFFICES ASSUME NEW k \in 1 .. n - i, P[i] <= P[i + (k - 1)]
               PROVE  P[i] <= P[i + k]
    BY <1>0
  <2>1. i + k \in 1 .. n /\ (i + k) - 1 = i + (k - 1) /\ i + (k - 1) \in 0 .. n
    BY <1>0
  <2>2. P[i + k] = P[i + (k - 1)] + q[i + k] /\ q[i + k] \in Nat
    BY <1>1, <1>2, <2>1
  <2>3. P[i] \in Nat /\ P[i + (k - 1)] \in Nat
    BY <1>0, <1>1, <2>1
  <2> QED BY <2>2, <2>3
<1>5. j - i \in T
  <2>1. n - i \in Nat /\ j - i \in 0 .. n - i
    BY <1>0
  <2> HIDE DEF T
  <2> QED BY <1>3, <1>4, <2>1, UpToInduction, Zenon
<1>6. i + (j - i) = j
  BY <1>0
<1> QED BY <1>5, <1>6 DEF P

-----------------------------------------------------------------------------
(* The framing of messages.                                                *)

(* A message whose BodyLength is a number of at most 20 digits.            *)
Sized(m) == m \in Message /\ \E d \in 1 .. 20 : HasDigits(m.declared, d)

(* Its sizes are numbers, and it has the 20 bytes parse_one asks for.      *)
LEMMA SizeFacts ==
  ASSUME NEW m, Sized(m)
  PROVE  /\ BodySize(m) \in Nat /\ BodyStart(m) \in Nat /\ m.declared \in Nat
         /\ Size(m) \in Nat /\ Size(m) = BodyStart(m) + BodySize(m) + TrailerSize
         /\ Size(m) > 20
<1>1. m \in Message /\ m.declared \in Nat
  BY DEF Sized, Message
<1>2. BodySize(m) \in Nat
  <2> DEFINE sizes == [i \in 1 .. Len(m.body) |-> m.body[i].size]
  <2>1. m.body \in Seq(Field)
    BY <1>1 DEF Message
  <2>2. \A i \in 1 .. Len(m.body) : m.body[i].size \in Nat
    <3> TAKE i \in 1 .. Len(m.body)
    <3>1. m.body[i] \in Field
      BY <2>1
    <3> QED BY <3>1 DEF Field
  <2>3. sizes \in Seq(Nat)
    BY <2>1, <2>2
  <2> HIDE DEF sizes
  <2>4. Sum(sizes) \in Nat
    BY <2>3, PartialSumsBound
  <2> QED BY <2>4 DEF BodySize, sizes
<1>3. Digits(m.declared) \in 1 .. 20
  BY Zenon DEF Sized, Digits
<1>4. BodyStart(m) \in Nat /\ BodyStart(m) >= 14
  BY <1>3 DEF BodyStart, HeaderSize
<1> QED BY <1>1, <1>2, <1>4 DEF Size, TrailerSize

(* The fields of a message as Correct asks for them.                       *)
FieldsFine(m) ==
  /\ \A i \in DOMAIN m.body : m.body[i].wellFormed /\ m.body[i].tag \notin {8, 9}
  /\ \A i, j \in DOMAIN m.body : i # j => m.body[i].tag # m.body[j].tag

(* The walk over the fields finds no fault exactly when there is none.     *)
LEMMA WalkFacts ==
  ASSUME NEW m \in Message
  PROVE  /\ WalkFields(m) = "None" <=> FieldsFine(m)
         /\ WalkFields(m) # "Incomplete"
<1> DEFINE repeats(i) == m.body[i].tag \in {8, 9} \cup {m.body[j].tag : j \in 1 .. i - 1}
           bad == {i \in DOMAIN m.body : ~m.body[i].wellFormed \/ repeats(i)}
<1>1. m.body \in Seq(Field) /\ DOMAIN m.body = 1 .. Len(m.body) /\ Len(m.body) \in Nat
  BY DEF Message
<1>2. bad = {} <=> FieldsFine(m)
  <2>1. ASSUME bad = {} PROVE FieldsFine(m)
    <3>1. \A i \in DOMAIN m.body : m.body[i].wellFormed /\ ~repeats(i)
      BY <2>1
    <3>2. ASSUME NEW i \in DOMAIN m.body, NEW j \in DOMAIN m.body, i < j
          PROVE  m.body[i].tag # m.body[j].tag
      <4>1. i \in 1 .. j - 1
        BY <1>1, <3>2
      <4> QED BY <3>1, <4>1
    <3>3. ASSUME NEW i \in DOMAIN m.body, NEW j \in DOMAIN m.body, i # j
          PROVE  m.body[i].tag # m.body[j].tag
      <4>1. i < j \/ j < i
        BY <1>1, <3>3
      <4> QED BY <3>2, <4>1
    <3> QED BY <3>1, <3>3 DEF FieldsFine
  <2>2. ASSUME FieldsFine(m) PROVE bad = {}
    <3> SUFFICES ASSUME NEW i \in DOMAIN m.body PROVE m.body[i].wellFormed /\ ~repeats(i)
      OBVIOUS
    <3>1. ASSUME NEW j \in 1 .. i - 1 PROVE m.body[j].tag # m.body[i].tag
      <4>1. j \in DOMAIN m.body /\ i # j
        BY <1>1
      <4> QED BY <2>2, <4>1 DEF FieldsFine
    <3> QED BY <2>2, <3>1 DEF FieldsFine
  <2> QED BY <2>1, <2>2
<1>3. WalkFields(m) = IF bad = {} THEN "None"
                      ELSE IF m.body[Min(bad)].wellFormed THEN "DuplicateField"
                           ELSE "MalformedField"
  BY DEF WalkFields
<1> HIDE DEF bad
<1> QED BY <1>2, <1>3

(* parse_one takes a correct message when its last byte is there, asks for *)
(* more until then, and takes no other message.                            *)
LEMMA ParseFacts ==
  ASSUME NEW m, Sized(m), NEW a \in Int
  PROVE  /\ Correct(m) /\ a >= Size(m) => ParseOne(m, a) = "None"
         /\ Correct(m) /\ a < Size(m) => ParseOne(m, a) = "Incomplete"
         /\ ParseOne(m, a) = "None" => Correct(m) /\ a >= Size(m)
         /\ a < 20 => ParseOne(m, a) = "Incomplete"
<1>1. /\ BodySize(m) \in Nat /\ BodyStart(m) \in Nat /\ m.declared \in Nat
      /\ Size(m) = BodyStart(m) + BodySize(m) + 7 /\ Size(m) > 20
  BY SizeFacts DEF TrailerSize
<1>2. /\ WalkFields(m) = "None" <=> FieldsFine(m)
      /\ WalkFields(m) # "Incomplete"
  BY WalkFacts DEF Sized
<1>3. Correct(m) <=> m.header /\ m.numeric /\ m.trailer /\ m.declared = BodySize(m) /\ FieldsFine(m)
  BY Zenon DEF Correct, FieldsFine
<1> QED BY <1>1, <1>2, <1>3 DEF ParseOne, TrailerSize

(* The offsets of the messages of a stream.                                *)
LEMMA OffsetFacts ==
  ASSUME stream \in Streams
  PROVE  /\ stream \in Seq(Message) /\ \A i \in 1 .. Len(stream) : Sized(stream[i])
         /\ \A i \in 1 .. Len(stream) + 1 : Offset(i) \in Nat
         /\ Offset(1) = 0
         /\ \A i \in 1 .. Len(stream) : Offset(i + 1) = Offset(i) + Size(stream[i])
         /\ \A i, j \in 1 .. Len(stream) + 1 : i <= j => Offset(i) <= Offset(j)
<1> DEFINE q == [j \in 1 .. Len(stream) |-> Size(stream[j])]
           P == PartialSums(q)
<1>1. stream \in Seq(Message) /\ DOMAIN stream = 1 .. Len(stream) /\ Len(stream) \in Nat
  BY FramingAssumption
<1>2. ASSUME NEW i \in 1 .. Len(stream) PROVE Sized(stream[i])
  <2>1. stream[i] \in Message
    BY <1>1
  <2>2. \E d \in 1 .. 20 : HasDigits(stream[i].declared, d)
    BY <1>1, FramingAssumption, Zenon
  <2> QED BY <2>1, <2>2, Zenon DEF Sized
<1>3. \A i \in 1 .. Len(stream) : Size(stream[i]) \in Nat
  BY <1>2, SizeFacts, Zenon
<1>4. q \in Seq(Nat) /\ Len(q) = Len(stream) /\ \A i \in 1 .. Len(stream) : q[i] = Size(stream[i])
  BY <1>1, <1>3
<1>5. \A i \in Int : Offset(i) = P[i - 1]
  BY DEF Offset
<1> HIDE DEF q
<1>6. /\ P \in [0 .. Len(stream) -> Nat] /\ P[0] = 0
      /\ \A i \in 1 .. Len(stream) : P[i] = P[i - 1] + q[i]
  BY <1>4, PartialSumsDef
<1>7. \A i, j \in 0 .. Len(stream) : i <= j => P[i] <= P[j]
  BY <1>4, PartialSumsMonotone
<1> HIDE DEF P
<1>8. ASSUME NEW i \in 1 .. Len(stream) + 1 PROVE Offset(i) \in Nat
  <2>1. i \in Int /\ i - 1 \in 0 .. Len(stream)
    BY <1>1
  <2>2. Offset(i) = P[i - 1]
    BY <1>5, <2>1, Zenon
  <2> QED BY <1>6, <2>1, <2>2
<1>9. Offset(1) = 0
  BY <1>5, <1>6
<1>10. ASSUME NEW i \in 1 .. Len(stream) PROVE Offset(i + 1) = Offset(i) + Size(stream[i])
  <2>1. i \in Int /\ i + 1 \in Int /\ (i + 1) - 1 = i
    OBVIOUS
  <2>2. Offset(i + 1) = P[i] /\ Offset(i) = P[i - 1]
    BY <1>5, <2>1, Zenon
  <2> QED BY <1>4, <1>6, <2>2
<1>11. ASSUME NEW i \in 1 .. Len(stream) + 1, NEW j \in 1 .. Len(stream) + 1, i <= j
       PROVE  Offset(i) <= Offset(j)
  <2>1. /\ i \in Int /\ j \in Int /\ i - 1 \in 0 .. Len(stream)
        /\ j - 1 \in 0 .. Len(stream) /\ i - 1 <= j - 1
    BY <1>1, <1>11
  <2> QED BY <1>5, <1>7, <2>1, Zenon
<1> QED BY <1>1, <1>2, <1>8, <1>9, <1>10, <1>11

(* The prefix of the stream that was taken: messages that are correct,     *)
(* complete among the first got bytes, and did not end the session.        *)
Taken(n, got) ==
  /\ \A i \in 1 .. n : Correct(stream[i]) /\ Offset(i + 1) <= got
  /\ \A i \in 1 .. n - 1 : ~stream[i].fatal

(* What keeps the loop of on_bytes where it is, or has ended the session.  *)
FrameInv ==
  /\ stream \in Streams /\ received \in Nat /\ next \in 1 .. Len(stream) + 1
  /\ ended \in BOOLEAN
  /\ handled = [i \in 1 .. next - 1 |-> i]
  /\ Taken(next - 1, received)
  /\ ~ended => /\ err = "None" /\ Result(next, received) = "Incomplete"
               /\ next > 1 => ~stream[next - 1].fatal
  /\ ended => \/ err # "None" /\ next <= Len(stream) /\ ~Correct(stream[next])
              \/ err = "None" /\ next > 1 /\ stream[next - 1].fatal

(* What Result says of message i, in terms of the stream.                  *)
LEMMA ResultFacts ==
  ASSUME stream \in Streams, NEW got \in Nat, NEW i \in 1 .. Len(stream) + 1
  PROVE  /\ i = Len(stream) + 1 => Result(i, got) = "Incomplete"
         /\ got = 0 => Result(i, got) = "Incomplete"
         /\ Result(i, got) = "None" => /\ i \in 1 .. Len(stream) /\ Correct(stream[i])
                                      /\ Offset(i + 1) <= got
         /\ i \in 1 .. Len(stream) /\ Correct(stream[i]) =>
              /\ Offset(i + 1) <= got => Result(i, got) = "None"
              /\ Result(i, got) \in {"None", "Incomplete"}
<1>1. Len(stream) \in Nat /\ Offset(i) \in Nat
  BY OffsetFacts
<1>2. CASE i = Len(stream) + 1
  BY <1>1, <1>2 DEF Result
<1>3. CASE i \in 1 .. Len(stream)
  <2>1. Result(i, got) = ParseOne(stream[i], got - Offset(i))
    BY <1>1, <1>3 DEF Result
  <2>2. Sized(stream[i]) /\ Offset(i + 1) = Offset(i) + Size(stream[i])
    BY <1>3, OffsetFacts
  <2>3. Size(stream[i]) \in Nat /\ got - Offset(i) \in Int
    BY <1>1, <2>2, SizeFacts
  <2> DEFINE m == stream[i]
             a == got - Offset(i)
  <2>4. /\ Correct(m) /\ a >= Size(m) => ParseOne(m, a) = "None"
        /\ Correct(m) /\ a < Size(m) => ParseOne(m, a) = "Incomplete"
        /\ ParseOne(m, a) = "None" => Correct(m) /\ a >= Size(m)
        /\ a < 20 => ParseOne(m, a) = "Incomplete"
    <3>1. Sized(m) /\ a \in Int
      BY <2>2, <2>3
    <3> HIDE DEF m, a
    <3> QED BY <3>1, ParseFacts
  <2>5. a >= Size(m) <=> Offset(i + 1) <= got
    BY <1>1, <2>2, <2>3
  <2>6. a >= Size(m) \/ a < Size(m)
    BY <2>3
  <2>7. got = 0 => a < 20
    BY <1>1
  <2> HIDE DEF a, m
  <2>8. Result(i, got) = ParseOne(m, a) /\ m = stream[i]
    BY <2>1 DEF a, m
  <2>9. i # Len(stream) + 1
    BY <1>1, <1>3
  <2> QED BY <1>3, <2>4, <2>5, <2>6, <2>7, <2>8, <2>9
<1> QED BY <1>1, <1>2, <1>3

(* Where the loop of on_bytes stops: nothing before it stops it.           *)
LEMMA StopFacts ==
  ASSUME stream \in Streams, next \in 1 .. Len(stream) + 1, NEW got \in Nat,
         NEW stop, stop = Min(Stops(got))
  PROVE  /\ stop \in next .. Len(stream) + 1
         /\ Result(stop, got) # "None" \/ stream[stop].fatal
         /\ \A i \in next .. stop - 1 : Result(i, got) = "None" /\ ~stream[i].fatal
<1> DEFINE S == Stops(got)
<1>1. Len(stream) \in Nat /\ next \in Nat
  BY OffsetFacts
<1>2. S \subseteq Nat /\ Len(stream) + 1 \in S
  <2>1. Result(Len(stream) + 1, got) = "Incomplete"
    BY <1>1 DEF Result
  <2> QED BY <1>1, <2>1 DEF Stops
<1>3. stop \in S /\ \A y \in S : stop <= y
  <2> HIDE DEF S
  <2>1. \E x \in S : \A y \in S : x <= y
    BY <1>2, LeastElement, Zenon
  <2>2. stop = CHOOSE x \in S : \A y \in S : x <= y
    BY DEF S, Min
  <2> QED BY <2>1, <2>2, Zenon
<1>4. stop \in next .. Len(stream) + 1 /\ (Result(stop, got) # "None" \/ stream[stop].fatal)
  BY <1>3 DEF Stops
<1>5. ASSUME NEW i \in next .. stop - 1 PROVE Result(i, got) = "None" /\ ~stream[i].fatal
  <2>1. i \in next .. Len(stream) + 1 /\ ~(stop <= i)
    BY <1>1, <1>4
  <2>2. i \notin S
    BY <1>3, <2>1
  <2> QED BY <2>1, <2>2, Zenon DEF Stops
<1> QED BY <1>4, <1>5

(* A call of on_bytes keeps the invariant.                                 *)
LEMMA OnBytesKeeps ==
  ASSUME FrameInv, NEW n \in Nat, OnBytes(n)
  PROVE  FrameInv'
<1> DEFINE got == received + n
           stop == Min(Stops(got))
           result == Result(stop, got)
<1>1. /\ stream \in Streams /\ received \in Nat /\ next \in 1 .. Len(stream) + 1
      /\ handled = [i \in 1 .. next - 1 |-> i] /\ Taken(next - 1, received)
      /\ next > 1 => ~stream[next - 1].fatal
  BY Zenon DEF FrameInv, OnBytes
<1>2. Len(stream) \in Nat /\ next \in Nat /\ got \in Nat /\ received <= got
  BY <1>1, OffsetFacts
<1>3. /\ received' = got /\ stream' = stream
      /\ next' = IF result = "None" THEN stop + 1 ELSE stop
      /\ handled' = handled \o [i \in 1 .. next' - next |-> next + i - 1]
      /\ err' = IF result = "None" \/ result = "Incomplete" THEN "None" ELSE result
      /\ ended' = (result = "None" \/ result # "Incomplete")
  BY Zenon DEF OnBytes
<1> HIDE DEF got
<1>4. /\ stop \in next .. Len(stream) + 1
      /\ result # "None" \/ stream[stop].fatal
      /\ \A i \in next .. stop - 1 : Result(i, got) = "None" /\ ~stream[i].fatal
  BY <1>1, <1>2, StopFacts, Zenon
<1> HIDE DEF stop
<1>5. ASSUME NEW i \in 1 .. stop - 1
      PROVE  Correct(stream[i]) /\ Offset(i + 1) <= got /\ ~stream[i].fatal
  <2>1. i \in 1 .. Len(stream) /\ i + 1 \in 1 .. Len(stream) + 1
    BY <1>2, <1>4
  <2>2. Offset(i + 1) \in Nat
    BY <1>1, <2>1, OffsetFacts
  <2>3. CASE i \in 1 .. next - 1
    <3>1. Correct(stream[i]) /\ Offset(i + 1) <= received
      BY <1>1, <2>3, Zenon DEF Taken
    <3>2. ~stream[i].fatal
      <4>1. CASE i = next - 1
        BY <1>1, <1>2, <2>3, <4>1
      <4>2. CASE i \in 1 .. (next - 1) - 1
        BY <1>1, <4>2, Zenon DEF Taken
      <4> QED BY <1>2, <2>3, <4>1, <4>2
    <3> QED BY <1>1, <1>2, <2>2, <3>1, <3>2
  <2>4. CASE i \in next .. stop - 1
    <3>1. Result(i, got) = "None" /\ ~stream[i].fatal
      BY <1>4, <2>4
    <3>2. i \in 1 .. Len(stream) + 1
      BY <2>1
    <3> QED BY <1>1, <1>2, <3>1, <3>2, ResultFacts
  <2> QED BY <1>2, <1>4, <2>3, <2>4
<1>6. stop \in 1 .. Len(stream) + 1 /\ stop \in Nat
  BY <1>1, <1>2, <1>4
<1>7. /\ result = "None" => /\ stop \in 1 .. Len(stream) /\ Correct(stream[stop])
                            /\ Offset(stop + 1) <= got /\ stream[stop].fatal
      /\ result \notin {"None", "Incomplete"} => stop \in 1 .. Len(stream) /\ ~Correct(stream[stop])
  <2>1. stop \in 1 .. Len(stream) \/ stop = Len(stream) + 1
    BY <1>2, <1>6
  <2> QED BY <1>1, <1>2, <1>4, <1>6, <2>1, ResultFacts
<1> HIDE DEF result
<1>8. next' \in 1 .. Len(stream) + 1 /\ next' >= next
  BY <1>2, <1>3, <1>4, <1>6, <1>7
<1>9. handled' = [i \in 1 .. next' - 1 |-> i]
  <2>1. next \in Nat \ {0} /\ next' \in Nat
    BY <1>1, <1>2, <1>8
  <2> QED BY <1>1, <1>3, <1>8, <2>1, CountOn, Zenon
<1>10. Taken(next' - 1, got) /\ (~ended' => (next' > 1 => ~stream[next' - 1].fatal))
  <2>1. CASE result = "None"
    <3>0. next' = stop + 1 /\ ended'
      BY <1>3, <2>1, Zenon
    <3>1. next' - 1 = stop /\ ended'
      BY <1>6, <3>0
    <3>2. ASSUME NEW i \in 1 .. stop PROVE Correct(stream[i]) /\ Offset(i + 1) <= got
      <4>1. i \in 1 .. stop - 1 \/ i = stop
        BY <1>6
      <4> QED BY <1>5, <1>7, <2>1, <4>1
    <3> QED BY <1>5, <3>1, <3>2 DEF Taken
  <2>2. CASE result # "None"
    <3>1. next' = stop
      BY <1>3, <2>2
    <3>2. \A i \in 1 .. (stop - 1) - 1 : i \in 1 .. stop - 1
      BY <1>6
    <3>3. stop > 1 => stop - 1 \in 1 .. stop - 1
      BY <1>6
    <3> QED BY <1>5, <3>1, <3>2, <3>3, Zenon DEF Taken
  <2> QED BY <2>1, <2>2
<1>11. Taken(next - 1, received)'
  BY <1>3, <1>10, Zenon DEF Taken, Offset
<1>12. ~ended' => err' = "None" /\ Result(next, received)' = "Incomplete"
  <2> SUFFICES ASSUME ~ended' PROVE err' = "None" /\ Result(next, received)' = "Incomplete"
    OBVIOUS
  <2>1. result = "Incomplete" /\ err' = "None" /\ next' = stop /\ received' = got
    BY <1>3, Zenon
  <2>2. Result(next, received)' = result
    BY <1>3, <2>1, Zenon DEF result, Result, Offset
  <2> QED BY <2>1, <2>2
<1>13. ended' => \/ err' # "None" /\ next' <= Len(stream) /\ ~Correct(stream[next'])
                 \/ err' = "None" /\ next' > 1 /\ stream[next' - 1].fatal
  <2>1. CASE result = "None"
    BY <1>2, <1>3, <1>6, <1>7, <2>1
  <2>2. CASE result \notin {"None", "Incomplete"}
    BY <1>2, <1>3, <1>6, <1>7, <2>2
  <2>3. CASE result = "Incomplete"
    BY <1>3, <2>3, Zenon
  <2> QED BY <2>1, <2>2, <2>3
<1>14. ended' \in BOOLEAN /\ received' \in Nat
  BY <1>2, <1>3
<1> QED BY <1>1, <1>3, <1>8, <1>9, <1>10, <1>11, <1>12, <1>13, <1>14, Zenon DEF FrameInv

(* The invariant says which messages were handled.                         *)
LEMMA FrameInvHandled == FrameInv => HandledOnLastByte /\ NoFalseAlarm
<1> SUFFICES ASSUME FrameInv PROVE HandledOnLastByte /\ NoFalseAlarm
  OBVIOUS
<1>1. /\ stream \in Streams /\ received \in Nat /\ next \in 1 .. Len(stream) + 1
      /\ handled = [i \in 1 .. next - 1 |-> i] /\ Taken(next - 1, received)
  BY DEF FrameInv
<1>2. Len(stream) \in Nat /\ DOMAIN stream = 1 .. Len(stream) /\ next \in Nat
  BY <1>1, OffsetFacts
<1>3. Len(handled) = next - 1 /\ \A i \in 1 .. next - 1 : handled[i] = i
  BY <1>1, <1>2
<1>4. Ascending(handled)
  BY <1>2, <1>3 DEF Ascending
<1>5. Elems(handled) = 1 .. next - 1
  BY <1>3 DEF Elems
<1> DEFINE Due(i) == /\ Offset(i + 1) <= received
                     /\ \A j \in 1 .. i : Correct(stream[j])
                     /\ \A j \in 1 .. i - 1 : ~stream[j].fatal
<1>6. ASSUME NEW i \in 1 .. next - 1 PROVE i \in 1 .. Len(stream) /\ Due(i)
  <2>1. i \in 1 .. Len(stream)
    BY <1>1, <1>2
  <2>2. \A j \in 1 .. i : j \in 1 .. next - 1
    BY <1>2
  <2>3. \A j \in 1 .. i - 1 : j \in 1 .. (next - 1) - 1
    BY <1>2
  <2> QED BY <1>1, <2>1, <2>2, <2>3, Zenon DEF Taken
<1>7. ASSUME NEW i \in 1 .. Len(stream), Due(i), i \notin 1 .. next - 1 PROVE FALSE
  <2>1. /\ next \in 1 .. i /\ next \in 1 .. Len(stream) /\ next + 1 \in 1 .. Len(stream) + 1
        /\ i + 1 \in 1 .. Len(stream) + 1 /\ next + 1 <= i + 1
    BY <1>1, <1>2, <1>7
  <2>2. Correct(stream[next])
    BY <1>7, <2>1, Zenon
  <2>3. Offset(next + 1) <= received
    <3>1. Offset(next + 1) <= Offset(i + 1) /\ Offset(next + 1) \in Nat /\ Offset(i + 1) \in Nat
      BY <1>1, <2>1, OffsetFacts
    <3> QED BY <1>1, <1>7, <3>1
  <2>4. Result(next, received) = "None"
    BY <1>1, <2>1, <2>2, <2>3, ResultFacts
  <2>5. next > 1 => ~stream[next - 1].fatal
    <3> SUFFICES ASSUME next > 1 PROVE ~stream[next - 1].fatal
      OBVIOUS
    <3>1. next - 1 \in 1 .. i - 1
      BY <1>2, <2>1
    <3> QED BY <1>7, <3>1, Zenon
  <2> QED BY <2>2, <2>4, <2>5 DEF FrameInv
<1>8. HandledOnLastByte
  <2>1. {i \in DOMAIN stream : Due(i)} = 1 .. next - 1
    <3> HIDE DEF Due
    <3> QED BY <1>2, <1>6, <1>7, Zenon
  <2> QED BY <1>4, <1>5, <2>1, Zenon DEF HandledOnLastByte
<1>9. NoFalseAlarm
  BY DEF FrameInv, NoFalseAlarm
<1> QED BY <1>8, <1>9

(* Every call of on_bytes keeps the invariant, from the first on.          *)
LEMMA FrameInvariant == FramingSpec => []FrameInv
<1>1. FramingInit => FrameInv
  <2> SUFFICES ASSUME FramingInit PROVE FrameInv
    OBVIOUS
  <2>1. /\ stream \in Streams /\ received = 0 /\ next = 1 /\ handled = <<>> /\ err = "None"
        /\ ended = FALSE
    BY DEF FramingInit
  <2>2. Len(stream) \in Nat
    BY <2>1, OffsetFacts
  <2>3. next \in 1 .. Len(stream) + 1 /\ received \in Nat
    BY <2>1, <2>2
  <2>4. Result(next, received) = "Incomplete"
    BY <2>1, <2>3, ResultFacts
  <2>5. Taken(next - 1, received)
    BY <2>1 DEF Taken
  <2>6. handled = [i \in 1 .. next - 1 |-> i]
    BY <2>1
  <2>7. ~(next > 1)
    BY <2>1
  <2> QED BY <2>1, <2>3, <2>4, <2>5, <2>6, <2>7, Zenon DEF FrameInv
<1>2. FrameInv /\ [FramingNext]_framingVars => FrameInv'
  <2> SUFFICES ASSUME FrameInv, [FramingNext]_framingVars PROVE FrameInv'
    OBVIOUS
  <2>1. CASE FramingNext
    <3>1. PICK n \in 1 .. StreamSize : OnBytes(n)
      BY <2>1 DEF FramingNext
    <3>2. n \in Nat
      OBVIOUS
    <3> QED BY <3>1, <3>2, OnBytesKeeps
  <2>2. CASE UNCHANGED framingVars
    BY <2>2, Zenon DEF framingVars, FrameInv, Taken, Offset, Result
  <2> QED BY <2>1, <2>2
<1> QED BY <1>1, <1>2, PTL DEF FramingSpec

(* However a stream is cut into calls of on_bytes, for every stream: each  *)
(* message is handled by the call that brings its last byte.               *)
THEOREM HandledInTime == FramingSpec => []HandledOnLastByte
  BY FrameInvariant, FrameInvHandled, PTL

(* However a stream is cut: no part of a correct message is taken for an   *)
(* error.                                                                  *)
THEOREM AlarmsAreTrue == FramingSpec => []NoFalseAlarm
  BY FrameInvariant, FrameInvHandled, PTL

-----------------------------------------------------------------------------
(* The benchmark's closed loop.                                            *)

(* All that is on its way, in the order in which it will arrive: reports   *)
(* first, then the orders that have no report yet.                         *)
Line == <<popped>> \o (buf \o (toClient \o (pending \o (batch \o toServer))))

Steps(s) == \A i \in 1 .. Len(s) - 1 : s[i + 1] - s[i] \in {0, 1}

(* From the report taken last to the order sent last, no order is missing. *)
BenchTypes ==
  /\ popped \in Nat /\ sent \in Nat /\ buf \in Seq(Nat) /\ toClient \in Seq(Nat)
  /\ pending \in Seq(Nat) /\ batch \in Seq(Nat) /\ toServer \in Seq(Nat)

BenchInv == BenchTypes /\ Steps(Line) /\ Line[Len(Line)] = sent

(* A concatenation goes by steps of 0 and 1 if both parts do and the step  *)
(* between them is one.                                                    *)
LEMMA StepsConcat ==
  ASSUME NEW s \in Seq(Nat), NEW t \in Seq(Nat)
  PROVE  Steps(s \o t) <=> /\ Steps(s) /\ Steps(t)
                           /\ s # <<>> /\ t # <<>> => t[1] - s[Len(s)] \in {0, 1}
<1>1. ASSUME Steps(s \o t) PROVE Steps(s)
  <2> SUFFICES ASSUME NEW i \in 1 .. Len(s) - 1 PROVE s[i + 1] - s[i] \in {0, 1}
    BY DEF Steps
  <2>1. i \in 1 .. Len(s \o t) - 1
    OBVIOUS
  <2>2. (s \o t)[i] = s[i] /\ (s \o t)[i + 1] = s[i + 1]
    OBVIOUS
  <2> QED BY <1>1, <2>1, <2>2, Zenon DEF Steps
<1>2. ASSUME Steps(s \o t) PROVE Steps(t)
  <2> SUFFICES ASSUME NEW i \in 1 .. Len(t) - 1 PROVE t[i + 1] - t[i] \in {0, 1}
    BY DEF Steps
  <2>1. Len(s) + i \in 1 .. Len(s \o t) - 1
    OBVIOUS
  <2>2. (s \o t)[Len(s) + i] = t[i] /\ (s \o t)[Len(s) + i + 1] = t[i + 1]
    OBVIOUS
  <2> QED BY <1>2, <2>1, <2>2, Zenon DEF Steps
<1>3. ASSUME Steps(s \o t), s # <<>>, t # <<>> PROVE t[1] - s[Len(s)] \in {0, 1}
  <2>1. Len(s) \in 1 .. Len(s \o t) - 1
    BY <1>3
  <2>2. (s \o t)[Len(s)] = s[Len(s)] /\ (s \o t)[Len(s) + 1] = t[1]
    BY <1>3
  <2> QED BY <1>3, <2>1, <2>2, Zenon DEF Steps
<1>4. ASSUME Steps(s), Steps(t), s # <<>> /\ t # <<>> => t[1] - s[Len(s)] \in {0, 1}
      PROVE  Steps(s \o t)
  <2> SUFFICES ASSUME NEW i \in 1 .. Len(s \o t) - 1
               PROVE  (s \o t)[i + 1] - (s \o t)[i] \in {0, 1}
    BY DEF Steps
  <2>1. CASE i < Len(s)
    BY <1>4, <2>1 DEF Steps
  <2>2. CASE i = Len(s)
    BY <1>4, <2>2
  <2>3. CASE i > Len(s)
    <3>1. i - Len(s) \in 1 .. Len(t) - 1
      BY <2>3
    <3>2. (s \o t)[i] = t[i - Len(s)] /\ (s \o t)[i + 1] = t[i - Len(s) + 1]
      BY <2>3
    <3> QED BY <1>4, <3>1, <3>2 DEF Steps
  <2> QED BY <2>1, <2>2, <2>3
<1> QED BY <1>1, <1>2, <1>3, <1>4

(* Line is a list that is not empty, and so is what follows popped in it.  *)
LEMMA LineType ==
  ASSUME BenchTypes
  PROVE  /\ batch \o toServer \in Seq(Nat)
         /\ pending \o (batch \o toServer) \in Seq(Nat)
         /\ toClient \o (pending \o (batch \o toServer)) \in Seq(Nat)
         /\ buf \o (toClient \o (pending \o (batch \o toServer))) \in Seq(Nat)
         /\ <<popped>> \in Seq(Nat) /\ Line \in Seq(Nat) /\ Line # <<>>
<1> USE DEF BenchTypes
<1>1. batch \o toServer \in Seq(Nat)
  OBVIOUS
<1>2. pending \o (batch \o toServer) \in Seq(Nat)
  BY <1>1
<1>3. toClient \o (pending \o (batch \o toServer)) \in Seq(Nat)
  BY <1>2
<1>4. buf \o (toClient \o (pending \o (batch \o toServer))) \in Seq(Nat)
  BY <1>3
<1>5. <<popped>> \in Seq(Nat)
  OBVIOUS
<1>6. Line \in Seq(Nat) /\ Line # <<>>
  BY <1>4, <1>5 DEF Line
<1> QED BY <1>1, <1>2, <1>3, <1>4, <1>5, <1>6

LEMMA LineList == BenchTypes => Line \in Seq(Nat) /\ Line # <<>>
  BY LineType

(* Every step of client and server keeps the types.                        *)
LEMMA BenchTypesNext ==
  ASSUME BenchTypes, [BenchNext]_benchVars
  PROVE  BenchTypes'
<1> USE DEF BenchTypes, clientVars, serverVars
<1>1. CASE SendOrder
  BY <1>1 DEF SendOrder
<1>2. CASE WaitPops
  BY <1>2, HeadAndTail DEF WaitPops
<1>3. CASE WaitReceives
  <2>1. PICK n \in 1 .. Len(toClient) : /\ buf' = SubSeq(toClient, 1, n)
                                       /\ toClient' = SubSeq(toClient, n + 1, Len(toClient))
    BY <1>3 DEF WaitReceives
  <2>2. n \in 0 .. Len(toClient)
    OBVIOUS
  <2>3. buf' \in Seq(Nat) /\ toClient' \in Seq(Nat)
    BY <2>1, <2>2, CutInTwo, Zenon
  <2> QED BY <1>3, <2>3 DEF WaitReceives
<1>4. CASE WaitFails
  BY <1>4 DEF WaitFails
<1>5. CASE Drain
  BY <1>5 DEF Drain
<1>6. CASE Recv
  <2>1. PICK n \in 1 .. ChunkSize : /\ n <= Len(toServer)
                                   /\ batch' = SubSeq(toServer, 1, n)
                                   /\ toServer' = SubSeq(toServer, n + 1, Len(toServer))
    BY <1>6 DEF Recv
  <2>2. n \in 0 .. Len(toServer)
    BY <2>1
  <2>3. batch' \in Seq(Nat) /\ toServer' \in Seq(Nat)
    BY <2>1, <2>2, CutInTwo, Zenon
  <2> QED BY <1>6, <2>3 DEF Recv
<1>7. CASE Route
  <2>1. Head(batch) \in Nat /\ Tail(batch) \in Seq(Nat)
    BY <1>7, HeadAndTail DEF Route
  <2>2. PICK k \in 0 .. MaxTrades : pending' = [i \in 1 .. k + 1 |-> Head(batch)]
    BY <1>7 DEF Route
  <2>3. k + 1 \in Nat
    OBVIOUS
  <2>4. pending' \in Seq(Nat)
    BY <2>1, <2>2, <2>3
  <2> QED BY <1>7, <2>1, <2>4 DEF Route
<1>8. CASE Write
  BY <1>8, HeadAndTail DEF Write
<1>9. CASE UNCHANGED benchVars
  BY <1>9 DEF benchVars
<1> QED BY <1>1, <1>2, <1>3, <1>4, <1>5, <1>6, <1>7, <1>8, <1>9, Zenon
        DEF BenchNext, Client, Server

(* What was received or written is only moved from one place to the next.  *)
LEMMA LineMoves ==
  ASSUME BenchTypes, WaitReceives \/ WaitFails \/ Drain \/ Recv \/ Write \/ UNCHANGED benchVars
  PROVE  Line' = Line
<1> USE DEF clientVars, serverVars
<1>t. /\ buf \in Seq(Nat) /\ toClient \in Seq(Nat) /\ pending \in Seq(Nat)
      /\ batch \in Seq(Nat) /\ toServer \in Seq(Nat)
  BY DEF BenchTypes
<1> DEFINE Later == batch \o toServer
           Reports == pending \o Later
<1>l. Later \in Seq(Nat) /\ Reports \in Seq(Nat) /\ toClient \o Reports \in Seq(Nat)
  BY LineType
<1>1. CASE WaitReceives
  <2>1. PICK n \in 1 .. Len(toClient) : /\ buf' = SubSeq(toClient, 1, n)
                                       /\ toClient' = SubSeq(toClient, n + 1, Len(toClient))
    BY <1>1 DEF WaitReceives
  <2>2. n \in 0 .. Len(toClient)
    BY <1>t
  <2>3. buf' \in Seq(Nat) /\ toClient' \in Seq(Nat) /\ buf' \o toClient' = toClient
    BY <1>t, <2>1, <2>2, CutInTwo, Zenon
  <2>4. popped' = popped /\ Reports' = Reports
    BY <1>1 DEF WaitReceives
  <2> HIDE DEF Reports
  <2>5. Joins(buf', toClient', Reports)
    BY <1>l, <2>3, Associative, Zenon
  <2>6. buf \o (toClient \o Reports) = toClient \o Reports
    BY <1>1, <1>l, HeadAndTail, Zenon DEF WaitReceives
  <2> QED BY <2>3, <2>4, <2>5, <2>6, Zenon DEF Line, Reports, Joins
<1>2. CASE WaitFails
  BY <1>2 DEF WaitFails, Line
<1>3. CASE Drain
  <2>1. /\ buf' = buf \o toClient /\ toClient' = <<>>
        /\ popped' = popped /\ Reports' = Reports
    BY <1>3 DEF Drain
  <2> HIDE DEF Reports
  <2>2. toClient' \o Reports = Reports
    BY <1>l, <2>1, HeadAndTail, Zenon
  <2>3. Joins(buf, toClient, Reports)
    BY <1>t, <1>l, Associative, Zenon
  <2> QED BY <2>1, <2>2, <2>3, Zenon DEF Line, Reports, Joins
<1>4. CASE Recv
  <2>1. PICK n \in 1 .. ChunkSize : /\ n <= Len(toServer)
                                   /\ batch' = SubSeq(toServer, 1, n)
                                   /\ toServer' = SubSeq(toServer, n + 1, Len(toServer))
    BY <1>4 DEF Recv
  <2>2. n \in 0 .. Len(toServer)
    BY <1>t, <2>1
  <2>3. batch' \o toServer' = toServer
    BY <1>t, <2>1, <2>2, CutInTwo
  <2>4. batch \o toServer = toServer
    BY <1>4, <1>t, HeadAndTail, Zenon DEF Recv
  <2>5. popped' = popped /\ buf' = buf /\ toClient' = toClient /\ pending' = pending
    BY <1>4 DEF Recv
  <2> QED BY <2>3, <2>4, <2>5, Zenon DEF Line
<1>5. CASE Write
  <2> DEFINE h == <<Head(pending)>>
  <2>0. pending = h \o Tail(pending) /\ Head(pending) \in Nat /\ Tail(pending) \in Seq(Nat)
    BY <1>5, <1>t, HeadAndTail, Zenon DEF Write
  <2>1. /\ pending = h \o Tail(pending) /\ h \in Seq(Nat) /\ Tail(pending) \in Seq(Nat)
        /\ toClient' = toClient \o h
    BY <1>5, <1>t, <2>0 DEF Write
  <2>2. /\ pending' = Tail(pending) /\ Later' = Later
        /\ popped' = popped /\ buf' = buf
    BY <1>5 DEF Write
  <2> HIDE DEF h, Later
  <2>3. Joins(h, Tail(pending), Later)
    BY <1>l, <2>1, Associative, Zenon
  <2>4. Tail(pending) \o Later \in Seq(Nat)
    BY <1>l, <2>1
  <2>5. Joins(toClient, h, Tail(pending) \o Later)
    BY <1>t, <2>1, <2>4, Associative, Zenon
  <2> QED BY <2>1, <2>2, <2>3, <2>5, Zenon DEF Line, Later, Joins
<1>6. CASE UNCHANGED benchVars
  BY <1>6 DEF benchVars, Line
<1> QED BY <1>1, <1>2, <1>3, <1>4, <1>5, <1>6

(* Sending puts the next order at the end.                                 *)
LEMMA SendAppends ==
  ASSUME BenchTypes, SendOrder
  PROVE  Line' = Line \o <<sent + 1>>
<1>t. /\ buf \in Seq(Nat) /\ toClient \in Seq(Nat) /\ pending \in Seq(Nat)
      /\ batch \in Seq(Nat) /\ toServer \in Seq(Nat)
  BY DEF BenchTypes
<1> DEFINE z == <<sent + 1>>
           Later == batch \o toServer
           Reports == pending \o Later
           Here == toClient \o Reports
<1>1. /\ z \in Seq(Nat) /\ Later \in Seq(Nat) /\ Reports \in Seq(Nat) /\ Here \in Seq(Nat)
      /\ buf \o Here \in Seq(Nat) /\ <<popped>> \in Seq(Nat)
  <2>1. z \in Seq(Nat)
    BY DEF BenchTypes
  <2> QED BY <2>1, LineType
<1>2. /\ toServer' = toServer \o z /\ popped' = popped /\ buf' = buf
      /\ toClient' = toClient /\ pending' = pending /\ batch' = batch
  BY <1>t DEF SendOrder, serverVars
<1> HIDE DEF z, Later, Reports, Here
<1>3. /\ Joins(batch, toServer, z) /\ Joins(pending, Later, z) /\ Joins(toClient, Reports, z)
      /\ Joins(buf, Here, z) /\ Joins(<<popped>>, buf \o Here, z)
  BY <1>t, <1>1, Associative, Zenon
<1> QED BY <1>2, <1>3, Zenon DEF Line, z, Later, Reports, Here, Joins

(* The client takes the first element off.                                 *)
LEMMA PopDrops ==
  ASSUME BenchTypes, WaitPops
  PROVE  Line = <<popped>> \o Line'
<1> DEFINE R == toClient \o (pending \o (batch \o toServer))
           h == <<Head(buf)>>
<1>1. R \in Seq(Nat) /\ buf \in Seq(Nat)
  BY LineType DEF BenchTypes
<1>2. buf = h \o Tail(buf) /\ Head(buf) \in Nat /\ Tail(buf) \in Seq(Nat)
  BY <1>1, HeadAndTail, Zenon DEF WaitPops
<1>3. h \in Seq(Nat)
  BY <1>2
<1>4. popped' = Head(buf) /\ buf' = Tail(buf) /\ R' = R
  BY DEF WaitPops, serverVars
<1> HIDE DEF R
<1>5. Joins(h, Tail(buf), R)
  BY <1>1, <1>2, <1>3, Associative, Zenon DEF h
<1> QED BY <1>2, <1>4, <1>5, Zenon DEF Line, Joins, R

(* What the client and its socket hold can be split off.                   *)
LEMMA ClientFirst ==
  ASSUME BenchTypes, NEW X, X \in Seq(Nat)
  PROVE  <<popped>> \o (buf \o (toClient \o X)) = (<<popped>> \o (buf \o toClient)) \o X
<1>1. /\ <<popped>> \in Seq(Nat) /\ buf \in Seq(Nat) /\ toClient \in Seq(Nat)
      /\ buf \o toClient \in Seq(Nat)
  BY DEF BenchTypes
<1>2. Joins(buf, toClient, X) /\ Joins(<<popped>>, buf \o toClient, X)
  BY <1>1, Associative, Zenon
<1> QED BY <1>2, Zenon DEF Joins

(* The reports of an order repeat its number.                              *)
LEMMA RouteRepeats ==
  ASSUME BenchTypes, Route
  PROVE  \E P, c, Y \in Seq(Nat), h \in Nat :
           /\ Line = P \o (<<h>> \o Y) /\ Line' = P \o (c \o Y)
           /\ c # <<>> /\ \A i \in 1 .. Len(c) : c[i] = h
<1> DEFINE P == <<popped>> \o (buf \o toClient)
           Y == Tail(batch) \o toServer
<1>1. /\ batch \in Seq(Nat) /\ toServer \in Seq(Nat) /\ batch # <<>> /\ pending = <<>>
      /\ batch' = Tail(batch) /\ toServer' = toServer
      /\ popped' = popped /\ buf' = buf /\ toClient' = toClient
  BY DEF BenchTypes, Route, clientVars
<1>2. batch = <<Head(batch)>> \o Tail(batch) /\ Head(batch) \in Nat /\ Tail(batch) \in Seq(Nat)
  BY <1>1, HeadAndTail, Zenon
<1>3. <<Head(batch)>> \in Seq(Nat) /\ Y \in Seq(Nat)
  BY <1>1, <1>2
<1>4. P \in Seq(Nat)
  BY DEF BenchTypes
<1>5. PICK k \in 0 .. MaxTrades : pending' = [i \in 1 .. k + 1 |-> Head(batch)]
  BY DEF Route
<1>6. /\ pending' \in Seq(Nat) /\ pending' # <<>>
      /\ \A i \in 1 .. Len(pending') : pending'[i] = Head(batch)
  <2>1. k + 1 \in Nat /\ k + 1 > 0
    OBVIOUS
  <2> QED BY <1>2, <1>5, <2>1
<1>7. batch \o toServer \in Seq(Nat)
  BY LineType
<1>8. /\ pending \o (batch \o toServer) = batch \o toServer
      /\ batch \o toServer = <<Head(batch)>> \o Y
  <2>1. pending \o (batch \o toServer) = batch \o toServer
    BY <1>1, <1>7, HeadAndTail, Zenon
  <2>2. Joins(<<Head(batch)>>, Tail(batch), toServer)
    BY <1>1, <1>2, <1>3, Associative, Zenon
  <2> QED BY <1>2, <2>1, <2>2, Zenon DEF Joins
<1> HIDE DEF Y
<1>9. <<Head(batch)>> \o Y \in Seq(Nat) /\ pending' \o Y \in Seq(Nat)
  BY <1>3, <1>6
<1>10. Line = P \o (<<Head(batch)>> \o Y)
  BY <1>8, <1>9, ClientFirst, Zenon DEF Line
<1>11. Line' = P \o (pending' \o Y)
  <2>1. Line' = <<popped>> \o (buf \o (toClient \o (pending' \o Y)))
    BY <1>1, Zenon DEF Line, Y
  <2> QED BY <1>9, <2>1, ClientFirst, Zenon
<1> HIDE DEF P
<1> QED BY <1>2, <1>3, <1>4, <1>6, <1>10, <1>11, Zenon

(* Every step of client and server keeps the line without gaps.            *)
LEMMA BenchInvNext ==
  ASSUME BenchInv, [BenchNext]_benchVars
  PROVE  BenchInv'
<1>1. BenchTypes /\ BenchTypes' /\ Steps(Line) /\ Line[Len(Line)] = sent /\ sent \in Nat
  BY BenchTypesNext DEF BenchInv, BenchTypes
<1>2. Line \in Seq(Nat) /\ Line # <<>>
  BY <1>1, LineType
<1>3. Line' \in Seq(Nat) /\ Line' # <<>>
  <2>1. (Line \in Seq(Nat) /\ Line # <<>>)'
    BY <1>1, LineList, PTL
  <2> QED BY <2>1
<1> HIDE DEF Line
<1>4. CASE WaitReceives \/ WaitFails \/ Drain \/ Recv \/ Write \/ UNCHANGED benchVars
  <2>1. Line' = Line
    BY <1>1, <1>4, LineMoves
  <2>2. sent' = sent
    BY <1>4 DEF WaitReceives, WaitFails, Drain, Recv, Write, clientVars, benchVars
  <2> QED BY <1>1, <2>1, <2>2, Zenon DEF BenchInv
<1>5. CASE SendOrder
  <2> DEFINE z == <<sent + 1>>
  <2>1. Line' = Line \o z /\ sent' = sent + 1
    BY <1>1, <1>5, SendAppends DEF SendOrder
  <2>2. z \in Seq(Nat) /\ z # <<>> /\ Steps(z) /\ z[1] = sent + 1 /\ z[Len(z)] = sent + 1
    BY <1>1 DEF Steps
  <2> HIDE DEF z
  <2>3. z[1] - Line[Len(Line)] \in {0, 1}
    BY <1>1, <2>2
  <2>4. Steps(Line \o z)
    BY <1>1, <1>2, <2>2, <2>3, StepsConcat
  <2>5. (Line \o z)[Len(Line \o z)] = z[Len(z)]
    BY <1>2, <2>2, EndsOfConcat
  <2> QED BY <1>1, <2>1, <2>2, <2>4, <2>5 DEF BenchInv
<1>6. CASE WaitPops
  <2>1. Line = <<popped>> \o Line' /\ <<popped>> \in Seq(Nat) /\ sent' = sent
    BY <1>1, <1>6, PopDrops, LineType DEF WaitPops
  <2>2. Steps(Line')
    BY <1>1, <1>3, <2>1, StepsConcat, Zenon
  <2>3. Line[Len(Line)] = Line'[Len(Line')]
    BY <1>3, <2>1, EndsOfConcat
  <2> QED BY <1>1, <2>1, <2>2, <2>3 DEF BenchInv
<1>7. CASE Route
  <2>1. PICK P, c, Y \in Seq(Nat), h \in Nat :
          /\ Line = P \o (<<h>> \o Y) /\ Line' = P \o (c \o Y)
          /\ c # <<>> /\ \A i \in 1 .. Len(c) : c[i] = h
    BY <1>1, <1>7, RouteRepeats, Zenon
  <2> DEFINE H == <<h>>
  <2>2. H \in Seq(Nat) /\ H # <<>> /\ H[1] = h /\ H[Len(H)] = h
    OBVIOUS
  <2>3. Steps(c) /\ c[1] = h /\ c[Len(c)] = h
    <3>1. 1 \in 1 .. Len(c) /\ Len(c) \in 1 .. Len(c)
      BY <2>1
    <3>2. ASSUME NEW i \in 1 .. Len(c) - 1 PROVE c[i + 1] - c[i] \in {0, 1}
      <4>1. i \in 1 .. Len(c) /\ i + 1 \in 1 .. Len(c)
        OBVIOUS
      <4>2. c[i] = h /\ c[i + 1] = h
        BY <2>1, <4>1, Zenon
      <4> QED BY <4>2
    <3>3. Steps(c)
      BY <3>2, Zenon DEF Steps
    <3> QED BY <2>1, <3>1, <3>3, Zenon
  <2>4. Line = P \o (H \o Y)
    BY <2>1
  <2> HIDE DEF H
  <2>5. /\ H \o Y \in Seq(Nat) /\ c \o Y \in Seq(Nat)
        /\ H \o Y # <<>> /\ c \o Y # <<>>
    BY <2>1, <2>2
  <2>6. (H \o Y)[1] = h /\ (c \o Y)[1] = h
    BY <2>1, <2>2, <2>3, EndsOfConcat
  <2>7. (c \o Y)[Len(c \o Y)] = (H \o Y)[Len(H \o Y)]
    <3>1. CASE Y = <<>>
      <4>1. c \o Y = c /\ H \o Y = H
        BY <2>2, <3>1, HeadAndTail, Zenon
      <4> QED BY <2>2, <2>3, <4>1, Zenon
    <3>2. CASE Y # <<>>
      BY <2>2, <3>2, EndsOfConcat
    <3> QED BY <3>1, <3>2, Zenon
  <2>8. /\ Steps(P) /\ Steps(H \o Y)
        /\ P # <<>> => h - P[Len(P)] \in {0, 1}
    BY <1>1, <2>4, <2>5, <2>6, StepsConcat, Zenon
  <2>9. Steps(Y) /\ (Y # <<>> => Y[1] - h \in {0, 1})
    BY <2>2, <2>8, StepsConcat, Zenon
  <2>10. Steps(c \o Y)
    BY <2>1, <2>3, <2>9, StepsConcat
  <2>11. Steps(Line')
    BY <2>1, <2>5, <2>6, <2>8, <2>10, StepsConcat, Zenon
  <2>12. Line'[Len(Line')] = Line[Len(Line)]
    <3> DEFINE s == H \o Y
               t == c \o Y
    <3>1. s \in Seq(Nat) /\ s # <<>> /\ t \in Seq(Nat) /\ t # <<>>
      BY <2>5
    <3> HIDE DEF s, t
    <3>2. (P \o s)[Len(P \o s)] = s[Len(s)] /\ (P \o t)[Len(P \o t)] = t[Len(t)]
      BY <3>1, EndsOfConcat
    <3> QED BY <2>1, <2>4, <2>7, <3>2, Zenon DEF s, t
  <2>13. sent' = sent
    BY <1>7 DEF Route, clientVars
  <2> QED BY <1>1, <2>11, <2>12, <2>13 DEF BenchInv
<1> QED BY <1>4, <1>5, <1>6, <1>7 DEF BenchNext, Client, Server

(* The reports are what the line begins with.                              *)
LEMMA ReportsFirst == BenchInv => NoReportLost
<1> SUFFICES ASSUME BenchInv PROVE NoReportLost
  OBVIOUS
<1> DEFINE A == <<popped>> \o buf
           B == A \o toClient
           C == B \o pending
           D == batch \o toServer
<1>1. /\ <<popped>> \in Seq(Nat) /\ buf \in Seq(Nat) /\ toClient \in Seq(Nat)
      /\ pending \in Seq(Nat) /\ A \in Seq(Nat) /\ B \in Seq(Nat) /\ C \in Seq(Nat)
      /\ D \in Seq(Nat) /\ pending \o D \in Seq(Nat) /\ toClient \o (pending \o D) \in Seq(Nat)
  <2>1. /\ <<popped>> \in Seq(Nat) /\ buf \in Seq(Nat) /\ toClient \in Seq(Nat)
        /\ pending \in Seq(Nat)
    BY DEF BenchInv, BenchTypes
  <2>2. /\ D \in Seq(Nat) /\ pending \o D \in Seq(Nat)
        /\ toClient \o (pending \o D) \in Seq(Nat)
    BY LineType DEF BenchInv
  <2>3. A \in Seq(Nat)
    BY <2>1
  <2>4. B \in Seq(Nat)
    BY <2>1, <2>3
  <2>5. C \in Seq(Nat)
    BY <2>1, <2>4
  <2> QED BY <2>1, <2>2, <2>3, <2>4, <2>5
<1> HIDE DEF A, B, C, D
<1>2. /\ Joins(B, pending, D) /\ Joins(A, toClient, pending \o D)
      /\ Joins(<<popped>>, buf, toClient \o (pending \o D))
  BY <1>1, Associative, Zenon
<1>3. Line = C \o D
  BY <1>2, Zenon DEF Joins, Line, A, B, C, D
<1>4. Steps(C)
  BY <1>1, <1>3, StepsConcat DEF BenchInv
<1> QED BY <1>4, Zenon DEF Steps, C, B, A, NoReportLost

(* For any number of orders, of Trades and any sizes of the sockets: the   *)
(* benchmark's client takes the reports in the order of the orders, and    *)
(* passes over those of none.                                              *)
THEOREM ReportsInOrder == BenchSpec => []NoReportLost
<1>1. BenchInit => BenchInv
  <2> SUFFICES ASSUME BenchInit PROVE BenchInv
    OBVIOUS
  <2>1. BenchTypes
    BY DEF BenchInit, BenchTypes
  <2>2. Line = <<0>>
    <3>1. <<0>> \in Seq(Nat) /\ <<>> \in Seq(Nat)
      OBVIOUS
    <3>2. <<>> \o <<>> = <<>> /\ <<0>> \o <<>> = <<0>>
      BY <3>1, HeadAndTail, Zenon
    <3> QED BY <3>2, Zenon DEF Line, BenchInit
  <2> QED BY <2>1, <2>2 DEF BenchInv, Steps, BenchInit
<1> QED BY <1>1, BenchInvNext, ReportsFirst, PTL DEF BenchSpec

=============================================================================
