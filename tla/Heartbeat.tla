----------------------------- MODULE Heartbeat ------------------------------
(***************************************************************************)
(* What the timers of fix::Session promise: Session::tick and the stamps   *)
(* that on_bytes, handle_message and build_message keep for it.  Sequence  *)
(* numbers and message contents are left to module Session, which          *)
(* implements this one.                                                    *)
(*                                                                         *)
(* A time stamp is kept as its age in seconds, now - stamp, up to Cap.     *)
(* The session thread polls with a 250ms cap and ticks on every turn, so   *)
(* time does not advance twice without a Tick in between: due says that    *)
(* one is to come.                                                         *)
(***************************************************************************)
EXTENDS Integers

CONSTANT HeartBtInt   \* SessionConfig::heartbeat_secs; 0 switches timers off

ASSUME HeartBtAssumption == HeartBtInt \in Nat

VARIABLES
  state,        \* state_
  armed,        \* timers_armed_
  outstanding,  \* test_request_outstanding_
  sinceIn,      \* age of last_inbound_
  sinceOut,     \* age of last_outbound_
  sinceTest,    \* age of test_request_at_
  due,          \* a tick is due in this second
  closed,       \* the transport was told to disconnect
  alive         \* the peer still sends

timers == <<armed, outstanding, sinceIn, sinceOut, sinceTest>>
vars == <<state, timers, due, closed, alive>>

(* hb + hb / 2, with the integer division of std::chrono::seconds.         *)
Window == HeartBtInt + HeartBtInt \div 2

Cap == 2 * Window + 1

Age == 0 .. Cap

Older(age) == IF age < Cap THEN age + 1 ELSE Cap

States == {"Disconnected", "LogonSent", "LoggedIn", "LogoutSent"}

-----------------------------------------------------------------------------
Init == /\ state = "Disconnected"
        /\ armed = FALSE /\ outstanding = FALSE
        /\ sinceIn = Cap /\ sinceOut = Cap /\ sinceTest = Cap
        /\ due = FALSE /\ closed = FALSE /\ alive = TRUE

(* initiate_logon, the first call of an active side.                       *)
InitiateLogon ==
  /\ ~closed /\ state = "Disconnected"
  /\ state' = "LogonSent"
  /\ sinceOut' = 0
  /\ UNCHANGED <<armed, outstanding, sinceIn, sinceTest, due, closed, alive>>

(* An inbound message in state Disconnected: a Logon arms the timers, and  *)
(* is accepted unless it names another target; anything else is fatal.     *)
Admission(ok) ==
  /\ ~closed /\ alive /\ state = "Disconnected"
  /\ sinceIn' = 0 /\ sinceOut' = 0
  /\ outstanding' = FALSE /\ armed' = TRUE
  /\ state' = IF ok THEN "LoggedIn" ELSE state
  /\ closed' = ~ok
  /\ UNCHANGED <<sinceTest, due, alive>>

NotALogon ==
  /\ ~closed /\ alive /\ state = "Disconnected"
  /\ sinceIn' = 0 /\ outstanding' = FALSE
  /\ closed' = TRUE
  /\ UNCHANGED <<state, armed, sinceOut, sinceTest, due, alive>>

(* Slip: a message does not answer the TestRequest.                        *)
SlipUnanswered(answered) ==
  /\ ~closed /\ alive /\ state # "Disconnected"
  /\ sinceIn' = 0
  /\ sinceOut' = IF answered THEN 0 ELSE sinceOut
  /\ UNCHANGED <<state, armed, outstanding, sinceTest, due, closed, alive>>

(* Any other message that parses, with or without an answer.               *)
Inbound(answered) ==
  /\ ~closed /\ alive /\ state # "Disconnected"
  /\ sinceIn' = 0 /\ outstanding' = FALSE
  /\ sinceOut' = IF answered THEN 0 ELSE sinceOut
  /\ UNCHANGED <<state, armed, sinceTest, due, closed, alive>>

(* A message too low in sequence, or a Logout, answered by a Logout unless *)
(* one was sent before.                                                    *)
InboundFatal(after, answered) ==
  /\ ~closed /\ alive /\ state # "Disconnected"
  /\ sinceIn' = 0 /\ outstanding' = FALSE
  /\ sinceOut' = IF answered THEN 0 ELSE sinceOut
  /\ state' = after
  /\ closed' = TRUE
  /\ UNCHANGED <<armed, sinceTest, due, alive>>

(* Bytes that do not parse: no stamp of last_inbound_.                     *)
Malformed ==
  /\ ~closed /\ alive
  /\ sinceOut' = 0
  /\ state' = "LogoutSent" /\ closed' = TRUE
  /\ UNCHANGED <<armed, outstanding, sinceIn, sinceTest, due, alive>>

(* send_logout, called by the transport: LogoutSent, the socket stays open *)
(* for the answer.                                                         *)
SendLogout ==
  /\ ~closed
  /\ state' = "LogoutSent" /\ sinceOut' = 0
  /\ UNCHANGED <<armed, outstanding, sinceIn, sinceTest, due, closed, alive>>

(* Any message the application sends: an ExecutionReport.                  *)
Send == /\ sinceOut' = 0
        /\ UNCHANGED <<state, armed, outstanding, sinceIn, sinceTest, due, closed, alive>>

Ticking == state = "LoggedIn" /\ HeartBtInt > 0 /\ armed

TestDue == ~outstanding /\ sinceIn >= Window

(* Slip: one second too many.                                              *)
SlipLateTimeout == outstanding /\ sinceTest > Window

TimedOut == outstanding /\ sinceTest >= Window

(* Slip: one second too many.                                              *)
SlipLateBeat == sinceOut > HeartBtInt

BeatDue == sinceOut >= HeartBtInt

(* Slip: test_request_at_ is set to the deadline.                          *)
SlipDeadline ==
  /\ Ticking /\ TestDue
  /\ sinceOut' = 0 /\ sinceTest' = -Window /\ outstanding' = TRUE
  /\ UNCHANGED <<state, armed, sinceIn, closed>>

TickTest ==
  /\ Ticking /\ TestDue
  /\ sinceOut' = 0 /\ sinceTest' = 0 /\ outstanding' = TRUE
  /\ UNCHANGED <<state, armed, sinceIn, closed>>

TickTimeout ==
  /\ Ticking /\ TimedOut
  /\ state' = "LogoutSent" /\ closed' = TRUE
  /\ sinceOut' = 0 /\ outstanding' = FALSE
  /\ UNCHANGED <<armed, sinceIn, sinceTest>>

TickBeat ==
  /\ Ticking /\ ~TestDue /\ ~TimedOut /\ BeatDue
  /\ sinceOut' = 0
  /\ UNCHANGED <<state, armed, outstanding, sinceIn, sinceTest, closed>>

TickIdle ==
  /\ Ticking => ~TestDue /\ ~TimedOut /\ ~BeatDue
  /\ UNCHANGED <<state, timers, closed>>

(* Slip: no cap on poll, so that only a received chunk is followed by tick. *)
SlipNoPollCap == /\ alive
                 /\ TickTest \/ TickTimeout \/ TickBeat \/ TickIdle
                 /\ due' = FALSE
                 /\ UNCHANGED alive

(* tick(now): the rules in order, at most one of them.  The transport also *)
(* calls it after an on_bytes that told it to disconnect.                  *)
Tick == /\ TickTest \/ TickTimeout \/ TickBeat \/ TickIdle
        /\ due' = FALSE
        /\ UNCHANGED alive

(* A second passes.                                                        *)
Advance ==
  /\ ~closed /\ ~due
  /\ HeartBtInt > 0
  /\ sinceIn' = Older(sinceIn)
  /\ sinceOut' = Older(sinceOut)
  /\ sinceTest' = Older(sinceTest)
  /\ due' = TRUE
  /\ UNCHANGED <<state, armed, outstanding, closed, alive>>

(* The peer crashes, or hangs: it sends nothing any more.                  *)
PeerDies == /\ alive /\ alive' = FALSE
            /\ UNCHANGED <<state, timers, due, closed>>

(* The socket is closed, by the transport or by the peer; the next         *)
(* connection is served by a new Session.                                  *)
Reconnect == /\ state' = "Disconnected"
             /\ armed' = FALSE /\ outstanding' = FALSE
             /\ sinceIn' = Cap /\ sinceOut' = Cap /\ sinceTest' = Cap
             /\ due' = FALSE /\ closed' = FALSE /\ alive' = TRUE

Receive == \/ \E ok \in BOOLEAN : Admission(ok)
           \/ NotALogon
           \/ \E answered \in BOOLEAN : Inbound(answered)
           \/ \E after \in {"LogoutSent", "Disconnected"}, answered \in BOOLEAN :
                InboundFatal(after, answered)
           \/ Malformed

Next == \/ InitiateLogon \/ SendLogout \/ Receive \/ Send \/ Tick \/ Advance
        \/ PeerDies \/ Reconnect

Spec == Init /\ [][Next]_vars

(* The clock runs, and the poll loop keeps calling tick.                   *)
Fairness == WF_vars(Advance) /\ WF_vars(Tick)

FairSpec == Spec /\ Fairness

-----------------------------------------------------------------------------
TypeOK == /\ state \in States
          /\ armed \in BOOLEAN /\ outstanding \in BOOLEAN
          /\ sinceIn \in Age /\ sinceOut \in Age /\ sinceTest \in Age
          /\ due \in BOOLEAN /\ closed \in BOOLEAN /\ alive \in BOOLEAN

LoggedOn == state = "LoggedIn" /\ ~closed /\ HeartBtInt > 0

(* Rule 3 of tick: while logged in, the peer never waits longer than       *)
(* HeartBtInt for a sign of life, whichever of the three rules, replies or *)
(* reports comes first.                                                    *)
HeartbeatPunctual ==
  LoggedOn => /\ sinceOut <= HeartBtInt
              /\ ~due => sinceOut < HeartBtInt

(* Rules 1 and 2 together: no session stays logged in for more than twice  *)
(* the window without hearing from the peer.                               *)
DeadPeerBound ==
  LoggedOn => /\ sinceIn <= 2 * Window
              /\ ~due => sinceIn < 2 * Window

(* The converse: tick disconnects only a peer that was silent for the      *)
(* whole of both windows, in particular one that never answered a          *)
(* TestRequest although it had a full window to do so.                     *)
PatientTimeout ==
  [][ TickTimeout => sinceIn >= 2 * Window /\ sinceTest >= Window ]_vars

(* "The peer is presumed gone": no session stays logged in with a peer     *)
(* that has died.                                                          *)
SilentPeerDropped ==
  HeartBtInt > 0 => (state = "LoggedIn" /\ ~alive ~> state # "LoggedIn")

=============================================================================
