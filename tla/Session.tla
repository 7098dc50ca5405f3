------------------------------ MODULE Session -------------------------------
(***************************************************************************)
(* fix::Session: the FIX 4.4 session state machine, under the calls the    *)
(* transport makes.  One action per message that on_bytes takes from its   *)
(* buffer, one per other call.  How bytes become messages is left to the   *)
(* parser; a message is its type and the fields the session reads.         *)
(*                                                                         *)
(* TcpServer::session_loop calls on_bytes with a chunk, which may hold any *)
(* number of messages, then tick, and then routes the application messages *)
(* of the chunk and sends their reports: phase keeps that order.           *)
(***************************************************************************)
EXTENDS Integers, Sequences, FiniteSetsExt, Lists

CONSTANTS
  HeartBtInt,     \* SessionConfig::heartbeat_secs
  HistorySize,    \* SessionConfig::outbound_history_size
  ResetOnLogon,   \* SessionConfig::reset_on_logon
  ActiveSide,     \* the transport calls initiate_logon and send_logout
  SeqWord,        \* SeqNum is computed modulo SeqWord
  PeerSeqs,       \* the MsgSeqNums of the peer's messages; 0 if tag 34 is absent
  PeerRanges,     \* the <<BeginSeqNo, EndSeqNo>> of the peer's ResendRequests
  MaxOut          \* bound: with out_seq_ there, only ticks build messages

ASSUME SessionAssumption ==
  /\ HeartBtInt \in Nat /\ HistorySize \in Nat
  /\ ResetOnLogon \in BOOLEAN /\ ActiveSide \in BOOLEAN
  /\ SeqWord \in Nat /\ MaxOut \in Nat /\ MaxOut + 1 < SeqWord
  /\ PeerSeqs \subseteq 0 .. SeqWord - 1
  /\ PeerRanges \subseteq (0 .. SeqWord - 1) \X (0 .. SeqWord - 1)

VARIABLES
  state,        \* state_
  inSeq,        \* in_seq_
  outSeq,       \* out_seq_
  history,      \* history_: the records build_message has retained
  armed,        \* timers_armed_
  outstanding,  \* test_request_outstanding_
  sinceIn,      \* age of last_inbound_
  sinceOut,     \* age of last_outbound_
  sinceTest,    \* age of test_request_at_
  out,          \* SessionStep::out of the last call
  closed,       \* SessionStep::disconnect of some call
  phase,        \* where the transport is in its loop
  due,          \* a tick is due in this second
  alive,        \* the peer still sends
  sent,         \* auxiliary: all that build_message built since the reset
  delivered     \* auxiliary: MsgSeqNums of SessionStep::app since the Logon

sequencing == <<inSeq, outSeq, history, sent, delivered>>
timers == <<armed, outstanding, sinceIn, sinceOut, sinceTest>>
vars == <<state, sequencing, timers, out, closed, phase, due, alive>>

(* The timers alone.                                                       *)
H == INSTANCE Heartbeat

NextSeq(seq) == (seq + 1) % SeqWord

(* The bound on calls, messages and time; a tick that is due has its way.  *)
Room == outSeq < MaxOut

-----------------------------------------------------------------------------
(* build_message                                                           *)

(* Slip: the ring holds one more.                                          *)
SlipRetainMore(records, r) ==
  LET longer == Append(records, r)
  IN  SubSeq(longer, 1 + Max({0, Len(longer) - (HistorySize + 1)}), Len(longer))

(* Slip: the record already carries PossDupFlag.                           *)
SlipRetainDup(records, r) ==
  LET longer == Append(records, [r EXCEPT !.dup = TRUE])
  IN  SubSeq(longer, 1 + Max({0, Len(longer) - HistorySize}), Len(longer))

(* retain_outbound: a deque with its front dropped while it is too long.   *)
Retain(records, r) ==
  IF HistorySize = 0 THEN records
  ELSE LET longer == Append(records, r)
       IN  SubSeq(longer, 1 + Max({0, Len(longer) - HistorySize}), Len(longer))

(* Numbers, retains and hands out a message of a type with one argument    *)
(* (RefSeqNum, BeginSeqNo or 0), from a given out_seq_ and history.        *)
BuildFrom(seq, records, log, type, arg) ==
  LET r == [seq |-> NextSeq(seq), type |-> type, arg |-> arg, dup |-> FALSE]
  IN  /\ outSeq' = r.seq
      /\ history' = Retain(records, r)
      /\ sent' = Append(log, r)
      /\ out' = <<r>>
      /\ sinceOut' = 0

Build(type, arg) == BuildFrom(outSeq, history, sent, type, arg)

Quiet == out' = <<>> /\ UNCHANGED <<outSeq, history, sent, sinceOut>>

-----------------------------------------------------------------------------
(* Slip: "NewSeqNo=oldest-retained", also past the end of the range.       *)
SlipFillPastEnd(begin, endSeqNo) ==
  LET end == IF endSeqNo = 0 THEN outSeq ELSE endSeqNo
      oldest == IF history = <<>> THEN NextSeq(outSeq) ELSE history[1].seq
      fill == [seq |-> begin, type |-> "SequenceReset", arg |-> oldest, dup |-> TRUE]
      wanted == Keep(history, {r \in Elems(history) : begin <= r.seq /\ r.seq <= end})
      replays == [i \in 1 .. Len(wanted) |-> [wanted[i] EXCEPT !.dup = TRUE]]
  IN  IF begin = 0 \/ begin > end \/ begin > outSeq THEN <<>>
      ELSE (IF begin < oldest THEN <<fill>> ELSE <<>>) \o replays

(* handle_resend_request: what it appends to SessionStep::out.             *)
ResendReply(begin, endSeqNo) ==
  LET end == IF endSeqNo = 0 THEN outSeq ELSE endSeqNo
      oldest == IF history = <<>> THEN NextSeq(outSeq) ELSE history[1].seq
      newSeqNo == Min({oldest, NextSeq(end)})
      gap == begin < oldest
      fill == [seq |-> begin, type |-> "SequenceReset", arg |-> newSeqNo, dup |-> TRUE]
      cursor == IF gap THEN newSeqNo ELSE begin
      wanted == Keep(history, {r \in Elems(history) : cursor <= r.seq /\ r.seq <= end})
      replays == [i \in 1 .. Len(wanted) |-> [wanted[i] EXCEPT !.dup = TRUE]]
  IN  IF begin = 0 \/ begin > end \/ begin > outSeq THEN <<>>
      ELSE (IF gap THEN <<fill>> ELSE <<>>) \o (IF cursor > end THEN <<>> ELSE replays)

-----------------------------------------------------------------------------
Init == /\ state = "Disconnected"
        /\ inSeq = 0 /\ outSeq = 0 /\ history = <<>> /\ sent = <<>> /\ delivered = <<>>
        /\ armed = FALSE /\ outstanding = FALSE
        /\ sinceIn = H!Cap /\ sinceOut = H!Cap /\ sinceTest = H!Cap
        /\ out = <<>> /\ closed = FALSE /\ phase = "reading"
        /\ due = FALSE /\ alive = TRUE

(* The calls of an active side.                                            *)
InitiateLogon ==
  /\ Room /\ ActiveSide /\ ~closed /\ phase = "reading" /\ state = "Disconnected"
  /\ state' = "LogonSent"
  /\ Build("Logon", 0)
  /\ UNCHANGED <<inSeq, delivered, armed, outstanding, sinceIn, sinceTest, closed, phase, due,
                 alive>>

SendLogout ==
  /\ Room /\ ActiveSide /\ ~closed /\ phase = "reading"
  /\ state' = "LogoutSent"
  /\ Build("Logout", 0)
  /\ UNCHANGED <<inSeq, delivered, armed, outstanding, sinceIn, sinceTest, closed, phase, due,
                 alive>>

(* Slip: a message does not answer the TestRequest.                        *)
SlipUnanswered ==
  /\ Room /\ ~closed /\ alive /\ phase # "reporting"
  /\ sinceIn' = 0
  /\ UNCHANGED <<outstanding, sinceTest, due, alive>>

(* on_bytes has parsed one more message of the chunk.                      *)
Parsed ==
  /\ Room /\ ~closed /\ alive /\ phase # "reporting"
  /\ sinceIn' = 0 /\ outstanding' = FALSE
  /\ UNCHANGED <<sinceTest, due, alive>>

(* Logon admission: the sequence numbers are reset and the timers armed    *)
(* before the TargetCompID is looked at; any MsgSeqNum is accepted.        *)
Logon(seq, targetOk) ==
  LET from == IF ResetOnLogon THEN <<0, 0, <<>>, <<>>>>
                              ELSE <<inSeq, outSeq, history, sent>>
  IN  /\ Parsed /\ state = "Disconnected"
      /\ armed' = TRUE /\ sinceOut' = 0
      /\ \/ /\ targetOk
            /\ inSeq' = seq /\ state' = "LoggedIn" /\ delivered' = <<>>
            /\ BuildFrom(from[2], from[3], from[4], "Logon", 0)
            /\ UNCHANGED closed
         \/ /\ ~targetOk
            /\ inSeq' = from[1] /\ outSeq' = from[2] /\ history' = from[3] /\ sent' = from[4]
            /\ out' = <<>> /\ closed' = TRUE
            /\ UNCHANGED <<state, delivered>>
      /\ UNCHANGED phase

(* Anything else before the Logon.                                         *)
NotALogon ==
  /\ Parsed /\ state = "Disconnected"
  /\ closed' = TRUE
  /\ Quiet
  /\ UNCHANGED <<state, inSeq, delivered, armed, phase>>

-----------------------------------------------------------------------------
(* After the Logon, whatever the type, the MsgSeqNum comes first.          *)

Expected == NextSeq(inSeq)

(* Slip: the numbers in between are given up.                              *)
SlipPassOver(seq) ==
  /\ Parsed /\ state # "Disconnected" /\ seq > Expected
  /\ inSeq' = seq
  /\ Build("ResendRequest", Expected)
  /\ UNCHANGED <<state, delivered, armed, closed, phase>>

(* Slip: nothing is asked for.                                             *)
SlipDrop(seq) ==
  /\ Parsed /\ state # "Disconnected" /\ seq > Expected
  /\ Quiet
  /\ UNCHANGED <<state, inSeq, delivered, armed, closed, phase>>

Gap(seq) ==
  /\ Parsed /\ state # "Disconnected" /\ seq > Expected
  /\ Build("ResendRequest", Expected)
  /\ UNCHANGED <<state, inSeq, delivered, armed, closed, phase>>

(* Slip: the Logout goes out, the connection stays.                        *)
SlipStaysOpen(seq) ==
  /\ Parsed /\ state # "Disconnected" /\ seq < Expected /\ seq # 0
  /\ state' = "LogoutSent"
  /\ Build("Logout", 0)
  /\ UNCHANGED <<inSeq, delivered, armed, closed, phase>>

TooLow(seq) ==
  /\ Parsed /\ state # "Disconnected" /\ seq < Expected /\ seq # 0
  /\ state' = "LogoutSent" /\ closed' = TRUE
  /\ Build("Logout", 0)
  /\ UNCHANGED <<inSeq, delivered, armed, phase>>

(* Slip: a low number is accepted.                                         *)
SlipAcceptLow(seq) ==
  /\ Parsed /\ state # "Disconnected" /\ seq <= Expected
  /\ inSeq' = seq
  /\ UNCHANGED armed

Accept(seq) ==
  /\ Parsed /\ state # "Disconnected" /\ (seq = Expected \/ (seq = 0 /\ seq < Expected))
  /\ inSeq' = seq
  /\ UNCHANGED armed

(* Heartbeat, Reject, SequenceReset.                                       *)
NoReply(seq) ==
  /\ Accept(seq) /\ Quiet
  /\ UNCHANGED <<state, delivered, closed, phase>>

TestRequest(seq) ==
  /\ Accept(seq) /\ Build("Heartbeat", 0)
  /\ UNCHANGED <<state, delivered, closed, phase>>

(* The replies do not go through build_message.                            *)
ResendRequest(seq, range) ==
  /\ Accept(seq)
  /\ out' = ResendReply(range[1], range[2])
  /\ UNCHANGED <<state, outSeq, history, sent, delivered, sinceOut, closed, phase>>

Logout(seq) ==
  /\ Accept(seq)
  /\ IF state = "LogoutSent" THEN Quiet ELSE Build("Logout", 0)
  /\ state' = "Disconnected" /\ closed' = TRUE
  /\ UNCHANGED <<delivered, phase>>

(* NewOrderSingle, OrderCancelRequest, OrderCancelReplace.                 *)
Application(seq) ==
  /\ Accept(seq) /\ Quiet
  /\ delivered' = Append(delivered, seq)
  /\ phase' = "dispatched"
  /\ UNCHANGED <<state, closed>>

(* Every other type.                                                       *)
Unsupported(seq) ==
  /\ Accept(seq) /\ Build("Reject", seq)
  /\ UNCHANGED <<state, delivered, closed, phase>>

(* A Logon in another state than Disconnected has no case of its own.      *)
LateLogon(seq) == Unsupported(seq)

(* on_bytes: the parser refuses the framing.                               *)
Malformed ==
  /\ Room /\ ~closed /\ alive /\ phase # "reporting"
  /\ state' = "LogoutSent" /\ closed' = TRUE
  /\ Build("Logout", 0)
  /\ UNCHANGED <<inSeq, delivered, armed, outstanding, sinceIn, sinceTest, phase, due, alive>>

Receive(seq) ==
  \/ \E ok \in BOOLEAN : Logon(seq, ok)
  \/ NotALogon \/ Gap(seq) \/ TooLow(seq)
  \/ NoReply(seq) \/ TestRequest(seq) \/ Logout(seq) \/ Application(seq)
  \/ Unsupported(seq)
  \/ \E range \in PeerRanges : ResendRequest(seq, range)

-----------------------------------------------------------------------------
(* tick                                                                    *)

Ticking == state = "LoggedIn" /\ HeartBtInt > 0 /\ armed
TestWindow == HeartBtInt + HeartBtInt \div 2
TestDue == Ticking /\ ~outstanding /\ sinceIn >= TestWindow
TimedOut == Ticking /\ outstanding /\ sinceTest >= TestWindow
BeatDue == Ticking /\ sinceOut >= HeartBtInt

TickTest ==
  /\ TestDue
  /\ Build("TestRequest", NextSeq(outSeq))
  /\ sinceTest' = 0 /\ outstanding' = TRUE
  /\ UNCHANGED <<state, closed>>

TickTimeout ==
  /\ TimedOut
  /\ Build("Logout", 0)
  /\ state' = "LogoutSent" /\ closed' = TRUE /\ outstanding' = FALSE
  /\ UNCHANGED sinceTest

TickBeat ==
  /\ ~TestDue /\ ~TimedOut /\ BeatDue
  /\ Build("Heartbeat", 0)
  /\ UNCHANGED <<state, closed, outstanding, sinceTest>>

TickIdle ==
  /\ ~TestDue /\ ~TimedOut /\ ~BeatDue
  /\ Quiet
  /\ UNCHANGED <<state, closed, outstanding, sinceTest>>

Tick ==
  /\ phase # "reporting"
  /\ TickTest \/ TickTimeout \/ TickBeat \/ TickIdle
  /\ due' = FALSE
  /\ phase' = IF phase = "dispatched" THEN "reporting" ELSE phase
  /\ UNCHANGED <<inSeq, delivered, armed, sinceIn, alive>>

-----------------------------------------------------------------------------
(* The transport, once the chunk's messages are routed.  An order has any  *)
(* number of reports, none if it is an OrderCancelReplace.                 *)
SendExecutionReport ==
  /\ Room /\ phase = "reporting"
  /\ Build("ExecutionReport", 0)
  /\ UNCHANGED <<state, inSeq, delivered, armed, outstanding, sinceIn, sinceTest, closed, phase,
                 due, alive>>

Reported ==
  /\ phase = "reporting" /\ phase' = "reading"
  /\ UNCHANGED <<state, sequencing, timers, out, closed, due, alive>>

(* A second passes, not two without a tick: poll waits 250ms at most.      *)
Advance ==
  /\ Room /\ ~closed /\ ~due /\ HeartBtInt > 0
  /\ sinceIn' = H!Older(sinceIn)
  /\ sinceOut' = H!Older(sinceOut)
  /\ sinceTest' = H!Older(sinceTest)
  /\ due' = TRUE
  /\ UNCHANGED <<state, sequencing, armed, outstanding, out, closed, phase, alive>>

PeerDies ==
  /\ alive /\ alive' = FALSE
  /\ UNCHANGED <<state, sequencing, timers, out, closed, phase, due>>

(* session_loop ends; the next connection has a Session of its own.        *)
Reconnect ==
  /\ phase = "reading"
  /\ state' = "Disconnected"
  /\ inSeq' = 0 /\ outSeq' = 0 /\ history' = <<>> /\ sent' = <<>> /\ delivered' = <<>>
  /\ armed' = FALSE /\ outstanding' = FALSE
  /\ sinceIn' = H!Cap /\ sinceOut' = H!Cap /\ sinceTest' = H!Cap
  /\ out' = <<>> /\ closed' = FALSE /\ phase' = "reading"
  /\ due' = FALSE /\ alive' = TRUE

Next == \/ InitiateLogon \/ SendLogout
        \/ \E seq \in PeerSeqs : Receive(seq)
        \/ Malformed \/ Tick
        \/ SendExecutionReport \/ Reported
        \/ Advance \/ PeerDies \/ Reconnect

Spec == Init /\ [][Next]_vars

-----------------------------------------------------------------------------
MsgTypes == {"Logon", "Logout", "Heartbeat", "TestRequest", "ResendRequest", "Reject",
             "ExecutionReport"}

Records == [seq : 1 .. MaxOut + 1, type : MsgTypes, arg : 0 .. SeqWord - 1, dup : {FALSE}]

TypeOK ==
  /\ state \in H!States
  /\ inSeq \in 0 .. SeqWord - 1 /\ outSeq \in 0 .. MaxOut + 1
  /\ Range(history) \subseteq Records /\ Range(sent) \subseteq Records
  /\ Range(delivered) \subseteq PeerSeqs
  /\ armed \in BOOLEAN /\ outstanding \in BOOLEAN
  /\ {sinceIn, sinceOut, sinceTest} \subseteq H!Age
  /\ closed \in BOOLEAN /\ due \in BOOLEAN /\ alive \in BOOLEAN
  /\ phase \in {"reading", "dispatched", "reporting"}

(* "keeps the last outbound_history_size admin + app messages it sent"     *)
(* (session.h): the ring is the tail of everything build_message built,    *)
(* numbered 1, 2, 3, ... without a gap across logons, resets and resends.  *)
HistoryIsTail ==
  /\ outSeq = Len(sent)
  /\ \A i \in DOMAIN sent : sent[i].seq = i
  /\ history = SubSeq(sent, 1 + Max({0, Len(sent) - HistorySize}), Len(sent))

(* The answer to a ResendRequest accounts for every requested number that  *)
(* was sent, once and in order: one GapFill from BeginSeqNo over those     *)
(* that fell out of the ring, then each other message as it was sent.      *)
ResendAnswers ==
  \A range \in PeerRanges :
    LET begin == range[1]
        last == IF range[2] = 0 THEN outSeq ELSE Min({range[2], outSeq})
        first == Max({begin, outSeq - HistorySize + 1})
        kept == [i \in 1 .. last - first + 1 |-> [sent[first + i - 1] EXCEPT !.dup = TRUE]]
        fill == [seq |-> begin, type |-> "SequenceReset", arg |-> Min({first, last + 1}),
                 dup |-> TRUE]
    IN  ResendReply(begin, range[2]) =
          IF begin = 0 \/ begin > last THEN <<>>
          ELSE (IF begin < first THEN <<fill>> ELSE <<>>) \o kept

(* No application message reaches the matcher twice or out of order within *)
(* a login, whatever the peer repeats, skips or replays.                   *)
AppInOrder ==
  \A i, j \in DOMAIN delivered : i < j => delivered[i] < delivered[j]

(* The acceptor dispatches to the matcher only between its Logon and its   *)
(* Logout ("LoggedIn ---> matcher dispatch", ARCHITECTURE.md), also when   *)
(* more messages follow a fatal one in the same chunk.                     *)
DispatchWithinSession ==
  [][ delivered' # delivered /\ delivered' # <<>> =>
        /\ \E r \in Range(sent) : r.type = "Logon"
        /\ \A r \in Range(sent) : r.type # "Logout" ]_vars

(* The session implements its timers: every call does to them what         *)
(* Heartbeat allows.                                                       *)
ImplementsHeartbeat == H!Spec

=============================================================================
