--------------------------- MODULE SessionProofs ----------------------------
(***************************************************************************)
(* fix::Session for every HeartBtInt, history size, set of peer numbers    *)
(* and ranges: it implements its timers, and dispatches in order.          *)
(***************************************************************************)
EXTENDS GapRecovery, SequenceTheorems, ListLemmas

-----------------------------------------------------------------------------
(* The session implements Heartbeat: each of its actions is one of the     *)
(* timers' actions, or leaves them alone.                                  *)

(* Expands what the actions do to the timers.                              *)
LEMMA ReceiveRefines ==
  ASSUME NEW seq, Receive(seq), closed \in BOOLEAN
  PROVE  H!Next
<1> USE DEF Parsed, Accept, Build, BuildFrom, Quiet
<1>1. CASE \E ok \in BOOLEAN : Logon(seq, ok)
  <2>1. PICK ok \in BOOLEAN : Logon(seq, ok)
    BY <1>1
  <2>2. H!Admission(ok)
    <3>1. CASE ok
      BY <2>1, <3>1 DEF Logon, H!Admission
    <3>2. CASE ~ok
      BY <2>1, <3>2, Zenon DEF Logon, H!Admission
    <3> QED BY <3>1, <3>2
  <2> QED BY <2>2 DEF H!Next, H!Receive
<1>2. CASE NotALogon
  <2>1. H!NotALogon
    BY <1>2 DEF NotALogon, H!NotALogon
  <2> QED BY <2>1 DEF H!Next, H!Receive
<1>3. CASE Gap(seq)
  <2>1. H!Inbound(TRUE)
    BY <1>3 DEF Gap, H!Inbound
  <2> QED BY <2>1, Zenon DEF H!Next, H!Receive
<1>4. CASE TooLow(seq)
  <2>1. H!InboundFatal("LogoutSent", TRUE)
    BY <1>4 DEF TooLow, H!InboundFatal
  <2> QED BY <2>1, Zenon DEF H!Next, H!Receive
<1>5. CASE NoReply(seq)
  <2>1. H!Inbound(FALSE)
    BY <1>5 DEF NoReply, H!Inbound
  <2> QED BY <2>1, Zenon DEF H!Next, H!Receive
<1>6. CASE TestRequest(seq)
  <2>1. H!Inbound(TRUE)
    BY <1>6 DEF TestRequest, H!Inbound
  <2> QED BY <2>1, Zenon DEF H!Next, H!Receive
<1>7. CASE Logout(seq)
  <2>1. CASE state = "LogoutSent"
    <3>1. H!InboundFatal("Disconnected", FALSE)
      BY <1>7, <2>1 DEF Logout, H!InboundFatal
    <3> QED BY <3>1, Zenon DEF H!Next, H!Receive
  <2>2. CASE state # "LogoutSent"
    <3>1. H!InboundFatal("Disconnected", TRUE)
      BY <1>7, <2>2 DEF Logout, H!InboundFatal
    <3> QED BY <3>1, Zenon DEF H!Next, H!Receive
  <2> QED BY <2>1, <2>2
<1>8. CASE Application(seq)
  <2>1. H!Inbound(FALSE)
    BY <1>8 DEF Application, H!Inbound
  <2> QED BY <2>1, Zenon DEF H!Next, H!Receive
<1>9. CASE Unsupported(seq)
  <2>1. H!Inbound(TRUE)
    BY <1>9 DEF Unsupported, H!Inbound
  <2> QED BY <2>1, Zenon DEF H!Next, H!Receive
<1>10. CASE \E range \in PeerRanges : ResendRequest(seq, range)
  <2>1. H!Inbound(FALSE)
    BY <1>10 DEF ResendRequest, H!Inbound
  <2> QED BY <2>1, Zenon DEF H!Next, H!Receive
<1> QED
  BY <1>1, <1>2, <1>3, <1>4, <1>5, <1>6, <1>7, <1>8, <1>9, <1>10 DEF Receive

(* The rules of tick are those of the timers, in the same order.           *)
LEMMA TickRefines ==
  ASSUME Tick
  PROVE  H!Next
<1> USE DEF Build, BuildFrom, Quiet, TestDue, TimedOut, BeatDue, Ticking, TestWindow,
            H!TestDue, H!TimedOut, H!BeatDue, H!Ticking, H!Window
<1>1. CASE TickTest
  <2>1. H!TickTest
    BY <1>1 DEF Tick, TickTest, H!TickTest
  <2> QED BY <2>1 DEF Tick, H!Tick, H!Next
<1>2. CASE TickTimeout
  <2>1. H!TickTimeout
    BY <1>2 DEF Tick, TickTimeout, H!TickTimeout
  <2> QED BY <2>1, Zenon DEF Tick, H!Tick, H!Next
<1>3. CASE TickBeat
  <2>1. H!TickBeat
    BY <1>3 DEF Tick, TickBeat, H!TickBeat
  <2> QED BY <2>1, Zenon DEF Tick, H!Tick, H!Next
<1>4. CASE TickIdle
  <2>1. H!TickIdle
    BY <1>4, Zenon DEF Tick, TickIdle, H!TickIdle, H!timers
  <2> QED BY <2>1 DEF Tick, H!Tick, H!Next
<1> QED BY <1>1, <1>2, <1>3, <1>4 DEF Tick

(* Every step of the session is a step of the timers, or leaves them.      *)
LEMMA StepRefines ==
  ASSUME closed \in BOOLEAN, [Next]_vars
  PROVE  [H!Next]_(H!vars)
<1> USE DEF Build, BuildFrom
<1>1. CASE InitiateLogon
  <2>1. H!InitiateLogon
    BY <1>1 DEF InitiateLogon, H!InitiateLogon
  <2> QED BY <2>1 DEF H!Next
<1>2. CASE SendLogout
  <2>1. H!SendLogout
    BY <1>2 DEF SendLogout, H!SendLogout
  <2> QED BY <2>1 DEF H!Next
<1>3. CASE \E seq \in PeerSeqs : Receive(seq)
  BY <1>3, ReceiveRefines
<1>4. CASE Malformed
  <2>1. H!Malformed
    BY <1>4, Zenon DEF Malformed, H!Malformed
  <2> QED BY <2>1, Zenon DEF H!Next, H!Receive
<1>5. CASE Tick
  BY <1>5, TickRefines, Zenon
<1>6. CASE SendExecutionReport
  <2>1. H!Send
    BY <1>6, Zenon DEF SendExecutionReport, H!Send
  <2> QED BY <2>1, Zenon DEF H!Next
<1>7. CASE Reported
  BY <1>7, Zenon DEF Reported, timers, H!vars, H!timers
<1>8. CASE Advance
  <2>1. H!Advance
    BY <1>8, Zenon DEF Advance, H!Advance
  <2> QED BY <2>1, Zenon DEF H!Next
<1>9. CASE PeerDies
  <2>1. H!PeerDies
    BY <1>9, Zenon DEF PeerDies, timers, H!PeerDies, H!timers
  <2> QED BY <2>1, Zenon DEF H!Next
<1>10. CASE Reconnect
  <2>1. H!Reconnect
    BY <1>10, Zenon DEF Reconnect, H!Reconnect
  <2> QED BY <2>1, Zenon DEF H!Next
<1>11. CASE UNCHANGED vars
  BY <1>11 DEF vars, timers, H!vars, H!timers
<1> QED
  BY <1>1, <1>2, <1>3, <1>4, <1>5, <1>6, <1>7, <1>8, <1>9, <1>10, <1>11, Zenon DEF Next

-----------------------------------------------------------------------------
(* The ring of sent messages, in every history size.                       *)

(* What the ring keeps of a log.                                           *)
Ring(log) == SubSeq(log, 1 + Max({0, Len(log) - HistorySize}), Len(log))

(* Max as the code's comparison.                                           *)
LEMMA MaxZero ==
  ASSUME NEW x \in Int
  PROVE  Max({0, x}) = IF x > 0 THEN x ELSE 0
  BY DEF Max

(* retain_outbound: a record appended to the ring of a log makes the ring  *)
(* of the longer log.                                                      *)
LEMMA RetainKeepsRing ==
  ASSUME NEW S, NEW log \in Seq(S), NEW r \in S
  PROVE  Retain(Ring(log), r) = Ring(Append(log, r))
<1> DEFINE n == Len(log)
           longer == Append(log, r)
           kept == Append(Ring(log), r)
<1>1. HistorySize \in Nat /\ n \in Nat /\ longer \in Seq(S) /\ Len(longer) = n + 1
  BY SessionAssumption, AppendProperties, LenProperties, Zenon
<1> HIDE DEF longer
<1>2. CASE HistorySize = 0
  <2>1. Ring(log) = <<>> /\ Ring(longer) = <<>>
    BY <1>1, <1>2, MaxZero, SubSeqEmpty DEF Ring
  <2> QED BY <1>2, <2>1, Zenon DEF Retain, longer
<1>3. CASE HistorySize > n
  <2>1. Ring(log) = log
    BY <1>1, <1>3, MaxZero, SubSeqFull DEF Ring
  <2>2. HistorySize # 0
    BY <1>1, <1>3
  <2> QED BY <2>1, <2>2, Zenon DEF Ring, Retain, longer
<1>4. CASE HistorySize # 0 /\ HistorySize <= n
  <2>1. Ring(log) = SubSeq(log, 1 + n - HistorySize, n)
    BY <1>1, <1>4, MaxZero DEF Ring
  <2>2. /\ Ring(log) \in Seq(S) /\ Len(Ring(log)) = HistorySize
        /\ \A i \in 1 .. HistorySize : Ring(log)[i] = log[n - HistorySize + i]
    BY <1>1, <1>4, <2>1, SubSeqProperties
  <2>3. /\ kept \in Seq(S) /\ Len(kept) = HistorySize + 1
        /\ \A i \in 1 .. HistorySize : kept[i] = log[n - HistorySize + i]
        /\ kept[HistorySize + 1] = r
    BY <2>2, AppendProperties
  <2>4. \A i \in 1 .. n : longer[i] = log[i]
    BY AppendProperties DEF longer
  <2>5. longer[n + 1] = r
    BY AppendProperties, Zenon DEF longer
  <2> HIDE DEF kept
  <2>6. Retain(Ring(log), r) = SubSeq(kept, 2, HistorySize + 1)
    <3>1. Retain(Ring(log), r)
            = SubSeq(kept, 1 + Max({0, Len(kept) - HistorySize}), Len(kept))
      BY <1>4, Zenon DEF Retain, kept
    <3>2. 1 + Max({0, Len(kept) - HistorySize}) = 2
      BY <1>1, <2>3, MaxZero
    <3> QED BY <2>3, <3>1, <3>2, Zenon
  <2>7. Ring(longer) = SubSeq(longer, n + 2 - HistorySize, n + 1)
    <3>1. 1 + Max({0, Len(longer) - HistorySize}) = n + 2 - HistorySize
      BY <1>1, <1>4, MaxZero
    <3> QED BY <1>1, <3>1, Zenon DEF Ring
  <2>8. /\ SubSeq(kept, 2, HistorySize + 1) \in Seq(S)
        /\ Len(SubSeq(kept, 2, HistorySize + 1)) = HistorySize
        /\ \A i \in 1 .. HistorySize : SubSeq(kept, 2, HistorySize + 1)[i] = kept[i + 1]
    BY <1>1, <1>4, <2>3, SubSeqProperties
  <2>9. /\ SubSeq(longer, n + 2 - HistorySize, n + 1) \in Seq(S)
        /\ Len(SubSeq(longer, n + 2 - HistorySize, n + 1)) = HistorySize
        /\ \A i \in 1 .. HistorySize :
             SubSeq(longer, n + 2 - HistorySize, n + 1)[i] = longer[n + 1 - HistorySize + i]
    BY <1>1, <1>4, SubSeqProperties
  <2>10. ASSUME NEW i \in 1 .. HistorySize
         PROVE  kept[i + 1] = longer[n + 1 - HistorySize + i]
    <3>1. CASE i = HistorySize
      BY <1>1, <2>3, <2>5, <3>1
    <3>2. CASE i < HistorySize
      BY <1>1, <1>4, <2>3, <2>4, <3>2
    <3> QED BY <1>1, <3>1, <3>2
  <2>11. SubSeq(kept, 2, HistorySize + 1) = SubSeq(longer, n + 2 - HistorySize, n + 1)
    BY <2>8, <2>9, <2>10, SeqEqual, Zenon
  <2> QED BY <2>6, <2>7, <2>11, Zenon DEF longer
<1> QED BY <1>1, <1>2, <1>3, <1>4

SeqNums == 0 .. SeqWord - 1

(* seq messages were built, log is all of them and records the ring.       *)
IsLog(seq, records, log) ==
  /\ log \in Seq(Records) /\ seq = Len(log)
  /\ \A i \in 1 .. Len(log) : log[i].seq = i
  /\ records = Ring(log)

(* Nothing was built yet.                                                  *)
LEMMA EmptyLog == IsLog(0, <<>>, <<>>)
<1>1. <<>> \in Seq(Records) /\ Len(<<>>) = 0
  BY EmptySeq
<1>2. Ring(<<>>) = <<>>
  BY <1>1, SessionAssumption, MaxZero, SubSeqEmpty DEF Ring
<1> QED BY <1>1, <1>2 DEF IsLog

(* build_message adds one message to the log and to the ring.              *)
LEMMA BuildKeepsLog ==
  ASSUME NEW seq, NEW records, NEW log, IsLog(seq, records, log), seq <= MaxOut,
         NEW type \in MsgTypes, NEW arg \in SeqNums,
         BuildFrom(seq, records, log, type, arg)
  PROVE  IsLog(outSeq', history', sent') /\ outSeq' = seq + 1 /\ sinceOut' = 0
<1> DEFINE r == [seq |-> NextSeq(seq), type |-> type, arg |-> arg, dup |-> FALSE]
<1>1. seq \in Nat /\ seq = Len(log) /\ log \in Seq(Records)
  BY LenProperties, Zenon DEF IsLog
<1>2. NextSeq(seq) = seq + 1 /\ seq + 1 \in 1 .. MaxOut + 1
  BY <1>1, SessionAssumption DEF NextSeq
<1>3. r \in Records /\ r.seq = seq + 1
  BY <1>2, Zenon DEF Records, SeqNums
<1>4. /\ outSeq' = r.seq /\ history' = Retain(records, r) /\ sent' = Append(log, r)
      /\ sinceOut' = 0
  BY Zenon DEF BuildFrom
<1> HIDE DEF r
<1>5. /\ sent' \in Seq(Records) /\ Len(sent') = seq + 1
      /\ \A i \in 1 .. seq : sent'[i] = log[i]
      /\ sent'[seq + 1] = r
  BY <1>1, <1>3, <1>4, AppendProperties
<1>6. history' = Ring(sent')
  BY <1>1, <1>3, <1>4, RetainKeepsRing, Zenon DEF IsLog
<1>7. ASSUME NEW i \in 1 .. seq + 1 PROVE sent'[i].seq = i
  <2>1. CASE i = seq + 1
    BY <1>3, <1>5, <2>1, Zenon
  <2>2. CASE i \in 1 .. seq
    BY <1>1, <1>5, <2>2, Zenon DEF IsLog
  <2> QED BY <1>1, <2>1, <2>2
<1> QED BY <1>3, <1>4, <1>5, <1>6, <1>7, Zenon DEF IsLog

-----------------------------------------------------------------------------
(* The invariant.                                                          *)

(* What the actions need to know of the values.                            *)
Types ==
  /\ state \in H!States /\ inSeq \in SeqNums /\ delivered \in Seq(PeerSeqs)
  /\ armed \in BOOLEAN /\ outstanding \in BOOLEAN
  /\ sinceIn \in H!Age /\ sinceOut \in H!Age /\ sinceTest \in H!Age
  /\ closed \in BOOLEAN /\ due \in BOOLEAN /\ alive \in BOOLEAN
  /\ phase \in {"reading", "dispatched", "reporting"}

(* Only tick builds a message when MaxOut are out, and then only one: as   *)
(* the clock stands, no rule of it applies after that.                     *)
Bounded ==
  /\ outSeq <= MaxOut + 1
  /\ state = "LoggedIn" /\ outSeq >= MaxOut => sinceOut = 0
  /\ state = "LoggedIn" /\ outSeq > MaxOut => outstanding /\ sinceTest = 0

SInv == Types /\ Bounded /\ IsLog(outSeq, history, sent)

(* The values of the constants, the window and the ages.                   *)
LEMMA HeldConstants ==
  /\ HeartBtInt \in Nat /\ SeqWord \in Nat /\ MaxOut \in Nat /\ MaxOut + 1 < SeqWord
  /\ TestWindow \in Nat /\ (HeartBtInt > 0 => TestWindow > 0)
  /\ 0 \in H!Age /\ H!Cap \in H!Age
  /\ \A a \in H!Age : a \in Nat /\ H!Older(a) \in H!Age
  /\ 0 \in SeqNums /\ \A n \in SeqNums : n \in Nat
  /\ PeerSeqs \subseteq SeqNums
  /\ \A n \in Nat : NextSeq(n) \in SeqNums
<1>1. /\ HeartBtInt \in Nat /\ HeartBtInt \div 2 \in Nat
      /\ SeqWord \in Nat /\ MaxOut \in Nat /\ MaxOut + 1 < SeqWord
  BY SessionAssumption
<1>2. H!Window \in Nat /\ H!Cap \in Nat
  BY <1>1 DEF H!Window, H!Cap
<1>3. /\ 0 \in SeqNums /\ \A n \in SeqNums : n \in Nat
      /\ PeerSeqs \subseteq SeqNums
      /\ \A n \in Nat : NextSeq(n) \in SeqNums
  BY <1>1, SessionAssumption DEF NextSeq, SeqNums
<1> QED BY <1>1, <1>2, <1>3 DEF TestWindow, H!Age, H!Older

(* tick builds no message beyond the bound.                                *)
LEMMA TickHasRoom ==
  ASSUME SInv, TestDue \/ TimedOut \/ BeatDue
  PROVE  outSeq <= MaxOut /\ (BeatDue /\ ~TestDue /\ ~TimedOut => outSeq < MaxOut)
<1>1. state = "LoggedIn" /\ HeartBtInt > 0
  BY Zenon DEF TestDue, TimedOut, BeatDue, Ticking
<1>2. outSeq \in Nat
  BY LenProperties, Zenon DEF SInv, IsLog
<1> QED BY <1>1, <1>2, HeldConstants DEF SInv, Bounded, TestDue, TimedOut, BeatDue

(* A call that builds one message and has room for it.                     *)
LEMMA RoomBuild ==
  ASSUME SInv, Room, NEW type \in MsgTypes, NEW arg \in SeqNums, Build(type, arg)
  PROVE  IsLog(outSeq', history', sent') /\ Bounded'
<1>1. IsLog(outSeq, history, sent) /\ outSeq \in Nat
  BY LenProperties, Zenon DEF SInv, IsLog
<1>2. outSeq < MaxOut
  BY Zenon DEF Room
<1>3. outSeq <= MaxOut
  BY <1>1, <1>2, HeldConstants
<1>4. IsLog(outSeq', history', sent') /\ outSeq' = outSeq + 1 /\ sinceOut' = 0
  BY <1>1, <1>3, BuildKeepsLog, Zenon DEF Build
<1> QED BY <1>1, <1>2, <1>4, HeldConstants DEF Bounded

(* A call that builds none.                                                *)
LEMMA NoBuild ==
  ASSUME SInv, UNCHANGED <<outSeq, history, sent>>,
         Room \/ UNCHANGED <<sinceOut, outstanding, sinceTest>>,
         state' = "LoggedIn" => state = "LoggedIn"
  PROVE  IsLog(outSeq', history', sent') /\ Bounded'
<1>1. IsLog(outSeq', history', sent')
  BY Zenon DEF SInv
<1>2. outSeq \in Nat
  BY LenProperties, Zenon DEF SInv, IsLog
<1>3. CASE Room
  BY <1>1, <1>2, <1>3, HeldConstants DEF Room, Bounded
<1>4. CASE UNCHANGED <<sinceOut, outstanding, sinceTest>>
  BY <1>1, <1>4, Zenon DEF SInv, Bounded
<1> QED BY <1>3, <1>4, Zenon

(* The log and its bound, for a message that is received.                  *)
LEMMA ReceiveLog ==
  ASSUME SInv, NEW seq \in PeerSeqs, Receive(seq)
  PROVE  IsLog(outSeq', history', sent') /\ Bounded'
<1>0. seq \in SeqNums /\ 0 \in SeqNums /\ Expected \in SeqNums
  BY HeldConstants DEF SInv, Types, Expected
<1> USE DEF MsgTypes
<1>1. ASSUME NEW ok \in BOOLEAN, Logon(seq, ok)
      PROVE  IsLog(outSeq', history', sent') /\ Bounded'
  <2> DEFINE from == IF ResetOnLogon THEN <<0, 0, <<>>, <<>>>>
                                     ELSE <<inSeq, outSeq, history, sent>>
  <2>1. outSeq \in Nat /\ outSeq < MaxOut
    BY <1>1, LenProperties DEF SInv, IsLog, Logon, Parsed, Room
  <2>2. IsLog(from[2], from[3], from[4]) /\ from[2] \in Nat /\ from[2] < MaxOut
    <3>1. CASE ResetOnLogon
      BY <2>1, <3>1, EmptyLog, HeldConstants
    <3>2. CASE ~ResetOnLogon
      BY <2>1, <3>2, Zenon DEF SInv
    <3> QED BY <3>1, <3>2
  <2>3. CASE ok
    <3>1. BuildFrom(from[2], from[3], from[4], "Logon", 0)
      BY <1>1, <2>3, Zenon DEF Logon
    <3> HIDE DEF from
    <3>2. from[2] <= MaxOut
      BY <2>2, HeldConstants
    <3>3. IsLog(outSeq', history', sent') /\ outSeq' = from[2] + 1 /\ sinceOut' = 0
      BY <1>0, <2>2, <3>1, <3>2, BuildKeepsLog, Zenon
    <3> QED BY <2>2, <3>3, HeldConstants DEF Bounded
  <2>4. CASE ~ok
    <3>1. outSeq' = from[2] /\ history' = from[3] /\ sent' = from[4] /\ state' = "Disconnected"
      BY <1>1, <2>4, Zenon DEF Logon
    <3> HIDE DEF from
    <3> QED BY <2>2, <3>1, HeldConstants DEF Bounded
  <2> QED BY <2>3, <2>4
<1>2. CASE NotALogon
  BY <1>2, NoBuild, Zenon DEF NotALogon, Parsed, Quiet
<1>3. CASE Gap(seq)
  BY <1>0, <1>3, RoomBuild DEF Gap, Parsed
<1>4. CASE TooLow(seq)
  BY <1>0, <1>4, RoomBuild DEF TooLow, Parsed
<1>5. CASE NoReply(seq)
  BY <1>5, NoBuild DEF NoReply, Accept, Parsed, Quiet
<1>6. CASE TestRequest(seq)
  BY <1>0, <1>6, RoomBuild DEF TestRequest, Accept, Parsed
<1>7. CASE Logout(seq)
  <2>1. CASE state = "LogoutSent"
    BY <1>7, <2>1, NoBuild DEF Logout, Accept, Parsed, Quiet
  <2>2. CASE state # "LogoutSent"
    BY <1>0, <1>7, <2>2, RoomBuild DEF Logout, Accept, Parsed
  <2> QED BY <2>1, <2>2
<1>8. CASE Application(seq)
  BY <1>8, NoBuild DEF Application, Accept, Parsed, Quiet
<1>9. CASE Unsupported(seq)
  BY <1>0, <1>9, RoomBuild DEF Unsupported, Accept, Parsed
<1>10. CASE \E range \in PeerRanges : ResendRequest(seq, range)
  BY <1>10, NoBuild DEF ResendRequest, Accept, Parsed
<1> QED
  BY <1>1, <1>2, <1>3, <1>4, <1>5, <1>6, <1>7, <1>8, <1>9, <1>10, Zenon DEF Receive

(* The same for tick, which needs no room.                                 *)
LEMMA TickLog ==
  ASSUME SInv, Tick
  PROVE  IsLog(outSeq', history', sent') /\ Bounded'
<1>0. IsLog(outSeq, history, sent) /\ outSeq \in Nat
  BY LenProperties DEF SInv, IsLog
<1>1. ASSUME outSeq <= MaxOut, NEW type \in MsgTypes, NEW arg \in SeqNums,
             Build(type, arg)
      PROVE  IsLog(outSeq', history', sent') /\ outSeq' = outSeq + 1 /\ sinceOut' = 0
  BY <1>0, <1>1, BuildKeepsLog DEF Build
<1>2. 0 \in SeqNums /\ NextSeq(outSeq) \in SeqNums
  BY <1>0, HeldConstants
<1> USE DEF MsgTypes
<1>3. CASE TickTest
  <2>1. outSeq <= MaxOut
    BY <1>3, TickHasRoom, Zenon DEF TickTest
  <2>2. IsLog(outSeq', history', sent') /\ outSeq' = outSeq + 1 /\ sinceOut' = 0
    BY <1>1, <1>2, <1>3, <2>1, Zenon DEF TickTest
  <2> QED BY <1>0, <1>3, <2>1, <2>2, HeldConstants DEF TickTest, Bounded
<1>4. CASE TickTimeout
  <2>1. outSeq <= MaxOut
    BY <1>4, TickHasRoom, Zenon DEF TickTimeout
  <2>2. IsLog(outSeq', history', sent') /\ outSeq' = outSeq + 1 /\ sinceOut' = 0
    BY <1>1, <1>2, <1>4, <2>1, Zenon DEF TickTimeout
  <2> QED BY <1>0, <1>4, <2>1, <2>2, HeldConstants DEF TickTimeout, Bounded
<1>5. CASE TickBeat
  <2>1. Room
    BY <1>5, TickHasRoom DEF TickBeat, Room
  <2> QED BY <1>2, <1>5, <2>1, RoomBuild DEF TickBeat
<1>6. CASE TickIdle
  BY <1>6, NoBuild, Zenon DEF TickIdle, Quiet
<1> QED BY <1>3, <1>4, <1>5, <1>6 DEF Tick

(* Every action keeps the log and its bound.                               *)
LEMMA LogNext ==
  ASSUME SInv, [Next]_vars
  PROVE  IsLog(outSeq', history', sent') /\ Bounded'
<1>0. 0 \in SeqNums
  BY HeldConstants
<1> USE DEF MsgTypes
<1>1. CASE InitiateLogon
  BY <1>0, <1>1, RoomBuild DEF InitiateLogon
<1>2. CASE SendLogout
  BY <1>0, <1>2, RoomBuild DEF SendLogout
<1>3. CASE \E seq \in PeerSeqs : Receive(seq)
  BY <1>3, ReceiveLog
<1>4. CASE Malformed
  BY <1>0, <1>4, RoomBuild DEF Malformed
<1>5. CASE Tick
  BY <1>5, TickLog
<1>6. CASE SendExecutionReport
  BY <1>0, <1>6, RoomBuild DEF SendExecutionReport
<1>7. CASE Reported
  BY <1>7, NoBuild DEF Reported, sequencing, timers
<1>8. CASE Advance
  BY <1>8, NoBuild DEF Advance, sequencing
<1>9. CASE PeerDies
  BY <1>9, NoBuild DEF PeerDies, sequencing, timers
<1>10. CASE Reconnect
  <2>1. outSeq' = 0 /\ history' = <<>> /\ sent' = <<>> /\ state' = "Disconnected"
    BY <1>10, Zenon DEF Reconnect
  <2> QED BY <2>1, EmptyLog, HeldConstants DEF Bounded
<1>11. CASE UNCHANGED vars
  BY <1>11, NoBuild, Zenon DEF vars, sequencing, timers
<1> QED
  BY <1>1, <1>2, <1>3, <1>4, <1>5, <1>6, <1>7, <1>8, <1>9, <1>10, <1>11 DEF Next

(* Every message that is received keeps the types.                         *)
LEMMA ReceiveTypes ==
  ASSUME Types, NEW seq \in PeerSeqs, Receive(seq)
  PROVE  Types'
<1>0. seq \in SeqNums /\ 0 \in SeqNums /\ 0 \in H!Age /\ <<>> \in Seq(PeerSeqs)
  BY HeldConstants, EmptySeq
<1> USE <1>0 DEF Types, Parsed, Accept, Build, BuildFrom, Quiet, H!States
<1>1. ASSUME NEW ok \in BOOLEAN, Logon(seq, ok) PROVE Types'
  <2>1. CASE ok
    BY <1>1, <2>1, Zenon DEF Logon
  <2>2. CASE ~ok
    <3>1. inSeq' \in SeqNums
      BY <1>1, <2>2 DEF Logon
    <3> QED BY <1>1, <2>2, <3>1, Zenon DEF Logon
  <2> QED BY <2>1, <2>2, Zenon
<1>2. CASE NotALogon
  BY <1>2, Zenon DEF NotALogon
<1>3. CASE Gap(seq)
  BY <1>3, Zenon DEF Gap
<1>4. CASE TooLow(seq)
  BY <1>4, Zenon DEF TooLow
<1>5. CASE NoReply(seq)
  BY <1>5, Zenon DEF NoReply
<1>6. CASE TestRequest(seq)
  BY <1>6, Zenon DEF TestRequest
<1>7. CASE Logout(seq)
  <2>1. sinceOut' \in H!Age
    BY <1>7 DEF Logout
  <2> QED BY <1>7, <2>1, Zenon DEF Logout
<1>8. CASE Application(seq)
  <2>1. delivered' \in Seq(PeerSeqs)
    BY <1>8, AppendProperties DEF Application
  <2> QED BY <1>8, <2>1, Zenon DEF Application
<1>9. CASE Unsupported(seq)
  BY <1>9, Zenon DEF Unsupported
<1>10. CASE \E range \in PeerRanges : ResendRequest(seq, range)
  BY <1>10, Zenon DEF ResendRequest
<1> QED
  BY <1>1, <1>2, <1>3, <1>4, <1>5, <1>6, <1>7, <1>8, <1>9, <1>10, Zenon DEF Receive

(* Every action keeps the types.                                           *)
LEMMA TypesNext ==
  ASSUME Types, [Next]_vars
  PROVE  Types'
<1>0. 0 \in SeqNums /\ 0 \in H!Age /\ H!Cap \in H!Age /\ <<>> \in Seq(PeerSeqs)
  BY HeldConstants, EmptySeq, Zenon
<1> USE <1>0 DEF Types, Build, BuildFrom, Quiet, H!States
<1>1. CASE InitiateLogon
  BY <1>1, Zenon DEF InitiateLogon
<1>2. CASE SendLogout
  BY <1>2, Zenon DEF SendLogout
<1>3. CASE \E seq \in PeerSeqs : Receive(seq)
  BY <1>3, ReceiveTypes, Zenon
<1>4. CASE Malformed
  BY <1>4, Zenon DEF Malformed
<1>5. CASE Tick
  <2>1. CASE TickTest
    BY <1>5, <2>1, Zenon DEF Tick, TickTest
  <2>2. CASE TickTimeout
    BY <1>5, <2>2, Zenon DEF Tick, TickTimeout
  <2>3. CASE TickBeat
    BY <1>5, <2>3, Zenon DEF Tick, TickBeat
  <2>4. CASE TickIdle
    BY <1>5, <2>4, Zenon DEF Tick, TickIdle
  <2> QED BY <1>5, <2>1, <2>2, <2>3, <2>4, Zenon DEF Tick
<1>6. CASE SendExecutionReport
  BY <1>6 DEF SendExecutionReport
<1>7. CASE Reported
  BY <1>7, Zenon DEF Reported, sequencing, timers
<1>8. CASE Advance
  <2>1. {H!Older(sinceIn), H!Older(sinceOut), H!Older(sinceTest)} \subseteq H!Age
    BY HeldConstants
  <2> QED BY <1>8, <2>1, Zenon DEF Advance, sequencing
<1>9. CASE PeerDies
  BY <1>9, Zenon DEF PeerDies, sequencing, timers
<1>10. CASE Reconnect
  BY <1>10, Zenon DEF Reconnect
<1>11. CASE UNCHANGED vars
  BY <1>11 DEF vars, sequencing, timers
<1> QED
  BY <1>1, <1>2, <1>3, <1>4, <1>5, <1>6, <1>7, <1>8, <1>9, <1>10, <1>11, Zenon DEF Next

(* The invariant is inductive.                                             *)
LEMMA SInvInit == Init => SInv
<1> SUFFICES ASSUME Init PROVE SInv
  OBVIOUS
<1>1. Types
  BY HeldConstants, EmptySeq, Zenon DEF Init, Types, H!States
<1>2. Bounded
  BY HeldConstants DEF Init, Bounded
<1>3. IsLog(outSeq, history, sent)
  BY EmptyLog DEF Init
<1> QED BY <1>1, <1>2, <1>3 DEF SInv

LEMMA SInvNext == SInv /\ [Next]_vars => SInv'
<1> SUFFICES ASSUME SInv, [Next]_vars PROVE SInv'
  OBVIOUS
<1>1. IsLog(outSeq', history', sent') /\ Bounded'
  BY LogNext, Zenon
<1>2. Types'
  BY TypesNext, Zenon DEF SInv
<1>3. IsLog(outSeq, history, sent)'
  BY <1>1, Zenon DEF IsLog, Ring, Records
<1> QED BY <1>1, <1>2, <1>3, Zenon DEF SInv

(* For every size of the history: the ring is exactly the tail of all that *)
(* was sent, which is numbered without a gap.                              *)
THEOREM HistoryKept == Spec => [](TypeOK /\ HistoryIsTail)
<1>1. ASSUME SInv PROVE TypeOK /\ HistoryIsTail
  <2>1. /\ sent \in Seq(Records) /\ Len(sent) \in Nat /\ DOMAIN sent = 1 .. Len(sent)
        /\ outSeq = Len(sent) /\ outSeq \in 0 .. MaxOut + 1
        /\ \A i \in 1 .. Len(sent) : sent[i].seq = i
    BY <1>1, LenProperties, HeldConstants DEF SInv, IsLog, Bounded
  <2>2. HistoryIsTail
    BY <1>1, <2>1, Zenon DEF SInv, IsLog, Ring, HistoryIsTail
  <2>3. history \in Seq(Records)
    <3> DEFINE m == 1 + Max({0, Len(sent) - HistorySize})
    <3>1. HistorySize \in Nat /\ Len(sent) - HistorySize \in Int
      BY <2>1, SessionAssumption
    <3>2. m \in 1 .. Len(sent) + 1
      <4>1. Max({0, Len(sent) - HistorySize}) \in 0 .. Len(sent)
        BY <2>1, <3>1, MaxZero
      <4> QED BY <2>1, <4>1
    <3>3. Ring(sent) = SubSeq(sent, m, Len(sent))
      BY Zenon DEF Ring
    <3> HIDE DEF m
    <3>4. \A i \in m .. Len(sent) : sent[i] \in Records
      BY <2>1, <3>2, ElementOfSeq
    <3>5. SubSeq(sent, m, Len(sent)) \in Seq(Records)
      BY <2>1, <3>2, <3>4, SubSeqProperties
    <3> QED BY <1>1, <3>3, <3>5, Zenon DEF SInv, IsLog
  <2>4. Range(history) \subseteq Records /\ Range(sent) \subseteq Records
    BY <2>1, <2>3, RangeOfSeq, Zenon DEF Range
  <2>5. Range(delivered) \subseteq PeerSeqs
    BY <1>1, RangeOfSeq, Zenon DEF SInv, Types
  <2> QED BY <1>1, <2>1, <2>2, <2>4, <2>5, Zenon DEF SInv, Types, TypeOK, SeqNums
<1> QED BY SInvInit, SInvNext, <1>1, PTL DEF Spec

(* Every call of the session does to the timers what Heartbeat allows, so  *)
(* that what is proved of Heartbeat holds of Session.                      *)
THEOREM TimersImplemented == Spec => ImplementsHeartbeat
<1>1. Init => H!Init
  BY DEF Init, H!Init
<1>2. SInv /\ [Next]_vars => [H!Next]_(H!vars)
  BY StepRefines DEF SInv, Types
<1> QED BY <1>1, <1>2, SInvInit, SInvNext, PTL DEF Spec, H!Spec, ImplementsHeartbeat

-----------------------------------------------------------------------------
(* Dispatch in order.                                                      *)

(* What was dispatched is not beyond in_seq_, and a session that waits for *)
(* a Logon has dispatched nothing: a Logon may set in_seq_ to anything.    *)
Ordered ==
  /\ AppInOrder
  /\ \A i \in DOMAIN delivered : delivered[i] <= inSeq
  /\ state = "Disconnected" /\ ~closed => delivered = <<>>

(* A peer that numbers its messages: none is without MsgSeqNum.            *)
PeerNumbers == 0 \notin PeerSeqs

(* An accepted message of such a peer has the number after in_seq_, which  *)
(* never wraps.                                                            *)
LEMMA AcceptedIsNext ==
  ASSUME PeerNumbers, Types, NEW seq \in PeerSeqs, Accept(seq)
  PROVE  inSeq' = seq /\ seq = inSeq + 1 /\ inSeq \in Nat
<1>1. inSeq \in 0 .. SeqWord - 1 /\ SeqWord \in Nat /\ SeqWord > 0
  BY HeldConstants DEF Types, SeqNums
<1>2. seq # 0
  BY Zenon DEF PeerNumbers
<1>3. inSeq' = seq /\ seq = (inSeq + 1) % SeqWord
  BY <1>2, Zenon DEF Accept, Expected, NextSeq
<1>4. CASE inSeq + 1 = SeqWord
  BY <1>1, <1>2, <1>3, <1>4
<1>5. CASE inSeq + 1 < SeqWord
  BY <1>1, <1>3, <1>5
<1> QED BY <1>1, <1>4, <1>5

(* Dispatch keeps the order.                                               *)
LEMMA DispatchOrdered ==
  ASSUME PeerNumbers, Types, Ordered, NEW seq \in PeerSeqs, Application(seq)
  PROVE  Ordered'
<1> DEFINE n == Len(delivered)
<1>1. /\ inSeq' = seq /\ seq = inSeq + 1 /\ inSeq \in Nat
      /\ delivered' = Append(delivered, seq) /\ state # "Disconnected" /\ state' = state
  BY AcceptedIsNext, Zenon DEF Application, Accept
<1>2. delivered \in Seq(PeerSeqs) /\ n \in Nat /\ DOMAIN delivered = 1 .. n
  BY LenProperties, Zenon DEF Types
<1>3. /\ DOMAIN delivered' = 1 .. n + 1
      /\ \A i \in 1 .. n : delivered'[i] = delivered[i]
      /\ delivered'[n + 1] = seq
  BY <1>1, <1>2, AppendProperties, LenProperties
<1>4. \A i \in 1 .. n : delivered[i] \in Nat /\ delivered[i] <= inSeq
  BY <1>2, HeldConstants, ElementOfSeq, Zenon DEF Ordered
<1> HIDE DEF n
<1>5. \A i \in DOMAIN delivered' : delivered'[i] <= inSeq'
  BY <1>1, <1>2, <1>3, <1>4
<1>6. AppInOrder'
  <2> SUFFICES ASSUME NEW i \in 1 .. n + 1, NEW j \in 1 .. n + 1, i < j
               PROVE  delivered'[i] < delivered'[j]
    BY <1>3, Zenon DEF AppInOrder
  <2>1. CASE j = n + 1
    <3>1. i \in 1 .. n
      BY <1>2, <2>1
    <3> QED BY <1>1, <1>3, <1>4, <2>1, <3>1
  <2>2. CASE j \in 1 .. n
    <3>1. i \in 1 .. n
      BY <1>2, <2>2
    <3> QED BY <1>2, <1>3, <2>2, <3>1, Zenon DEF Ordered, AppInOrder
  <2> QED BY <1>2, <2>1, <2>2
<1> QED BY <1>1, <1>5, <1>6, Zenon DEF Ordered

(* The other messages dispatch nothing, and in_seq_ only moves forward.    *)
LEMMA ReceiveOrdered ==
  ASSUME PeerNumbers, Types, Ordered, NEW seq \in PeerSeqs, Receive(seq)
  PROVE  Ordered'
<1>1. ASSUME NEW ok \in BOOLEAN, Logon(seq, ok) PROVE Ordered'
  <2>1. delivered = <<>>
    BY <1>1, Zenon DEF Ordered, Logon, Parsed
  <2>2. delivered' = <<>>
    BY <1>1, <2>1, Zenon DEF Logon
  <2> QED BY <2>2 DEF Ordered, AppInOrder
<1>2. ASSUME UNCHANGED <<delivered, inSeq>>, state # "Disconnected" \/ closed',
             state' # "Disconnected" \/ closed'
      PROVE  Ordered'
  BY <1>2, Zenon DEF Ordered, AppInOrder
<1>3. ASSUME Accept(seq), UNCHANGED delivered, state' = state \/ closed' PROVE Ordered'
  <2>1. inSeq' = inSeq + 1 /\ inSeq \in Nat
    BY <1>3, AcceptedIsNext, Zenon
  <2>2. \A i \in DOMAIN delivered : delivered[i] \in Nat
    BY HeldConstants, ElementOfSeq, LenProperties, Zenon DEF Types
  <2>3. state # "Disconnected"
    BY <1>3, Zenon DEF Accept
  <2> QED BY <1>3, <2>1, <2>2, <2>3 DEF Ordered, AppInOrder
<1>4. CASE NotALogon
  BY <1>2, <1>4, Zenon DEF NotALogon
<1>5. CASE Gap(seq)
  BY <1>2, <1>5, Zenon DEF Gap
<1>6. CASE TooLow(seq)
  BY <1>2, <1>6, Zenon DEF TooLow
<1>7. CASE NoReply(seq)
  BY <1>3, <1>7, Zenon DEF NoReply
<1>8. CASE TestRequest(seq)
  BY <1>3, <1>8, Zenon DEF TestRequest
<1>9. CASE Logout(seq)
  BY <1>3, <1>9, Zenon DEF Logout
<1>10. CASE Application(seq)
  BY <1>10, DispatchOrdered, Zenon
<1>11. CASE Unsupported(seq)
  BY <1>3, <1>11, Zenon DEF Unsupported
<1>12. CASE \E range \in PeerRanges : ResendRequest(seq, range)
  BY <1>3, <1>12, Zenon DEF ResendRequest
<1> QED
  BY <1>1, <1>4, <1>5, <1>6, <1>7, <1>8, <1>9, <1>10, <1>11, <1>12 DEF Receive

(* For a peer that numbers its messages, whatever it skips, repeats or     *)
(* replays and however it logs on again: no application message reaches    *)
(* the matcher twice or out of order.                                      *)
THEOREM DispatchedInOrder == PeerNumbers => (Spec => []AppInOrder)
<1> SUFFICES ASSUME PeerNumbers PROVE Spec => []AppInOrder
  OBVIOUS
<1>1. Init => Ordered
  BY DEF Init, Ordered, AppInOrder
<1>2. ASSUME SInv, Ordered, [Next]_vars PROVE Ordered'
  <2>0. Types
    BY <1>2, Zenon DEF SInv
  <2>1. ASSUME UNCHANGED <<delivered, inSeq>>,
               state' = "Disconnected" /\ ~closed' => state = "Disconnected" /\ ~closed
        PROVE  Ordered'
    BY <1>2, <2>1 DEF Ordered, AppInOrder
  <2>2. CASE InitiateLogon
    BY <2>1, <2>2, Zenon DEF InitiateLogon
  <2>3. CASE SendLogout
    BY <2>1, <2>3, Zenon DEF SendLogout
  <2>4. CASE \E seq \in PeerSeqs : Receive(seq)
    BY <1>2, <2>0, <2>4, ReceiveOrdered, Zenon
  <2>5. CASE Malformed
    BY <2>1, <2>5, Zenon DEF Malformed
  <2>6. CASE Tick
    BY <2>1, <2>6 DEF Tick, TickTest, TickTimeout, TickBeat, TickIdle
  <2>7. CASE SendExecutionReport
    BY <2>1, <2>7, Zenon DEF SendExecutionReport
  <2>8. CASE Reported \/ PeerDies
    BY <2>1, <2>8, Zenon DEF Reported, PeerDies, sequencing
  <2>9. CASE Advance
    BY <2>1, <2>9, Zenon DEF Advance, sequencing
  <2>10. CASE Reconnect
    BY <2>10 DEF Reconnect, Ordered, AppInOrder
  <2>11. CASE UNCHANGED vars
    BY <2>1, <2>11, Zenon DEF vars, sequencing
  <2> QED
    BY <1>2, <2>2, <2>3, <2>4, <2>5, <2>6, <2>7, <2>8, <2>9, <2>10, <2>11 DEF Next
<1>3. Ordered => AppInOrder
  BY DEF Ordered
<1> QED BY <1>1, <1>2, <1>3, SInvInit, SInvNext, PTL DEF Spec

-----------------------------------------------------------------------------
(* Dispatch between Logon and Logout.                                      *)

(* What an acceptor has sent while the connection is open: no Logout, and  *)
(* when it is logged in a Logon.  Whatever sends a Logout also closes.     *)
WithinLogin ==
  /\ state \in {"Disconnected", "LoggedIn", "LogoutSent"}
  /\ state = "LogoutSent" => closed
  /\ ~closed => \A i \in 1 .. Len(sent) : sent[i].type # "Logout"
  /\ ~closed /\ state = "LoggedIn" => \E i \in 1 .. Len(sent) : sent[i].type = "Logon"

(* A message that is no Logout is sent, and the state stays as it is.      *)
LEMMA BuildWithin ==
  ASSUME WithinLogin, sent \in Seq(Records), NEW type, NEW arg, Build(type, arg),
         UNCHANGED state, type # "Logout", closed' \in BOOLEAN, closed => closed'
  PROVE  WithinLogin'
<1> DEFINE n == Len(sent)
<1>1. n \in Nat /\ Len(sent') = n + 1
  BY AppendProperties, LenProperties DEF Build, BuildFrom
<1>2. \A i \in 1 .. n : sent'[i] = sent[i]
  BY AppendProperties, LenProperties DEF Build, BuildFrom
<1>3. sent'[n + 1].type = type
  BY AppendProperties, LenProperties DEF Build, BuildFrom
<1>4. 1 .. n + 1 = (1 .. n) \cup {n + 1}
  BY <1>1
<1> HIDE DEF n
<1>5. ASSUME ~closed' PROVE \A i \in 1 .. n + 1 : sent'[i].type # "Logout"
  BY <1>2, <1>3, <1>4, <1>5, Zenon DEF WithinLogin, n
<1>6. ASSUME ~closed', state = "LoggedIn" PROVE \E i \in 1 .. n + 1 : sent'[i].type = "Logon"
  BY <1>2, <1>4, <1>6, Zenon DEF WithinLogin, n
<1> QED BY <1>1, <1>5, <1>6, Zenon DEF WithinLogin

(* Nothing is sent, and the state stays as it is.                          *)
LEMMA QuietWithin ==
  ASSUME WithinLogin, UNCHANGED <<state, sent>>, closed => closed'
  PROVE  WithinLogin'
  BY Zenon DEF WithinLogin

(* The connection is given up.                                             *)
LEMMA ClosingWithin ==
  ASSUME closed', state' \in {"Disconnected", "LoggedIn", "LogoutSent"}
  PROVE  WithinLogin'
  BY Zenon DEF WithinLogin

(* Admission: what was sent before is forgotten or holds no Logout.        *)
LEMMA LogonWithin ==
  ASSUME WithinLogin, sent \in Seq(Records), closed \in BOOLEAN,
         NEW seq, NEW ok \in BOOLEAN, Logon(seq, ok)
  PROVE  WithinLogin'
<1>1. CASE ~ok
  <2>1. closed' /\ state' = "Disconnected"
    BY <1>1, Zenon DEF Logon
  <2> QED BY <2>1, ClosingWithin, Zenon
<1>2. CASE ok
  <2> DEFINE log == IF ResetOnLogon THEN <<>> ELSE sent
             n == Len(log)
  <2>1. ~closed /\ ~closed' /\ state' = "LoggedIn"
    <3>1. ~closed /\ state' = "LoggedIn" /\ closed' = closed
      BY <1>2 DEF Logon, Parsed
    <3> QED BY <3>1, Zenon
  <2>2. PICK r : sent' = Append(log, r) /\ r.type = "Logon"
    BY <1>2 DEF Logon, BuildFrom
  <2>3. /\ log \in Seq(Records) /\ n \in Nat
        /\ \A i \in 1 .. n : log[i].type # "Logout"
    BY <2>1, EmptySeq, LenProperties DEF WithinLogin
  <2> HIDE DEF log
  <2>4. /\ Len(sent') = n + 1 /\ sent'[n + 1] = r
        /\ \A i \in 1 .. n : sent'[i] = log[i]
    BY <2>2, <2>3
  <2>5. 1 .. n + 1 = (1 .. n) \cup {n + 1}
    BY <2>3
  <2> HIDE DEF n
  <2>6. \A i \in 1 .. n + 1 : sent'[i].type # "Logout"
    BY <2>2, <2>3, <2>4, <2>5
  <2>7. \E i \in 1 .. n + 1 : sent'[i].type = "Logon"
    BY <2>2, <2>4, <2>5, Zenon
  <2> QED BY <2>1, <2>4, <2>6, <2>7, Zenon DEF WithinLogin
<1> QED BY <1>1, <1>2

(* Every message that is received keeps this.                              *)
LEMMA ReceiveWithin ==
  ASSUME WithinLogin, sent \in Seq(Records), closed \in BOOLEAN, NEW seq, Receive(seq)
  PROVE  WithinLogin'
<1> USE DEF Parsed, Accept, Quiet
<1>1. CASE \E ok \in BOOLEAN : Logon(seq, ok)
  BY <1>1, LogonWithin
<1>2. CASE NotALogon
  BY <1>2, ClosingWithin, Zenon DEF NotALogon
<1>3. CASE Gap(seq)
  BY <1>3, BuildWithin DEF Gap
<1>4. CASE TooLow(seq)
  BY <1>4, ClosingWithin, Zenon DEF TooLow
<1>5. CASE NoReply(seq)
  BY <1>5, QuietWithin, Zenon DEF NoReply
<1>6. CASE TestRequest(seq)
  BY <1>6, BuildWithin DEF TestRequest
<1>7. CASE Logout(seq)
  BY <1>7, ClosingWithin, Zenon DEF Logout
<1>8. CASE Application(seq)
  BY <1>8, QuietWithin, Zenon DEF Application
<1>9. CASE Unsupported(seq)
  BY <1>9, BuildWithin DEF Unsupported
<1>10. CASE \E range \in PeerRanges : ResendRequest(seq, range)
  BY <1>10, QuietWithin, Zenon DEF ResendRequest
<1> QED
  BY <1>1, <1>2, <1>3, <1>4, <1>5, <1>6, <1>7, <1>8, <1>9, <1>10, Zenon DEF Receive

(* And so does every other call of the transport to an acceptor.           *)
LEMMA StepWithin ==
  ASSUME ~ActiveSide, SInv, WithinLogin, [Next]_vars
  PROVE  WithinLogin'
<1>0. sent \in Seq(Records) /\ closed \in BOOLEAN
  BY Zenon DEF SInv, IsLog, Types
<1>1. CASE InitiateLogon \/ SendLogout
  BY <1>1, Zenon DEF InitiateLogon, SendLogout
<1>2. CASE \E seq \in PeerSeqs : Receive(seq)
  BY <1>0, <1>2, ReceiveWithin, Zenon
<1>3. CASE Malformed
  BY <1>3, ClosingWithin, Zenon DEF Malformed
<1>4. CASE Tick
  <2>1. CASE TickTest
    BY <1>0, <2>1, BuildWithin DEF TickTest
  <2>2. CASE TickTimeout
    BY <2>2, ClosingWithin, Zenon DEF TickTimeout
  <2>3. CASE TickBeat
    BY <1>0, <2>3, BuildWithin DEF TickBeat
  <2>4. CASE TickIdle
    BY <2>4, QuietWithin, Zenon DEF TickIdle, Quiet
  <2> QED BY <1>4, <2>1, <2>2, <2>3, <2>4, Zenon DEF Tick
<1>5. CASE SendExecutionReport
  BY <1>0, <1>5, BuildWithin DEF SendExecutionReport
<1>6. CASE Reported \/ Advance \/ PeerDies
  <2>1. UNCHANGED <<state, sent, closed>>
    BY <1>6, Zenon DEF Reported, Advance, PeerDies, sequencing
  <2> QED BY <2>1, QuietWithin, Zenon
<1>7. CASE Reconnect
  <2>1. state' = "Disconnected" /\ sent' = <<>>
    BY <1>7, Zenon DEF Reconnect
  <2> QED BY <2>1 DEF WithinLogin
<1>8. CASE UNCHANGED vars
  BY <1>8, QuietWithin, Zenon DEF vars, sequencing
<1> QED BY <1>1, <1>2, <1>3, <1>4, <1>5, <1>6, <1>7, <1>8, Zenon DEF Next

(* Only an accepted application message adds to what was dispatched.       *)
LEMMA OnlyApplication ==
  ASSUME [Next]_vars, delivered' # delivered, delivered' # <<>>
  PROVE  \E seq \in PeerSeqs : Application(seq)
<1>1. CASE \E seq \in PeerSeqs : Receive(seq)
  <2>1. PICK seq \in PeerSeqs : Receive(seq)
    BY <1>1
  <2>2. ASSUME NEW ok \in BOOLEAN, Logon(seq, ok) PROVE FALSE
    BY <2>2, Zenon DEF Logon
  <2>3. ASSUME \/ NotALogon \/ Gap(seq) \/ TooLow(seq) \/ NoReply(seq) \/ TestRequest(seq)
               \/ Logout(seq) \/ Unsupported(seq)
        PROVE  FALSE
    BY <2>3, Zenon DEF NotALogon, Gap, TooLow, NoReply, TestRequest, Logout, Unsupported
  <2>4. ASSUME NEW range \in PeerRanges, ResendRequest(seq, range) PROVE FALSE
    BY <2>4, Zenon DEF ResendRequest
  <2> QED BY <2>1, <2>2, <2>3, <2>4, Zenon DEF Receive
<1>2. CASE Tick
  BY <1>2, Zenon DEF Tick
<1>3. CASE InitiateLogon \/ SendLogout \/ Malformed \/ SendExecutionReport
  BY <1>3, Zenon DEF InitiateLogon, SendLogout, Malformed, SendExecutionReport
<1>4. CASE Reported \/ Advance \/ PeerDies \/ UNCHANGED vars
  BY <1>4, Zenon DEF Reported, Advance, PeerDies, sequencing, vars
<1>5. CASE Reconnect
  BY <1>5, Zenon DEF Reconnect
<1> QED BY <1>1, <1>2, <1>3, <1>4, <1>5, Zenon DEF Next

(* For every acceptor and every peer: an application message goes to the   *)
(* matcher only after the session's Logon and before its Logout, however   *)
(* messages are put into chunks.                                           *)
THEOREM DispatchedWithinSession == ~ActiveSide => (Spec => DispatchWithinSession)
<1> SUFFICES ASSUME ~ActiveSide PROVE Spec => DispatchWithinSession
  OBVIOUS
<1>1. Init => WithinLogin
  BY DEF Init, WithinLogin
<1>2. SInv /\ WithinLogin /\ [Next]_vars => WithinLogin'
  BY StepWithin, Zenon
<1>3. ASSUME SInv, WithinLogin, [Next]_vars, delivered' # delivered, delivered' # <<>>
      PROVE  /\ \E r \in Range(sent) : r.type = "Logon"
             /\ \A r \in Range(sent) : r.type # "Logout"
  <2>1. PICK seq \in PeerSeqs : Application(seq)
    BY <1>3, OnlyApplication, Zenon
  <2>2. ~closed /\ state # "Disconnected"
    BY <2>1, Zenon DEF Application, Accept, Parsed
  <2>3. state = "LoggedIn"
    BY <1>3, <2>2, Zenon DEF WithinLogin
  <2>4. sent \in Seq(Records)
    BY <1>3, Zenon DEF SInv, IsLog
  <2>5. Range(sent) = {sent[i] : i \in 1 .. Len(sent)}
    BY <2>4, RangeOfSeq, LenProperties DEF Range
  <2> QED BY <1>3, <2>2, <2>3, <2>5 DEF WithinLogin
<1> QED
  BY <1>1, <1>2, <1>3, SInvInit, SInvNext, PTL DEF Spec, DispatchWithinSession

-----------------------------------------------------------------------------
(* The answer to a ResendRequest.                                          *)

(* Min and Max of two numbers as comparisons.                              *)
LEMMA MinMaxPair ==
  ASSUME NEW a \in Int, NEW b \in Int
  PROVE  /\ Min({a, b}) = IF a <= b THEN a ELSE b
         /\ Max({a, b}) = IF a >= b THEN a ELSE b
  BY DEF Min, Max

(* Neither a number in use nor an EndSeqNo is the largest SeqNum, so that  *)
(* neither out_seq_ + 1 nor end + 1 wraps.                                 *)
NumbersFit ==
  MaxOut + 2 < SeqWord /\ \A range \in PeerRanges : range[2] + 1 < SeqWord

(* How many messages have fallen out of the ring.                          *)
Dropped == IF outSeq > HistorySize THEN outSeq - HistorySize ELSE 0

(* The ring holds the numbers after those.                                 *)
LEMMA RingHolds ==
  ASSUME SInv
  PROVE  /\ outSeq \in Nat /\ outSeq = Len(sent) /\ outSeq <= MaxOut + 1
         /\ Dropped \in 0 .. outSeq
         /\ history \in Seq(Records) /\ Len(history) = outSeq - Dropped
         /\ \A i \in 1 .. outSeq - Dropped : /\ history[i] = sent[Dropped + i]
                                             /\ history[i].seq = Dropped + i
<1> DEFINE n == Len(sent)
           d == Dropped
<1>1. /\ sent \in Seq(Records) /\ n \in Nat /\ outSeq = n /\ n <= MaxOut + 1
      /\ \A i \in 1 .. n : sent[i].seq = i
      /\ history = Ring(sent)
  BY LenProperties DEF SInv, IsLog, Bounded
<1>2. d \in 0 .. n /\ 1 + Max({0, n - HistorySize}) = d + 1
  BY <1>1, SessionAssumption, MaxZero DEF Dropped
<1> HIDE DEF d, n
<1>3. history = SubSeq(sent, d + 1, n)
  BY <1>1, <1>2, Zenon DEF Ring, n
<1>4. \A i \in d + 1 .. n : sent[i] \in Records
  BY <1>1, <1>2, ElementOfSeq DEF n
<1>5. /\ history \in Seq(Records) /\ Len(history) = n - d
      /\ \A i \in 1 .. n - d : history[i] = sent[d + i]
  BY <1>1, <1>2, <1>3, <1>4, SubSeqProperties
<1>6. \A i \in 1 .. n - d : history[i].seq = d + i
  BY <1>1, <1>2, <1>5
<1> QED BY <1>1, <1>2, <1>5, <1>6, Zenon DEF d, n

(* The loop over the ring takes the records from one number to another.    *)
LEMMA RingRange ==
  ASSUME SInv, NEW from \in Nat, NEW to \in Nat, Dropped < from, from <= to + 1, from <= outSeq + 1
  PROVE  LET last == IF to <= outSeq THEN to ELSE outSeq
             kept == Keep(history, {r \in Elems(history) : from <= r.seq /\ r.seq <= to})
         IN  /\ kept \in Seq(Records) /\ Len(kept) = last - from + 1
             /\ \A i \in 1 .. last - from + 1 : kept[i] = sent[from + i - 1]
<1> DEFINE d == Dropped
           S == {r \in Elems(history) : from <= r.seq /\ r.seq <= to}
           kept == Keep(history, S)
           m == Len(kept)
           n == Len(history)
           last == IF to <= outSeq THEN to ELSE outSeq
<1>1. /\ outSeq \in Nat /\ d \in 0 .. outSeq
      /\ history \in Seq(Records) /\ n = outSeq - d /\ n \in Nat
      /\ \A i \in 1 .. n : history[i] = sent[d + i] /\ history[i].seq = d + i
  BY RingHolds
<1>2. kept \in Seq(Records) /\ m \in Nat
  <2>1. kept \in Seq(Records)
    BY <1>1, KeepElems
  <2> QED BY <2>1, LenProperties
<1>3. PICK pos : Embeds(pos, kept, history, n, S)
  BY <1>1, KeepEmbeds, Zenon
<1> DEFINE a == from - d
           b == last - d
<1>4. a \in Int /\ b \in Int /\ a <= b + 1 /\ a >= 1 /\ b <= n
  BY <1>1 DEF d
<1>5. ASSUME NEW j \in 1 .. n PROVE history[j] \in S <=> j \in a .. b
  <2>1. history[j] \in Elems(history)
    BY <1>1 DEF Elems
  <2>2. history[j].seq = d + j
    BY <1>1
  <2>3. history[j] \in S <=> from <= d + j /\ d + j <= to
    BY <2>1, <2>2, Zenon
  <2> HIDE DEF S
  <2> QED BY <1>1, <2>3
<1> HIDE DEF S, kept, m, n, a, b, d
<1>6. pos \in [1 .. m -> a .. b]
  <2>1. pos \in [1 .. m -> 1 .. n] /\ \A k \in 1 .. m : history[pos[k]] \in S
    BY <1>3 DEF Embeds, m
  <2> QED BY <1>5, <2>1
<1>7. \A k, l \in 1 .. m : k < l => pos[k] < pos[l]
  BY <1>3 DEF Embeds, m
<1>8. \A j \in a .. b : \E k \in 1 .. m : pos[k] = j
  <2>1. \A j \in a .. b : j \in 1 .. n
    BY <1>1, <1>4
  <2> QED BY <1>3, <1>5, <2>1, Zenon DEF Embeds, m
<1>9. m = b - a + 1 /\ \A k \in 1 .. m : pos[k] = a + k - 1
  <2>1. m \in Nat /\ a \in Int /\ b \in Int /\ a <= b + 1
    BY <1>2, <1>4
  <2>2. CountsUp(pos, m, a, b)
    BY <2>1, <1>6, <1>7, <1>8, Zenon DEF CountsUp
  <2> QED BY <2>2, CountsThrough
<1>10. \A k \in 1 .. m : kept[k] = history[pos[k]] /\ pos[k] \in 1 .. n
  BY <1>3 DEF Embeds, m
<1>11. m = last - from + 1
  BY <1>1, <1>9 DEF a, b
<1>12. ASSUME NEW k \in 1 .. m PROVE kept[k] = sent[from + k - 1]
  <2>1. kept[k] = history[pos[k]] /\ pos[k] \in 1 .. n /\ pos[k] = a + k - 1
    BY <1>9, <1>10
  <2>2. history[pos[k]] = sent[d + pos[k]]
    BY <1>1, <2>1, Zenon
  <2>3. d + pos[k] = from + k - 1
    BY <1>1, <1>2, <2>1 DEF a
  <2> QED BY <2>1, <2>2, <2>3, Zenon
<1>13. \A k \in 1 .. last - from + 1 : kept[k] = sent[from + k - 1]
  BY <1>11, <1>12, Zenon
<1> QED BY <1>2, <1>11, <1>13, Zenon DEF S, kept, m

(* What handle_resend_request answers for one range.                       *)
LEMMA RangeAnswered ==
  ASSUME SInv, NumbersFit, NEW begin \in 0 .. SeqWord - 1, NEW endSeqNo \in 0 .. SeqWord - 1,
         endSeqNo + 1 < SeqWord
  PROVE  LET last == IF endSeqNo = 0 THEN outSeq ELSE Min({endSeqNo, outSeq})
             first == Max({begin, outSeq - HistorySize + 1})
             kept == [i \in 1 .. last - first + 1 |-> [sent[first + i - 1] EXCEPT !.dup = TRUE]]
             fill == [seq |-> begin, type |-> "SequenceReset", arg |-> Min({first, last + 1}),
                      dup |-> TRUE]
         IN  ResendReply(begin, endSeqNo) =
               IF begin = 0 \/ begin > last THEN <<>>
               ELSE (IF begin < first THEN <<fill>> ELSE <<>>) \o kept
<1> DEFINE d == Dropped
           last == IF endSeqNo = 0 THEN outSeq ELSE Min({endSeqNo, outSeq})
           first == Max({begin, outSeq - HistorySize + 1})
           kept == [i \in 1 .. last - first + 1 |-> [sent[first + i - 1] EXCEPT !.dup = TRUE]]
           end == IF endSeqNo = 0 THEN outSeq ELSE endSeqNo
           oldest == IF history = <<>> THEN NextSeq(outSeq) ELSE history[1].seq
           newSeqNo == Min({oldest, NextSeq(end)})
           gap == begin < oldest
           cursor == IF gap THEN newSeqNo ELSE begin
           wanted == Keep(history, {r \in Elems(history) : cursor <= r.seq /\ r.seq <= end})
           replays == [i \in 1 .. Len(wanted) |-> [wanted[i] EXCEPT !.dup = TRUE]]
<1>1. /\ outSeq \in Nat /\ outSeq <= MaxOut + 1 /\ d \in 0 .. outSeq
      /\ history \in Seq(Records) /\ Len(history) = outSeq - d
      /\ \A i \in 1 .. outSeq - d : history[i].seq = d + i
  BY RingHolds
<1>2. SeqWord \in Nat /\ MaxOut \in Nat /\ MaxOut + 2 < SeqWord /\ HistorySize \in Nat
  BY SessionAssumption DEF NumbersFit
<1>3. end \in Nat /\ NextSeq(end) = end + 1 /\ NextSeq(outSeq) = outSeq + 1
  <2>1. end \in Nat /\ end + 1 \in 0 .. SeqWord - 1 /\ outSeq + 1 \in 0 .. SeqWord - 1
    BY <1>1, <1>2
  <2>2. \A x \in 0 .. SeqWord - 1 : x % SeqWord = x
    BY <1>2
  <2> HIDE DEF end
  <2> QED BY <2>1, <2>2, Zenon DEF NextSeq
<1>4. oldest = d + 1
  <2>1. CASE history = <<>>
    BY <1>1, <1>3, <2>1
  <2>2. CASE history # <<>>
    <3>1. Len(history) # 0
      BY <1>1, <2>2, EmptySeq
    <3>2. 1 \in 1 .. outSeq - d
      BY <1>1, <3>1
    <3> QED BY <1>1, <2>2, <3>2
  <2> QED BY <2>1, <2>2
<1>5. last \in Nat /\ last = IF end <= outSeq THEN end ELSE outSeq
  BY <1>1, <1>3, MinMaxPair
<1>6. d = IF outSeq > HistorySize THEN outSeq - HistorySize ELSE 0
  BY DEF Dropped
<1> HIDE DEF d, last, end, oldest
<1>7. newSeqNo = IF d + 1 <= end + 1 THEN d + 1 ELSE end + 1
  BY <1>1, <1>3, <1>4, MinMaxPair
<1>8. gap <=> begin <= d
  BY <1>1, <1>4
<1> HIDE DEF newSeqNo, gap
<1>9. (begin = 0 \/ begin > last) <=> (begin = 0 \/ begin > end \/ begin > outSeq)
  BY <1>1, <1>3, <1>5
<1>10. CASE begin = 0 \/ begin > last
  BY <1>9, <1>10, Zenon DEF ResendReply, last, end
<1>11. CASE ~(begin = 0 \/ begin > last)
  <2>1. begin \in 1 .. last /\ begin <= end /\ begin <= outSeq
    BY <1>1, <1>3, <1>5, <1>11
  <2>2. first = IF begin <= d THEN d + 1 ELSE begin
    <3>1. begin \in Int /\ outSeq - HistorySize + 1 \in Int
      BY <1>1, <1>2
    <3>2. first = IF begin >= outSeq - HistorySize + 1 THEN begin ELSE outSeq - HistorySize + 1
      BY <3>1, MinMaxPair, Zenon
    <3> HIDE DEF first
    <3> QED BY <1>1, <1>2, <1>6, <2>1, <3>2
  <2> HIDE DEF first
  <2>3. first \in Nat /\ (gap <=> begin < first)
    BY <1>1, <1>8, <2>1, <2>2
  <2>4. gap => newSeqNo = Min({first, last + 1})
    <3>1. Min({first, last + 1}) = IF first <= last + 1 THEN first ELSE last + 1
      BY <1>5, <2>3, MinMaxPair
    <3> QED BY <1>1, <1>3, <1>5, <1>7, <1>8, <2>2, <3>1
  <2>5. kept = IF cursor > end THEN <<>> ELSE replays
    <3>1. CASE cursor > end
      <4>1. last - first + 1 <= 0
        BY <1>1, <1>3, <1>5, <1>7, <1>8, <2>1, <2>2, <3>1
      <4>2. 1 .. last - first + 1 = {}
        BY <1>5, <2>3, <4>1
      <4>3. kept = <<>>
        BY <4>2
      <4> QED BY <3>1, <4>3, Zenon
    <3>2. CASE ~(cursor > end)
      <4>1. cursor = first
        BY <1>1, <1>3, <1>7, <1>8, <2>1, <2>2, <3>2
      <4>2. d < first /\ first <= end + 1 /\ first <= outSeq + 1
        BY <1>1, <1>3, <1>7, <1>8, <2>1, <2>2, <3>2, <4>1
      <4> HIDE DEF cursor
      <4>3. /\ Len(wanted) = last - first + 1
            /\ \A i \in 1 .. last - first + 1 : wanted[i] = sent[first + i - 1]
        <5>1. wanted = Keep(history, {r \in Elems(history) : first <= r.seq /\ r.seq <= end})
          BY <4>1, Zenon
        <5> HIDE DEF wanted
        <5> QED BY <1>3, <1>5, <2>3, <4>2, <5>1, RingRange, Zenon DEF d
      <4> HIDE DEF wanted
      <4>4. replays = kept
        BY <4>3, Zenon
      <4> QED BY <3>2, <4>4, Zenon
    <3> QED BY <3>1, <3>2, Zenon
  <2> QED
    BY <1>9, <1>11, <2>3, <2>4, <2>5, Zenon DEF ResendReply, last, first, end, oldest, newSeqNo, gap
<1> QED BY <1>10, <1>11, Zenon DEF last, first

(* Every run's property, for every history size and every range: the       *)
(* answer of handle_resend_request accounts once, in order, for each       *)
(* requested number that was sent.                                         *)
THEOREM ResendAnswered == NumbersFit => (Spec => []ResendAnswers)
<1> SUFFICES ASSUME NumbersFit PROVE Spec => []ResendAnswers
  OBVIOUS
<1>1. ASSUME SInv PROVE ResendAnswers
  <2> SUFFICES ASSUME NEW range \in PeerRanges
               PROVE  LET begin == range[1]
                          last == IF range[2] = 0 THEN outSeq ELSE Min({range[2], outSeq})
                          first == Max({begin, outSeq - HistorySize + 1})
                          kept == [i \in 1 .. last - first + 1 |->
                                     [sent[first + i - 1] EXCEPT !.dup = TRUE]]
                          fill == [seq |-> begin, type |-> "SequenceReset",
                                   arg |-> Min({first, last + 1}), dup |-> TRUE]
                      IN  ResendReply(begin, range[2]) =
                            IF begin = 0 \/ begin > last THEN <<>>
                            ELSE (IF begin < first THEN <<fill>> ELSE <<>>) \o kept
    BY Zenon DEF ResendAnswers
  <2>1. /\ range[1] \in 0 .. SeqWord - 1 /\ range[2] \in 0 .. SeqWord - 1
        /\ range[2] + 1 < SeqWord
    BY SessionAssumption DEF NumbersFit
  <2> QED BY <1>1, <2>1, RangeAnswered, Zenon
<1> QED BY <1>1, SInvInit, SInvNext, PTL DEF Spec

-----------------------------------------------------------------------------
(* Gaps and replays.                                                       *)

(* The messages the peer has numbered.                                     *)
Numbered == {Message(n) : n \in 1 .. peerSeq}

(* What is on its way was numbered by the peer, in_seq_ is not beyond what *)
(* it numbered, and nothing was taken before its Logon.                    *)
GapInv ==
  /\ peerSeq \in 1 .. LastSeq /\ inbound \in Seq(Numbered)
  /\ inSeq \in 0 .. peerSeq /\ delivered \in Seq(Nat)
  /\ state = "Disconnected" => delivered = <<>>
  /\ EachOnceInOrder

(* What the numbers are.                                                   *)
LEMMA GapNumbers ==
  /\ LastSeq \in Nat \ {0} /\ SeqWord \in Nat /\ LastSeq + 1 < SeqWord
  /\ \A n \in AppSeqs : n \in Nat /\ n >= 2
<1>1. LastSeq \in Nat \ {0} /\ SeqWord \in Nat /\ LastSeq + 1 < SeqWord
  BY GapAssumption, SessionAssumption
<1>2. \A n \in AppSeqs : n \in 2 .. LastSeq
  BY GapAssumption, Zenon
<1>3. \A n \in 2 .. LastSeq : n \in Nat /\ n >= 2
  BY <1>1
<1> QED BY <1>1, <1>2, <1>3, Zenon

(* A replay sends nothing that the peer has not numbered.                  *)
LEMMA ReplayNumbered ==
  ASSUME NEW begin, peerSeq \in 1 .. LastSeq
  PROVE  Replay(begin) \in Seq(Numbered)
<1> DEFINE all == [n \in 1 .. peerSeq |-> Message(n)]
           again == {n \in begin .. peerSeq : n \in AppSeqs \/ n = begin \/ n - 1 \in AppSeqs}
           S == {Message(n) : n \in again}
<1>1. peerSeq \in Nat
  BY GapNumbers
<1>2. \A n \in 1 .. peerSeq : Message(n) \in Numbered
  BY DEF Numbered
<1>3. all \in [1 .. peerSeq -> Numbered]
  BY <1>2
<1>4. all \in Seq(Numbered)
  <2> HIDE DEF all
  <2> QED BY <1>1, <1>3
<1> HIDE DEF all, S
<1>5. Keep(all, S) \in Seq(Numbered)
  BY <1>4, KeepElems, Zenon
<1> QED BY <1>5, Zenon DEF Replay, all, S

(* The session takes the number after in_seq_, and nothing else.           *)
LEMMA TakesNext ==
  ASSUME GapInv, NEW m \in Numbered, Accept(m.seq)
  PROVE  /\ inSeq' = inSeq + 1 /\ m.seq = inSeq + 1 /\ inSeq \in Nat
         /\ inSeq' \in 0 .. peerSeq /\ state # "Disconnected"
         /\ m.kind = Kind(inSeq + 1)
<1>1. PICK n \in 1 .. peerSeq : m = Message(n)
  BY DEF Numbered
<1>2. m.seq = n /\ m.kind = Kind(n)
  BY <1>1 DEF Message
<1>3. /\ peerSeq \in Nat /\ peerSeq + 1 < SeqWord /\ inSeq \in 0 .. peerSeq /\ SeqWord \in Nat
      /\ n \in Nat /\ n # 0 /\ n <= peerSeq
  BY GapNumbers DEF GapInv
<1>4. inSeq' = n /\ n = (inSeq + 1) % SeqWord /\ state # "Disconnected"
  BY <1>2, <1>3, Zenon DEF Accept, Expected, NextSeq
<1>5. inSeq + 1 \in 0 .. SeqWord - 1
  BY <1>3
<1>6. (inSeq + 1) % SeqWord = inSeq + 1
  BY <1>3, <1>5
<1> QED BY <1>2, <1>3, <1>4, <1>6

(* An application message goes to the matcher after all with a smaller     *)
(* number.                                                                 *)
LEMMA TakesApplication ==
  ASSUME GapInv, NEW m \in Numbered, m.kind = "App", Application(m.seq)
  PROVE  /\ inSeq' \in 0 .. peerSeq /\ delivered' \in Seq(Nat)
         /\ state' # "Disconnected" /\ EachOnceInOrder'
<1> DEFINE k == Len(delivered)
<1>1. /\ inSeq' = inSeq + 1 /\ m.seq = inSeq + 1 /\ inSeq \in Nat
      /\ inSeq' \in 0 .. peerSeq /\ state # "Disconnected" /\ m.kind = Kind(inSeq + 1)
  BY TakesNext, Zenon DEF Application
<1>2. delivered' = Append(delivered, inSeq + 1) /\ state' = state
  BY <1>1, Zenon DEF Application
<1>3. inSeq + 1 \in AppSeqs
  BY <1>1 DEF Kind
<1>4. /\ delivered \in Seq(Nat) /\ Elems(delivered) = {n \in AppSeqs : n <= inSeq}
      /\ Ascending(delivered)
  BY DEF GapInv, EachOnceInOrder
<1>5. inSeq + 1 \in Nat
  BY <1>1
<1>6. delivered' \in Seq(Nat) /\ Elems(delivered') = Elems(delivered) \cup {inSeq + 1}
  BY <1>2, <1>4, <1>5, ElemsAppend, AppendProperties
<1>7. \A n \in AppSeqs : n \in Nat
  BY GapNumbers
<1>8. Elems(delivered') = {n \in AppSeqs : n <= inSeq'}
  BY <1>1, <1>3, <1>4, <1>6, <1>7
<1>9. Ascending(delivered')
  <2>1. /\ Len(delivered') = k + 1 /\ k \in Nat /\ delivered'[k + 1] = inSeq + 1
        /\ \A i \in 1 .. k : delivered'[i] = delivered[i]
    BY <1>2, <1>4, <1>5, AppendFacts
  <2>2. \A i \in 1 .. k : delivered[i] \in Nat /\ delivered[i] <= inSeq
    <3>1. \A i \in 1 .. k : delivered[i] \in Elems(delivered)
      BY DEF Elems
    <3> QED BY <1>4, <1>7, <3>1
  <2>3. \A i, j \in 1 .. k : i < j => delivered[i] < delivered[j]
    BY <1>4, Zenon DEF Ascending
  <2> HIDE DEF k
  <2> SUFFICES ASSUME NEW i \in 1 .. k + 1, NEW j \in 1 .. k + 1, i < j
               PROVE  delivered'[i] < delivered'[j]
    BY <2>1, Zenon DEF Ascending
  <2>4. i \in 1 .. k
    BY <2>1
  <2>5. CASE j = k + 1
    BY <1>1, <2>1, <2>2, <2>4, <2>5
  <2>6. CASE j \in 1 .. k
    BY <2>1, <2>3, <2>4, <2>6, Zenon
  <2> QED BY <2>1, <2>5, <2>6
<1> QED BY <1>1, <1>2, <1>6, <1>8, <1>9, Zenon DEF EachOnceInOrder

(* Any other message that is taken leaves nothing to dispatch.             *)
LEMMA TakesAdmin ==
  ASSUME GapInv, NEW m \in Numbered, m.kind = "Admin", NoReply(m.seq)
  PROVE  /\ inSeq' \in 0 .. peerSeq /\ delivered' \in Seq(Nat)
         /\ state' # "Disconnected" /\ EachOnceInOrder'
<1>1. /\ inSeq' = inSeq + 1 /\ inSeq \in Nat /\ inSeq' \in 0 .. peerSeq
      /\ state # "Disconnected" /\ m.kind = Kind(inSeq + 1)
  BY TakesNext, Zenon DEF NoReply
<1>2. delivered' = delivered /\ state' = state
  BY Zenon DEF NoReply
<1>3. inSeq + 1 \notin AppSeqs
  BY <1>1 DEF Kind
<1>4. \A n \in AppSeqs : n \in Nat
  BY GapNumbers
<1>5. {n \in AppSeqs : n <= inSeq'} = {n \in AppSeqs : n <= inSeq}
  BY <1>1, <1>3, <1>4
<1> QED BY <1>1, <1>2, <1>5, Zenon DEF GapInv, EachOnceInOrder

(* The Logon is number 1, and before it nothing was dispatched.            *)
LEMMA TakesLogon ==
  ASSUME GapInv, NEW m \in Numbered, m.kind = "Logon", Logon(m.seq, TRUE)
  PROVE  /\ inSeq' \in 0 .. peerSeq /\ delivered' \in Seq(Nat)
         /\ state' # "Disconnected" /\ EachOnceInOrder'
<1>1. PICK n \in 1 .. peerSeq : m = Message(n)
  BY DEF Numbered
<1>2. m.seq = n /\ m.kind = Kind(n)
  BY <1>1 DEF Message
<1>3. n = 1
  BY <1>2 DEF Kind
<1>4. inSeq' = 1 /\ state' = "LoggedIn" /\ delivered' = <<>>
  BY <1>2, <1>3, Zenon DEF Logon
<1>5. {a \in AppSeqs : a <= 1} = {}
  BY GapNumbers
<1>6. delivered' \in Seq(Nat) /\ Elems(delivered') = {} /\ Ascending(delivered')
  BY <1>4 DEF Elems, Ascending
<1>7. peerSeq \in Nat /\ peerSeq >= 1
  BY GapNumbers DEF GapInv
<1>8. 1 \in 0 .. peerSeq
  BY <1>7
<1> QED BY <1>4, <1>5, <1>6, <1>8, Zenon DEF EachOnceInOrder

(* Whatever comes next from the connection.                                *)
LEMMA DeliverKeeps ==
  ASSUME GapInv, Deliver
  PROVE  GapInv'
<1> DEFINE m == Head(inbound)
<1>1. inbound \in Seq(Numbered) /\ inbound # <<>> /\ inbound' = Tail(inbound)
      /\ peerSeq' = peerSeq
  BY Zenon DEF GapInv, Deliver
<1>2. m \in Numbered /\ inbound' \in Seq(Numbered)
  BY <1>1, HeadTailProperties
<1>3. Numbered' = Numbered
  BY <1>1, Zenon DEF Numbered, Message, Kind
<1>4. \/ m.kind = "Logon" /\ Logon(m.seq, TRUE)
      \/ m.kind = "App" /\ Application(m.seq)
      \/ m.kind = "Admin" /\ NoReply(m.seq)
      \/ Gap(m.seq) \/ TooLow(m.seq)
  BY Zenon DEF Deliver
<1> HIDE DEF m
<1>5. /\ inSeq' \in 0 .. peerSeq /\ delivered' \in Seq(Nat)
      /\ state' # "Disconnected" /\ EachOnceInOrder'
  <2>1. ASSUME inSeq' = inSeq, delivered' = delivered, state' # "Disconnected"
        PROVE  /\ inSeq' \in 0 .. peerSeq /\ delivered' \in Seq(Nat)
               /\ state' # "Disconnected" /\ EachOnceInOrder'
    BY <2>1, Zenon DEF GapInv, EachOnceInOrder
  <2>2. CASE Gap(m.seq)
    <3>1. inSeq' = inSeq /\ delivered' = delivered /\ state' # "Disconnected"
      BY <2>2, Zenon DEF Gap
    <3> QED BY <2>1, <3>1, Zenon
  <2>3. CASE TooLow(m.seq)
    <3>1. inSeq' = inSeq /\ delivered' = delivered /\ state' # "Disconnected"
      BY <2>3 DEF TooLow
    <3> QED BY <2>1, <3>1, Zenon
  <2> QED BY <1>2, <1>4, <2>2, <2>3, TakesLogon, TakesApplication, TakesAdmin, Zenon
<1> QED BY <1>1, <1>2, <1>3, <1>5, Zenon DEF GapInv

(* The peer numbers one more, or sends a replay.                           *)
LEMMA PeerKeeps ==
  ASSUME GapInv, (\E lost \in BOOLEAN : PeerSends(lost)) \/ PeerAnswers
  PROVE  GapInv'
<1>1. peerSeq \in 1 .. LastSeq /\ inbound \in Seq(Numbered) /\ inSeq \in 0 .. peerSeq
  BY DEF GapInv
<1>2. UNCHANGED <<inSeq, delivered, state>>
  BY DEF PeerSends, PeerAnswers, vars, sequencing
<1>3. ASSUME peerSeq' \in 1 .. LastSeq, peerSeq <= peerSeq', inbound' \in Seq(Numbered')
      PROVE  GapInv'
  <2>1. inSeq' \in 0 .. peerSeq'
    BY <1>1, <1>2, <1>3, GapNumbers
  <2> QED BY <1>2, <1>3, <2>1, Zenon DEF GapInv, EachOnceInOrder
<1>4. ASSUME NEW lost \in BOOLEAN, PeerSends(lost) PROVE GapInv'
  <2>1. peerSeq' = peerSeq + 1 /\ peerSeq < LastSeq
    BY <1>4 DEF PeerSends
  <2>2. peerSeq' \in 1 .. LastSeq /\ peerSeq <= peerSeq' /\ peerSeq + 1 \in 1 .. peerSeq'
        /\ 1 .. peerSeq \subseteq 1 .. peerSeq'
    BY <1>1, <2>1, GapNumbers
  <2>3. Numbered \subseteq Numbered' /\ Message(peerSeq + 1) \in Numbered'
    <3>1. Numbered' = {Message(n) : n \in 1 .. peerSeq'}
      BY Zenon DEF Numbered, Message, Kind
    <3> QED BY <2>2, <3>1, Zenon DEF Numbered
  <2>4. inbound \in Seq(Numbered')
    BY <1>1, <2>3, SeqMonotonic, Zenon
  <2>5. inbound' \in Seq(Numbered')
    <3>1. CASE lost
      BY <1>4, <2>4, <3>1, Zenon DEF PeerSends
    <3>2. CASE ~lost
      <4>1. inbound' = Append(inbound, Message(peerSeq + 1))
        BY <1>4, <3>2, Zenon DEF PeerSends
      <4> QED BY <2>3, <2>4, <4>1, AppendProperties, Zenon
    <3> QED BY <3>1, <3>2, Zenon
  <2> QED BY <1>3, <2>2, <2>5, Zenon
<1>5. ASSUME PeerAnswers PROVE GapInv'
  <2>1. peerSeq' = peerSeq
    BY <1>5, Zenon DEF PeerAnswers
  <2>2. Numbered' = Numbered
    BY <2>1, Zenon DEF Numbered, Message, Kind
  <2>3. inbound' = inbound \/ inbound' = inbound \o Replay(Head(requests))
    BY <1>5, Zenon DEF PeerAnswers
  <2>4. Replay(Head(requests)) \in Seq(Numbered)
    BY <1>1, ReplayNumbered, Zenon
  <2>5. inbound' \in Seq(Numbered)
    BY <1>1, <2>3, <2>4, ConcatProperties, Zenon
  <2>6. peerSeq <= peerSeq
    BY <1>1, GapNumbers
  <2> QED BY <1>1, <1>3, <2>1, <2>2, <2>5, <2>6, Zenon
<1> QED BY <1>4, <1>5, Zenon

(* However many messages are lost, filled, repeated or replayed, and       *)
(* however often: the matcher gets every application message up to         *)
(* in_seq_, each once and in order, as long as no number wraps.            *)
THEOREM NothingPassedOver == GapSpec => []EachOnceInOrder
<1>1. ASSUME GapInit PROVE GapInv
  <2>1. /\ peerSeq = 1 /\ inbound = <<Message(1)>> /\ inSeq = 0 /\ delivered = <<>>
    BY <1>1, Zenon DEF GapInit, Init
  <2>2. peerSeq \in 1 .. LastSeq /\ inSeq \in 0 .. peerSeq
    BY <2>1, GapNumbers
  <2>3. Message(1) \in Numbered
    BY <2>1 DEF Numbered
  <2>4. inbound \in Seq(Numbered) /\ delivered \in Seq(Nat)
    BY <2>1, <2>3
  <2>5. {n \in AppSeqs : n <= 0} = {}
    BY GapNumbers
  <2>6. Elems(delivered) = {} /\ Ascending(delivered)
    BY <2>1 DEF Elems, Ascending
  <2> QED BY <2>1, <2>2, <2>4, <2>5, <2>6, Zenon DEF GapInv, EachOnceInOrder
<1>2. ASSUME GapInv, [GapNext]_gapVars PROVE GapInv'
  <2>1. ASSUME UNCHANGED <<inSeq, delivered, peerSeq, inbound>>,
               state' = "Disconnected" => state = "Disconnected"
        PROVE  GapInv'
    <3>1. Numbered' = Numbered
      BY <2>1, Zenon DEF Numbered, Message, Kind
    <3> QED BY <1>2, <2>1, <3>1, Zenon DEF GapInv, EachOnceInOrder
  <2>2. CASE (\E lost \in BOOLEAN : PeerSends(lost)) \/ PeerAnswers
    BY <1>2, <2>2, PeerKeeps, Zenon
  <2>3. CASE Deliver
    BY <1>2, <2>3, DeliverKeeps, Zenon
  <2>4. CASE EndOfTurn
    <3>1. UNCHANGED <<inSeq, delivered, peerSeq, inbound>>
      BY <2>4, Zenon DEF EndOfTurn, Tick, Reported, sequencing, peerVars
    <3>2. state' = "Disconnected" => state = "Disconnected"
      BY <2>4 DEF EndOfTurn, Tick, Reported, TickTest, TickTimeout, TickBeat, TickIdle
    <3> QED BY <2>1, <3>1, <3>2, Zenon
  <2>5. CASE UNCHANGED gapVars
    <3>1. UNCHANGED <<inSeq, delivered, peerSeq, inbound, state>>
      BY <2>5 DEF gapVars, peerVars, vars, sequencing
    <3> QED BY <2>1, <3>1, Zenon
  <2> QED BY <1>2, <2>2, <2>3, <2>4, <2>5, Zenon DEF GapNext
<1>3. GapInv => EachOnceInOrder
  BY Zenon DEF GapInv
<1> QED BY <1>1, <1>2, <1>3, PTL DEF GapSpec

=============================================================================
