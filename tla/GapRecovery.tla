---------------------------- MODULE GapRecovery -----------------------------
(***************************************************************************)
(* A Session and the peer it logs on: what becomes of messages that the    *)
(* peer has numbered and the session has not got.  The connection keeps    *)
(* the order; a number goes missing when the peer does not put its message *)
(* on this connection.  The peer is external: it answers a ResendRequest   *)
(* as handle_resend_request does, with each application message again and  *)
(* one GapFill for a run of other messages.                                *)
(***************************************************************************)
EXTENDS Session

CONSTANTS
  AppSeqs,    \* the numbers that are application messages
  LastSeq     \* the last number the peer uses

(* The peer's Logon has the number 1; no SeqNum wraps within a connection. *)
ASSUME GapAssumption ==
  LastSeq \in Nat \ {0} /\ LastSeq + 1 < SeqWord /\ AppSeqs \subseteq 2 .. LastSeq

VARIABLES
  eachOnce,   \* this peer answers for the same BeginSeqNo only once
  inbound,    \* messages on their way to the session
  requests,   \* BeginSeqNos on their way to the peer
  peerSeq,    \* the last number the peer has used
  answered    \* the last BeginSeqNo it has answered

peerVars == <<eachOnce, inbound, requests, peerSeq, answered>>
gapVars == <<vars, peerVars>>

Kind(n) == IF n = 1 THEN "Logon" ELSE IF n \in AppSeqs THEN "App" ELSE "Admin"

Message(n) == [seq |-> n, kind |-> Kind(n)]

(* What is sent again: a GapFill carries the first number of its run.      *)
Replay(begin) ==
  LET again == {n \in begin .. peerSeq : n \in AppSeqs \/ n = begin \/ n - 1 \in AppSeqs}
  IN  Keep([n \in 1 .. peerSeq |-> Message(n)], {Message(n) : n \in again})

GapInit == /\ Init /\ eachOnce \in BOOLEAN /\ inbound = <<Message(1)>> /\ requests = <<>>
           /\ peerSeq = 1 /\ answered = 0

(* The peer uses its next number, on this connection or elsewhere.         *)
PeerSends(lost) ==
  /\ peerSeq < LastSeq /\ peerSeq' = peerSeq + 1
  /\ lost => peerSeq' < LastSeq
  /\ inbound' = IF lost THEN inbound ELSE Append(inbound, Message(peerSeq + 1))
  /\ UNCHANGED <<vars, eachOnce, requests, answered>>

PeerAnswers ==
  /\ requests # <<>> /\ requests' = Tail(requests)
  /\ IF eachOnce /\ Head(requests) <= answered
       THEN UNCHANGED <<inbound, answered>>
       ELSE /\ inbound' = inbound \o Replay(Head(requests))
            /\ answered' = Head(requests)
  /\ UNCHANGED <<vars, eachOnce, peerSeq>>

(* on_bytes takes the next message from the connection.                    *)
Deliver ==
  LET m == Head(inbound)
  IN  /\ inbound # <<>> /\ inbound' = Tail(inbound)
      /\ \/ m.kind = "Logon" /\ Logon(m.seq, TRUE)
         \/ m.kind = "App" /\ Application(m.seq)
         \/ m.kind = "Admin" /\ NoReply(m.seq)
         \/ Gap(m.seq) \/ TooLow(m.seq)
      /\ requests' = IF \E r \in Range(out') : r.type = "ResendRequest"
                       THEN Append(requests, out'[1].arg) ELSE requests
      /\ UNCHANGED <<eachOnce, peerSeq, answered>>

(* The rest of a turn of session_loop, without reports.                    *)
EndOfTurn == ((phase = "dispatched" /\ Tick) \/ Reported) /\ UNCHANGED peerVars

GapNext == (\E lost \in BOOLEAN : PeerSends(lost)) \/ PeerAnswers \/ Deliver \/ EndOfTurn

GapSpec == GapInit /\ [][GapNext]_gapVars

(* The connection delivers, the session thread is scheduled, and the peer  *)
(* answers and sends all its messages.                                     *)
GapFairSpec ==
  /\ GapSpec
  /\ WF_gapVars(\E lost \in BOOLEAN : PeerSends(lost))
  /\ WF_gapVars(PeerAnswers) /\ WF_gapVars(Deliver) /\ WF_gapVars(EndOfTurn)

-----------------------------------------------------------------------------
(* The matcher gets every application message up to in_seq_, each once and *)
(* in order, whatever is lost, sent again, sent again twice, or filled:    *)
(* nothing is passed over and nothing is taken twice.                      *)
EachOnceInOrder ==
  Elems(delivered) = {n \in AppSeqs : n <= inSeq} /\ Ascending(delivered)

(* Gaps close: with a peer that does not answer the same request twice,    *)
(* every application message it numbers gets to the matcher, though the    *)
(* session takes a GapFill for one number only and asks again.             *)
Recovers == eachOnce ~> Range(delivered) = AppSeqs

=============================================================================
