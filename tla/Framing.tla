------------------------------ MODULE Framing -------------------------------
(***************************************************************************)
(* From bytes to messages: Session::on_bytes with its buffer in_buf_,      *)
(* Parser::parse_one, and Serializer::build for what a correct peer sends. *)
(* The peer's bytes are a stream of messages; what the parser looks at     *)
(* in each is whether its header is right, the digits of its BodyLength,   *)
(* its fields with their sizes, and whether its trailer "10=NNN" is right. *)
(* TCP delivers the stream in chunks of any size.  Sizes are the code's.   *)
(*                                                                         *)
(* Where a wrong BodyLength points there is no right trailer by chance,    *)
(* and no BodyLength is so large that 64-bit offsets wrap.                 *)
(***************************************************************************)
EXTENDS Lists, FiniteSetsExt

CONSTANTS Streams    \* the streams a peer may send

Field == [tag : Nat, size : Nat, wellFormed : BOOLEAN]

Message == [body : Seq(Field), declared : Nat, header : BOOLEAN, numeric : BOOLEAN,
            trailer : BOOLEAN, fatal : BOOLEAN]

VARIABLES
  stream,    \* what this peer sends
  received,  \* number of its bytes that on_bytes was called with
  next,      \* in_buf_ begins with message number next
  handled,   \* the messages given to handle_message
  err,       \* the parse error that ended the session
  ended      \* SessionStep::disconnect

framingVars == <<stream, received, next, handled, err, ended>>

-----------------------------------------------------------------------------
(* Sizes: "8=FIX.4.4|9=", the digits, SOH, the body, "10=NNN|".            *)
HeaderSize == 12
TrailerSize == 7

HasDigits(n, d) == n < 10 ^ d /\ (d > 1 => n >= 10 ^ (d - 1))

Digits(n) == CHOOSE d \in 1 .. 20 : HasDigits(n, d)

BodySize(m) == Sum([i \in 1 .. Len(m.body) |-> m.body[i].size])

BodyStart(m) == HeaderSize + Digits(m.declared) + 1

(* A BodyLength has at most 20 digits.                                     *)
ASSUME FramingAssumption ==
  /\ Streams \subseteq Seq(Message)
  /\ \A s \in Streams : \A i \in DOMAIN s : \E d \in 1 .. 20 : HasDigits(s[i].declared, d)

Size(m) == BodyStart(m) + BodySize(m) + TrailerSize

(* Serializer::build, for fields of a tag and a size each.                 *)
Build(fields) ==
  LET m == [body |-> fields, declared |-> 0, header |-> TRUE, numeric |-> TRUE,
            trailer |-> TRUE, fatal |-> FALSE]
  IN  [m EXCEPT !.declared = BodySize(m)]

(* The walk over the fields, tags 8 and 9 first: the first field that is   *)
(* no tag=value or repeats a tag ends it.                                  *)
WalkFields(m) ==
  LET repeats(i) == m.body[i].tag \in {8, 9} \cup {m.body[j].tag : j \in 1 .. i - 1}
      bad == {i \in DOMAIN m.body : ~m.body[i].wellFormed \/ repeats(i)}
  IN  IF bad = {} THEN "None"
      ELSE IF m.body[Min(bad)].wellFormed THEN "DuplicateField" ELSE "MalformedField"

(* Slip: no least size, so that a part of the header is taken for a wrong  *)
(* one.                                                                    *)
SlipNoMinimum(m, avail) ==
  IF ~m.header \/ avail < HeaderSize THEN "BadHeader"
  ELSE IF avail < BodyStart(m) THEN "Incomplete"
  ELSE IF ~m.numeric THEN "BadBodyLength"
  ELSE IF avail < BodyStart(m) + m.declared + TrailerSize THEN "Incomplete"
  ELSE IF m.declared # BodySize(m) \/ ~m.trailer THEN "BadCheckSum"
  ELSE WalkFields(m)

(* parse_one, of avail bytes that begin with message m.                    *)
ParseOne(m, avail) ==
  IF avail < 20 THEN "Incomplete"
  ELSE IF ~m.header THEN "BadHeader"
  ELSE IF avail < BodyStart(m) THEN "Incomplete"
  ELSE IF ~m.numeric THEN "BadBodyLength"
  ELSE IF avail < BodyStart(m) + m.declared + TrailerSize THEN "Incomplete"
  ELSE IF m.declared # BodySize(m) \/ ~m.trailer THEN "BadCheckSum"
  ELSE WalkFields(m)

-----------------------------------------------------------------------------
(* Offset at which message i of the stream begins.                         *)
Offset(i) == PartialSums([j \in 1 .. Len(stream) |-> Size(stream[j])])[i - 1]

StreamSize == Offset(Len(stream) + 1)

FramingInit ==
  /\ stream \in Streams /\ received = 0 /\ next = 1
  /\ handled = <<>> /\ err = "None" /\ ended = FALSE

(* What parse_one says of message i once got bytes have come, and where    *)
(* that makes the loop of on_bytes stop.                                   *)
Result(i, got) == IF i > Len(stream) THEN "Incomplete"
                  ELSE ParseOne(stream[i], got - Offset(i))

Stops(got) ==
  {i \in next .. Len(stream) + 1 : Result(i, got) # "None" \/ stream[i].fatal}

(* Slip: the incomplete message is erased as well.                         *)
SlipErase(n) ==
  LET stop == Min(Stops(received + n))
      result == Result(stop, received + n)
      fatal == result = "None"
  IN  /\ ~ended /\ received + n <= StreamSize /\ received' = received + n
      /\ next' = IF fatal \/ result = "Incomplete" THEN stop + 1 ELSE stop
      /\ handled' = handled \o [i \in 1 .. (IF fatal THEN stop + 1 ELSE stop) - next |-> next + i - 1]
      /\ err' = IF fatal \/ result = "Incomplete" THEN "None" ELSE result
      /\ ended' = (fatal \/ result # "Incomplete")
      /\ UNCHANGED stream

(* on_bytes with the next n bytes.  Its loop stops at the first message    *)
(* that is incomplete or wrong, or after one that ends the session.        *)
OnBytes(n) ==
  LET stop == Min(Stops(received + n))
      result == Result(stop, received + n)
      fatal == result = "None"
  IN  /\ ~ended /\ received + n <= StreamSize /\ received' = received + n
      /\ next' = IF fatal THEN stop + 1 ELSE stop
      /\ handled' = handled \o [i \in 1 .. next' - next |-> next + i - 1]
      /\ err' = IF fatal \/ result = "Incomplete" THEN "None" ELSE result
      /\ ended' = (fatal \/ result # "Incomplete")
      /\ UNCHANGED stream

FramingNext == \E n \in 1 .. StreamSize : OnBytes(n)

FramingSpec == FramingInit /\ [][FramingNext]_framingVars

-----------------------------------------------------------------------------
(* What the standard makes of a message, told from all of its bytes.       *)
Correct(m) ==
  /\ m.header /\ m.numeric /\ m.trailer /\ m.declared = BodySize(m)
  /\ \A i \in DOMAIN m.body : m.body[i].wellFormed /\ m.body[i].tag \notin {8, 9}
  /\ \A i, j \in DOMAIN m.body : i # j => m.body[i].tag # m.body[j].tag

(* However TCP cuts the stream, a message is handled by the call that      *)
(* brings its last byte: after each call those handled are the correct     *)
(* messages that are complete, up to the first one that is wrong or ends   *)
(* the session.                                                            *)
HandledOnLastByte ==
  /\ Ascending(handled)
  /\ Elems(handled) = {i \in DOMAIN stream : /\ Offset(i + 1) <= received
                                             /\ \A j \in 1 .. i : Correct(stream[j])
                                             /\ \A j \in 1 .. i - 1 : ~stream[j].fatal}

(* The session is given up for a parse error only if the message at the    *)
(* head of the buffer is wrong: never because a part of it is missing.     *)
NoFalseAlarm == err # "None" => ~Correct(stream[next])

=============================================================================
