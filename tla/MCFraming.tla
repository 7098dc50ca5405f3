----------------------------- MODULE MCFraming ------------------------------
(* Streams of up to three messages, one of which may be wrong.             *)
EXTENDS Framing

OfSize(tag, size) == [tag |-> tag, size |-> size, wellFormed |-> TRUE]

(* A body of none, one and two fields: 21, 26 and 33 bytes.                *)
Empty == Build(<<>>)
Short == Build(<<OfSize(35, 5)>>)
Long == Build(<<OfSize(35, 5), OfSize(34, 6)>>)

(* Long with one thing changed.                                            *)
Wrong == {[Long EXCEPT !.header = FALSE], [Long EXCEPT !.numeric = FALSE],
          [Long EXCEPT !.trailer = FALSE], [Long EXCEPT !.declared = 10],
          [Long EXCEPT !.declared = 12],
          [Long EXCEPT !.body[2].wellFormed = FALSE], [Long EXCEPT !.body[2].tag = 35],
          [Long EXCEPT !.body[1].tag = 9]}

Final == [Short EXCEPT !.fatal = TRUE]

Mixed == {<<m, Short, Empty>> : m \in {Long, Final} \cup Wrong}
         \cup {<<Empty, m, Short>> : m \in {Final} \cup Wrong}
         \cup {<<Short, Empty, m>> : m \in Wrong}

=============================================================================
