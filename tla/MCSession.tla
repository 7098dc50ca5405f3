----------------------------- MODULE MCSession ------------------------------
(***************************************************************************)
(* Small instances of Session.                                             *)
(***************************************************************************)
EXTENDS Session

(* Every range over the numbers in use, with EndSeqNo 0 and beyond the     *)
(* last message sent.                                                      *)
Ranges == (0 .. MaxOut + 2) \X (0 .. MaxOut + 2)

(* An open range, a closed one and one past the end, for the instances     *)
(* that are about something else.                                          *)
FewRanges == {<<1, 0>>, <<2, 2>>, <<2, MaxOut + 2>>}

=============================================================================
