------------------------------- MODULE Lists --------------------------------
(***************************************************************************)
(* Operators on sequences that several components use, written so that     *)
(* facts about them can be proved: see ListLemmas.                         *)
(***************************************************************************)
EXTENDS Integers, Sequences

Elems(s) == {s[i] : i \in 1 .. Len(s)}

(* The elements of s that are in S, in order: what a loop over s takes     *)
(* that passes over the others, or what is left of an intrusive list once  *)
(* the others are unlinked.  (SelectSeq as a recursive function.)          *)
KeptPrefix(s, S) ==
  LET kept[i \in 0 .. Len(s)] ==
        IF i = 0 THEN <<>>
        ELSE IF s[i] \in S THEN Append(kept[i - 1], s[i]) ELSE kept[i - 1]
  IN  kept

Keep(s, S) == KeptPrefix(s, S)[Len(s)]

(* The sums of the prefixes of a sequence of numbers, and of all of it.    *)
PartialSums(q) ==
  LET sum[i \in 0 .. Len(q)] == IF i = 0 THEN 0 ELSE sum[i - 1] + q[i]
  IN  sum

Sum(q) == PartialSums(q)[Len(q)]

Ascending(s) == \A i, j \in 1 .. Len(s) : i < j => s[i] < s[j]

Position(s, e) == CHOOSE i \in 1 .. Len(s) : s[i] = e

=============================================================================
