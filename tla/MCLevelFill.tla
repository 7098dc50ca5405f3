---------------------------- MODULE MCLevelFill -----------------------------
(* Levels of up to three orders of up to MaxLeaves each, for TLC.          *)
EXTENDS LevelFill

CONSTANTS MaxCount, MaxLeaves

MCQueues == UNION {[1 .. n -> 1 .. MaxLeaves] : n \in 1 .. MaxCount}

=============================================================================
