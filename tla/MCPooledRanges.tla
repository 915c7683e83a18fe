--------------------------- MODULE MCPooledRanges ---------------------------
(* Instances of PooledRanges for TLC. *)
EXTENDS PooledRanges

CONSTANTS a, b, d, w1, w2

MCSize21 == [c \in Calls |-> IF c = a THEN 2 ELSE 1]
MCSize1 == [c \in Calls |-> 1]
MCSize2 == [c \in Calls |-> 2]
=============================================================================
