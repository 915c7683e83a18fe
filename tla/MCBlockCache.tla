---------------------------- MODULE MCBlockCache ----------------------------
(* An instance of BlockCache for TLC: twice as many heights as the cache holds. *)
EXTENDS BlockCache

CONSTANTS c1, c2

MCChain == 1 .. 4
=============================================================================
