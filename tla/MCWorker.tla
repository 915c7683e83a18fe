------------------------------ MODULE MCWorker ------------------------------
(* An instance of Worker for TLC: two ranges, which may block both runners. *)
EXTENDS Worker

CONSTANTS s1, r1, r2

MCRequests == [s \in Conns |-> <<"other", "latestData", "getReward", "getTransactions">>]
=============================================================================
