---------------------------- MODULE MCRangeTask ----------------------------
(* Instances of RangeTask for TLC. *)
EXTENDS RangeTask

MCNumTxs == [h \in 1 .. 3 |-> h % 2]
MCAll    == [handler : Handlers, payload : Payloads]
=============================================================================
