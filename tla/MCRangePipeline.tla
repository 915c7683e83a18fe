--------------------------- MODULE MCRangePipeline ---------------------------
(* Instances of RangePipeline for TLC. *)
EXTENDS RangePipeline

CONSTANTS w1, w2

MCNumTxs    == <<2, 1, 0, 1, 0>>
MCAllFail   == 1 .. 5
MCNumTxs1to4 == [h \in 1 .. 4 |-> h % 3]
MCNumTxs1to6 == [h \in 1 .. 6 |-> 0]
MCFail2      == {2}
=============================================================================
