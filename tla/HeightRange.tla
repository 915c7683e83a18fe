----------------------------- MODULE HeightRange -----------------------------
(***************************************************************************)
(* A task's structs.HeightRange, the blocks it covers and the responses    *)
(* (cStructs.OutResp) they give rise to.                                   *)
(***************************************************************************)
EXTENDS Integers, Sequences

CONSTANTS Start,      \* hr.StartHeight
          End,        \* hr.EndHeight
          NumTxs      \* NumTxs[h]: transactions found in block h

\* populateRange tests its bound after the body: height Start is always asked for
LastHeight == IF Start > End THEN Start ELSE End
Heights    == Start .. LastHeight

(***************************************************************************)
(* cStructs.OutResp: Type, the height it belongs to and, for a             *)
(* transaction, its position in the block (0 otherwise).                   *)
(***************************************************************************)
Response(h, t, k) == [height |-> h, type |-> t, i |-> k]

\* what a fetched height gives: its block (k = 0) and its transactions
Content(h, k) == Response(h, IF k = 0 THEN "Block" ELSE "Transaction", k)

OutResponses ==
  [height : Heights, type : {"Block", "Transaction", "Error"}, i : Nat]

LastOf(s) == s[Len(s)]
=============================================================================
