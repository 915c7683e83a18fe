---------------------------- MODULE OrderedRange ----------------------------
(***************************************************************************)
(* What getRange (client/client.go) promises to its caller, without the    *)
(* goroutines and channels it is built from: the responses of the heights  *)
(* Start..LastHeight reach the out channel height by height, each block    *)
(* before its transactions, each transaction once and in order.  The call  *)
(* ends well only when the whole range is out; otherwise it ends in error, *)
(* and then the Error response of the lowest height that could not be      *)
(* fetched is the last thing on the channel.                               *)
(***************************************************************************)
EXTENDS HeightRange

-----------------------------------------------------------------------------
VARIABLES out,      \* everything put on the out channel so far
          status    \* "open", then "ok" or "failed" once getRange has returned

vars == <<out, status>>

\* the responses the range may continue with after height h is through
Heads(h) ==
  IF h \in Heights THEN { Response(h, "Block", 0), Response(h, "Error", 0) } ELSE {}

\* the responses that may follow m
Successors(m) ==
  IF m.type = "Error" THEN {}
  ELSE IF m.i < NumTxs[m.height]
       THEN { Response(m.height, "Transaction", m.i + 1) }
       ELSE Heads(m.height + 1)

Continuations == IF out = << >> THEN Heads(Start) ELSE Successors(LastOf(out))

Init == /\ out = << >>
        /\ status = "open"

Emit == /\ status = "open"
        /\ \E m \in Continuations : out' = Append(out, m)
        /\ UNCHANGED status

\* every height is out, with all its transactions
Finish == /\ status = "open"
          /\ out # << >>
          /\ LastOf(out).type # "Error"
          /\ Continuations = {}
          /\ status' = "ok"
          /\ UNCHANGED out

Fail == /\ status = "open"
        /\ out # << >>
        /\ LastOf(out).type = "Error"
        /\ status' = "failed"
        /\ UNCHANGED out

Next == Emit \/ Finish \/ Fail

Spec == Init /\ [][Next]_vars

-----------------------------------------------------------------------------
(* Properties *)

\* m belongs before n on the channel
Before(m, n) == m.height < n.height \/ (m.height = n.height /\ m.i < n.i)

\* What the caller can rely on.  No response is repeated or out of place; nothing
\* in front of a response is missing, and nothing at all when getRange returns
\* nil; an Error is the last response and never one of a range that ended well.
WholeInOrder ==
  /\ \A i, j \in 1 .. Len(out) : i < j => Before(out[i], out[j])
  /\ \A h \in Heights : \A k \in 0 .. NumTxs[h] :
       status = "ok" \/ (\E j \in 1 .. Len(out) : Before(Content(h, k), out[j])) =>
         \E i \in 1 .. Len(out) : out[i] = Content(h, k)
  /\ \A i \in 1 .. Len(out) : out[i].type = "Error" => i = Len(out) /\ status # "ok"
=============================================================================
