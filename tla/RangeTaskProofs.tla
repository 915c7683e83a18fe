-------------------------- MODULE RangeTaskProofs --------------------------
(***************************************************************************)
(* What a range task sends to its stream, for every range, every capacity  *)
(* of out and every interleaving of the handler, sendResp and a            *)
(* cancellation: the orders are consecutive, and an END without an error   *)
(* before it means that the whole range has been sent.  Handler and        *)
(* sendResp never wait for each other.                                     *)
(***************************************************************************)
EXTENDS RangeTask, FiniteSetTheorems, TLAPS

-----------------------------------------------------------------------------
(* The inductive invariant *)

\* sendResp counts what it receives, and sends all of it; END is the last thing
\* it sends, fin is touched only after END, and the handler has not started it
\* before getRange.
RelayInv ==
  /\ order = taken /\ taken = Cardinality(Sent("data"))
  /\ \A i \in Sent("data") : stream[i].order < taken
  /\ \A n \in 0 .. taken - 1 : \E i \in Sent("data") : stream[i].order = n
  /\ spc \in {"none", "loop", "end"} => Sent("END") = {}
  /\ spc # "exited" => fin = 0 /\ ~finClosed
  /\ hpc \in {"decode", "latest"} => spc = "none"

\* As long as no error has been sent and the context of Run is not done, out is
\* closed only after a complete range, the handler cancels sendResp only once
\* sendResp is through, and sendResp leaves its loop only with everything sent.
HandlerInv ==
  /\ hpc \in {"close", "wait"} => status = "ok"
  /\ hpc = "closeErr" => Sent("error") # {}
  /\ outClosed /\ Sent("error") = {} => status = "ok"
  /\ cancelled /\ ~ctxDone /\ Sent("error") = {} => spc = "exited"
  /\ spc = "end" /\ ~ctxDone /\ Sent("error") = {} => status = "ok" /\ taken = Len(out)

\* Where sendResp stands for each place of the handler.
PairInv ==
  /\ outClosed => hpc \in {"wait", "returned"}
  /\ hpc \in {"range", "sendErr", "closeErr", "close", "wait"} => spc # "none"
  /\ hpc \in {"range", "sendErr", "closeErr", "close"} => spc = "loop" \/ ctxDone
  /\ hpc \in {"decode", "latest", "range"} => status = "open"
  /\ hpc = "wait" => outClosed
  /\ hpc = "returned" => spc = "none" \/ cancelled
  /\ cancelled => hpc = "returned"
  /\ spc = "exited" => finClosed

\* END in terms of what getRange has put on out.
EndCounted ==
  \A e \in Sent("END") :
    ~ctxDone /\ (\A j \in Sent("error") : j > e) =>
      status = "ok" /\ taken = Len(out)

-----------------------------------------------------------------------------
(* Sequences and sets *)

\* Appending puts the new element behind the others, which keep their places.
LEMMA AppendFacts ==
  ASSUME NEW S, NEW s \in Seq(S), NEW e \in S
  PROVE  /\ Append(s, e) \in Seq(S)
         /\ Len(s) \in Nat /\ Len(Append(s, e)) = Len(s) + 1
         /\ \A i \in 1 .. Len(s) : Append(s, e)[i] = s[i]
         /\ Append(s, e)[Len(s) + 1] = e
  OBVIOUS

\* The positions of the responses of one kind in the stream.
LEMMA SentFinite ==
  ASSUME TypeOK, NEW k
  PROVE  /\ Sent(k) \subseteq 1 .. Len(stream) /\ Len(stream) \in Nat
         /\ IsFiniteSet(Sent(k)) /\ Cardinality(Sent(k)) \in Nat
<1>1. Sent(k) \subseteq 1 .. Len(stream) /\ Len(stream) \in Nat
  BY DEF Sent, TypeOK
<1>2. IsFiniteSet(1 .. Len(stream))
  BY <1>1, FS_Interval
<1>3. IsFiniteSet(Sent(k))
  BY <1>1, <1>2, FS_Subset
<1>4. QED
  BY <1>1, <1>3, FS_CardinalityType

\* taskResponse <- m adds one response behind all others.
LEMMA SendFacts ==
  ASSUME TypeOK, NEW m \in TaskResponses, Send(m)
  PROVE  /\ stream' \in Seq(TaskResponses)
         /\ Len(stream) \in Nat /\ Len(stream') = Len(stream) + 1
         /\ \A i \in 1 .. Len(stream) : stream'[i] = stream[i]
         /\ stream'[Len(stream) + 1] = m
         /\ \A k : Sent(k)' = IF m.kind = k THEN Sent(k) \cup {Len(stream) + 1} ELSE Sent(k)
<1>1. /\ stream' \in Seq(TaskResponses)
      /\ Len(stream) \in Nat /\ Len(stream') = Len(stream) + 1
      /\ \A i \in 1 .. Len(stream) : stream'[i] = stream[i]
      /\ stream'[Len(stream) + 1] = m
  <2>1. stream \in Seq(TaskResponses) /\ stream' = Append(stream, m)
    BY DEF Send, TypeOK
  <2>2. QED
    BY <2>1, AppendFacts
<1>2. 1 .. Len(stream') = (1 .. Len(stream)) \cup {Len(stream) + 1}
  BY <1>1
<1>3. ASSUME NEW k
      PROVE  Sent(k)' = IF m.kind = k THEN Sent(k) \cup {Len(stream) + 1} ELSE Sent(k)
  BY <1>1, <1>2, Len(stream) + 1 \notin 1 .. Len(stream) DEF Sent
<1>4. QED
  BY <1>1, <1>3

\* The responses a task may send are well formed.
LEMMA ResponseTypes ==
  /\ ErrorFinal \in TaskResponses
  /\ \A n \in Nat : EndFinal(n) \in TaskResponses
  /\ \A n \in Nat, r \in OutResponses : Data(n, r) \in TaskResponses
<1>1. << >> \in Seq(OutResponses) /\ \A r \in OutResponses : <<r>> \in Seq(OutResponses)
  OBVIOUS
<1>2. QED
  BY <1>1 DEF ErrorFinal, EndFinal, Data, TaskResponses

\* getRange: out <- resp adds one response of the range behind all others.
LEMMA EmitFacts ==
  ASSUME TypeOK, GetRange!Emit
  PROVE  /\ out' \in Seq(OutResponses) /\ Len(out) \in Nat /\ Len(out') = Len(out) + 1
         /\ \A i \in 1 .. Len(out) : out'[i] = out[i]
         /\ status = "open" /\ status' = status
<1>1. PICK m \in GetRange!Continuations : out' = Append(out, m)
  BY DEF GetRange!Emit
<1>2. m \in OutResponses
  <2>1. \A h : GetRange!Heads(h) \subseteq OutResponses
    BY DEF GetRange!Heads, GetRange!Response, OutResponses, Heights, GetRange!Heights,
           LastHeight, GetRange!LastHeight
  <2>2. CASE out = << >>
    BY <1>1, <2>1, <2>2 DEF GetRange!Continuations
  <2>3. CASE out # << >>
    <3>1. LastOf(out) \in OutResponses
      BY <2>3 DEF LastOf, TypeOK
    <3>2. m \in GetRange!Successors(LastOf(out))
      BY <1>1, <2>3 DEF GetRange!Continuations, GetRange!LastOf, LastOf
    <3>3. QED
      BY <2>1, <3>1, <3>2 DEF GetRange!Successors, GetRange!Response, OutResponses
  <2>4. QED
    BY <2>2, <2>3
<1>3. QED
  BY <1>1, <1>2, AppendFacts DEF TypeOK, GetRange!Emit

-----------------------------------------------------------------------------
(* Types *)

\* Handler, sendResp and cancellation keep the types: out never holds more than
\* OutCap responses and fin never more than one token.
LEMMA TypeStep ==
  ASSUME TypeOK, RelayInv, [Next]_vars
  PROVE  TypeOK'
<1> USE TaskAssumption
<1>0. /\ Len(out) \in Nat /\ taken \in Nat /\ order \in Nat /\ taken <= Len(out)
      /\ Len(out) - taken <= OutCap
  BY DEF TypeOK
<1>1. CASE DecodeError \/ LatestBlockError \/ SendRangeError
  <2>1. Send(ErrorFinal)
    BY <1>1 DEF DecodeError, LatestBlockError, SendRangeError
  <2>2. stream' \in Seq(TaskResponses)
    BY <2>1, ResponseTypes, SendFacts
  <2>3. QED
    BY ZenonT(60), <1>1, <2>2 DEF DecodeError, LatestBlockError, SendRangeError, TypeOK, rvars, svars
<1>2. CASE ZeroEndHeight \/ StartTransactions \/ DecodeLatest \/ LatestBlock
  BY <1>2 DEF ZeroEndHeight, StartTransactions, DecodeLatest, LatestBlock, TypeOK, rvars, svars
<1>3. CASE RangeEmit
  <2>1. /\ out' \in Seq(OutResponses) /\ Len(out') = Len(out) + 1 /\ status' = status
    BY <1>3, EmitFacts DEF RangeEmit
  <2>2. /\ Len(out) - taken < OutCap
        /\ UNCHANGED <<req, hpc, outClosed, spc, order, taken, contextDone, fin, finClosed,
                       ctxDone, cancelled, stream>>
    BY <1>3 DEF RangeEmit, svars
  <2>3. order \in 0 .. Len(out') /\ taken \in 0 .. Len(out') /\ Len(out') - taken <= OutCap
    BY <1>0, <2>1, <2>2 DEF TypeOK
  <2>4. QED
    BY <2>1, <2>2, <2>3 DEF TypeOK
<1>4. CASE RangeReturns \/ RangeSticks
  BY <1>4 DEF RangeReturns, RangeSticks, GetRange!Finish, GetRange!Fail, TypeOK, rvars, svars
<1>5. CASE CloseAfterError \/ CloseOut
  BY ZenonT(60), <1>5 DEF CloseAfterError, CloseOut, TypeOK, rvars, svars
<1>6. CASE HandlerReturns
  BY <1>6 DEF HandlerReturns, TypeOK, rvars
<1>7. CASE SendData
  <2>1. out[taken + 1] \in OutResponses /\ taken + 1 \in 0 .. Len(out)
    BY <1>0, <1>7 DEF SendData, TypeOK
  <2>2. stream' \in Seq(TaskResponses)
    BY <1>0, <1>7, <2>1, ResponseTypes, SendFacts DEF SendData
  <2>3. order' \in 0 .. Len(out) /\ taken' \in 0 .. Len(out) /\ Len(out) - taken' <= OutCap
    BY SMTT(30), <1>0, <1>7, <2>1 DEF SendData, RelayInv
  <2>4. QED
    BY <1>7, <2>2, <2>3 DEF SendData, TypeOK, rvars
<1>8. CASE SendLoopEnds \/ SendLoopCancelled
  BY ZenonT(60), <1>8 DEF SendLoopEnds, SendLoopCancelled, TypeOK, rvars
<1>9. CASE SendEnd
  <2>1. stream' \in Seq(TaskResponses)
    BY <1>0, <1>9, ResponseTypes, SendFacts DEF SendEnd
  <2>2. QED
    BY <1>9, <2>1 DEF SendEnd, TypeOK, rvars
<1>10. CASE SendFin
  BY <1>10 DEF SendFin, TypeOK, RelayInv, rvars
<1>11. CASE CancelCtx
  BY <1>11 DEF CancelCtx, TypeOK, rvars, svars
<1>12. CASE UNCHANGED vars
  BY <1>12 DEF vars, TypeOK
<1>13. QED
  BY <1>1, <1>2, <1>3, <1>4, <1>5, <1>6, <1>7, <1>8, <1>9, <1>10, <1>11, <1>12
     DEF Next, Handler, SendResp

-----------------------------------------------------------------------------
(* sendResp counts *)

\* A step that sends nothing to the stream leaves the kinds where they are.
LEMMA SentUnchanged ==
  ASSUME stream' = stream, NEW k
  PROVE  Sent(k)' = Sent(k)
  BY DEF Sent

\* order, the number of responses received and the number of responses in the
\* stream stay equal, and sendResp sends nothing after END.
LEMMA RelayStep ==
  ASSUME TypeOK, RelayInv, [Next]_vars
  PROVE  RelayInv'
<1>1. CASE DecodeError \/ LatestBlockError \/ SendRangeError
  <2>1. /\ Send(ErrorFinal) /\ UNCHANGED <<spc, order, taken, fin, finClosed>>
        /\ hpc' \in {"decode", "latest"} => hpc \in {"decode", "latest"}
    BY <1>1 DEF DecodeError, LatestBlockError, SendRangeError, svars
  <2>2. /\ \A i \in 1 .. Len(stream) : stream'[i] = stream[i]
        /\ Sent("data")' = Sent("data") /\ Sent("END")' = Sent("END")
    BY <2>1, ResponseTypes, SendFacts DEF ErrorFinal
  <2>3. QED
    BY <2>1, <2>2, SentFinite DEF RelayInv
<1>2. CASE SendData
  <2>1. /\ spc = "loop" /\ spc' = spc /\ order' = order + 1 /\ taken' = taken + 1
        /\ Send(Data(order, out[taken + 1])) /\ UNCHANGED <<hpc, fin, finClosed>>
        /\ out[taken + 1] \in OutResponses /\ order \in Nat /\ taken \in Nat
    BY <1>2 DEF SendData, TypeOK
  <2>2. Data(order, out[taken + 1]) \in TaskResponses
    BY <2>1, ResponseTypes
  <2>3. /\ Len(stream) \in Nat
        /\ \A i \in 1 .. Len(stream) : stream'[i] = stream[i]
        /\ stream'[Len(stream) + 1].order = order
        /\ Sent("data")' = Sent("data") \cup {Len(stream) + 1}
        /\ Sent("END")' = Sent("END")
    BY <2>1, <2>2, SendFacts DEF Data
  <2>4. /\ Sent("data") \subseteq 1 .. Len(stream) /\ IsFiniteSet(Sent("data"))
        /\ Len(stream) + 1 \notin Sent("data")
    BY <2>3, SentFinite
  <2>5. Cardinality(Sent("data")') = Cardinality(Sent("data")) + 1
    BY <2>3, <2>4, FS_AddElement
  <2>6. \A i \in Sent("data")' : stream'[i].order < taken'
    <3>1. ASSUME NEW i \in Sent("data") PROVE stream'[i].order < taken'
      <4>1. i \in 1 .. Len(stream) /\ stream'[i] = stream[i]
        BY <2>3, <2>4
      <4>2. stream[i].order \in Nat
        <5>1. stream \in Seq(TaskResponses)
          BY DEF TypeOK
        <5>2. stream[i] \in TaskResponses
          BY <4>1, <5>1
        <5>3. QED
          BY <5>2 DEF TaskResponses
      <4>3. QED
        BY <2>1, <4>1, <4>2 DEF RelayInv
    <3>2. stream'[Len(stream) + 1].order < taken'
      BY <2>1, <2>3 DEF RelayInv
    <3>3. QED
      BY <2>3, <3>1, <3>2
  <2>7. ASSUME NEW n \in 0 .. taken' - 1
        PROVE  \E i \in Sent("data")' : stream'[i].order = n
    <3>1. CASE n = taken
      BY <2>1, <2>3, <3>1 DEF RelayInv
    <3>2. CASE n # taken
      <4>1. PICK i \in Sent("data") : stream[i].order = n
        BY <2>1, <2>7, <3>2 DEF RelayInv
      <4>2. QED
        BY <2>3, <2>4, <4>1
    <3>3. QED
      BY <3>1, <3>2
  <2>8. /\ order' = taken' /\ taken' = Cardinality(Sent("data")')
        /\ spc' \in {"none", "loop", "end"} => Sent("END")' = {}
        /\ spc' # "exited" => fin' = 0 /\ ~finClosed'
        /\ hpc' \in {"decode", "latest"} => spc' = "none"
    BY <2>1, <2>3, <2>5 DEF RelayInv
  <2>9. QED
    BY <2>6, <2>7, <2>8 DEF RelayInv
<1>3. CASE SendEnd
  <2>1. Send(EndFinal(order)) /\ order \in Nat
    BY <1>3 DEF SendEnd, TypeOK
  <2>2. /\ \A i \in 1 .. Len(stream) : stream'[i] = stream[i]
        /\ Sent("data")' = Sent("data")
    BY <2>1, ResponseTypes, SendFacts DEF EndFinal
  <2>3. QED
    BY <1>3, <2>2, SentFinite DEF SendEnd, RelayInv
<1>4. CASE \/ ZeroEndHeight \/ StartTransactions \/ DecodeLatest \/ LatestBlock
           \/ RangeEmit \/ RangeReturns \/ RangeSticks \/ CloseAfterError \/ CloseOut
  <2>1. /\ UNCHANGED <<order, taken, fin, finClosed, stream>>
        /\ spc' = spc \/ (spc = "none" /\ spc' = "loop" /\ hpc' = "range")
        /\ hpc' \in {"decode", "latest"} => hpc \in {"decode", "latest"} /\ spc' = spc
    BY <1>4 DEF ZeroEndHeight, StartTransactions, DecodeLatest, LatestBlock, RangeEmit,
                RangeReturns, RangeSticks, CloseAfterError, CloseOut, svars, RelayInv
  <2>2. QED
    BY <2>1, SentUnchanged DEF RelayInv
<1>5. CASE HandlerReturns \/ CancelCtx \/ UNCHANGED vars
  <2>1. /\ UNCHANGED <<spc, order, taken, finClosed, stream>>
        /\ fin' = fin \/ fin > 0
        /\ hpc' \in {"decode", "latest"} => hpc = hpc'
    BY <1>5 DEF HandlerReturns, CancelCtx, vars, svars
  <2>2. QED
    BY <2>1, SentUnchanged DEF RelayInv
<1>6. CASE SendLoopEnds \/ SendLoopCancelled \/ SendFin
  <2>1. /\ UNCHANGED <<hpc, order, taken, stream>>
        /\ \/ spc = "loop" /\ spc' = "end" /\ UNCHANGED <<fin, finClosed>>
           \/ spc = "fin" /\ spc' = "exited"
    BY <1>6 DEF SendLoopEnds, SendLoopCancelled, SendFin
  <2>2. QED
    BY <2>1, SentUnchanged DEF RelayInv
<1>7. QED
  BY <1>1, <1>2, <1>3, <1>4, <1>5, <1>6 DEF Next, Handler, SendResp

-----------------------------------------------------------------------------
(* The handler closes and cancels in time *)

\* What the handler and sendResp know of each other survives every step of
\* either, of getRange and of the context.
LEMMA HandlerStep ==
  ASSUME TypeOK, RelayInv, HandlerInv, [Next]_vars
  PROVE  HandlerInv'
<1>1. CASE DecodeError \/ LatestBlockError \/ SendRangeError
  <2>1. /\ Send(ErrorFinal) /\ status' = status
        /\ hpc' \in {"returned", "latest", "closeErr"}
    BY <1>1 DEF DecodeError, LatestBlockError, SendRangeError, rvars
  <2>2. Sent("error")' # {}
    BY <2>1, ResponseTypes, SendFacts DEF ErrorFinal
  <2>3. QED
    BY <2>1, <2>2 DEF HandlerInv
<1>2. CASE SendData \/ SendEnd
  <2>1. /\ spc' = "loop" \/ spc' = "fin"
        /\ spc # "exited"
        /\ UNCHANGED <<hpc, status, outClosed, ctxDone, cancelled>>
    BY <1>2 DEF SendData, SendEnd, rvars
  <2>2. Sent("error")' = Sent("error")
    <3>1. CASE SendData
      <4>1. /\ Send(Data(order, out[taken + 1]))
            /\ out[taken + 1] \in OutResponses /\ order \in Nat
        BY <3>1 DEF SendData, TypeOK
      <4>2. QED
        BY <4>1, ResponseTypes, SendFacts DEF Data
    <3>2. CASE SendEnd
      <4>1. Send(EndFinal(order)) /\ order \in Nat
        BY <3>2 DEF SendEnd, TypeOK
      <4>2. QED
        BY <4>1, ResponseTypes, SendFacts DEF EndFinal
    <3>3. QED
      BY <1>2, <3>1, <3>2
  <2>3. QED
    BY <2>1, <2>2 DEF HandlerInv
<1>3. CASE ZeroEndHeight \/ StartTransactions \/ DecodeLatest \/ LatestBlock
  <2>1. /\ hpc \in {"decode", "latest"} /\ spc = "none" /\ spc' \in {"none", "loop"}
        /\ hpc' \in {"panicked", "range", "latest"}
        /\ UNCHANGED <<status, outClosed, ctxDone, cancelled, stream>>
    BY <1>3 DEF ZeroEndHeight, StartTransactions, DecodeLatest, LatestBlock, rvars, svars, RelayInv
  <2>2. QED
    BY <2>1, SentUnchanged DEF HandlerInv
<1>4. CASE RangeEmit
  <2>1. /\ hpc = "range" /\ status = "open"
        /\ UNCHANGED <<hpc, status, outClosed, spc, taken, ctxDone, cancelled, stream>>
    BY <1>4, EmitFacts DEF RangeEmit, svars
  <2>2. QED
    BY <2>1, SentUnchanged DEF HandlerInv
<1>5. CASE RangeReturns
  <2>1. /\ status = "open" /\ UNCHANGED <<out, outClosed, spc, taken, ctxDone, cancelled, stream>>
        /\ \/ status' = "ok" /\ hpc' = "close"
           \/ status' = "failed" /\ hpc' = "sendErr"
    BY <1>5 DEF RangeReturns, GetRange!Finish, GetRange!Fail, svars
  <2>2. QED
    BY <2>1, SentUnchanged DEF HandlerInv
<1>6. CASE CloseAfterError \/ CloseOut
  <2>1. /\ UNCHANGED <<out, status, spc, taken, ctxDone, stream>>
        /\ \/ hpc = "closeErr" /\ hpc' = "returned"
           \/ hpc = "close" /\ hpc' = "wait" /\ cancelled' = cancelled
    BY <1>6 DEF CloseAfterError, CloseOut, rvars, svars
  <2>2. QED
    BY <2>1, SentUnchanged DEF HandlerInv
<1>7. CASE HandlerReturns
  <2>1. /\ UNCHANGED <<out, status, outClosed, spc, taken, ctxDone, stream>>
        /\ hpc' = "returned"
        /\ ctxDone \/ fin > 0 \/ finClosed
    BY <1>7 DEF HandlerReturns, rvars
  <2>2. ctxDone \/ spc = "exited"
    BY <2>1 DEF RelayInv
  <2>3. QED
    BY <2>1, <2>2, SentUnchanged DEF HandlerInv
<1>8. CASE SendLoopEnds
  <2>1. /\ UNCHANGED <<hpc, out, status, outClosed, taken, ctxDone, cancelled, stream>>
        /\ spc = "loop" /\ spc' = "end" /\ outClosed /\ taken = Len(out)
    BY <1>8 DEF SendLoopEnds, rvars
  <2>2. QED
    BY <2>1, SentUnchanged DEF HandlerInv
<1>9. CASE SendLoopCancelled
  <2>1. /\ UNCHANGED <<hpc, out, status, outClosed, taken, ctxDone, cancelled, stream>>
        /\ spc = "loop" /\ spc' = "end" /\ (ctxDone \/ cancelled)
    BY <1>9 DEF SendLoopCancelled, rvars
  <2>2. QED
    BY <2>1, SentUnchanged DEF HandlerInv
<1>10. CASE SendFin
  <2>1. /\ UNCHANGED <<hpc, out, status, outClosed, taken, ctxDone, cancelled, stream>>
        /\ spc' = "exited"
    BY <1>10 DEF SendFin, rvars
  <2>2. QED
    BY <2>1, SentUnchanged DEF HandlerInv
<1>11. CASE CancelCtx \/ UNCHANGED vars
  <2>1. /\ UNCHANGED <<hpc, out, status, outClosed, spc, taken, cancelled, stream>>
        /\ ctxDone' \/ ctxDone' = ctxDone
    BY <1>11 DEF CancelCtx, vars, rvars, svars
  <2>2. QED
    BY <2>1, SentUnchanged DEF HandlerInv
<1>12. CASE RangeSticks
  <2>1. hpc' = "stuck" /\ UNCHANGED <<out, status, outClosed, spc, taken, ctxDone, cancelled, stream>>
    BY <1>12 DEF RangeSticks, rvars, svars
  <2>2. QED
    BY <2>1, SentUnchanged DEF HandlerInv
<1>13. QED
  BY <1>1, <1>2, <1>3, <1>4, <1>5, <1>6, <1>7, <1>8, <1>9, <1>10, <1>11, <1>12
     DEF Next, Handler, SendResp

\* Handler and sendResp keep to their places: sendResp runs as long as the
\* handler may still need it, unless the context of Run is done.
LEMMA PairStep ==
  ASSUME TypeOK, RelayInv, PairInv, [Next]_vars
  PROVE  PairInv'
<1>1. CASE DecodeError \/ LatestBlockError \/ SendRangeError
  BY <1>1 DEF DecodeError, LatestBlockError, SendRangeError, PairInv, RelayInv, rvars, svars
<1>2. CASE ZeroEndHeight \/ StartTransactions \/ DecodeLatest \/ LatestBlock
  BY <1>2 DEF ZeroEndHeight, StartTransactions, DecodeLatest, LatestBlock, PairInv, RelayInv,
              rvars, svars
<1>3. CASE RangeEmit
  <2>1. UNCHANGED <<hpc, status, outClosed, spc, finClosed, ctxDone, cancelled>>
    BY <1>3, EmitFacts DEF RangeEmit, svars
  <2>2. QED
    BY <2>1 DEF PairInv
<1>4. CASE RangeReturns \/ RangeSticks
  BY <1>4 DEF RangeReturns, RangeSticks, PairInv, rvars, svars
<1>5. CASE CloseAfterError \/ CloseOut \/ HandlerReturns
  BY <1>5 DEF CloseAfterError, CloseOut, HandlerReturns, PairInv, rvars, svars
<1>6. CASE SendData \/ SendLoopEnds \/ SendLoopCancelled \/ SendEnd \/ SendFin
  <2>1. /\ spc \in {"loop", "end", "fin"} /\ spc' \in {"loop", "end", "fin", "exited"}
        /\ spc' = "loop" \/ spc # "loop" \/ outClosed \/ ctxDone \/ cancelled
        /\ spc # "loop" => spc' # "loop"
        /\ spc' = "exited" => finClosed'
        /\ UNCHANGED <<hpc, status, outClosed, ctxDone, cancelled>>
    BY <1>6 DEF SendData, SendLoopEnds, SendLoopCancelled, SendEnd, SendFin, rvars
  <2>2. QED
    BY <2>1 DEF PairInv
<1>7. CASE CancelCtx \/ UNCHANGED vars
  BY <1>7 DEF CancelCtx, PairInv, vars, rvars, svars
<1>8. QED
  BY <1>1, <1>2, <1>3, <1>4, <1>5, <1>6, <1>7 DEF Next, Handler, SendResp

-----------------------------------------------------------------------------
(* The stream *)

\* What a step may do to the stream and to out: an error of the handler, a
\* response or the END of sendResp, a response of getRange, or nothing.
LEMMA StreamSteps ==
  ASSUME [Next]_vars
  PROVE  \/ Send(ErrorFinal) /\ UNCHANGED <<out, status, taken, ctxDone>>
         \/ SendData
         \/ SendEnd
         \/ RangeEmit
         \/ /\ UNCHANGED <<out, taken, stream>>
            /\ status' = status \/ status = "open"
            /\ ctxDone' = ctxDone \/ ctxDone'
<1>1. CASE DecodeError \/ LatestBlockError \/ SendRangeError
  BY <1>1 DEF DecodeError, LatestBlockError, SendRangeError, rvars, svars
<1>2. CASE ZeroEndHeight \/ StartTransactions \/ DecodeLatest \/ LatestBlock
  BY <1>2 DEF ZeroEndHeight, StartTransactions, DecodeLatest, LatestBlock, rvars, svars
<1>3. CASE RangeReturns \/ RangeSticks
  BY <1>3 DEF RangeReturns, RangeSticks, GetRange!Finish, GetRange!Fail, rvars, svars
<1>4. CASE CloseAfterError \/ CloseOut \/ HandlerReturns
  BY <1>4 DEF CloseAfterError, CloseOut, HandlerReturns, rvars, svars
<1>5. CASE SendLoopEnds \/ SendLoopCancelled \/ SendFin
  BY <1>5 DEF SendLoopEnds, SendLoopCancelled, SendFin, rvars
<1>6. CASE CancelCtx \/ UNCHANGED vars
  BY <1>6 DEF CancelCtx, vars, rvars, svars
<1>7. QED
  BY <1>1, <1>2, <1>3, <1>4, <1>5, <1>6 DEF Next, Handler, SendResp

\* What OrdersConsecutive asks of the response at position i.
InPlace(i) ==
  /\ stream[i].order = Cardinality({ j \in Sent("data") : j < i })
  /\ stream[i].kind = "data" => stream[i].payload = <<out[stream[i].order + 1]>>
  /\ stream[i].kind = "END" => \A j \in Sent("data") \cup Sent("END") : j <= i

\* A response behind position i changes nothing for position i, unless END is at i.
LEMMA InPlaceKept ==
  ASSUME TypeOK, RelayInv, NEW i \in Sent("data") \cup Sent("END"), InPlace(i),
         NEW m \in TaskResponses, Send(m), UNCHANGED out,
         Sent("END") # {} => m.kind = "error"
  PROVE  InPlace(i)'
<1>1. /\ Len(stream) \in Nat /\ i \in 1 .. Len(stream) /\ stream'[i] = stream[i]
      /\ \A k : Sent(k)' = IF m.kind = k THEN Sent(k) \cup {Len(stream) + 1} ELSE Sent(k)
  BY SentFinite, SendFacts
<1>2. { j \in Sent("data")' : j < i } = { j \in Sent("data") : j < i }
  BY <1>1
<1>3. stream[i].kind = "END" => Sent("END") # {}
  BY <1>1 DEF Sent
<1>4. stream'[i].kind = "END" => \A j \in Sent("data")' \cup Sent("END")' : j <= i
  BY <1>1, <1>3 DEF InPlace
<1>5. QED
  BY <1>1, <1>2, <1>4 DEF InPlace

\* The numbering survives every step: only sendResp numbers responses, with the
\* count of those it has received.
LEMMA OrdersStep ==
  ASSUME TypeOK, RelayInv, OrdersConsecutive, [Next]_vars
  PROVE  OrdersConsecutive'
<1>0. \A i \in Sent("data") \cup Sent("END") : InPlace(i)
  BY DEF OrdersConsecutive, InPlace
<1>1. SUFFICES \A i \in Sent("data")' \cup Sent("END")' : InPlace(i)'
  BY DEF OrdersConsecutive, InPlace
<1>2. CASE Send(ErrorFinal) /\ UNCHANGED out
  <2>1. ErrorFinal \in TaskResponses /\ ErrorFinal.kind = "error"
    BY ResponseTypes DEF ErrorFinal
  <2>2. Sent("data")' = Sent("data") /\ Sent("END")' = Sent("END")
    BY <1>2, <2>1, SendFacts
  <2>3. QED
    BY <1>0, <1>2, <2>1, <2>2, InPlaceKept
<1>3. CASE SendData
  <2> DEFINE m == Data(order, out[taken + 1])
  <2>0. PICK n \in Nat : n = Len(stream) + 1
    BY SentFinite
  <2>1. /\ Send(m) /\ out' = out /\ Sent("END") = {}
        /\ order = taken /\ order = Cardinality(Sent("data"))
        /\ out[taken + 1] \in OutResponses /\ order \in Nat
    BY <1>3 DEF SendData, RelayInv, TypeOK, rvars
  <2>2. m \in TaskResponses /\ m.kind = "data" /\ m.order = order /\ m.payload = <<out[order + 1]>>
    BY <2>1, ResponseTypes DEF Data
  <2> HIDE DEF m
  <2>3. /\ Sent("data")' = Sent("data") \cup {n} /\ Sent("END")' = {} /\ stream'[n] = m
    BY <2>0, <2>1, <2>2, SendFacts
  <2>4. ASSUME NEW i \in Sent("data") PROVE InPlace(i)'
    BY <1>0, <2>1, <2>2, <2>4, InPlaceKept
  <2>5. InPlace(n)'
    <3>1. { j \in Sent("data")' : j < n } = Sent("data")
      BY <2>0, <2>3, SentFinite
    <3>2. QED
      BY <2>1, <2>2, <2>3, <3>1 DEF InPlace
  <2>6. QED
    BY <2>3, <2>4, <2>5
<1>4. CASE SendEnd
  <2> DEFINE m == EndFinal(order)
  <2>0. PICK n \in Nat : n = Len(stream) + 1
    BY SentFinite
  <2>1. /\ Send(m) /\ out' = out /\ Sent("END") = {}
        /\ order = Cardinality(Sent("data")) /\ order \in Nat
    BY <1>4 DEF SendEnd, RelayInv, TypeOK, rvars
  <2>2. m \in TaskResponses /\ m.kind = "END" /\ m.order = order
    BY <2>1, ResponseTypes DEF EndFinal
  <2> HIDE DEF m
  <2>3. /\ Sent("data")' = Sent("data") /\ Sent("END")' = {n} /\ stream'[n] = m
    BY <2>0, <2>1, <2>2, SendFacts
  <2>4. ASSUME NEW i \in Sent("data") PROVE InPlace(i)'
    BY <1>0, <2>1, <2>2, <2>4, InPlaceKept
  <2>5. InPlace(n)'
    <3>1. { j \in Sent("data")' : j < n } = Sent("data") /\ \A j \in Sent("data") : j <= n
      BY <2>0, <2>3, SentFinite
    <3>2. QED
      BY SMTT(30), <2>1, <2>2, <2>3, <3>1 DEF InPlace
  <2>6. QED
    BY <2>3, <2>4, <2>5
<1>5. CASE RangeEmit
  <2>1. /\ stream' = stream /\ Len(out) \in Nat
        /\ \A i \in 1 .. Len(out) : out'[i] = out[i]
    BY <1>5, EmitFacts DEF RangeEmit
  <2>2. Sent("data")' = Sent("data") /\ Sent("END")' = Sent("END")
    BY <2>1, SentUnchanged
  <2>3. ASSUME NEW i \in Sent("data") \cup Sent("END"), stream[i].kind = "data"
        PROVE  out'[stream[i].order + 1] = out[stream[i].order + 1]
    <3>1. i \in Sent("data") /\ i \in 1 .. Len(stream)
      BY <2>3, SentFinite DEF Sent
    <3>2. stream \in Seq(TaskResponses) /\ taken \in 0 .. Len(out)
      BY DEF TypeOK
    <3>3. stream[i] \in TaskResponses
      BY <3>1, <3>2
    <3>4. stream[i].order \in Nat
      BY <3>3 DEF TaskResponses
    <3>5. stream[i].order < taken
      BY <3>1 DEF RelayInv
    <3>6. stream[i].order + 1 \in 1 .. Len(out)
      BY <2>1, <3>2, <3>4, <3>5
    <3>7. QED
      BY <2>1, <3>6
  <2>4. QED
    BY <1>0, <2>1, <2>2, <2>3 DEF InPlace
<1>6. CASE UNCHANGED <<out, stream>>
  <2>1. Sent("data")' = Sent("data") /\ Sent("END")' = Sent("END")
    BY <1>6, SentUnchanged
  <2>2. QED
    BY <1>0, <1>6, <2>1 DEF InPlace
<1>7. QED
  BY <1>2, <1>3, <1>4, <1>5, <1>6, StreamSteps

-----------------------------------------------------------------------------
(* END *)

\* An END that was right stays right: errors come behind it, and a range that
\* returned nil grows no more.
LEMMA EndStep ==
  ASSUME TypeOK, RelayInv, HandlerInv, EndCounted, [Next]_vars
  PROVE  EndCounted'
<1>1. CASE Send(ErrorFinal) /\ UNCHANGED <<out, status, taken, ctxDone>>
  <2>1. /\ Sent("error")' = Sent("error") \cup {Len(stream) + 1} /\ Sent("END")' = Sent("END")
        /\ \A i \in 1 .. Len(stream) : stream'[i] = stream[i]
    BY <1>1, ResponseTypes, SendFacts DEF ErrorFinal
  <2>2. Sent("END") \subseteq 1 .. Len(stream)
    BY SentFinite
  <2>3. QED
    BY <1>1, <2>1, <2>2 DEF EndCounted
<1>2. CASE SendData
  <2>1. /\ Send(Data(order, out[taken + 1])) /\ Sent("END") = {}
        /\ out[taken + 1] \in OutResponses /\ order \in Nat
    BY <1>2 DEF SendData, TypeOK, RelayInv
  <2>2. Sent("END")' = {}
    BY <2>1, ResponseTypes, SendFacts DEF Data
  <2>3. QED
    BY <2>2 DEF EndCounted
<1>3. CASE SendEnd
  <2>1. /\ Send(EndFinal(order)) /\ Sent("END") = {} /\ order \in Nat /\ order = taken
        /\ UNCHANGED <<out, status, taken, ctxDone>> /\ spc = "end"
    BY <1>3 DEF SendEnd, TypeOK, RelayInv, rvars
  <2>2. /\ Sent("END")' = {Len(stream) + 1} /\ Sent("error")' = Sent("error")
        /\ stream'[Len(stream) + 1].order = order
    BY <2>1, ResponseTypes, SendFacts DEF EndFinal
  <2>3. ASSUME ~ctxDone, \A j \in Sent("error") : j > Len(stream) + 1
        PROVE  status = "ok" /\ taken = Len(out)
    <3>1. Sent("error") = {}
      BY <2>3, SentFinite
    <3>2. QED
      BY <2>1, <2>3, <3>1 DEF HandlerInv
  <2>4. QED
    BY <2>1, <2>2, <2>3 DEF EndCounted
<1>4. CASE RangeEmit
  <2>1. /\ UNCHANGED <<stream, ctxDone>> /\ status = "open"
    BY <1>4, EmitFacts DEF RangeEmit
  <2>2. QED
    BY <2>1, SentUnchanged DEF EndCounted
<1>5. CASE /\ UNCHANGED <<out, taken, stream>>
           /\ status' = status \/ status = "open"
           /\ ctxDone' = ctxDone \/ ctxDone'
  BY <1>5, SentUnchanged DEF EndCounted
<1>6. QED
  BY <1>1, <1>2, <1>3, <1>4, <1>5, StreamSteps

-----------------------------------------------------------------------------
(* Theorems *)

TaskInv ==
  TypeOK /\ RelayInv /\ HandlerInv /\ PairInv /\ OrdersConsecutive /\ EndCounted

\* The inductive invariant of a range task holds for every range, capacity and
\* set of requests, cancelled or not.
THEOREM TaskInvariance == Spec => []TaskInv
<1>1. Init => TaskInv
  <2>1. SUFFICES ASSUME Init PROVE TaskInv
    OBVIOUS
  <2>2. /\ out = << >> /\ stream = << >> /\ status = "open" /\ hpc = "decode"
        /\ spc = "none" /\ order = 0 /\ taken = 0 /\ fin = 0
        /\ outClosed = FALSE /\ finClosed = FALSE /\ cancelled = FALSE
    BY <2>1 DEF Init, GetRange!Init
  <2>3. \A k : Sent(k) = {}
    BY <2>2 DEF Sent
  <2>4. TypeOK
    <3>1. out \in Seq(OutResponses) /\ stream \in Seq(TaskResponses) /\ Len(out) = 0
      BY <2>2
    <3>2. req \in Requests /\ contextDone = FALSE /\ ctxDone = FALSE
      BY <2>1 DEF Init
    <3>3. order \in 0 .. Len(out) /\ taken \in 0 .. Len(out) /\ Len(out) - taken <= OutCap
      BY <2>2, <3>1, TaskAssumption
    <3>4. /\ hpc \in {"decode", "latest", "range", "stuck", "sendErr", "closeErr", "close",
                      "wait", "returned", "panicked"}
          /\ status \in {"open", "ok", "failed"}
          /\ spc \in {"none", "loop", "end", "fin", "exited"}
          /\ outClosed \in BOOLEAN /\ finClosed \in BOOLEAN /\ cancelled \in BOOLEAN
      BY <2>2, Zenon
    <3>5. fin \in 0 .. 1
      BY <2>2
    <3>6. QED
      BY <3>1, <3>2, <3>3, <3>4, <3>5, Zenon DEF TypeOK
  <2>5. RelayInv
    BY <2>2, <2>3, FS_EmptySet DEF RelayInv
  <2>6. HandlerInv
    BY <2>2, <2>3 DEF HandlerInv
  <2>7. PairInv
    BY <2>2 DEF PairInv
  <2>8. OrdersConsecutive /\ EndCounted
    BY <2>3 DEF OrdersConsecutive, EndCounted
  <2>9. QED
    BY <2>4, <2>5, <2>6, <2>7, <2>8 DEF TaskInv
<1>2. TaskInv /\ [Next]_vars => TaskInv'
  BY TypeStep, RelayStep, HandlerStep, PairStep, OrdersStep, EndStep DEF TaskInv
<1>3. QED
  BY <1>1, <1>2, PTL DEF Spec

\* Type correctness: out holds at most OutCap responses that sendResp has not
\* taken, and fin at most one token.
THEOREM TaskTypeCorrect == Spec => []TypeOK
<1>1. TaskInv => TypeOK
  BY DEF TaskInv
<1>2. QED
  BY <1>1, TaskInvariance, PTL

\* The responses of getRange reach the stream once each, in order and numbered
\* from 0 without a gap, and END takes the next number.
THEOREM ConsecutiveOrders == Spec => []OrdersConsecutive
<1>1. TaskInv => OrdersConsecutive
  BY DEF TaskInv
<1>2. QED
  BY <1>1, TaskInvariance, PTL

-----------------------------------------------------------------------------
(* The range behind the stream *)

\* What out carries is a run of OrderedRange: the handler touches out only through
\* the call of getRange, sendResp only takes from it.
THEOREM RangeBehind == Spec => GetRange!Spec
<1>1. Init => GetRange!Init
  BY DEF Init
<1>2. [Next]_vars => [GetRange!Next]_GetRange!vars
  <2>1. SUFFICES ASSUME [Next]_vars PROVE GetRange!Next \/ UNCHANGED <<out, status>>
    BY DEF GetRange!vars
  <2>2. CASE RangeEmit \/ RangeReturns
    BY <2>2 DEF RangeEmit, RangeReturns, GetRange!Next
  <2>3. CASE \/ DecodeError \/ ZeroEndHeight \/ StartTransactions \/ DecodeLatest
             \/ LatestBlock \/ LatestBlockError \/ SendRangeError \/ CloseAfterError
             \/ CloseOut \/ HandlerReturns \/ RangeSticks
    BY <2>3 DEF DecodeError, ZeroEndHeight, StartTransactions, DecodeLatest, LatestBlock,
                LatestBlockError, SendRangeError, CloseAfterError, CloseOut, HandlerReturns,
                RangeSticks, rvars
  <2>4. CASE SendResp \/ CancelCtx \/ UNCHANGED vars
    BY <2>4 DEF SendResp, SendData, SendLoopEnds, SendLoopCancelled, SendEnd, SendFin,
                CancelCtx, vars, rvars
  <2>5. QED
    BY <2>1, <2>2, <2>3, <2>4 DEF Next, Handler
<1>3. QED
  BY <1>1, <1>2, PTL DEF Spec, GetRange!Spec

Promise == INSTANCE OrderedRangeProofs WITH out <- out, status <- status

\* So out is whole and in order.
THEOREM RangeWhole == Spec => []Promise!WholeInOrder
<1>1. Promise!RangeOK
  BY TaskAssumption DEF Promise!RangeOK, Promise!Heights, Heights, Promise!LastHeight, LastHeight
<1>2. Promise!Spec => []Promise!WholeInOrder
  BY <1>1, Promise!DeliversRange
<1>3. GetRange!Init => Promise!Init
  BY DEF GetRange!Init, Promise!Init
<1>4. [GetRange!Next]_GetRange!vars => [Promise!Next]_Promise!vars
  BY DEF GetRange!Next, Promise!Next, GetRange!vars, Promise!vars, GetRange!Emit, Promise!Emit,
         GetRange!Finish, Promise!Finish, GetRange!Fail, Promise!Fail,
         GetRange!Continuations, Promise!Continuations, GetRange!Successors, Promise!Successors,
         GetRange!Heads, Promise!Heads, GetRange!LastOf, Promise!LastOf,
         Promise!Response, GetRange!Response, Promise!Heights, GetRange!Heights,
         Promise!LastHeight, GetRange!LastHeight
<1>5. QED
  BY <1>2, <1>3, <1>4, RangeBehind, PTL DEF GetRange!Spec, Promise!Spec

\* A response of out that sendResp has taken is in the stream, in front of END.
LEMMA TakenIsSent ==
  ASSUME TaskInv, NEW p \in 1 .. taken
  PROVE  \E i \in Sent("data") : /\ stream[i].payload = <<out[p]>>
                                 /\ \A e \in Sent("END") : i < e
<1>1. taken \in Nat
  BY DEF TaskInv, TypeOK
<1>2. p - 1 \in 0 .. taken - 1
  BY <1>1
<1>3. PICK i \in Sent("data") : stream[i].order = p - 1
  BY <1>2 DEF TaskInv, RelayInv
<1>4. stream[i].kind = "data" /\ i \in 1 .. Len(stream) /\ Len(stream) \in Nat
  BY SentFinite DEF Sent, TaskInv
<1>5. stream[i].payload = <<out[stream[i].order + 1]>>
  BY <1>4 DEF TaskInv, OrdersConsecutive
<1>6. stream[i].order + 1 = p
  BY <1>1, <1>3
<1>7. ASSUME NEW e \in Sent("END") PROVE i < e
  <2>1. stream[e].kind = "END" /\ e \in 1 .. Len(stream)
    BY DEF Sent
  <2>2. i <= e
    BY <2>1 DEF TaskInv, OrdersConsecutive
  <2>3. i # e
    BY <1>4, <2>1
  <2>4. QED
    BY <1>4, <2>1, <2>2, <2>3
<1>8. QED
  BY <1>5, <1>6, <1>7

\* An END that no error precedes means that the whole range has been sent, every
\* block with all its transactions, unless the context of Run was done.
THEOREM CompleteAtEnd == Spec => []EndMeansComplete
<1>1. TaskInv /\ Promise!WholeInOrder => EndMeansComplete
  <2>1. SUFFICES ASSUME TaskInv, Promise!WholeInOrder, NEW e \in Sent("END"),
                        ~ctxDone, \A j \in Sent("error") : j > e,
                        NEW h \in Heights, NEW k \in 0 .. NumTxs[h]
                 PROVE  \E i \in Sent("data") : i < e /\ stream[i].payload = <<Content(h, k)>>
    BY DEF EndMeansComplete
  <2>2. status = "ok" /\ taken = Len(out)
    BY <2>1 DEF TaskInv, EndCounted
  <2>3. \E p \in 1 .. Len(out) : out[p] = Content(h, k)
    BY <2>1, <2>2 DEF Promise!WholeInOrder, Promise!Heights, Heights, Promise!LastHeight,
                      LastHeight, Promise!Content, Content, Promise!Response, Response
  <2>4. PICK p \in 1 .. taken : out[p] = Content(h, k)
    BY <2>2, <2>3
  <2>5. QED
    BY <2>1, <2>4, TakenIsSent
<1>2. QED
  BY <1>1, TaskInvariance, RangeWhole, PTL

\* Unless its context is cancelled or getRange never returns, a task that is not over
\* can go on: handler and sendResp never wait for each other, over out or over fin.
THEOREM TaskNeverStuck == Spec => []TaskNotStuck
<1>1. TaskInv => TaskNotStuck
  <2>1. SUFFICES ASSUME TaskInv, ~ctxDone, hpc # "stuck", ~TaskOver
                 PROVE  HandlerCanGo \/ SendRespCanGo
    BY DEF TaskNotStuck
  <2>2. CASE hpc \in {"decode", "latest", "sendErr", "closeErr", "close"}
    BY <2>2 DEF HandlerCanGo
  <2>3. CASE hpc = "range"
    <3>1. spc = "loop"
      BY <2>1, <2>3 DEF TaskInv, PairInv
    <3>2. CASE taken < Len(out)
      BY <3>1, <3>2 DEF SendRespCanGo
    <3>3. CASE ~(taken < Len(out))
      <4>1. Len(out) - taken < OutCap
        BY <2>1, <3>3, TaskAssumption DEF TaskInv, TypeOK
      <4>2. QED
        BY <2>3, <4>1 DEF HandlerCanGo
    <3>4. QED
      BY <3>2, <3>3
  <2>4. CASE hpc = "wait"
    BY <2>1, <2>4 DEF TaskInv, PairInv, TypeOK, HandlerCanGo, SendRespCanGo
  <2>5. CASE hpc = "returned"
    BY <2>1, <2>5 DEF TaskInv, PairInv, TypeOK, TaskOver, SendRespCanGo
  <2>6. QED
    BY <2>1, <2>2, <2>3, <2>4, <2>5 DEF TaskInv, TypeOK, TaskOver
<1>2. QED
  BY <1>1, TaskInvariance, PTL
=============================================================================
