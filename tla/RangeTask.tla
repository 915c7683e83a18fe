------------------------------ MODULE RangeTask ------------------------------
(***************************************************************************)
(* One task that asks for a range: the handler GetTransactions or          *)
(* GetLatest (client/client.go), the call of getRange it makes, and the    *)
(* goroutine sendResp that wraps what getRange produces in TaskResponses   *)
(* and sends them to the stream of the task.  getRange is represented by   *)
(* its promise, OrderedRange, which RangePipeline implements; it may also  *)
(* never return.  Send is taken to return, as the code's handling of the   *)
(* transport supposes.                                                     *)
(***************************************************************************)
EXTENDS HeightRange, FiniteSets

CONSTANTS OutCap,      \* capacity of out (page*2+1 = 201)
          Requests,    \* the tasks that may arrive: handler and payload
          MayCancel    \* whether the context of the task may be cancelled

VARIABLES
  req,                 \* the task
  hpc,                 \* handler: where it stands
  out, status,         \* getRange, as in OrderedRange
  outClosed,           \* close(out)
  spc, order, taken,   \* sendResp: where it stands, next order, responses received
  contextDone,         \* sendResp left its loop on ctx.Done
  fin, finClosed,      \* tokens on fin; close(fin)
  ctxDone,             \* the context of Run is done
  cancelled,           \* the deferred cancel() of the handler has run
  stream               \* the TaskResponses sent, in order

rvars == <<out, status>>
svars == <<spc, order, taken, contextDone, fin, finClosed>>
vars  == <<req, hpc, out, status, outClosed, spc, order, taken, contextDone,
           fin, finClosed, ctxDone, cancelled, stream>>

GetRange == INSTANCE OrderedRange

Handlers == {"GetTransactions", "GetLatest"}
Payloads == {"garbled", "zeroEnd", "valid"}

ASSUME TaskAssumption ==
  /\ Start \in Nat /\ End \in Nat
  /\ NumTxs \in [Heights -> Nat]
  /\ OutCap \in Nat \ {0}
  /\ Requests \subseteq [handler : Handlers, payload : Payloads]
  /\ MayCancel \in BOOLEAN

-----------------------------------------------------------------------------
(* cStructs.TaskResponse *)

\* sent by a handler when it gives up: Error set, Final
ErrorFinal == [kind |-> "error", order |-> 0, payload |-> << >>]
\* a response of getRange, wrapped by sendResp under the next order
Data(n, r) == [kind |-> "data", order |-> n, payload |-> <<r>>]
\* the END of sendResp, Final
EndFinal(n) == [kind |-> "END", order |-> n, payload |-> << >>]

Send(m) == stream' = Append(stream, m)

Init ==
  /\ req \in Requests
  /\ hpc = "decode"
  /\ GetRange!Init
  /\ outClosed = FALSE
  /\ spc = "none" /\ order = 0 /\ taken = 0 /\ contextDone = FALSE
  /\ fin = 0 /\ finClosed = FALSE
  /\ ctxDone = FALSE /\ cancelled = FALSE
  /\ stream = << >>

-----------------------------------------------------------------------------
(* The handler *)

\* json.Unmarshal fails: GetTransactions returns, GetLatest goes on with the
\* zero LatestDataRequest
DecodeError ==
  /\ hpc = "decode"
  /\ req.payload = "garbled"
  /\ Send(ErrorFinal)
  /\ hpc' = IF req.handler = "GetTransactions" THEN "returned" ELSE "latest"
  /\ UNCHANGED <<req, rvars, outClosed, svars, ctxDone, cancelled>>

\* "end height is zero" + err.Error() with a nil err: the process panics
ZeroEndHeight ==
  /\ hpc = "decode"
  /\ req = [handler |-> "GetTransactions", payload |-> "zeroEnd"]
  /\ hpc' = "panicked"
  /\ UNCHANGED <<req, rvars, outClosed, svars, ctxDone, cancelled, stream>>

\* GetTransactions starts sendResp and calls getRange
StartTransactions ==
  /\ hpc = "decode"
  /\ req = [handler |-> "GetTransactions", payload |-> "valid"]
  /\ hpc' = "range"
  /\ spc' = "loop"
  /\ UNCHANGED <<req, rvars, outClosed, order, taken, contextDone, fin, finClosed,
                 ctxDone, cancelled, stream>>

DecodeLatest ==
  /\ hpc = "decode"
  /\ req.handler = "GetLatest" /\ req.payload # "garbled"
  /\ hpc' = "latest"
  /\ UNCHANGED <<req, rvars, outClosed, svars, ctxDone, cancelled, stream>>

\* GetBlock of the latest block; getLastHeightRange; start of sendResp
LatestBlock ==
  /\ hpc = "latest"
  /\ ~ctxDone
  /\ hpc' = "range"
  /\ spc' = "loop"
  /\ UNCHANGED <<req, rvars, outClosed, order, taken, contextDone, fin, finClosed,
                 ctxDone, cancelled, stream>>

LatestBlockError ==
  /\ hpc = "latest"
  /\ Send(ErrorFinal)
  /\ hpc' = "returned"
  /\ cancelled' = TRUE
  /\ UNCHANGED <<req, rvars, outClosed, svars, ctxDone>>

\* Mutant: out without a limit
RangeEmitUnbounded ==
  /\ hpc = "range"
  /\ GetRange!Emit
  /\ UNCHANGED <<req, hpc, outClosed, svars, ctxDone, cancelled, stream>>

\* getRange: out <- resp
RangeEmit ==
  /\ hpc = "range"
  /\ Len(out) - taken < OutCap
  /\ GetRange!Emit
  /\ UNCHANGED <<req, hpc, outClosed, svars, ctxDone, cancelled, stream>>

\* Mutant: the error of getRange is swallowed
RangeReturnsNil ==
  /\ hpc = "range"
  /\ GetRange!Finish \/ GetRange!Fail
  /\ hpc' = "close"
  /\ UNCHANGED <<req, outClosed, svars, ctxDone, cancelled, stream>>

\* getRange returns nil, or the error of the response it emitted last
RangeReturns ==
  /\ hpc = "range"
  /\ \/ GetRange!Finish /\ hpc' = "close"
     \/ GetRange!Fail /\ hpc' = "sendErr"
  /\ UNCHANGED <<req, outClosed, svars, ctxDone, cancelled, stream>>

\* getRange never returns: range_stuck, range_context, pools_nil
RangeSticks ==
  /\ hpc = "range"
  /\ hpc' = "stuck"
  /\ UNCHANGED <<req, rvars, outClosed, svars, ctxDone, cancelled, stream>>

SendRangeError ==
  /\ hpc = "sendErr"
  /\ Send(ErrorFinal)
  /\ hpc' = "closeErr"
  /\ UNCHANGED <<req, rvars, outClosed, svars, ctxDone, cancelled>>

\* close(out); return, with the deferred cancel
CloseAfterError ==
  /\ hpc = "closeErr"
  /\ outClosed' = TRUE
  /\ hpc' = "returned"
  /\ cancelled' = TRUE
  /\ UNCHANGED <<req, rvars, svars, ctxDone, stream>>

CloseOut ==
  /\ hpc = "close"
  /\ outClosed' = TRUE
  /\ hpc' = "wait"
  /\ UNCHANGED <<req, rvars, svars, ctxDone, cancelled, stream>>

\* select on ctx.Done and fin
HandlerReturns ==
  /\ hpc = "wait"
  /\ \/ fin > 0 /\ fin' = fin - 1
     \/ fin = 0 /\ finClosed /\ UNCHANGED fin
     \/ ctxDone /\ UNCHANGED fin
  /\ hpc' = "returned"
  /\ cancelled' = TRUE
  /\ UNCHANGED <<req, rvars, outClosed, spc, order, taken, contextDone, finClosed,
                 ctxDone, stream>>

Handler == \/ DecodeError \/ ZeroEndHeight \/ StartTransactions \/ DecodeLatest
           \/ LatestBlock \/ LatestBlockError \/ RangeEmit \/ RangeReturns
           \/ RangeSticks \/ SendRangeError \/ CloseAfterError \/ CloseOut \/ HandlerReturns

-----------------------------------------------------------------------------
(* sendResp *)

\* Mutant: order++ is forgotten
SendDataUnnumbered ==
  /\ spc = "loop"
  /\ taken < Len(out)
  /\ Send(Data(order, out[taken + 1]))
  /\ taken' = taken + 1
  /\ UNCHANGED <<req, hpc, rvars, outClosed, spc, order, contextDone, fin, finClosed,
                 ctxDone, cancelled>>

SendData ==
  /\ spc = "loop"
  /\ taken < Len(out)
  /\ Send(Data(order, out[taken + 1]))
  /\ order' = order + 1
  /\ taken' = taken + 1
  /\ UNCHANGED <<req, hpc, rvars, outClosed, spc, contextDone, fin, finClosed,
                 ctxDone, cancelled>>

\* Mutant: the loop ends as soon as out is closed
SendLoopEndsEarly ==
  /\ spc = "loop"
  /\ outClosed
  /\ spc' = "end"
  /\ UNCHANGED <<req, hpc, rvars, outClosed, order, taken, contextDone, fin, finClosed,
                 ctxDone, cancelled, stream>>

\* the closed and empty channel ends the loop
SendLoopEnds ==
  /\ spc = "loop"
  /\ outClosed /\ taken = Len(out)
  /\ spc' = "end"
  /\ UNCHANGED <<req, hpc, rvars, outClosed, order, taken, contextDone, fin, finClosed,
                 ctxDone, cancelled, stream>>

SendLoopCancelled ==
  /\ spc = "loop"
  /\ ctxDone \/ cancelled
  /\ spc' = "end"
  /\ contextDone' = TRUE
  /\ UNCHANGED <<req, hpc, rvars, outClosed, order, taken, fin, finClosed, ctxDone,
                 cancelled, stream>>

\* Mutant: no END
SendEndSilent ==
  /\ spc = "end"
  /\ spc' = "fin"
  /\ UNCHANGED <<req, hpc, rvars, outClosed, order, taken, contextDone, fin, finClosed,
                 ctxDone, cancelled, stream>>

SendEnd ==
  /\ spc = "end"
  /\ Send(EndFinal(order))
  /\ spc' = "fin"
  /\ UNCHANGED <<req, hpc, rvars, outClosed, order, taken, contextDone, fin, finClosed,
                 ctxDone, cancelled>>

\* Mutant: fin is neither written nor closed
SendFinForgotten ==
  /\ spc = "fin"
  /\ spc' = "exited"
  /\ UNCHANGED <<req, hpc, rvars, outClosed, order, taken, contextDone, fin, finClosed,
                 ctxDone, cancelled, stream>>

\* fin <- true unless the context was done, and close(fin)
SendFin ==
  /\ spc = "fin"
  /\ fin' = IF contextDone THEN fin ELSE fin + 1
  /\ finClosed' = TRUE
  /\ spc' = "exited"
  /\ UNCHANGED <<req, hpc, rvars, outClosed, order, taken, contextDone, ctxDone,
                 cancelled, stream>>

SendResp == SendData \/ SendLoopEnds \/ SendLoopCancelled \/ SendEnd \/ SendFin

-----------------------------------------------------------------------------
\* the ten minute timeout of Run, or the end of the stream's context
CancelCtx ==
  /\ MayCancel
  /\ ~ctxDone
  /\ ctxDone' = TRUE
  /\ UNCHANGED <<req, hpc, rvars, outClosed, svars, cancelled, stream>>

Next == Handler \/ SendResp \/ CancelCtx

Spec == Init /\ [][Next]_vars

\* Mutant: the handler is given the context of the stream, without a timeout
NoTimeout == FALSE

\* the timer of Run reaches a task that getRange keeps for good
Timeout == hpc = "stuck" /\ CancelCtx

(***************************************************************************)
(* Handler and sendResp are goroutines the scheduler keeps running, and    *)
(* the timer of Run goes off.  Nothing is assumed of getRange: it returns, *)
(* or sticks.                                                              *)
(***************************************************************************)
FairSpec == Spec /\ WF_vars(Handler) /\ WF_vars(SendResp) /\ WF_vars(Timeout)

-----------------------------------------------------------------------------
(* Properties *)

TaskResponses ==
  [kind : {"error", "data", "END"}, order : Nat, payload : Seq(OutResponses)]

Sent(kind) == { i \in 1 .. Len(stream) : stream[i].kind = kind }

TypeOK ==
  /\ req \in Requests
  /\ hpc \in {"decode", "latest", "range", "stuck", "sendErr", "closeErr", "close",
              "wait", "returned", "panicked"}
  /\ out \in Seq(OutResponses) /\ status \in {"open", "ok", "failed"}
  /\ spc \in {"none", "loop", "end", "fin", "exited"}
  /\ order \in 0 .. Len(out) /\ taken \in 0 .. Len(out) /\ Len(out) - taken <= OutCap
  /\ fin \in 0 .. 1
  /\ outClosed \in BOOLEAN /\ contextDone \in BOOLEAN /\ finClosed \in BOOLEAN
  /\ ctxDone \in BOOLEAN /\ cancelled \in BOOLEAN
  /\ stream \in Seq(TaskResponses)

\* The responses of getRange reach the stream once each, in order and numbered
\* from 0 without a gap, whatever the handler sends in between; END takes the
\* next number and nothing of sendResp follows it.
OrdersConsecutive ==
  \A i \in Sent("data") \cup Sent("END") :
    /\ stream[i].order = Cardinality({ j \in Sent("data") : j < i })
    /\ stream[i].kind = "data" => stream[i].payload = <<out[stream[i].order + 1]>>
    /\ stream[i].kind = "END" => \A j \in Sent("data") \cup Sent("END") : j <= i

\* An END that no error precedes means that the whole range has been sent, every
\* block with all its transactions, unless the task ran into its timeout or its
\* stream went away: a failing range is announced by the error before the END.
EndMeansComplete ==
  \A e \in Sent("END") :
    ~ctxDone /\ (\A j \in Sent("error") : j > e) =>
      \A h \in Heights : \A k \in 0 .. NumTxs[h] :
        \E i \in Sent("data") : i < e /\ stream[i].payload = <<Content(h, k)>>

\* What the handler, and what sendResp, can go on with.
HandlerCanGo ==
  \/ hpc \in {"decode", "latest", "sendErr", "closeErr", "close"}
  \/ hpc = "range" /\ (Len(out) - taken < OutCap \/ GetRange!Continuations = {})
  \/ hpc = "wait" /\ (fin > 0 \/ finClosed \/ ctxDone)

SendRespCanGo ==
  \/ spc = "loop" /\ (taken < Len(out) \/ outClosed \/ ctxDone \/ cancelled)
  \/ spc \in {"end", "fin"}

TaskOver == hpc = "panicked" \/ (hpc = "returned" /\ spc \in {"none", "exited"})

\* Unless its context is cancelled, handler and sendResp of a task never wait for
\* each other: not over a full out, nor over fin.  What getRange itself may wait for
\* is left to PipelineNotStuck and CallsNotStuck.
TaskNotStuck ==
  ~ctxDone /\ hpc # "stuck" /\ ~TaskOver => HandlerCanGo \/ SendRespCanGo

\* Every task a handler takes gets a Final response, even if its context is
\* cancelled at any moment or getRange never returns, when only the timeout of Run
\* is left to answer it.  A zero end height, on which the handler panics, is not
\* answered.
TaskAnswered == [](hpc # "panicked") => <>(Sent("error") \cup Sent("END") # {})

\* Whenever the context is cancelled, sendResp ends, and so does the handler, whose
\* runner is free for the next task, unless its getRange never returns.
TaskEnds ==
  [](hpc # "panicked") => <>(hpc \in {"returned", "stuck"} /\ spc \in {"none", "exited"})
=============================================================================
