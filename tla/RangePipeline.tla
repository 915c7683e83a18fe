---------------------------- MODULE RangePipeline ----------------------------
(***************************************************************************)
(* One call of getRange (client/client.go): the goroutine populateRange    *)
(* hands every height of the range to getRange (channel chOut, which fixes *)
(* the order) and to the asyncBlockAndTx workers (channel chIn); a worker  *)
(* fetches a height and writes its responses to the height's own response  *)
(* channel; getRange reads those channels in the order of chOut and copies *)
(* them to out, which sendResp empties.  On the first Error response       *)
(* getRange stops, waits for the workers and purges chOut.                 *)
(*                                                                         *)
(* A response channel has one writer and one reader and its contents are   *)
(* a function of the height and of the outcome of the fetch, so it is      *)
(* represented by two counters: sent[h] and read[h].                       *)
(***************************************************************************)
EXTENDS HeightRange

CONSTANTS Workers,              \* the asyncBlockAndTx goroutines (5 in the code)
          ChanCap,              \* capacity of chIn and of chOut (10)
          RespCap,              \* capacity of a response channel (1000)
          OutCap,               \* capacity of out (page*2+1 = 201)
          MayFail,              \* heights the node may fail to deliver
          MayCancel             \* whether the task's context may be cancelled

VARIABLES
  ppc, next,             \* populateRange: select it stands at, height
  chIn, chOut,           \* contents of the two hBTx channels
  errored, errClosed,    \* tokens on the errored channel; it is closed on return
  wpc, wh,               \* workers: where they stand, height they work on
  fetched,               \* outcome of blockAndTx per height
  sent, read,            \* responses written to / read from a height's channel
  gpc, cur,              \* getRange: where it stands, last height taken from chOut
  out, taken,            \* responses put on out; how many sendResp has received
  ctxDone,               \* the context of the task is done
  sender                 \* sendResp is still receiving from out

pvars == <<ppc, next>>
wvars == <<wpc, wh, fetched, sent>>
gvars == <<gpc, cur>>
evars == <<ctxDone, sender>>
vars  == <<ppc, next, chIn, chOut, errored, errClosed, wpc, wh, fetched, sent,
           read, gpc, cur, out, taken, ctxDone, sender>>

status == IF gpc \in {"ok", "failed"} THEN gpc ELSE "open"

\* The promise of getRange, over out and the way it ended.
Ordered == INSTANCE OrderedRange WITH out <- out, status <- status

ASSUME PipelineAssumption ==
  /\ Start \in Nat /\ End \in Nat
  /\ NumTxs \in [Heights -> Nat]
  /\ ChanCap \in Nat \ {0} /\ RespCap \in Nat \ {0} /\ OutCap \in Nat \ {0}
  /\ Workers # {} /\ MayFail \subseteq Heights
  /\ MayCancel \in BOOLEAN

-----------------------------------------------------------------------------
(* hBTx: a height, or the marker that ends the range *)
HBTx      == [height : Heights \cup {0}, kind : {"height", "last"}]
Entry(h)  == [height |-> h, kind |-> "height"]
LastEntry == [height |-> 0, kind |-> "last"]

(* The n-th response a worker writes for height h, and how many there are. *)
RespType(h, n) ==
  IF fetched[h] = "err" THEN "Error"
  ELSE IF n = 1 THEN "Block"
  ELSE IF n <= NumTxs[h] + 1 THEN "Transaction"
  ELSE "Partial"

RespLen(h) == IF fetched[h] = "err" THEN 1 ELSE NumTxs[h] + 2

Resp(h, n) == Response(h, RespType(h, n), n - 1)

Init ==
  /\ ppc = "out" /\ next = Start
  /\ chIn = << >> /\ chOut = << >>
  /\ errored = 0 /\ errClosed = FALSE
  /\ wpc = [w \in Workers |-> "recv"]
  /\ wh = [w \in Workers |-> Start]
  /\ fetched = [h \in Heights |-> "none"]
  /\ sent = [h \in Heights |-> 0]
  /\ read = [h \in Heights |-> 0]
  /\ gpc = "range" /\ cur = Start - 1
  /\ out = << >> /\ taken = 0
  /\ ctxDone = FALSE /\ sender = TRUE

-----------------------------------------------------------------------------
(* populateRange *)

\* case <-er: a token, or the closed channel.  The break that follows it in
\* the code leaves the select statement only.
TakeErr ==
  \/ errored > 0 /\ errored' = errored - 1
  \/ errored = 0 /\ errClosed /\ UNCHANGED errored

\* both cases of the first select go on to the second one
PopulateOut ==
  /\ ppc = "out"
  /\ Len(chOut) < ChanCap
  /\ chOut' = Append(chOut, Entry(next))
  /\ ppc' = "in"
  /\ UNCHANGED <<next, chIn, errored, errClosed, wvars, read, gvars, out, taken, evars>>

PopulateOutErr ==
  /\ ppc = "out"
  /\ TakeErr
  /\ ppc' = "in"
  /\ UNCHANGED <<next, chIn, chOut, errClosed, wvars, read, gvars, out, taken, evars>>

\* Mutant: the bound is tested before height++
AdvanceOffByOne ==
  /\ next' = next + 1
  /\ ppc' = IF next > End THEN "last" ELSE "out"

\* height++ and the test of the bound
Advance ==
  /\ next' = next + 1
  /\ ppc' = IF next + 1 > End THEN "last" ELSE "out"

PopulateIn ==
  /\ ppc = "in"
  /\ Len(chIn) < ChanCap
  /\ chIn' = Append(chIn, next)
  /\ Advance
  /\ UNCHANGED <<chOut, errored, errClosed, wvars, read, gvars, out, taken, evars>>

PopulateInErr ==
  /\ ppc = "in"
  /\ TakeErr
  /\ Advance
  /\ UNCHANGED <<chIn, chOut, errClosed, wvars, read, gvars, out, taken, evars>>

\* Mutant: no end marker
PopulateLastUnmarked ==
  /\ ppc = "last"
  /\ ppc' = "done"
  /\ UNCHANGED <<next, chIn, chOut, errored, errClosed, wvars, read, gvars, out, taken, evars>>

\* the end marker, then close(in)
PopulateLast ==
  /\ ppc = "last"
  /\ Len(chOut) < ChanCap
  /\ chOut' = Append(chOut, LastEntry)
  /\ ppc' = "done"
  /\ UNCHANGED <<next, chIn, errored, errClosed, wvars, read, gvars, out, taken, evars>>

PopulateLastErr ==
  /\ ppc = "last"
  /\ TakeErr
  /\ ppc' = "done"
  /\ UNCHANGED <<next, chIn, chOut, errClosed, wvars, read, gvars, out, taken, evars>>

Populate == \/ PopulateOut \/ PopulateOutErr
            \/ PopulateIn \/ PopulateInErr
            \/ PopulateLast \/ PopulateLastErr

-----------------------------------------------------------------------------
(* asyncBlockAndTx *)

\* Mutant: the height stays on chIn for another worker
WorkerRecvPeek(w) ==
  /\ wpc[w] = "recv"
  /\ chIn # << >>
  /\ wh' = [wh EXCEPT ![w] = Head(chIn)]
  /\ wpc' = [wpc EXCEPT ![w] = "fetch"]
  /\ UNCHANGED <<pvars, chIn, chOut, errored, errClosed, fetched, sent, read, gvars, out, taken, evars>>

WorkerRecv(w) ==
  /\ wpc[w] = "recv"
  /\ chIn # << >>
  /\ wh' = [wh EXCEPT ![w] = Head(chIn)]
  /\ chIn' = Tail(chIn)
  /\ wpc' = [wpc EXCEPT ![w] = "fetch"]
  /\ UNCHANGED <<pvars, chOut, errored, errClosed, fetched, sent, read, gvars, out, taken, evars>>

\* Mutant: chIn is closed only after an error
WorkerExitOnError(w) ==
  /\ wpc[w] = "recv"
  /\ chIn = << >>
  /\ ppc = "done" /\ errored > 0
  /\ wpc' = [wpc EXCEPT ![w] = "exited"]
  /\ UNCHANGED <<pvars, chIn, chOut, errored, errClosed, wh, fetched, sent, read, gvars, out, taken, evars>>

\* range over the closed and empty chIn ends: wg.Done
WorkerExit(w) ==
  /\ wpc[w] = "recv"
  /\ chIn = << >>
  /\ ppc = "done"
  /\ wpc' = [wpc EXCEPT ![w] = "exited"]
  /\ UNCHANGED <<pvars, chIn, chOut, errored, errClosed, wh, fetched, sent, read, gvars, out, taken, evars>>

\* blockAndTx: GetBlock, then SearchTx when the block has transactions; an
\* error of either is the outcome, and with a context that is done both fail
WorkerFetch(w, outcome) ==
  /\ wpc[w] = "fetch"
  /\ outcome = "ok" => ~ctxDone
  /\ outcome = "err" => ctxDone \/ wh[w] \in MayFail
  /\ fetched' = [fetched EXCEPT ![wh[w]] = outcome]
  /\ wpc' = [wpc EXCEPT ![w] = "send"]
  /\ UNCHANGED <<pvars, chIn, chOut, errored, errClosed, wh, sent, read, gvars, out, taken, evars>>

\* in.Ch <- : the next response of the height; after an Error the worker
\* returns (wg.Done), after a Partial it goes for the next height
WorkerSend(w) ==
  LET h == wh[w] IN
  /\ wpc[w] = "send"
  /\ sent[h] - read[h] < RespCap
  /\ sent' = [sent EXCEPT ![h] = @ + 1]
  /\ wpc' = [wpc EXCEPT ![w] =
               IF sent[h] + 1 < RespLen(h) THEN "send"
               ELSE IF fetched[h] = "err" THEN "exited"
               ELSE "recv"]
  /\ UNCHANGED <<pvars, chIn, chOut, errored, errClosed, wh, fetched, read, gvars, out, taken, evars>>

Worker(w) == \/ WorkerRecv(w)
             \/ WorkerExit(w)
             \/ \E outcome \in {"ok", "err"} : WorkerFetch(w, outcome)
             \/ WorkerSend(w)

-----------------------------------------------------------------------------
(* getRange *)

\* case o := <-chOut with o.Last: break RANGE_LOOP, chOut back to its pool,
\* return nil, and the deferred close(errored)
RangeEnd ==
  /\ gpc = "range"
  /\ chOut # << >> /\ Head(chOut).kind = "last"
  /\ chOut' = Tail(chOut)
  /\ gpc' = "ok"
  /\ errClosed' = TRUE
  /\ UNCHANGED <<pvars, chIn, errored, wvars, read, cur, out, taken, evars>>

RangeNext ==
  /\ gpc = "range"
  /\ chOut # << >> /\ Head(chOut).kind = "height"
  /\ chOut' = Tail(chOut)
  /\ cur' = Head(chOut).height
  /\ gpc' = "inner"
  /\ UNCHANGED <<pvars, chIn, errored, errClosed, wvars, read, out, taken, evars>>

\* Mutant: the Partial of a block without transactions is not waited for
InnerRecvImpatient ==
  /\ gpc = "inner"
  /\ read[cur] < sent[cur]
  /\ read' = [read EXCEPT ![cur] = @ + 1]
  /\ \/ RespType(cur, read[cur] + 1) = "Partial" /\ gpc' = "range" /\ UNCHANGED errored
     \/ RespType(cur, read[cur] + 1) = "Error" /\ gpc' = "emitErr" /\ errored' = errored + 1
     \/ RespType(cur, read[cur] + 1) = "Transaction" /\ gpc' = "emit" /\ UNCHANGED errored
     \/ RespType(cur, read[cur] + 1) = "Block" /\ UNCHANGED errored
          /\ gpc' = IF NumTxs[cur] = 0 THEN "range" ELSE "emit"
  /\ UNCHANGED <<pvars, chIn, chOut, errClosed, wvars, cur, out, taken, evars>>

\* resp := range o.Ch: Partial ends the height (its channel goes back to the
\* pool), Error puts a token on errored, anything else is forwarded
InnerRecv ==
  /\ gpc = "inner"
  /\ read[cur] < sent[cur]
  /\ read' = [read EXCEPT ![cur] = @ + 1]
  /\ \/ RespType(cur, read[cur] + 1) = "Partial" /\ gpc' = "range" /\ UNCHANGED errored
     \/ RespType(cur, read[cur] + 1) = "Error" /\ gpc' = "emitErr" /\ errored' = errored + 1
     \/ RespType(cur, read[cur] + 1) \in {"Block", "Transaction"} /\ gpc' = "emit" /\ UNCHANGED errored
  /\ UNCHANGED <<pvars, chIn, chOut, errClosed, wvars, cur, out, taken, evars>>

\* Mutant: a response that finds out full is dropped
EmitOutDrops ==
  /\ gpc \in {"emit", "emitErr"}
  /\ out' = IF Len(out) - taken < OutCap THEN Append(out, Resp(cur, read[cur])) ELSE out
  /\ gpc' = IF gpc = "emit" THEN "inner" ELSE "wait"
  /\ UNCHANGED <<pvars, chIn, chOut, errored, errClosed, wvars, read, cur, taken, evars>>

\* Mutant: an Error breaks INNER_LOOP only
EmitOutContinues ==
  /\ gpc \in {"emit", "emitErr"}
  /\ Len(out) - taken < OutCap
  /\ out' = Append(out, Resp(cur, read[cur]))
  /\ gpc' = IF gpc = "emit" THEN "inner" ELSE "range"
  /\ UNCHANGED <<pvars, chIn, chOut, errored, errClosed, wvars, read, cur, taken, evars>>

\* out <- resp: the response just read
EmitOut ==
  /\ gpc \in {"emit", "emitErr"}
  /\ Len(out) - taken < OutCap
  /\ out' = Append(out, Resp(cur, read[cur]))
  /\ gpc' = IF gpc = "emit" THEN "inner" ELSE "wait"
  /\ UNCHANGED <<pvars, chIn, chOut, errored, errClosed, wvars, read, cur, taken, evars>>

\* Mutant: errored without a buffer, the token has to be taken first
WaitWorkersHandshake ==
  /\ gpc = "wait"
  /\ errored = 0
  /\ \A w \in Workers : wpc[w] = "exited"
  /\ gpc' = "purge"
  /\ UNCHANGED <<pvars, chIn, chOut, errored, errClosed, wvars, read, cur, out, taken, evars>>

\* wg.Wait
WaitWorkers ==
  /\ gpc = "wait"
  /\ \A w \in Workers : wpc[w] = "exited"
  /\ gpc' = "purge"
  /\ UNCHANGED <<pvars, chIn, chOut, errored, errClosed, wvars, read, cur, out, taken, evars>>

\* PURIFY_CHANNELS: drop an entry of chOut and whatever its channel holds
PurgeEntry ==
  /\ gpc = "purge"
  /\ chOut # << >>
  /\ chOut' = Tail(chOut)
  /\ read' = [h \in Heights |->
                IF Head(chOut).kind = "height" /\ h = Head(chOut).height THEN sent[h] ELSE read[h]]
  /\ UNCHANGED <<pvars, chIn, errored, errClosed, wvars, gvars, out, taken, evars>>

\* chOut found empty: it goes back to its pool and getRange returns err
PurgeEnd ==
  /\ gpc = "purge"
  /\ chOut = << >>
  /\ gpc' = "failed"
  /\ errClosed' = TRUE
  /\ UNCHANGED <<pvars, chIn, chOut, errored, wvars, read, cur, out, taken, evars>>

GetRange == \/ RangeEnd \/ RangeNext \/ InnerRecv \/ EmitOut
            \/ WaitWorkers \/ PurgeEntry \/ PurgeEnd

-----------------------------------------------------------------------------
(* The task around the call *)

\* sendResp: case t, ok := <-in
TakeOut ==
  /\ sender
  /\ taken < Len(out)
  /\ taken' = taken + 1
  /\ UNCHANGED <<pvars, chIn, chOut, errored, errClosed, wvars, read, gvars, out, evars>>

\* the ten minute timeout of Run, or the context of the stream
CancelCtx ==
  /\ MayCancel
  /\ ~ctxDone
  /\ ctxDone' = TRUE
  /\ UNCHANGED <<pvars, chIn, chOut, errored, errClosed, wvars, read, gvars, out, taken, sender>>

\* sendResp: case <-ctx.Done()
SenderLeaves ==
  /\ ctxDone
  /\ sender
  /\ sender' = FALSE
  /\ UNCHANGED <<pvars, chIn, chOut, errored, errClosed, wvars, read, gvars, out, taken, ctxDone>>

Next == \/ Populate
        \/ \E w \in Workers : Worker(w)
        \/ GetRange
        \/ TakeOut \/ CancelCtx \/ SenderLeaves

Spec == Init /\ [][Next]_vars

(***************************************************************************)
(* The Go scheduler runs every goroutine that can run; a fetch ends because *)
(* GetBlock and SearchTx bound their calls by a timeout.  Nothing is        *)
(* assumed about which ready case a select takes, nor about the context.   *)
(***************************************************************************)
Fairness ==
  /\ WF_vars(Populate)
  /\ \A w \in Workers : WF_vars(Worker(w))
  /\ WF_vars(GetRange)
  /\ WF_vars(TakeOut)

FairSpec == Spec /\ Fairness

-----------------------------------------------------------------------------
(* Properties *)

TypeOK ==
  /\ ppc \in {"out", "in", "last", "done"}
  /\ next \in Start .. LastHeight + 1
  /\ chIn \in Seq(Heights) /\ Len(chIn) <= ChanCap
  /\ chOut \in Seq(HBTx) /\ Len(chOut) <= ChanCap
  /\ errored \in 0 .. 1
  /\ errClosed \in BOOLEAN
  /\ wpc \in [Workers -> {"recv", "fetch", "send", "exited"}]
  /\ wh \in [Workers -> Heights]
  /\ fetched \in [Heights -> {"none", "ok", "err"}]
  /\ sent \in [Heights -> Nat] /\ read \in [Heights -> Nat]
  /\ gpc \in {"range", "inner", "emit", "emitErr", "wait", "purge", "ok", "failed"}
  /\ cur \in (Start - 1) .. LastHeight
  /\ out \in Seq(OutResponses)
  /\ taken \in 0 .. Len(out)
  /\ ctxDone \in BOOLEAN /\ sender \in BOOLEAN

\* getRange delivers the range in order, whole or up to the first failure,
\* whatever the order in which the workers finish their fetches.
RefinesOrderedRange == Ordered!Spec

\* However the workers interleave, out holds the range from its start without a
\* gap, a repetition or a response out of place, and all of it when getRange
\* returns nil.
OutWhole == Ordered!WholeInOrder

\* The heights whose response channel getRange has handed back to oRespPool
\* after reading the Partial that ends them.
HandedBack(h) == h < cur \/ (h = cur /\ gpc \in {"range", "ok"})

\* A response channel that is back in the pool, where another task can get it,
\* is empty, has received all its responses, and no worker still writes to it.
HandedBackChannelsIdle ==
  \A h \in Heights : HandedBack(h) =>
    /\ fetched[h] = "ok"
    /\ sent[h] = RespLen(h) /\ read[h] = RespLen(h)
    /\ \A w \in Workers : wpc[w] \in {"fetch", "send"} => wh[w] # h

\* getRange returns, as long as sendResp keeps receiving.
Returns == []sender => <>(gpc \in {"ok", "failed"})

\* After a failed height nobody reads: the heights behind it and the end marker
\* have to fit chOut, and their responses the response channels.
RestFits ==
  \A h \in Heights : fetched[h] = "err" =>
    /\ LastHeight - h < ChanCap
    /\ \A k \in h + 1 .. LastHeight : NumTxs[k] + 2 <= RespCap

\* getRange returns whatever fails and whenever the context ends, as long as
\* sendResp keeps receiving and what lies behind a failure fits the channels:
\* no other two of its goroutines can wait for each other.
ReturnsIfRestFits == [](sender /\ RestFits) => <>(gpc \in {"ok", "failed"})

\* Under the same conditions populateRange and the workers end: a task leaves no
\* goroutine behind.
GoroutinesExit ==
  [](sender /\ RestFits) => <>(ppc = "done" /\ \A w \in Workers : wpc[w] = "exited")

\* What each goroutine of the call can go on with.
PopulateCanGo ==
  \/ ppc \in {"out", "last"} /\ Len(chOut) < ChanCap
  \/ ppc = "in" /\ Len(chIn) < ChanCap
  \/ ppc # "done" /\ (errored > 0 \/ errClosed)

WorkerCanGo(w) ==
  \/ wpc[w] = "recv" /\ (chIn # << >> \/ ppc = "done")
  \/ wpc[w] = "fetch"
  \/ wpc[w] = "send" /\ sent[wh[w]] - read[wh[w]] < RespCap

GetRangeCanGo ==
  \/ gpc = "range" /\ chOut # << >>
  \/ gpc = "inner" /\ read[cur] < sent[cur]
  \/ gpc \in {"emit", "emitErr"} /\ Len(out) - taken < OutCap
  \/ gpc = "wait" /\ \A w \in Workers : wpc[w] = "exited"
  \/ gpc = "purge"

CallOver == /\ gpc \in {"ok", "failed"} /\ ppc = "done"
            /\ \A w \in Workers : wpc[w] = "exited"

\* At no moment do all goroutines of the call, and sendResp, wait for each other:
\* what lies behind a failure has to fit the channels, and nothing else.
PipelineNotStuck ==
  sender /\ RestFits /\ ~CallOver =>
    PopulateCanGo \/ (\E w \in Workers : WorkerCanGo(w)) \/ GetRangeCanGo \/ taken < Len(out)

\* A call whose context is done returns.
ContextBoundsCall == ctxDone ~> gpc \in {"ok", "failed"}

-----------------------------------------------------------------------------
(***************************************************************************)
(* The inductive invariant behind RefinesOrderedRange and                  *)
(* HandedBackChannelsIdle.                                                 *)
(***************************************************************************)
Busy(w) == wpc[w] \in {"fetch", "send"}

\* Until getRange meets an Error, chOut holds exactly the heights after cur
\* that populateRange has passed, and the end marker behind the last of them.
Delivering == gpc \in {"range", "inner", "emit"}
NoErrorYet == errored = 0 /\ ~errClosed
ChOutOrder == \A i \in 1 .. Len(chOut) :
                /\ (chOut[i].kind = "last") <=> (ppc = "done" /\ i = Len(chOut))
                /\ chOut[i].kind = "height" => chOut[i].height = cur + i
ChOutReach == /\ ppc = "out" => next = cur + Len(chOut) + 1
              /\ ppc = "in" => next = cur + Len(chOut)
              /\ ppc = "last" => LastHeight = cur + Len(chOut)
              /\ ppc = "done" => LastHeight = cur + Len(chOut) - 1 /\ Len(chOut) > 0

ChOutConsecutive == Delivering => NoErrorYet /\ ChOutOrder /\ ChOutReach

\* A height is given to one worker only, and fetched once: chIn is ascending,
\* the workers are busy with distinct heights below the ones that wait in it,
\* and nothing that waits or lies ahead of populateRange has been fetched.
PopulateBound  == ppc \in {"out", "in"} => next <= LastHeight
ChInAscending  == \A i, j \in 1 .. Len(chIn) : i < j => chIn[i] < chIn[j]
ChInUnfetched  == \A i \in 1 .. Len(chIn) : chIn[i] < next /\ fetched[chIn[i]] = "none"
BusyPassed     == \A w \in Workers : Busy(w) => wh[w] < next
BusyBelowChIn  == \A w \in Workers, i \in 1 .. Len(chIn) : Busy(w) => wh[w] < chIn[i]
BusyDistinct   == \A v, w \in Workers : Busy(v) /\ Busy(w) /\ wh[v] = wh[w] => v = w
AheadUnfetched == \A h \in Heights : h >= next => fetched[h] = "none"

HeightsFetchedOnce == /\ PopulateBound
                      /\ ChInAscending
                      /\ ChInUnfetched
                      /\ BusyPassed
                      /\ BusyBelowChIn
                      /\ BusyDistinct
                      /\ AheadUnfetched

\* Counters of the response channels.
ResponsesCounted ==
  /\ \A w \in Workers : wpc[w] = "fetch" => fetched[wh[w]] = "none"
  /\ \A w \in Workers : wpc[w] = "send" =>
       fetched[wh[w]] # "none" /\ sent[wh[w]] < RespLen(wh[w])
  /\ \A h \in Heights :
       /\ read[h] <= sent[h]
       /\ fetched[h] = "none" => sent[h] = 0
       /\ sent[h] <= RespLen(h)
       /\ HandedBack(h) => fetched[h] = "ok" /\ read[h] = RespLen(h)

\* The last response on out is number k of height h (0: its block).
OutAt(h, k) == /\ out # << >>
               /\ LastOf(out).type # "Error"
               /\ LastOf(out).height = h
               /\ LastOf(out).i = k

\* Everything up to height h is out, and nothing beyond it.
OutThrough(h) == IF h < Start THEN out = << >> ELSE OutAt(h, NumTxs[h])

\* Where out stands for each place in getRange.
OutPosition ==
  /\ gpc # "range" => cur \in Heights
  /\ Delivering \/ gpc = "emitErr" => \A h \in Heights : h > cur => read[h] = 0
  /\ gpc \in {"range", "ok"} => OutThrough(cur)
  /\ gpc = "inner" => IF read[cur] = 0 THEN OutThrough(cur - 1)
                      ELSE /\ fetched[cur] = "ok"
                           /\ read[cur] <= NumTxs[cur] + 1
                           /\ OutAt(cur, read[cur] - 1)
  /\ gpc = "emit" => /\ fetched[cur] = "ok"
                     /\ read[cur] \in 1 .. NumTxs[cur] + 1
                     /\ IF read[cur] = 1 THEN OutThrough(cur - 1)
                        ELSE OutAt(cur, read[cur] - 2)
  /\ gpc = "emitErr" => /\ fetched[cur] = "err" /\ read[cur] = 1
                        /\ OutThrough(cur - 1)
  /\ gpc \in {"wait", "purge", "failed"} =>
       out # << >> /\ LastOf(out).type = "Error"
  /\ gpc = "ok" => cur = LastHeight

IInv == /\ TypeOK
        /\ ChOutConsecutive
        /\ HeightsFetchedOnce
        /\ ResponsesCounted
        /\ OutPosition
=============================================================================
