---------------------------- MODULE PooledRanges ----------------------------
(***************************************************************************)
(* Several calls of getRange (client/client.go) that run in one worker and *)
(* take their channels from the pools oRespPool and oHBTxPool              *)
(* (client/pool.go).  Channels have an identity here, and a call that has  *)
(* returned may have left goroutines behind that still hold some.          *)
(*                                                                         *)
(* RangePipeline has what this module leaves out of a single call: the     *)
(* responses of a height and the Partial that ends them are one message,   *)
(* and out is always received from.                                        *)
(***************************************************************************)
EXTENDS Integers, Sequences

CONSTANTS Calls,      \* calls of getRange
          Workers,    \* the asyncBlockAndTx goroutines of a call (5)
          Size,       \* Size[c]: the heights of call c are 1 .. Size[c]
          ChanCap,    \* capacity of an hBTx channel (10)
          PoolCap     \* capacity of the pools (20)

ASSUME PoolAssumption ==
  /\ Size \in [Calls -> Nat \ {0}] /\ Workers # {}
  /\ ChanCap \in Nat \ {0} /\ PoolCap \in Nat

VARIABLES
  faulty,                    \* calls whose fetches may fail
  resp, respPool,            \* response channels; oRespPool.stor
  hbtx, hbtxPool,            \* hBTx channels; oHBTxPool.stor
  chIn, chOut,               \* the hBTx channels of a call
  ppc, next, held,           \* populateRange: place, height, Ch of hBTxO
  wpc, job,                  \* workers: place, hBTx received
  gpc, cur, out,             \* getRange: place, hBTx received, responses put on out
  errored, errClosed,        \* tokens on errored; close(errored)
  crashed                    \* the process has panicked

pvars == <<ppc, next, held>>
wvars == <<wpc, job>>
gvars == <<gpc, cur, out>>
evars == <<errored, errClosed>>
vars  == <<faulty, resp, respPool, hbtx, hbtxPool, chIn, chOut, ppc, next, held,
           wpc, job, gpc, cur, out, errored, errClosed, crashed>>

-----------------------------------------------------------------------------
(***************************************************************************)
(* A channel is named after the Get that made it: a response channel after *)
(* call and height, an hBTx channel after call and use.  A send or a       *)
(* receive on the nil channel blocks for ever.                             *)
(***************************************************************************)
nil       == << >>
RespChans == UNION { {<<c, h>> : h \in 1 .. Size[c]} : c \in Calls }
HBTxChans == Calls \X {"in", "out"}
NewChan   == [queue |-> << >>, closed |-> FALSE]

\* hBTx; call is the call that made it, which the code does not record
Entry(c, h, ch) == [call |-> c, height |-> h, ch |-> ch, last |-> FALSE]
LastEntry(c) == [call |-> c, height |-> 0, ch |-> nil, last |-> TRUE]
None(c)      == LastEntry(c)    \* in a variable that is not in use

Message(e, t) == [call |-> e.call, height |-> e.height, type |-> t]

Init ==
  /\ faulty \in SUBSET Calls
  /\ resp = [ch \in RespChans |-> NewChan] /\ respPool = << >>
  /\ hbtx = [ch \in HBTxChans |-> NewChan] /\ hbtxPool = << >>
  /\ chIn = [c \in Calls |-> nil] /\ chOut = [c \in Calls |-> nil]
  /\ ppc = [c \in Calls |-> "idle"]
  /\ next = [c \in Calls |-> 1]
  /\ held = [c \in Calls |-> nil]
  /\ wpc = [c \in Calls |-> [w \in Workers |-> "idle"]]
  /\ job = [c \in Calls |-> [w \in Workers |-> None(c)]]
  /\ gpc = [c \in Calls |-> "start"]
  /\ cur = [c \in Calls |-> None(c)]
  /\ out = [c \in Calls |-> << >>]
  /\ errored = [c \in Calls |-> 0] /\ errClosed = [c \in Calls |-> FALSE]
  /\ crashed = FALSE

-----------------------------------------------------------------------------
(* The pools *)

\* outRespDrain.  One step: a sender of a drained hBTx channel belongs to a call
\* that has returned, and may always take its errored case instead.
Drained(chans, ch) == IF ch = nil THEN chans ELSE [chans EXCEPT ![ch].queue = << >>]

\* Mutant: the channel stays in the pool
GotFromPeek(pool, new) ==
  IF pool = << >> THEN [ch |-> new, rest |-> pool] ELSE [ch |-> Head(pool), rest |-> pool]

\* Get: the oldest channel of the pool, to be drained, or the new one
GotFrom(pool, new) ==
  IF pool = << >> THEN [ch |-> new, rest |-> pool] ELSE [ch |-> Head(pool), rest |-> Tail(pool)]

\* Mutant: one channel too many
RespPutBeyond(ch, chans) ==
  /\ Len(respPool) <= PoolCap
  /\ respPool' = Append(respPool, ch)
  /\ resp' = chans
  /\ UNCHANGED crashed

\* oRespPool.Put; the nil channel cannot be closed
RespPut(ch, chans) ==
  \/ /\ Len(respPool) < PoolCap
     /\ respPool' = Append(respPool, ch)
     /\ resp' = chans
     /\ UNCHANGED crashed
  \/ /\ Len(respPool) = PoolCap
     /\ resp' = IF ch = nil THEN chans ELSE [chans EXCEPT ![ch].closed = TRUE]
     /\ crashed' = (ch = nil)
     /\ UNCHANGED respPool

\* oHBTxPool.Put
HBTxPut(ch) ==
  \/ /\ Len(hbtxPool) < PoolCap
     /\ hbtxPool' = Append(hbtxPool, ch)
     /\ UNCHANGED hbtx
  \/ /\ Len(hbtxPool) = PoolCap
     /\ hbtx' = [hbtx EXCEPT ![ch].closed = TRUE]
     /\ UNCHANGED hbtxPool

-----------------------------------------------------------------------------
(* populateRange *)

PopulateGet(c) ==
  LET got == GotFrom(respPool, <<c, next[c]>>) IN
  /\ ppc[c] = "get"
  /\ held' = [held EXCEPT ![c] = got.ch]
  /\ respPool' = got.rest
  /\ resp' = Drained(resp, got.ch)
  /\ ppc' = [ppc EXCEPT ![c] = "out"]
  /\ UNCHANGED <<faulty, hbtx, hbtxPool, chIn, chOut, next, wvars, gvars, evars, crashed>>

\* a send on a channel that another call has closed panics
SendHBTx(ch, e) ==
  /\ hbtx[ch].closed \/ Len(hbtx[ch].queue) < ChanCap
  /\ hbtx' = IF hbtx[ch].closed THEN hbtx ELSE [hbtx EXCEPT ![ch].queue = Append(@, e)]
  /\ crashed' = hbtx[ch].closed

\* case <-er
TakeErr(c) ==
  \/ errored[c] > 0 /\ errored' = [errored EXCEPT ![c] = @ - 1]
  \/ errored[c] = 0 /\ errClosed[c] /\ UNCHANGED errored

PopulateOut(c) ==
  /\ ppc[c] = "out"
  /\ \/ SendHBTx(chOut[c], Entry(c, next[c], held[c])) /\ UNCHANGED errored
     \/ TakeErr(c) /\ UNCHANGED <<hbtx, crashed>>
  /\ ppc' = [ppc EXCEPT ![c] = "in"]
  /\ UNCHANGED <<faulty, resp, respPool, hbtxPool, chIn, chOut, next, held, wvars, gvars, errClosed>>

PopulateIn(c) ==
  /\ ppc[c] = "in"
  /\ \/ SendHBTx(chIn[c], Entry(c, next[c], held[c])) /\ UNCHANGED errored
     \/ TakeErr(c) /\ UNCHANGED <<hbtx, crashed>>
  /\ next' = [next EXCEPT ![c] = @ + 1]
  /\ held' = [held EXCEPT ![c] = nil]
  /\ ppc' = [ppc EXCEPT ![c] = IF next[c] + 1 > Size[c] THEN "last" ELSE "get"]
  /\ UNCHANGED <<faulty, resp, respPool, hbtxPool, chIn, chOut, wvars, gvars, errClosed>>

PopulateLast(c) ==
  /\ ppc[c] = "last"
  /\ \/ SendHBTx(chOut[c], LastEntry(c)) /\ UNCHANGED errored
     \/ TakeErr(c) /\ UNCHANGED <<hbtx, crashed>>
  /\ ppc' = [ppc EXCEPT ![c] = "close"]
  /\ UNCHANGED <<faulty, resp, respPool, hbtxPool, chIn, chOut, next, held, wvars, gvars, errClosed>>

\* close(in)
PopulateClose(c) ==
  /\ ppc[c] = "close"
  /\ hbtx' = [hbtx EXCEPT ![chIn[c]].closed = TRUE]
  /\ ppc' = [ppc EXCEPT ![c] = "done"]
  /\ UNCHANGED <<faulty, resp, respPool, hbtxPool, chIn, chOut, next, held, wvars, gvars, evars, crashed>>

Populate(c) == ~crashed /\ (PopulateGet(c) \/ PopulateOut(c) \/ PopulateIn(c)
                              \/ PopulateLast(c) \/ PopulateClose(c))

-----------------------------------------------------------------------------
(* asyncBlockAndTx *)

WorkerRecv(c, w) ==
  /\ wpc[c][w] = "recv"
  /\ hbtx[chIn[c]].queue # << >>
  /\ job' = [job EXCEPT ![c][w] = Head(hbtx[chIn[c]].queue)]
  /\ hbtx' = [hbtx EXCEPT ![chIn[c]].queue = Tail(@)]
  /\ wpc' = [wpc EXCEPT ![c][w] = "send"]
  /\ UNCHANGED <<faulty, resp, respPool, hbtxPool, chIn, chOut, pvars, gvars, evars, crashed>>

WorkerExit(c, w) ==
  /\ wpc[c][w] = "recv"
  /\ hbtx[chIn[c]].queue = << >> /\ hbtx[chIn[c]].closed
  /\ wpc' = [wpc EXCEPT ![c][w] = "exited"]
  /\ UNCHANGED <<faulty, resp, respPool, hbtx, hbtxPool, chIn, chOut, job, pvars, gvars, evars, crashed>>

\* a write to a response channel that another call has closed panics
WriteResp(ch, m) ==
  /\ resp' = IF resp[ch].closed THEN resp ELSE [resp EXCEPT ![ch].queue = Append(@, m)]
  /\ crashed' = resp[ch].closed

\* blockAndTx, and its outcome written to the channel of the height
WorkerSend(c, w, outcome) ==
  LET e == job[c][w] IN
  /\ wpc[c][w] = "send"
  /\ outcome = "Error" => c \in faulty
  /\ e.ch # nil
  /\ WriteResp(e.ch, Message(e, outcome))
  /\ job' = [job EXCEPT ![c][w] = None(c)]
  /\ wpc' = [wpc EXCEPT ![c][w] = IF outcome = "Error" THEN "exited" ELSE "recv"]
  /\ UNCHANGED <<faulty, respPool, hbtx, hbtxPool, chIn, chOut, pvars, gvars, evars>>

Worker(c, w) == ~crashed /\ (\/ WorkerRecv(c, w)
                             \/ WorkerExit(c, w)
                             \/ \E outcome \in {"Block", "Error"} : WorkerSend(c, w, outcome))

-----------------------------------------------------------------------------
(* getRange *)

GetIn(c) ==
  LET got == GotFrom(hbtxPool, <<c, "in">>) IN
  /\ gpc[c] = "start"
  /\ chIn' = [chIn EXCEPT ![c] = got.ch]
  /\ hbtxPool' = got.rest
  /\ hbtx' = Drained(hbtx, got.ch)
  /\ gpc' = [gpc EXCEPT ![c] = "getOut"]
  /\ UNCHANGED <<faulty, resp, respPool, chOut, pvars, wvars, cur, out, evars, crashed>>

\* the second channel, then populateRange and the workers are started
GetOut(c) ==
  LET got == GotFrom(hbtxPool, <<c, "out">>) IN
  /\ gpc[c] = "getOut"
  /\ chOut' = [chOut EXCEPT ![c] = got.ch]
  /\ hbtxPool' = got.rest
  /\ hbtx' = Drained(hbtx, got.ch)
  /\ gpc' = [gpc EXCEPT ![c] = "range"]
  /\ ppc' = [ppc EXCEPT ![c] = "get"]
  /\ wpc' = [wpc EXCEPT ![c] = [w \in Workers |-> "recv"]]
  /\ UNCHANGED <<faulty, resp, respPool, chIn, next, held, job, cur, out, evars, crashed>>

RangeNext(c) ==
  LET q == hbtx[chOut[c]].queue IN
  /\ gpc[c] = "range"
  /\ q # << >>
  /\ cur' = [cur EXCEPT ![c] = IF Head(q).last THEN None(c) ELSE Head(q)]
  /\ hbtx' = [hbtx EXCEPT ![chOut[c]].queue = Tail(@)]
  /\ gpc' = [gpc EXCEPT ![c] = IF Head(q).last THEN "return" ELSE "inner"]
  /\ UNCHANGED <<faulty, resp, respPool, hbtxPool, chIn, chOut, pvars, wvars, out, evars, crashed>>

\* resp := range o.Ch.  A block and its Partial: the channel goes back to the
\* pool.  An Error: a token on errored.
InnerRecv(c) ==
  LET ch    == cur[c].ch
      m     == Head(resp[ch].queue)
      after == [resp EXCEPT ![ch].queue = Tail(@)]
  IN
  /\ gpc[c] = "inner"
  /\ ch # nil
  /\ resp[ch].queue # << >>
  /\ out' = [out EXCEPT ![c] = Append(@, m)]
  /\ cur' = [cur EXCEPT ![c] = None(c)]
  /\ \/ /\ m.type = "Block"
        /\ RespPut(ch, after)
        /\ gpc' = [gpc EXCEPT ![c] = "range"]
        /\ UNCHANGED errored
     \/ /\ m.type = "Error"
        /\ resp' = after
        /\ gpc' = [gpc EXCEPT ![c] = "wait"]
        /\ errored' = [errored EXCEPT ![c] = @ + 1]
        /\ UNCHANGED <<respPool, crashed>>
  /\ UNCHANGED <<faulty, hbtx, hbtxPool, chIn, chOut, pvars, wvars, errClosed>>

\* Mutant: no wg.Wait
WaitWorkersNot(c) ==
  /\ gpc[c] = "wait"
  /\ gpc' = [gpc EXCEPT ![c] = "purge"]
  /\ UNCHANGED <<faulty, resp, respPool, hbtx, hbtxPool, chIn, chOut, pvars, wvars, cur, out, evars, crashed>>

WaitWorkers(c) ==
  /\ gpc[c] = "wait"
  /\ \A w \in Workers : wpc[c][w] = "exited"
  /\ gpc' = [gpc EXCEPT ![c] = "purge"]
  /\ UNCHANGED <<faulty, resp, respPool, hbtx, hbtxPool, chIn, chOut, pvars, wvars, cur, out, evars, crashed>>

\* the end marker too goes to oRespPool.Put, with its nil channel
PurgeEntry(c) ==
  LET q == hbtx[chOut[c]].queue IN
  /\ gpc[c] = "purge"
  /\ q # << >>
  /\ hbtx' = [hbtx EXCEPT ![chOut[c]].queue = Tail(@)]
  /\ RespPut(Head(q).ch, Drained(resp, Head(q).ch))
  /\ UNCHANGED <<faulty, hbtxPool, chIn, chOut, pvars, wvars, gvars, evars>>

PurgeEnd(c) ==
  /\ gpc[c] = "purge"
  /\ hbtx[chOut[c]].queue = << >>
  /\ gpc' = [gpc EXCEPT ![c] = "returnErr"]
  /\ UNCHANGED <<faulty, resp, respPool, hbtx, hbtxPool, chIn, chOut, pvars, wvars, cur, out, evars, crashed>>

\* Mutant: chIn, which populateRange closes, goes back to the pool
ReturnChIn(c) ==
  /\ gpc[c] \in {"return", "returnErr"}
  /\ HBTxPut(chIn[c])
  /\ errClosed' = [errClosed EXCEPT ![c] = TRUE]
  /\ gpc' = [gpc EXCEPT ![c] = IF @ = "return" THEN "ok" ELSE "failed"]
  /\ UNCHANGED <<faulty, resp, respPool, chIn, chOut, pvars, wvars, cur, out, errored, crashed>>

\* oHBTxPool.Put(chOut), and the deferred close(errored)
Return(c) ==
  /\ gpc[c] \in {"return", "returnErr"}
  /\ HBTxPut(chOut[c])
  /\ errClosed' = [errClosed EXCEPT ![c] = TRUE]
  /\ gpc' = [gpc EXCEPT ![c] = IF @ = "return" THEN "ok" ELSE "failed"]
  /\ UNCHANGED <<faulty, resp, respPool, chIn, chOut, pvars, wvars, cur, out, errored, crashed>>

GetRange(c) == ~crashed /\ (GetIn(c) \/ GetOut(c) \/ RangeNext(c) \/ InnerRecv(c)
                              \/ WaitWorkers(c) \/ PurgeEntry(c) \/ PurgeEnd(c) \/ Return(c))

Next == \E c \in Calls : \/ Populate(c)
                         \/ \E w \in Workers : Worker(c, w)
                         \/ GetRange(c)

Spec == Init /\ [][Next]_vars

\* every goroutine that can run is run, and fetches end
FairSpec == /\ Spec
            /\ \A c \in Calls : WF_vars(Populate(c)) /\ WF_vars(GetRange(c))
            /\ \A c \in Calls, w \in Workers : WF_vars(Worker(c, w))

-----------------------------------------------------------------------------
(* Properties *)

HBTx     == [call : Calls, height : Nat, ch : RespChans \cup {nil}, last : BOOLEAN]
Messages == [call : Calls, height : Nat, type : {"Block", "Error"}]

TypeOK ==
  /\ faulty \subseteq Calls
  /\ resp \in [RespChans -> [queue : Seq(Messages), closed : BOOLEAN]]
  /\ respPool \in Seq(RespChans \cup {nil}) /\ Len(respPool) <= PoolCap
  /\ hbtx \in [HBTxChans -> [queue : Seq(HBTx), closed : BOOLEAN]]
  /\ hbtxPool \in Seq(HBTxChans) /\ Len(hbtxPool) <= PoolCap
  /\ chIn \in [Calls -> HBTxChans \cup {nil}] /\ chOut \in [Calls -> HBTxChans \cup {nil}]
  /\ ppc \in [Calls -> {"idle", "get", "out", "in", "last", "close", "done"}]
  /\ next \in [Calls -> Nat] /\ \A c \in Calls : next[c] \in 1 .. Size[c] + 1
  /\ held \in [Calls -> RespChans \cup {nil}]
  /\ wpc \in [Calls -> [Workers -> {"idle", "recv", "send", "exited"}]]
  /\ job \in [Calls -> [Workers -> HBTx]]
  /\ gpc \in [Calls -> {"start", "getOut", "range", "inner", "return", "wait", "purge",
                        "returnErr", "ok", "failed"}]
  /\ cur \in [Calls -> HBTx]
  /\ out \in [Calls -> Seq(Messages)]
  /\ errored \in [Calls -> 0 .. 1] /\ errClosed \in [Calls -> BOOLEAN]
  /\ crashed \in BOOLEAN

\* What a call puts on out is its own range from the first height on, in order,
\* whatever other calls have left in the channels it was given: an answer never
\* reaches another task.  (wg.Wait: "make sure there are no outstanding producers".)
OwnResponses ==
  \A c \in Calls : \A i \in DOMAIN out[c] : out[c][i].call = c /\ out[c][i].height = i

\* A call has returned its error.  Its populateRange may still be running.
SomeFailed == \E c \in Calls : gpc[c] = "failed"

\* Until a call has returned an error, also while calls are failing and purging
\* their channels, a call delivers its own range only, and returns without an
\* error only when the range is delivered.
DeliversOwnRange ==
  ~SomeFailed => /\ OwnResponses
                 /\ \A c \in Calls : gpc[c] = "ok" => Len(out[c]) = Size[c]

\* A worker is about to write to the channel, or will be given it by chIn.
PendingWrite(ch) ==
  \/ \E c \in Calls, w \in Workers : wpc[c][w] = "send" /\ job[c][w].ch = ch
  \/ \E c \in Calls, w \in Workers :
       /\ wpc[c][w] \in {"recv", "send"}
       /\ \/ ppc[c] \in {"out", "in"} /\ held[c] = ch
          \/ \E i \in DOMAIN hbtx[chIn[c]].queue : hbtx[chIn[c]].queue[i].ch = ch

\* Until a call has returned an error, what Get takes from a pool can be used at
\* once, with or without the drain: it is open (Get would drain a closed channel
\* for ever, with the lock held) and there once, a response channel is empty, and
\* no call writes to it or reads it.
\* What a call or its workers have in use is open: RangeNext and InnerRecv have no
\* case for a channel that Put has closed.
PooledChannelsIdle ==
  ~SomeFailed =>
  /\ \A c \in Calls : gpc[c] \in {"range", "inner", "wait", "purge"} => ~hbtx[chOut[c]].closed
  /\ \A c \in Calls : cur[c].ch # nil => ~resp[cur[c].ch].closed
  /\ \A c \in Calls, w \in Workers : job[c][w].ch # nil => ~resp[job[c][w].ch].closed
  /\ \A i \in DOMAIN hbtxPool : /\ ~hbtx[hbtxPool[i]].closed
                                /\ \A j \in DOMAIN hbtxPool : hbtxPool[i] = hbtxPool[j] => i = j
  /\ \A i \in DOMAIN respPool : respPool[i] # nil =>
       /\ resp[respPool[i]] = NewChan
       /\ ~PendingWrite(respPool[i])
       /\ \A c \in Calls : cur[c].ch # respPool[i]
       /\ \A j \in DOMAIN respPool : respPool[i] = respPool[j] => i = j

Returned(c) == gpc[c] \in {"ok", "failed"}

\* What the goroutines of a call can go on with.
PopulateCanGo(c) ==
  \/ ppc[c] \in {"get", "close"}
  \/ ppc[c] \in {"out", "last"} /\ Len(hbtx[chOut[c]].queue) < ChanCap
  \/ ppc[c] = "in" /\ Len(hbtx[chIn[c]].queue) < ChanCap

WorkerCanGo(c, w) ==
  \/ wpc[c][w] = "recv" /\ (Len(hbtx[chIn[c]].queue) > 0 \/ hbtx[chIn[c]].closed)
  \/ wpc[c][w] = "send" /\ job[c][w].ch # nil

GetRangeCanGo(c) ==
  \/ gpc[c] \in {"start", "getOut", "return"}
  \/ gpc[c] = "range" /\ Len(hbtx[chOut[c]].queue) > 0
  \/ gpc[c] = "inner" /\ cur[c].ch # nil /\ Len(resp[cur[c].ch].queue) > 0

CallOver(c) == gpc[c] = "ok" /\ ppc[c] = "done" /\ \A w \in Workers : wpc[c][w] = "exited"

\* Unless a fetch fails no channel that calls hand to each other through the pools
\* ends the process (closed, or nil) or keeps a call waiting: each call always has
\* a goroutine that can go on, whatever the others do, until all of its own have
\* ended.
CallsNotStuck ==
  faulty = {} =>
    /\ ~crashed
    /\ \A c \in Calls : ~CallOver(c) =>
         PopulateCanGo(c) \/ (\E w \in Workers : WorkerCanGo(c, w)) \/ GetRangeCanGo(c)

\* A call none of whose fetches fails returns.
CleanCallReturns == \A c \in Calls : c \notin faulty => <>Returned(c)

\* Unless a fetch fails every call returns, with channels handed from call to call.
AllReturn == faulty = {} => <>(\A c \in Calls : Returned(c))
=============================================================================
