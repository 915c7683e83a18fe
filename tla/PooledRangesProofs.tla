------------------------- MODULE PooledRangesProofs -------------------------
(***************************************************************************)
(* Proofs about PooledRanges, for every number of calls, workers and       *)
(* heights and every capacity of channels and pools.                       *)
(*                                                                         *)
(* Types and phases hold always.  That channels have one owner holds until *)
(* a call has returned an error: from then on its populateRange may write  *)
(* to a chOut that belongs to somebody else.                               *)
(***************************************************************************)
EXTENDS PooledRanges, TLAPS

-----------------------------------------------------------------------------
(* The inductive invariant *)

Started(c) == gpc[c] \notin {"start", "getOut"}

(***************************************************************************)
(* The phases of a call: what getRange, populateRange and the workers of a *)
(* call know of each other's places.                                       *)
(***************************************************************************)
PhaseOK(c) ==
  /\ gpc[c] # "start" => chIn[c] \in HBTxChans
  /\ Started(c) => chOut[c] \in HBTxChans
  /\ ppc[c] = "idle" <=> ~Started(c)
  /\ \A w \in Workers : wpc[c][w] = "idle" <=> ~Started(c)
  /\ \A w \in Workers : wpc[c][w] # "send" => job[c][w].ch = nil
  /\ gpc[c] # "inner" => cur[c].ch = nil
  /\ ppc[c] = "idle" => next[c] = 1
  /\ ppc[c] \in {"get", "out", "in"} => next[c] <= Size[c]
  /\ ppc[c] \in {"last", "close", "done"} => next[c] = Size[c] + 1
  /\ errored[c] # 0 => gpc[c] \in {"wait", "purge", "returnErr", "failed"}
  /\ errClosed[c] => gpc[c] \in {"ok", "failed"}
  /\ gpc[c] \in {"purge", "returnErr"} => \A w \in Workers : wpc[c][w] = "exited"

TypeInv == TypeOK /\ \A c \in Calls : PhaseOK(c)

(***************************************************************************)
(* hBTx channels.  A use of a channel is named like the channels: <<c,     *)
(* "in">> is the chIn of c, <<c, "out">> its chOut until getRange returns. *)
(***************************************************************************)
Active(c)   == Started(c) /\ gpc[c] \notin {"ok", "failed"}
InUse(u)    == IF u[2] = "in" THEN gpc[u[1]] # "start" ELSE Active(u[1])
ChanOf(u)   == IF u[2] = "in" THEN chIn[u[1]] ELSE chOut[u[1]]
HBTxMade(ch) == IF ch[2] = "in" THEN gpc[ch[1]] # "start" ELSE Started(ch[1])

OneUser ==
  /\ \A u, v \in HBTxChans : InUse(u) /\ InUse(v) /\ ChanOf(u) = ChanOf(v) => u = v
  /\ \A u \in HBTxChans : InUse(u) => HBTxMade(ChanOf(u))
  /\ \A i \in DOMAIN hbtxPool : /\ HBTxMade(hbtxPool[i])
                                /\ ~hbtx[hbtxPool[i]].closed
                                /\ \A u \in HBTxChans : InUse(u) => ChanOf(u) # hbtxPool[i]
                                /\ \A j \in DOMAIN hbtxPool : hbtxPool[i] = hbtxPool[j] => i = j
  /\ \A ch \in HBTxChans : ~HBTxMade(ch) => ~hbtx[ch].closed
  /\ \A c \in Calls : Active(c) => ~hbtx[chOut[c]].closed

(***************************************************************************)
(* What lies in the two hBTx channels of a call.                           *)
(***************************************************************************)
InQ(c)  == hbtx[chIn[c]].queue
OutQ(c) == hbtx[chOut[c]].queue

Received(c) == IF gpc[c] = "inner" THEN Len(out[c]) + 1 ELSE Len(out[c])
Sent(c)     == IF ppc[c] \in {"in", "close", "done"} THEN next[c] ELSE next[c] - 1

\* entries of the call, in the order of their heights
OutOrdered(c) ==
  /\ \A i \in 1 .. Len(OutQ(c)) : OutQ(c)[i].last => OutQ(c)[i].ch = nil
  /\ \A i \in 1 .. Len(OutQ(c)) : ~OutQ(c)[i].last =>
       /\ OutQ(c)[i].call = c
       /\ OutQ(c)[i].height < next[c] \/ (OutQ(c)[i].height = next[c] /\ ppc[c] = "in")
       /\ gpc[c] = "inner" => cur[c].height < OutQ(c)[i].height
  /\ \A i, j \in 1 .. Len(OutQ(c)) : i < j /\ ~OutQ(c)[i].last /\ ~OutQ(c)[j].last =>
       OutQ(c)[i].height < OutQ(c)[j].height
  /\ gpc[c] = "inner" => /\ cur[c].call = c
                         /\ cur[c].height < next[c] \/ (cur[c].height = next[c] /\ ppc[c] = "in")

\* until an error: all that populateRange has sent and getRange not received
OutComplete(c) ==
  gpc[c] \in {"range", "inner"} =>
    /\ Received(c) + Len(OutQ(c)) = Sent(c)
    /\ \A i \in 1 .. Len(OutQ(c)) :
         /\ ~OutQ(c)[i].last => OutQ(c)[i].height = Received(c) + i
         /\ OutQ(c)[i].last <=> (i = Len(OutQ(c)) /\ ppc[c] \in {"close", "done"})
    /\ ppc[c] \in {"close", "done"} => Len(OutQ(c)) > 0
    /\ gpc[c] = "inner" => cur[c].height = Len(out[c]) + 1

InOrdered(c) ==
  /\ \A i \in 1 .. Len(InQ(c)) : InQ(c)[i].call = c /\ InQ(c)[i].height < next[c]
  /\ \A i, j \in 1 .. Len(InQ(c)) : i < j => InQ(c)[i].height < InQ(c)[j].height
  /\ \A w \in Workers : wpc[c][w] = "send" =>
       /\ job[c][w].call = c
       /\ job[c][w].height < next[c]
       /\ \A i \in 1 .. Len(InQ(c)) : job[c][w].height < InQ(c)[i].height
       /\ \A v \in Workers : wpc[c][v] = "send" /\ job[c][v].height = job[c][w].height => v = w

Delivered(c) ==
  /\ \A i \in 1 .. Len(out[c]) : out[c][i].call = c /\ out[c][i].height = i
  /\ gpc[c] \in {"start", "getOut"} => Len(out[c]) = 0
  /\ gpc[c] \in {"return", "ok"} => ppc[c] \in {"close", "done"} /\ Len(out[c]) = Size[c]

QueuesOK(c) ==
  /\ Active(c) => OutOrdered(c) /\ OutComplete(c)
  /\ gpc[c] # "start" => InOrdered(c)
  /\ gpc[c] = "getOut" => Len(InQ(c)) = 0
  /\ Delivered(c)

(***************************************************************************)
(* Response channels.  A call claims a channel for a height while getRange *)
(* will read it, or a worker will write to it.                             *)
(***************************************************************************)
OutClaim(c, h, ch) ==
  \/ ppc[c] = "out" /\ held[c] = ch /\ next[c] = h
  \/ Active(c) /\ \E i \in 1 .. Len(OutQ(c)) : OutQ(c)[i].ch = ch /\ OutQ(c)[i].height = h
  \/ gpc[c] = "inner" /\ cur[c].ch = ch /\ cur[c].height = h

Writer(c) == \E w \in Workers : wpc[c][w] \in {"recv", "send"}

InClaim(c, h, ch) ==
  \/ Writer(c) /\ ppc[c] \in {"out", "in"} /\ held[c] = ch /\ next[c] = h
  \/ Writer(c) /\ \E i \in 1 .. Len(InQ(c)) : InQ(c)[i].ch = ch /\ InQ(c)[i].height = h
  \/ \E w \in Workers : wpc[c][w] = "send" /\ job[c][w].ch = ch /\ job[c][w].height = h

Claim(c, h, ch) == OutClaim(c, h, ch) \/ InClaim(c, h, ch)

RespMade(ch) == \/ ch[2] < next[ch[1]]
                \/ ch[2] = next[ch[1]] /\ ppc[ch[1]] \in {"out", "in"}

OneClaim ==
  \A ch \in RespChans : \A c, d \in Calls : \A h, k \in Nat :
    Claim(c, h, ch) /\ Claim(d, k, ch) => c = d /\ h = k

ClaimedOK ==
  \A ch \in RespChans : \A c \in Calls : \A h \in Nat :
    /\ Claim(c, h, ch) =>
         /\ RespMade(ch)
         /\ ~resp[ch].closed
         /\ Len(resp[ch].queue) <= 1
         /\ \A i \in 1 .. Len(resp[ch].queue) :
              resp[ch].queue[i].call = c /\ resp[ch].queue[i].height = h
    /\ InClaim(c, h, ch) => Len(resp[ch].queue) = 0

PooledOK ==
  \A i \in 1 .. Len(respPool) : respPool[i] # nil =>
    /\ RespMade(respPool[i])
    /\ ~resp[respPool[i]].closed /\ Len(resp[respPool[i]].queue) = 0
    /\ \A c \in Calls, h \in Nat : ~Claim(c, h, respPool[i])
    /\ \A j \in 1 .. Len(respPool) : respPool[i] = respPool[j] => i = j

FreshOK ==
  \A ch \in RespChans : ~RespMade(ch) => ~resp[ch].closed /\ Len(resp[ch].queue) = 0

RespInv == OneClaim /\ ClaimedOK /\ PooledOK /\ FreshOK

PooledInv == /\ TypeInv
             /\ ~SomeFailed => /\ OneUser
                               /\ \A c \in Calls : QueuesOK(c)
                               /\ RespInv

-----------------------------------------------------------------------------
(* Names of channels, and the types of what the pools do *)

\* The nil channel is no channel.
LEMMA NilNoChan == nil \notin RespChans /\ nil \notin HBTxChans
<1>1. DOMAIN nil = {}
  BY DEF nil
<1>2. \A ch \in RespChans : 1 \in DOMAIN ch
  BY DEF RespChans
<1>3. \A ch \in HBTxChans : 1 \in DOMAIN ch
  BY DEF HBTxChans
<1> QED BY <1>1, <1>2, <1>3

\* A response channel has a call and a height; an hBTx channel a call and a use.
LEMMA ChanNames ==
  /\ \A c \in Calls : \A h \in 1 .. Size[c] : <<c, h>> \in RespChans
  /\ \A ch \in RespChans : ch[1] \in Calls /\ ch[2] \in Nat /\ ch = <<ch[1], ch[2]>>
  /\ \A c \in Calls : <<c, "in">> \in HBTxChans /\ <<c, "out">> \in HBTxChans
  /\ \A ch \in HBTxChans : ch[1] \in Calls /\ (ch = <<ch[1], "in">> \/ ch = <<ch[1], "out">>)
<1>1. \A c \in Calls : \A h \in 1 .. Size[c] : <<c, h>> \in RespChans
  BY DEF RespChans
<1>2. ASSUME NEW ch \in RespChans
      PROVE  ch[1] \in Calls /\ ch[2] \in Nat /\ ch = <<ch[1], ch[2]>>
  <2>1. PICK c \in Calls : ch \in {<<c, h>> : h \in 1 .. Size[c]}
    BY DEF RespChans
  <2>2. PICK h \in 1 .. Size[c] : ch = <<c, h>>
    BY <2>1
  <2> QED BY <2>2, PoolAssumption
<1>3. \A c \in Calls : <<c, "in">> \in HBTxChans /\ <<c, "out">> \in HBTxChans
  BY DEF HBTxChans
<1>4. \A ch \in HBTxChans : ch[1] \in Calls /\ (ch = <<ch[1], "in">> \/ ch = <<ch[1], "out">>)
  BY DEF HBTxChans
<1> QED BY <1>1, <1>2, <1>3, <1>4

ChansOf(S, T) == [S -> [queue : Seq(T), closed : BOOLEAN]]

\* A channel is closed.
LEMMA ClosedSet ==
  ASSUME NEW S, NEW T, NEW f \in ChansOf(S, T), NEW ch \in S
  PROVE  /\ [f EXCEPT ![ch].closed = TRUE] \in ChansOf(S, T)
         /\ \A x \in S : [f EXCEPT ![ch].closed = TRUE][x].queue = f[x].queue
         /\ \A x \in S : x # ch => [f EXCEPT ![ch].closed = TRUE][x] = f[x]
         /\ [f EXCEPT ![ch].closed = TRUE][ch].closed = TRUE
BY DEF ChansOf

\* Get hands out the new channel, or the head of the pool.
LEMMA GotFromIs ==
  ASSUME NEW S, NEW pool \in Seq(S), NEW new \in S
  PROVE  /\ GotFrom(pool, new).ch \in S
         /\ GotFrom(pool, new).rest \in Seq(S)
         /\ Len(GotFrom(pool, new).rest) <= Len(pool)
         /\ \/ /\ Len(pool) = 0
               /\ GotFrom(pool, new).ch = new
               /\ GotFrom(pool, new).rest = pool
            \/ /\ Len(pool) > 0
               /\ GotFrom(pool, new).ch = pool[1]
               /\ Len(GotFrom(pool, new).rest) = Len(pool) - 1
               /\ \A i \in 1 .. Len(pool) - 1 : GotFrom(pool, new).rest[i] = pool[i + 1]
<1>1. CASE pool = << >>
  BY <1>1 DEF GotFrom
<1>2. CASE pool # << >>
  <2>1. GotFrom(pool, new).ch = pool[1] /\ GotFrom(pool, new).rest = Tail(pool)
    BY <1>2 DEF GotFrom
  <2>2. Len(pool) \in Nat /\ Len(pool) > 0
    BY <1>2
  <2> QED BY <1>2, <2>1, <2>2
<1> QED BY <1>1, <1>2

\* The drain of Get empties a channel, and does nothing to nil.
LEMMA DrainedIs ==
  ASSUME NEW S, NEW T, NEW f \in ChansOf(S, T), NEW ch \in S \cup {nil}, nil \notin S
  PROVE  /\ Drained(f, ch) \in ChansOf(S, T)
         /\ \A x \in S : Drained(f, ch)[x].closed = f[x].closed
         /\ \A x \in S : x # ch => Drained(f, ch)[x] = f[x]
         /\ ch # nil => Drained(f, ch)[ch].queue = << >>
<1>1. CASE ch = nil
  BY <1>1 DEF Drained
<1>2. CASE ch # nil
  <2>1. Drained(f, ch) = [f EXCEPT ![ch].queue = << >>] /\ ch \in S
    BY <1>2 DEF Drained
  <2>2. << >> \in Seq(T)
    OBVIOUS
  <2>3. PICK q \in Seq(T) : q = << >>
    BY <2>2
  <2>4. Drained(f, ch) = [f EXCEPT ![ch].queue = q]
    BY <2>1, <2>3
  <2>5. /\ [f EXCEPT ![ch].queue = q] \in ChansOf(S, T)
        /\ \A x \in S : [f EXCEPT ![ch].queue = q][x].closed = f[x].closed
        /\ \A x \in S : x # ch => [f EXCEPT ![ch].queue = q][x] = f[x]
        /\ [f EXCEPT ![ch].queue = q][ch].queue = q
    <3>1. ch \in S
      BY <1>2
    <3> QED BY <3>1 DEF ChansOf
  <2> QED BY <2>3, <2>4, <2>5
<1> QED BY <1>1, <1>2

\* Entries of the two kinds, and messages, have their type.
LEMMA EntryTypes ==
  /\ \A c \in Calls : \A h \in Nat : \A ch \in RespChans \cup {nil} : Entry(c, h, ch) \in HBTx
  /\ \A c \in Calls : LastEntry(c) \in HBTx /\ LastEntry(c).last /\ LastEntry(c).ch = nil
  /\ \A c \in Calls : None(c) \in HBTx /\ None(c).ch = nil
  /\ \A e \in HBTx : \A t \in {"Block", "Error"} : Message(e, t) \in Messages
BY DEF Entry, LastEntry, None, Message, HBTx, Messages

\* Put keeps at most PoolCap channels.
LEMMA RespPutTypes ==
  ASSUME TypeOK, NEW ch \in RespChans \cup {nil},
         NEW chans \in ChansOf(RespChans, Messages), RespPut(ch, chans)
  PROVE  /\ resp' \in ChansOf(RespChans, Messages)
         /\ respPool' \in Seq(RespChans \cup {nil}) /\ Len(respPool') <= PoolCap
         /\ crashed' \in BOOLEAN
<1>1. respPool \in Seq(RespChans \cup {nil}) /\ Len(respPool) <= PoolCap /\ PoolCap \in Nat /\ crashed \in BOOLEAN
  BY PoolAssumption DEF TypeOK
<1>2. CASE /\ Len(respPool) < PoolCap
           /\ respPool' = Append(respPool, ch)
           /\ resp' = chans
           /\ UNCHANGED crashed
  BY <1>1, <1>2
<1>3. CASE /\ resp' = IF ch = nil THEN chans ELSE [chans EXCEPT ![ch].closed = TRUE]
           /\ crashed' = (ch = nil)
           /\ UNCHANGED respPool
  <2>1. resp' \in ChansOf(RespChans, Messages)
    BY <1>3, ClosedSet
  <2> QED BY <1>1, <1>3, <2>1
<1> QED BY <1>2, <1>3 DEF RespPut

\* The same of the pool of hBTx channels.
LEMMA HBTxPutTypes ==
  ASSUME TypeOK, NEW ch \in HBTxChans, HBTxPut(ch)
  PROVE  /\ hbtx' \in ChansOf(HBTxChans, HBTx)
         /\ hbtxPool' \in Seq(HBTxChans) /\ Len(hbtxPool') <= PoolCap
<1>1. /\ hbtxPool \in Seq(HBTxChans) /\ Len(hbtxPool) <= PoolCap /\ PoolCap \in Nat
      /\ hbtx \in ChansOf(HBTxChans, HBTx)
  BY PoolAssumption DEF TypeOK, ChansOf
<1>2. CASE /\ Len(hbtxPool) < PoolCap
           /\ hbtxPool' = Append(hbtxPool, ch)
           /\ UNCHANGED hbtx
  BY <1>1, <1>2
<1>3. CASE /\ hbtx' = [hbtx EXCEPT ![ch].closed = TRUE]
           /\ UNCHANGED hbtxPool
  BY <1>1, <1>3, ClosedSet
<1> QED BY <1>2, <1>3 DEF HBTxPut

\* A send keeps the types; it appends unless the channel is closed.
LEMMA SendTypes ==
  ASSUME TypeOK, NEW ch \in HBTxChans, NEW e \in HBTx, SendHBTx(ch, e)
  PROVE  /\ hbtx' \in ChansOf(HBTxChans, HBTx)
         /\ crashed' \in BOOLEAN
<1>1. hbtx \in ChansOf(HBTxChans, HBTx)
  BY DEF TypeOK, ChansOf
<1>2. hbtx[ch].closed \in BOOLEAN /\ hbtx[ch].queue \in Seq(HBTx)
  BY <1>1 DEF ChansOf
<1>3. crashed' \in BOOLEAN
  BY <1>2 DEF SendHBTx
<1>4. Append(hbtx[ch].queue, e) \in Seq(HBTx)
  BY <1>2
<1>5. hbtx' = hbtx \/ hbtx' = [hbtx EXCEPT ![ch].queue = Append(hbtx[ch].queue, e)]
  BY <1>1, <1>2 DEF SendHBTx, ChansOf
<1>6. hbtx' \in ChansOf(HBTxChans, HBTx)
  BY <1>1, <1>4, <1>5 DEF ChansOf
<1> QED BY <1>3, <1>6

\* What Get takes from a pool, and what it leaves, have the types of the pool.
LEMMA GotTypes ==
  ASSUME NEW S, NEW pool \in Seq(S), Len(pool) <= PoolCap, NEW new \in S
  PROVE  /\ GotFrom(pool, new).ch \in S
         /\ GotFrom(pool, new).rest \in Seq(S)
         /\ Len(GotFrom(pool, new).rest) <= PoolCap
<1>1. /\ GotFrom(pool, new).ch \in S
      /\ GotFrom(pool, new).rest \in Seq(S)
      /\ Len(GotFrom(pool, new).rest) <= Len(pool)
  BY GotFromIs
<1>2. Len(GotFrom(pool, new).rest) \in Nat /\ Len(pool) \in Nat /\ PoolCap \in Nat
  BY <1>1, PoolAssumption
<1> QED BY <1>1, <1>2

-----------------------------------------------------------------------------
(* Types and phases, action by action *)

\* populateRange takes a response channel.
LEMMA PopulateGetType ==
  ASSUME TypeInv, NEW c \in Calls, PopulateGet(c)
  PROVE  TypeInv'
<1>1. TypeOK /\ PhaseOK(c)
  BY DEF TypeInv
<1>2. next[c] \in 1 .. Size[c] /\ <<c, next[c]>> \in RespChans \cup {nil}
  BY <1>1, ChanNames DEF PhaseOK, TypeOK, PopulateGet
<1>3. /\ GotFrom(respPool, <<c, next[c]>>).ch \in RespChans \cup {nil}
      /\ respPool' \in Seq(RespChans \cup {nil}) /\ Len(respPool') <= PoolCap
  BY <1>1, <1>2, GotTypes DEF TypeOK, PopulateGet
<1>4. resp' \in ChansOf(RespChans, Messages)
  BY <1>1, <1>3, NilNoChan, DrainedIs DEF PopulateGet, TypeOK, ChansOf
<1>5. TypeOK'
  BY <1>1, <1>2, <1>3, <1>4 DEF TypeOK, PopulateGet, wvars, gvars, evars, ChansOf
<1>6. ASSUME NEW d \in Calls PROVE PhaseOK(d)'
  BY DEF TypeInv, TypeOK, PhaseOK, Started, PopulateGet, wvars, gvars, evars
<1> QED BY <1>5, <1>6 DEF TypeInv

\* A token of errored is taken, or the closed channel read.
LEMMA TakeErrType ==
  ASSUME TypeInv, NEW c \in Calls, TakeErr(c)
  PROVE  /\ errored' \in [Calls -> 0 .. 1]
         /\ \A d \in Calls : errored'[d] # 0 => errored[d] # 0
<1>1. errored \in [Calls -> 0 .. 1]
  BY DEF TypeInv, TypeOK
<1>2. CASE errored[c] > 0 /\ errored' = [errored EXCEPT ![c] = @ - 1]
  BY <1>1, <1>2
<1>3. CASE UNCHANGED errored
  BY <1>1, <1>3
<1> QED BY <1>2, <1>3 DEF TakeErr

\* The alternatives of a send of populateRange.
LEMMA SendOrErrType ==
  ASSUME TypeInv, NEW c \in Calls, NEW ch \in HBTxChans, NEW e \in HBTx,
         \/ SendHBTx(ch, e) /\ UNCHANGED errored
         \/ TakeErr(c) /\ UNCHANGED <<hbtx, crashed>>
  PROVE  /\ hbtx' \in ChansOf(HBTxChans, HBTx)
         /\ crashed' \in BOOLEAN
         /\ errored' \in [Calls -> 0 .. 1]
         /\ \A d \in Calls : errored'[d] # 0 => errored[d] # 0
<1>1. CASE SendHBTx(ch, e) /\ UNCHANGED errored
  BY <1>1, SendTypes DEF TypeInv, TypeOK
<1>2. CASE TakeErr(c) /\ UNCHANGED <<hbtx, crashed>>
  BY <1>2, TakeErrType DEF TypeInv, TypeOK, ChansOf
<1> QED BY <1>1, <1>2

\* populateRange sends to chOut.
LEMMA PopulateOutType ==
  ASSUME TypeInv, NEW c \in Calls, PopulateOut(c)
  PROVE  TypeInv'
<1>1. TypeOK /\ PhaseOK(c)
  BY DEF TypeInv
<1>2. chOut[c] \in HBTxChans /\ Entry(c, next[c], held[c]) \in HBTx
  BY <1>1, EntryTypes DEF TypeOK, PhaseOK, PopulateOut
<1>3. /\ hbtx' \in ChansOf(HBTxChans, HBTx)
      /\ crashed' \in BOOLEAN
      /\ errored' \in [Calls -> 0 .. 1]
      /\ \A d \in Calls : errored'[d] # 0 => errored[d] # 0
  BY <1>2, SendOrErrType DEF PopulateOut
<1>4. TypeOK'
  BY <1>1, <1>3 DEF TypeOK, PopulateOut, wvars, gvars, ChansOf
<1>5. ASSUME NEW d \in Calls PROVE PhaseOK(d)'
  BY <1>3 DEF TypeInv, TypeOK, PhaseOK, Started, PopulateOut, wvars, gvars
<1> QED BY <1>4, <1>5 DEF TypeInv

\* populateRange sends to chIn and goes on to the next height.
LEMMA PopulateInType ==
  ASSUME TypeInv, NEW c \in Calls, PopulateIn(c)
  PROVE  TypeInv'
<1>1. TypeOK /\ PhaseOK(c)
  BY DEF TypeInv
<1>2. chIn[c] \in HBTxChans /\ Entry(c, next[c], held[c]) \in HBTx
  BY <1>1, EntryTypes DEF TypeOK, PhaseOK, Started, PopulateIn
<1>3. /\ hbtx' \in ChansOf(HBTxChans, HBTx)
      /\ crashed' \in BOOLEAN
      /\ errored' \in [Calls -> 0 .. 1]
      /\ \A d \in Calls : errored'[d] # 0 => errored[d] # 0
  BY <1>2, SendOrErrType DEF PopulateIn
<1>4. next[c] \in 1 .. Size[c] /\ Size[c] \in Nat
  BY <1>1, PoolAssumption DEF TypeOK, PhaseOK, PopulateIn
<1>5. next' \in [Calls -> Nat] /\ \A d \in Calls : next'[d] \in 1 .. Size[d] + 1
  BY <1>1, <1>4 DEF TypeOK, PopulateIn
<1>6. TypeOK'
  BY <1>1, <1>3, <1>5 DEF TypeOK, PopulateIn, wvars, gvars, ChansOf
<1>7. ASSUME NEW d \in Calls PROVE PhaseOK(d)'
  BY SMTT(30), <1>3, <1>4 DEF TypeInv, TypeOK, PhaseOK, Started, PopulateIn, wvars, gvars
<1> QED BY <1>6, <1>7 DEF TypeInv

\* populateRange sends the end marker.
LEMMA PopulateLastType ==
  ASSUME TypeInv, NEW c \in Calls, PopulateLast(c)
  PROVE  TypeInv'
<1>1. TypeOK /\ PhaseOK(c)
  BY DEF TypeInv
<1>2. chOut[c] \in HBTxChans /\ LastEntry(c) \in HBTx
  BY <1>1, EntryTypes DEF TypeOK, PhaseOK, PopulateLast
<1>3. /\ hbtx' \in ChansOf(HBTxChans, HBTx)
      /\ crashed' \in BOOLEAN
      /\ errored' \in [Calls -> 0 .. 1]
      /\ \A d \in Calls : errored'[d] # 0 => errored[d] # 0
  BY <1>2, SendOrErrType DEF PopulateLast
<1>4. TypeOK'
  BY <1>1, <1>3 DEF TypeOK, PopulateLast, wvars, gvars, ChansOf
<1>5. ASSUME NEW d \in Calls PROVE PhaseOK(d)'
  BY <1>3 DEF TypeInv, TypeOK, PhaseOK, Started, PopulateLast, wvars, gvars
<1> QED BY <1>4, <1>5 DEF TypeInv

\* populateRange closes chIn.
LEMMA PopulateCloseType ==
  ASSUME TypeInv, NEW c \in Calls, PopulateClose(c)
  PROVE  TypeInv'
<1>1. TypeOK /\ PhaseOK(c)
  BY DEF TypeInv
<1>2. chIn[c] \in HBTxChans
  BY <1>1 DEF TypeOK, PhaseOK, Started, PopulateClose
<1>3. hbtx' \in ChansOf(HBTxChans, HBTx)
  BY ZenonT(60), <1>1, <1>2 DEF TypeOK, PopulateClose, ChansOf
<1>4. TypeOK'
  BY <1>1, <1>3 DEF TypeOK, PopulateClose, wvars, gvars, evars, ChansOf
<1>5. ASSUME NEW d \in Calls PROVE PhaseOK(d)'
  BY DEF TypeInv, TypeOK, PhaseOK, Started, PopulateClose, wvars, gvars, evars
<1> QED BY <1>4, <1>5 DEF TypeInv

\* A queue with its head taken off.
LEMMA TailSet ==
  ASSUME NEW S, NEW T, NEW f \in ChansOf(S, T), NEW ch \in S, f[ch].queue # << >>
  PROVE  /\ Head(f[ch].queue) \in T
         /\ [f EXCEPT ![ch].queue = Tail(@)] \in ChansOf(S, T)
<1>1. f[ch].queue \in Seq(T)
  BY DEF ChansOf
<1>2. PICK q \in Seq(T) : q = Tail(f[ch].queue)
  <2>1. \A s \in Seq(T) : s # << >> => Tail(s) \in Seq(T)
    OBVIOUS
  <2> QED BY <1>1, <2>1
<1>3. [f EXCEPT ![ch].queue = q] \in ChansOf(S, T)
  BY DEF ChansOf
<1> QED BY <1>1, <1>2, <1>3

\* A worker receives an entry.
LEMMA WorkerRecvType ==
  ASSUME TypeInv, NEW c \in Calls, NEW w \in Workers, WorkerRecv(c, w)
  PROVE  TypeInv'
<1>1. TypeOK /\ PhaseOK(c)
  BY DEF TypeInv
<1>2. chIn[c] \in HBTxChans
  BY <1>1 DEF TypeOK, PhaseOK, Started, WorkerRecv
<1>3. Head(hbtx[chIn[c]].queue) \in HBTx /\ hbtx' \in ChansOf(HBTxChans, HBTx)
  <2>1. hbtx \in ChansOf(HBTxChans, HBTx)
    BY <1>1 DEF TypeOK, ChansOf
  <2> QED BY <1>2, <2>1, TailSet DEF WorkerRecv
<1>4. TypeOK'
  BY <1>1, <1>3 DEF TypeOK, WorkerRecv, pvars, gvars, evars, ChansOf
<1>5. ASSUME NEW d \in Calls PROVE PhaseOK(d)'
  BY DEF TypeInv, TypeOK, PhaseOK, Started, WorkerRecv, pvars, gvars, evars
<1> QED BY <1>4, <1>5 DEF TypeInv

\* A worker finds chIn closed and empty.
LEMMA WorkerExitType ==
  ASSUME TypeInv, NEW c \in Calls, NEW w \in Workers, WorkerExit(c, w)
  PROVE  TypeInv'
<1>1. TypeOK'
  BY DEF TypeInv, TypeOK, WorkerExit, pvars, gvars, evars
<1>2. ASSUME NEW d \in Calls PROVE PhaseOK(d)'
  BY DEF TypeInv, TypeOK, PhaseOK, Started, WorkerExit, pvars, gvars, evars
<1> QED BY <1>1, <1>2 DEF TypeInv

\* A worker writes the outcome of its fetch.
LEMMA WorkerSendType ==
  ASSUME TypeInv, NEW c \in Calls, NEW w \in Workers, NEW outcome \in {"Block", "Error"},
         WorkerSend(c, w, outcome)
  PROVE  TypeInv'
<1>1. TypeOK /\ PhaseOK(c)
  BY DEF TypeInv
<1>2. job[c][w] \in HBTx /\ job[c][w].ch \in RespChans
  BY <1>1, NilNoChan DEF TypeOK, WorkerSend, HBTx
<1>3. Message(job[c][w], outcome) \in Messages /\ None(c) \in HBTx /\ None(c).ch = nil
  BY <1>2, EntryTypes
<1>4. resp' \in ChansOf(RespChans, Messages) /\ crashed' \in BOOLEAN
  <2>1. /\ resp \in ChansOf(RespChans, Messages) /\ resp[job[c][w].ch].queue \in Seq(Messages)
        /\ resp[job[c][w].ch].closed \in BOOLEAN
    BY <1>1, <1>2 DEF TypeOK, ChansOf
  <2>2. PICK q \in Seq(Messages) : q = Append(resp[job[c][w].ch].queue, Message(job[c][w], outcome))
    <3>1. \A s \in Seq(Messages) : \A m \in Messages : Append(s, m) \in Seq(Messages)
      OBVIOUS
    <3> QED BY ZenonT(30), <1>3, <2>1, <3>1
  <2>3. /\ resp' = resp \/ resp' = [resp EXCEPT ![job[c][w].ch].queue = q]
        /\ crashed' = resp[job[c][w].ch].closed
    BY <2>2 DEF WorkerSend, WriteResp
  <2> QED BY <1>2, <2>1, <2>2, <2>3 DEF ChansOf
<1>5. TypeOK'
  BY <1>1, <1>3, <1>4 DEF TypeOK, WorkerSend, pvars, gvars, evars, ChansOf
<1>6. ASSUME NEW d \in Calls PROVE PhaseOK(d)'
  BY <1>3 DEF TypeInv, TypeOK, PhaseOK, Started, WorkerSend, pvars, gvars, evars
<1> QED BY <1>5, <1>6 DEF TypeInv

\* getRange takes chIn.
LEMMA GetInType ==
  ASSUME TypeInv, NEW c \in Calls, GetIn(c)
  PROVE  TypeInv'
<1>1. TypeOK /\ PhaseOK(c)
  BY DEF TypeInv
<1>2. /\ GotFrom(hbtxPool, <<c, "in">>).ch \in HBTxChans
      /\ hbtxPool' \in Seq(HBTxChans) /\ Len(hbtxPool') <= PoolCap
  BY <1>1, ChanNames, GotTypes DEF TypeOK, GetIn
<1>3. hbtx' \in ChansOf(HBTxChans, HBTx)
  BY <1>1, <1>2, NilNoChan, DrainedIs DEF GetIn, TypeOK, ChansOf
<1>4. TypeOK'
  BY <1>1, <1>2, <1>3 DEF TypeOK, GetIn, pvars, wvars, evars, ChansOf
<1>5. ASSUME NEW d \in Calls PROVE PhaseOK(d)'
  BY <1>2 DEF TypeInv, TypeOK, PhaseOK, Started, GetIn, pvars, wvars, evars
<1> QED BY <1>4, <1>5 DEF TypeInv

\* getRange takes chOut and starts populateRange and the workers.
LEMMA GetOutType ==
  ASSUME TypeInv, NEW c \in Calls, GetOut(c)
  PROVE  TypeInv'
<1>1. TypeOK /\ PhaseOK(c)
  BY DEF TypeInv
<1>2. /\ GotFrom(hbtxPool, <<c, "out">>).ch \in HBTxChans
      /\ hbtxPool' \in Seq(HBTxChans) /\ Len(hbtxPool') <= PoolCap
  BY <1>1, ChanNames, GotTypes DEF TypeOK, GetOut
<1>3. hbtx' \in ChansOf(HBTxChans, HBTx)
  BY <1>1, <1>2, NilNoChan, DrainedIs DEF GetOut, TypeOK, ChansOf
<1>4. TypeOK'
  BY <1>1, <1>2, <1>3 DEF TypeOK, GetOut, evars, ChansOf
<1>5. ASSUME NEW d \in Calls PROVE PhaseOK(d)'
  <2>1. PhaseOK(d) /\ TypeOK
    BY DEF TypeInv
  <2>2. CASE d # c
    BY <2>1, <2>2 DEF TypeOK, PhaseOK, Started, GetOut, evars
  <2>3. CASE d = c
    <3>1. gpc[c] = "getOut" /\ gpc'[c] = "range" /\ ppc'[c] = "get" /\ chOut'[c] \in HBTxChans
      BY <1>1, <1>2 DEF TypeOK, GetOut
    <3>2. \A w \in Workers : wpc'[c][w] = "recv" /\ wpc[c][w] = "idle"
      BY <1>1, <3>1 DEF TypeOK, GetOut, PhaseOK, Started
    <3>3. next'[c] = next[c] /\ errored'[c] = errored[c] /\ errClosed'[c] = errClosed[c]
          /\ cur'[c] = cur[c] /\ job'[c] = job[c] /\ chIn'[c] = chIn[c]
      BY DEF GetOut, evars
    <3>4. next[c] = 1 /\ Size[c] \in Nat \ {0}
      BY <1>1, <3>1, PoolAssumption DEF PhaseOK, Started
    <3> QED BY <2>1, <2>3, <3>1, <3>2, <3>3, <3>4 DEF PhaseOK, Started
  <2> QED BY <2>2, <2>3
<1> QED BY <1>4, <1>5 DEF TypeInv

\* getRange receives an entry, or the end marker.
LEMMA RangeNextType ==
  ASSUME TypeInv, NEW c \in Calls, RangeNext(c)
  PROVE  TypeInv'
<1>1. TypeOK /\ PhaseOK(c)
  BY DEF TypeInv
<1>2. chOut[c] \in HBTxChans
  BY <1>1 DEF TypeOK, PhaseOK, Started, RangeNext
<1>3. OutQ(c) # << >> /\ Head(OutQ(c)) \in HBTx /\ hbtx' \in ChansOf(HBTxChans, HBTx)
  <2>1. hbtx \in ChansOf(HBTxChans, HBTx)
    BY <1>1 DEF TypeOK, ChansOf
  <2> QED BY <1>2, <2>1, TailSet DEF RangeNext, OutQ
<1>4. None(c) \in HBTx /\ None(c).ch = nil /\ Head(OutQ(c)).last \in BOOLEAN
  BY <1>3, EntryTypes DEF HBTx
<1>5. cur' \in [Calls -> HBTx]
  BY <1>1, <1>3, <1>4 DEF TypeOK, RangeNext, OutQ
<1>6. TypeOK'
  BY <1>1, <1>3, <1>5 DEF TypeOK, RangeNext, pvars, wvars, evars, ChansOf
<1>7. ASSUME NEW d \in Calls PROVE PhaseOK(d)'
  BY <1>4 DEF TypeInv, TypeOK, PhaseOK, Started, RangeNext, OutQ, pvars, wvars, evars
<1> QED BY <1>6, <1>7 DEF TypeInv

\* getRange puts a response on out.
LEMMA InnerRecvType ==
  ASSUME TypeInv, NEW c \in Calls, InnerRecv(c)
  PROVE  TypeInv'
<1> DEFINE ch    == cur[c].ch
           m     == Head(resp[ch].queue)
           after == [resp EXCEPT ![ch].queue = Tail(@)]
<1>1. TypeOK /\ PhaseOK(c)
  BY DEF TypeInv
<1>2. ch \in RespChans
  BY SMTT(30), <1>1 DEF TypeOK, InnerRecv, HBTx
<1>3. m \in Messages /\ after \in ChansOf(RespChans, Messages)
  <2>1. resp \in ChansOf(RespChans, Messages)
    BY <1>1 DEF TypeOK, ChansOf
  <2> QED BY <1>2, <2>1, TailSet DEF InnerRecv
<1>4. None(c) \in HBTx /\ None(c).ch = nil
  BY EntryTypes
<1>5. /\ resp' \in ChansOf(RespChans, Messages)
      /\ respPool' \in Seq(RespChans \cup {nil}) /\ Len(respPool') <= PoolCap
      /\ crashed' \in BOOLEAN
      /\ \/ errored' = errored /\ gpc' = [gpc EXCEPT ![c] = "range"]
         \/ errored' = [errored EXCEPT ![c] = @ + 1] /\ gpc' = [gpc EXCEPT ![c] = "wait"]
  <2>1. CASE RespPut(ch, after) /\ gpc' = [gpc EXCEPT ![c] = "range"] /\ UNCHANGED errored
    <3> HIDE DEF after, ch
    <3> QED BY <1>1, <1>2, <1>3, <2>1, RespPutTypes
  <2>2. CASE /\ resp' = after
             /\ gpc' = [gpc EXCEPT ![c] = "wait"]
             /\ errored' = [errored EXCEPT ![c] = @ + 1]
             /\ UNCHANGED <<respPool, crashed>>
    <3> HIDE DEF after
    <3> QED BY <1>1, <1>3, <2>2 DEF TypeOK
  <2> QED BY <2>1, <2>2 DEF InnerRecv
<1>6. errored \in [Calls -> 0 .. 1] /\ errored[c] = 0 /\ gpc[c] = "inner"
  BY <1>1 DEF TypeOK, PhaseOK, InnerRecv
<1>7. errored' \in [Calls -> 0 .. 1]
  BY <1>5, <1>6
<1>8. out' \in [Calls -> Seq(Messages)]
  <2>1. out \in [Calls -> Seq(Messages)] /\ out' = [out EXCEPT ![c] = Append(@, m)]
    BY SMTT(30), <1>1 DEF TypeOK, InnerRecv
  <2> HIDE DEF m
  <2> QED BY <1>3, <2>1
<1>9. TypeOK'
  <2> HIDE DEF ch, m, after
  <2>1. gpc' \in [Calls -> {"start", "getOut", "range", "inner", "return", "wait", "purge",
                            "returnErr", "ok", "failed"}]
    BY <1>1, <1>5 DEF TypeOK
  <2> QED BY <1>1, <1>4, <1>5, <1>7, <1>8, <2>1 DEF TypeOK, InnerRecv, pvars, wvars, ChansOf
<1>10. ASSUME NEW d \in Calls PROVE PhaseOK(d)'
  <2> HIDE DEF ch, m, after
  <2>1. cur' = [cur EXCEPT ![c] = None(c)] /\ UNCHANGED <<chIn, chOut, pvars, wvars, errClosed>>
    BY DEF InnerRecv
  <2> QED BY <1>4, <1>5, <1>6, <2>1 DEF TypeInv, TypeOK, PhaseOK, Started, pvars, wvars
<1> QED BY <1>9, <1>10 DEF TypeInv

\* getRange waits for the workers.
LEMMA WaitWorkersType ==
  ASSUME TypeInv, NEW c \in Calls, WaitWorkers(c)
  PROVE  TypeInv'
<1>1. TypeOK'
  BY DEF TypeInv, TypeOK, WaitWorkers, pvars, wvars, evars
<1>2. ASSUME NEW d \in Calls PROVE PhaseOK(d)'
  BY DEF TypeInv, TypeOK, PhaseOK, Started, WaitWorkers, pvars, wvars, evars
<1> QED BY <1>1, <1>2 DEF TypeInv

\* getRange throws an entry away.
LEMMA PurgeEntryType ==
  ASSUME TypeInv, NEW c \in Calls, PurgeEntry(c)
  PROVE  TypeInv'
<1>1. TypeOK /\ PhaseOK(c)
  BY DEF TypeInv
<1>2. chOut[c] \in HBTxChans
  BY <1>1 DEF TypeOK, PhaseOK, Started, PurgeEntry
<1>3. Head(OutQ(c)) \in HBTx /\ hbtx' \in ChansOf(HBTxChans, HBTx)
  <2>1. hbtx \in ChansOf(HBTxChans, HBTx)
    BY <1>1 DEF TypeOK, ChansOf
  <2> QED BY <1>2, <2>1, TailSet DEF PurgeEntry, OutQ
<1>4. Head(OutQ(c)).ch \in RespChans \cup {nil}
  BY <1>3 DEF HBTx
<1>5. Drained(resp, Head(OutQ(c)).ch) \in ChansOf(RespChans, Messages)
  BY <1>1, <1>4, NilNoChan, DrainedIs DEF TypeOK, ChansOf
<1>6. /\ resp' \in ChansOf(RespChans, Messages)
      /\ respPool' \in Seq(RespChans \cup {nil}) /\ Len(respPool') <= PoolCap
      /\ crashed' \in BOOLEAN
  BY <1>1, <1>4, <1>5, RespPutTypes DEF PurgeEntry, OutQ
<1>7. TypeOK'
  BY <1>1, <1>3, <1>6 DEF TypeOK, PurgeEntry, pvars, wvars, gvars, evars, ChansOf
<1>8. ASSUME NEW d \in Calls PROVE PhaseOK(d)'
  BY DEF TypeInv, TypeOK, PhaseOK, Started, PurgeEntry, pvars, wvars, gvars, evars
<1> QED BY <1>7, <1>8 DEF TypeInv

\* getRange finds chOut empty.
LEMMA PurgeEndType ==
  ASSUME TypeInv, NEW c \in Calls, PurgeEnd(c)
  PROVE  TypeInv'
<1>1. TypeOK'
  BY DEF TypeInv, TypeOK, PurgeEnd, pvars, wvars, evars
<1>2. ASSUME NEW d \in Calls PROVE PhaseOK(d)'
  BY DEF TypeInv, TypeOK, PhaseOK, Started, PurgeEnd, pvars, wvars, evars
<1> QED BY <1>1, <1>2 DEF TypeInv

\* getRange hands chOut back and returns.
LEMMA ReturnType ==
  ASSUME TypeInv, NEW c \in Calls, Return(c)
  PROVE  TypeInv'
<1>1. TypeOK /\ PhaseOK(c)
  BY DEF TypeInv
<1>2. chOut[c] \in HBTxChans
  BY <1>1 DEF TypeOK, PhaseOK, Started, Return
<1>3. /\ hbtx' \in ChansOf(HBTxChans, HBTx)
      /\ hbtxPool' \in Seq(HBTxChans) /\ Len(hbtxPool') <= PoolCap
  BY <1>1, <1>2, HBTxPutTypes DEF Return
<1>4. TypeOK'
  BY <1>1, <1>3 DEF TypeOK, Return, pvars, wvars, ChansOf
<1>5. ASSUME NEW d \in Calls PROVE PhaseOK(d)'
  BY DEF TypeInv, TypeOK, PhaseOK, Started, Return, pvars, wvars
<1> QED BY <1>4, <1>5 DEF TypeInv

-----------------------------------------------------------------------------
(* What a step of one call leaves alone *)

\* The queues of a call, and what they hold, have their types.
LEMMA QueueTypes ==
  ASSUME TypeInv, NEW c \in Calls
  PROVE  /\ gpc[c] # "start" => InQ(c) \in Seq(HBTx) /\ Len(InQ(c)) \in Nat
         /\ Started(c) => OutQ(c) \in Seq(HBTx) /\ Len(OutQ(c)) \in Nat
         /\ out[c] \in Seq(Messages) /\ Len(out[c]) \in Nat
<1>1. TypeOK /\ PhaseOK(c)
  BY DEF TypeInv
<1>2. gpc[c] # "start" => InQ(c) \in Seq(HBTx)
  BY <1>1 DEF TypeOK, PhaseOK, InQ
<1>3. Started(c) => OutQ(c) \in Seq(HBTx)
  BY <1>1 DEF TypeOK, PhaseOK, OutQ
<1>4. out[c] \in Seq(Messages)
  BY <1>1 DEF TypeOK
<1> QED BY <1>2, <1>3, <1>4

\* The same after a step.
LEMMA QueueTypesNext ==
  ASSUME TypeInv', NEW c \in Calls
  PROVE  /\ gpc'[c] # "start" => InQ(c)' \in Seq(HBTx) /\ Len(InQ(c)') \in Nat
         /\ Started(c)' => OutQ(c)' \in Seq(HBTx) /\ Len(OutQ(c)') \in Nat
         /\ out'[c] \in Seq(Messages) /\ Len(out'[c]) \in Nat
<1>1. TypeOK' /\ PhaseOK(c)'
  BY DEF TypeInv
<1>2. gpc'[c] # "start" => InQ(c)' \in Seq(HBTx)
  BY <1>1 DEF TypeOK, PhaseOK, InQ
<1>3. Started(c)' => OutQ(c)' \in Seq(HBTx)
  BY <1>1 DEF TypeOK, PhaseOK, OutQ
<1>4. out'[c] \in Seq(Messages)
  BY <1>1 DEF TypeOK
<1> QED BY <1>2, <1>3, <1>4

\* The channels in use are apart.
LEMMA Apart ==
  ASSUME OneUser, NEW c \in Calls, NEW d \in Calls
  PROVE  /\ gpc[c] # "start" /\ gpc[d] # "start" /\ c # d => chIn[c] # chIn[d]
         /\ gpc[c] # "start" /\ Active(d) => chIn[c] # chOut[d]
         /\ Active(c) /\ Active(d) /\ c # d => chOut[c] # chOut[d]
<1> DEFINE ci == <<c, "in">>
           co == <<c, "out">>
           di == <<d, "in">>
           do == <<d, "out">>
<1>1. ci \in HBTxChans /\ co \in HBTxChans /\ di \in HBTxChans /\ do \in HBTxChans
  BY ChanNames
<1>2. /\ InUse(ci) <=> gpc[c] # "start"
      /\ InUse(di) <=> gpc[d] # "start"
      /\ InUse(co) <=> Active(c)
      /\ InUse(do) <=> Active(d)
      /\ ChanOf(ci) = chIn[c] /\ ChanOf(di) = chIn[d]
      /\ ChanOf(co) = chOut[c] /\ ChanOf(do) = chOut[d]
  BY DEF InUse, ChanOf
<1>3. ci # do /\ (c # d => ci # di /\ co # do)
  OBVIOUS
<1> HIDE DEF ci, co, di, do
<1>4. \A u, v \in HBTxChans : InUse(u) /\ InUse(v) /\ ChanOf(u) = ChanOf(v) => u = v
  BY DEF OneUser
<1> QED BY <1>1, <1>2, <1>3, <1>4

SameCall(d) ==
  /\ gpc'[d] = gpc[d] /\ ppc'[d] = ppc[d] /\ next'[d] = next[d] /\ held'[d] = held[d]
  /\ wpc'[d] = wpc[d] /\ job'[d] = job[d] /\ cur'[d] = cur[d] /\ out'[d] = out[d]
  /\ gpc[d] # "start" => InQ(d)' = InQ(d)
  /\ Active(d) => OutQ(d)' = OutQ(d)

\* What a step does not touch it does not break.
LEMMA SameCallQueues ==
  ASSUME NEW d \in Calls, QueuesOK(d), SameCall(d)
  PROVE  QueuesOK(d)'
<1>1. Active(d)' <=> Active(d)
  BY DEF SameCall, Active, Started
<1>2. Active(d) => OutOrdered(d)' /\ OutComplete(d)'
  <2> SUFFICES ASSUME Active(d) PROVE OutOrdered(d)' /\ OutComplete(d)'
    OBVIOUS
  <2>1. OutOrdered(d) /\ OutComplete(d) /\ OutQ(d)' = OutQ(d)
    BY DEF QueuesOK, SameCall
  <2>2. OutOrdered(d)'
    BY <2>1 DEF OutOrdered, SameCall
  <2>3. OutComplete(d)'
    BY <2>1 DEF OutComplete, Received, Sent, SameCall
  <2> QED BY <2>2, <2>3
<1>3. gpc[d] # "start" => InOrdered(d)'
  BY DEF QueuesOK, InOrdered, SameCall
<1>4. gpc[d] = "getOut" => Len(InQ(d)') = 0
  BY DEF QueuesOK, SameCall
<1>5. Delivered(d)'
  BY DEF QueuesOK, Delivered, SameCall
<1> QED BY <1>1, <1>2, <1>3, <1>4, <1>5 DEF QueuesOK, SameCall

\* Nor does it change the claims of the call.
LEMMA SameCallClaims ==
  ASSUME TypeInv, NEW d \in Calls, SameCall(d), NEW h \in Nat, NEW ch \in RespChans
  PROVE  /\ OutClaim(d, h, ch)' <=> OutClaim(d, h, ch)
         /\ InClaim(d, h, ch)' <=> InClaim(d, h, ch)
<1>1. Active(d)' <=> Active(d)
  BY DEF SameCall, Active, Started
<1>2. Writer(d)' <=> Writer(d)
  BY DEF SameCall, Writer
<1>3. Writer(d) => gpc[d] # "start"
  BY DEF TypeInv, PhaseOK, Writer, Started
<1>4. OutClaim(d, h, ch)' <=> OutClaim(d, h, ch)
  BY <1>1 DEF OutClaim, SameCall
<1>5. InClaim(d, h, ch)' <=> InClaim(d, h, ch)
  BY <1>2, <1>3 DEF InClaim, SameCall
<1> QED BY <1>4, <1>5

\* hBTx channels keep their users in a step that moves none, and closes none
\* but a chIn.
LEMMA SameUsers ==
  ASSUME OneUser, UNCHANGED <<chIn, chOut, hbtxPool>>,
         \A d \in Calls : /\ gpc'[d] = "start" <=> gpc[d] = "start"
                          /\ Started(d)' <=> Started(d)
                          /\ Active(d)' <=> Active(d),
         \A x \in HBTxChans : (\A d \in Calls : gpc[d] # "start" => x # chIn[d])
                                 => hbtx'[x].closed = hbtx[x].closed,
         TypeInv
  PROVE  OneUser'
<1>0. \A x \in HBTxChans : ~hbtx[x].closed /\ (\A d \in Calls : gpc[d] # "start" => x # chIn[d])
                             => ~hbtx'[x].closed
  OBVIOUS
<1>10. \A d \in Calls : gpc[d] # "start" =>
         \E u \in HBTxChans : InUse(u) /\ ChanOf(u) = chIn[d]
  <2> SUFFICES ASSUME NEW d \in Calls, gpc[d] # "start"
               PROVE  \E u \in HBTxChans : InUse(u) /\ ChanOf(u) = chIn[d]
    OBVIOUS
  <2>1. <<d, "in">> \in HBTxChans /\ InUse(<<d, "in">>) /\ ChanOf(<<d, "in">>) = chIn[d]
    BY ChanNames DEF InUse, ChanOf
  <2> QED BY <2>1
<1>1. \A u \in HBTxChans : u[1] \in Calls
  BY ChanNames
<1>2. \A u \in HBTxChans : /\ InUse(u)' <=> InUse(u)
                           /\ ChanOf(u)' = ChanOf(u)
                           /\ HBTxMade(u)' <=> HBTxMade(u)
  BY <1>1 DEF InUse, ChanOf, HBTxMade
<1>3. \A u \in HBTxChans : InUse(u) => ChanOf(u) \in HBTxChans
  BY <1>1 DEF TypeInv, PhaseOK, InUse, ChanOf, Active
<1>4. \A i \in DOMAIN hbtxPool : hbtxPool[i] \in HBTxChans
  BY DEF TypeInv, TypeOK
<1>5. \A u, v \in HBTxChans : InUse(u)' /\ InUse(v)' /\ ChanOf(u)' = ChanOf(v)' => u = v
  BY <1>2 DEF OneUser
<1>6. \A u \in HBTxChans : InUse(u)' => HBTxMade(ChanOf(u))'
  <2> SUFFICES ASSUME NEW u \in HBTxChans, InUse(u)' PROVE HBTxMade(ChanOf(u))'
    OBVIOUS
  <2>1. PICK x \in HBTxChans : x = ChanOf(u) /\ x = ChanOf(u)' /\ HBTxMade(x)
    BY <1>2, <1>3 DEF OneUser
  <2>2. HBTxMade(x)'
    BY <1>2, <2>1
  <2> QED BY <2>1, <2>2 DEF HBTxMade
<1>7. \A i \in DOMAIN hbtxPool' : /\ HBTxMade(hbtxPool[i])'
                                  /\ ~hbtx'[hbtxPool'[i]].closed
                                  /\ \A u \in HBTxChans : InUse(u)' => ChanOf(u)' # hbtxPool'[i]
                                  /\ \A j \in DOMAIN hbtxPool' : hbtxPool'[i] = hbtxPool'[j] => i = j
  <2> SUFFICES ASSUME NEW i \in DOMAIN hbtxPool
               PROVE  /\ HBTxMade(hbtxPool[i])'
                      /\ ~hbtx'[hbtxPool[i]].closed
                      /\ \A u \in HBTxChans : InUse(u)' => ChanOf(u)' # hbtxPool[i]
                      /\ \A j \in DOMAIN hbtxPool : hbtxPool[i] = hbtxPool[j] => i = j
    OBVIOUS
  <2>1. PICK x \in HBTxChans : x = hbtxPool[i] /\ x = hbtxPool'[i] /\ HBTxMade(x)
    BY <1>4 DEF OneUser
  <2>2. HBTxMade(x)'
    BY <1>2, <2>1
  <2>3. \A d \in Calls : gpc[d] # "start" => x # chIn[d]
    BY <1>10, <2>1 DEF OneUser
  <2>4. ~hbtx'[x].closed
    BY <1>0, <2>1, <2>3 DEF OneUser
  <2> QED BY <1>2, <2>1, <2>2, <2>4 DEF OneUser, HBTxMade
<1>8. \A ch \in HBTxChans : ~HBTxMade(ch)' => ~hbtx'[ch].closed
  <2> SUFFICES ASSUME NEW x \in HBTxChans, ~HBTxMade(x) PROVE ~hbtx'[x].closed
    BY <1>2
  <2>1. \A d \in Calls : gpc[d] # "start" => x # chIn[d]
    BY <1>10 DEF OneUser
  <2> QED BY <1>0, <2>1 DEF OneUser
<1>9. \A c \in Calls : Active(c)' => ~hbtx'[chOut'[c]].closed
  <2> SUFFICES ASSUME NEW c \in Calls, Active(c) PROVE ~hbtx'[chOut[c]].closed
    OBVIOUS
  <2>1. chOut[c] \in HBTxChans /\ ~hbtx[chOut[c]].closed
    BY DEF OneUser, TypeInv, PhaseOK, Active
  <2>2. \A d \in Calls : gpc[d] # "start" => chOut[c] # chIn[d]
    BY Apart
  <2> QED BY <1>0, <2>1, <2>2
<1> QED BY <1>5, <1>6, <1>7, <1>8, <1>9 DEF OneUser

ClaimsShrink ==
  \A d \in Calls : \A h \in Nat : \A ch \in RespChans :
    (OutClaim(d, h, ch)' => OutClaim(d, h, ch)) /\ (InClaim(d, h, ch)' => InClaim(d, h, ch))

MadeGrows == \A ch \in RespChans : RespMade(ch) => RespMade(ch)'

\* Heights are taken in order, so a channel once made stays made.
LEMMA NextGrows ==
  ASSUME TypeInv, TypeInv',
         \A d \in Calls : \/ next'[d] = next[d] /\ (ppc[d] \in {"out", "in"} => ppc'[d] \in {"out", "in"})
                          \/ next'[d] = next[d] + 1
  PROVE  MadeGrows
<1> SUFFICES ASSUME NEW ch \in RespChans, RespMade(ch) PROVE RespMade(ch)'
  BY DEF MadeGrows
<1>1. ch[1] \in Calls /\ ch[2] \in Nat
  BY ChanNames
<1>2. next[ch[1]] \in Nat
  BY <1>1 DEF TypeInv, TypeOK
<1> QED BY <1>1, <1>2 DEF RespMade

\* A step that leaves the response channels alone and only drops claims keeps
\* the order among them.
LEMMA SameResp ==
  ASSUME TypeInv, RespInv, ClaimsShrink, MadeGrows, UNCHANGED <<resp, respPool>>
  PROVE  RespInv'
<1>1. \A d \in Calls : \A h \in Nat : \A ch \in RespChans : Claim(d, h, ch)' => Claim(d, h, ch)
  BY DEF ClaimsShrink, Claim
<1>2. OneClaim'
  BY <1>1 DEF RespInv, OneClaim
<1>3. ClaimedOK'
  BY <1>1 DEF RespInv, ClaimedOK, ClaimsShrink, MadeGrows
<1>4. PooledOK'
  <2> SUFFICES ASSUME NEW i \in 1 .. Len(respPool), respPool[i] # nil
               PROVE  /\ RespMade(respPool[i])'
                      /\ ~resp[respPool[i]].closed /\ Len(resp[respPool[i]].queue) = 0
                      /\ \A c \in Calls, h \in Nat : ~Claim(c, h, respPool[i])'
                      /\ \A j \in 1 .. Len(respPool) : respPool[i] = respPool[j] => i = j
    BY DEF PooledOK
  <2>1. PICK x \in RespChans : x = respPool[i] /\ x = respPool'[i]
    BY DEF TypeInv, TypeOK
  <2>2. /\ RespMade(x)
        /\ ~resp[x].closed /\ Len(resp[x].queue) = 0
        /\ \A c \in Calls, h \in Nat : ~Claim(c, h, x)
        /\ \A j \in 1 .. Len(respPool) : x = respPool[j] => i = j
    BY <2>1 DEF RespInv, PooledOK
  <2>3. RespMade(x)' /\ \A c \in Calls, h \in Nat : ~Claim(c, h, x)'
    BY <1>1, <2>2 DEF MadeGrows
  <2>4. RespMade(respPool[i])'
    BY <2>1, <2>3 DEF RespMade
  <2>5. \A c \in Calls, h \in Nat : ~Claim(c, h, respPool[i])'
    BY <2>1, <2>3 DEF Claim, OutClaim, InClaim
  <2> QED BY <2>1, <2>2, <2>4, <2>5
<1>5. FreshOK'
  BY DEF RespInv, FreshOK, MadeGrows
<1> QED BY <1>2, <1>3, <1>4, <1>5 DEF RespInv

-----------------------------------------------------------------------------
(* Queues *)

Appended(s, t, e) == /\ Len(t) = Len(s) + 1
                     /\ \A i \in 1 .. Len(s) : t[i] = s[i]
                     /\ t[Len(s) + 1] = e

Dropped(s, t) == /\ Len(s) > 0
                 /\ Len(t) = Len(s) - 1
                 /\ \A i \in 1 .. Len(t) : t[i] = s[i + 1]

\* Append and Tail, in these terms.
LEMMA QueueOps ==
  ASSUME NEW T, NEW s \in Seq(T)
  PROVE  /\ \A e \in T : Appended(s, Append(s, e), e)
         /\ s # << >> => Dropped(s, Tail(s)) /\ Head(s) = s[1]
BY DEF Appended, Dropped

\* The elements of a queue have the type of its entries.
LEMMA QueueElems ==
  ASSUME NEW s \in Seq(HBTx), NEW i \in 1 .. Len(s)
  PROVE  s[i] \in HBTx /\ s[i].height \in Nat /\ s[i].ch \in RespChans \cup {nil}
<1>1. s[i] \in HBTx
  OBVIOUS
<1> QED BY <1>1 DEF HBTx

\* A send that finds its channel open appends to its queue.
LEMMA SendIs ==
  ASSUME TypeOK, NEW ch \in HBTxChans, NEW e \in HBTx, SendHBTx(ch, e)
  PROVE  /\ \A x \in HBTxChans : hbtx'[x].closed = hbtx[x].closed
         /\ \A x \in HBTxChans : x # ch => hbtx'[x] = hbtx[x]
         /\ hbtx[ch].closed => hbtx'[ch].queue = hbtx[ch].queue
         /\ ~hbtx[ch].closed => Appended(hbtx[ch].queue, hbtx'[ch].queue, e)
<1>1. hbtx \in [HBTxChans -> [queue : Seq(HBTx), closed : BOOLEAN]]
  BY DEF TypeOK
<1>2. hbtx[ch].queue \in Seq(HBTx)
  BY <1>1
<1>3. PICK q : q = Append(hbtx[ch].queue, e) /\ Appended(hbtx[ch].queue, q, e)
  BY <1>2, QueueOps
<1>4. CASE hbtx[ch].closed
  <2>1. hbtx' = hbtx
    BY <1>4 DEF SendHBTx
  <2> QED BY <1>4, <2>1
<1>5. CASE ~hbtx[ch].closed
  <2>1. hbtx' = [hbtx EXCEPT ![ch].queue = q]
    BY <1>3, <1>5 DEF SendHBTx
  <2> QED BY <1>1, <1>3, <1>5, <2>1
<1> QED BY <1>4, <1>5

\* A receive takes the head.
LEMMA RecvIs ==
  ASSUME TypeOK, NEW ch \in HBTxChans, hbtx[ch].queue # << >>,
         hbtx' = [hbtx EXCEPT ![ch].queue = Tail(@)]
  PROVE  /\ \A x \in HBTxChans : hbtx'[x].closed = hbtx[x].closed
         /\ \A x \in HBTxChans : x # ch => hbtx'[x] = hbtx[x]
         /\ Dropped(hbtx[ch].queue, hbtx'[ch].queue)
         /\ Head(hbtx[ch].queue) = hbtx[ch].queue[1]
<1>1. hbtx \in [HBTxChans -> [queue : Seq(HBTx), closed : BOOLEAN]]
  BY DEF TypeOK
<1>2. hbtx[ch].queue \in Seq(HBTx)
  BY <1>1
<1>3. PICK q : q = Tail(hbtx[ch].queue) /\ Dropped(hbtx[ch].queue, q)
  BY <1>2, QueueOps
<1>4. hbtx' = [hbtx EXCEPT ![ch].queue = q]
  BY <1>3
<1> QED BY <1>1, <1>2, <1>3, <1>4, QueueOps

-----------------------------------------------------------------------------
(* Steps of one call, as long as no call has returned an error *)

CleanInv == OneUser /\ (\A c \in Calls : QueuesOK(c)) /\ RespInv

LocalSame(d) ==
  /\ gpc'[d] = gpc[d] /\ ppc'[d] = ppc[d] /\ next'[d] = next[d] /\ held'[d] = held[d]
  /\ wpc'[d] = wpc[d] /\ job'[d] = job[d] /\ cur'[d] = cur[d] /\ out'[d] = out[d]
  /\ chIn'[d] = chIn[d] /\ chOut'[d] = chOut[d]

Elsewhere(c) == \A d \in Calls : d # c => SameCall(d)

OwnShrink(c) ==
  \A h \in Nat : \A ch \in RespChans :
    (OutClaim(c, h, ch)' => OutClaim(c, h, ch)) /\ (InClaim(c, h, ch)' => InClaim(c, h, ch))

\* A step of call c that touches one channel, which c uses.
LEMMA ElsewhereUsed ==
  ASSUME TypeInv, OneUser, NEW c \in Calls, NEW x \in HBTxChans,
         \/ x = chIn[c] /\ gpc[c] # "start"
         \/ x = chOut[c] /\ Active(c),
         \A y \in HBTxChans : y # x => hbtx'[y].queue = hbtx[y].queue,
         \A d \in Calls : d # c => LocalSame(d)
  PROVE  Elsewhere(c)
<1> SUFFICES ASSUME NEW d \in Calls, d # c PROVE SameCall(d)
  BY DEF Elsewhere
<1>1. LocalSame(d)
  OBVIOUS
<1>2. gpc[d] # "start" => chIn[d] # x /\ chIn[d] \in HBTxChans
  BY Apart DEF TypeInv, PhaseOK
<1>3. Active(d) => chOut[d] # x /\ chOut[d] \in HBTxChans
  BY Apart DEF TypeInv, PhaseOK, Active
<1> QED BY <1>1, <1>2, <1>3 DEF SameCall, LocalSame, InQ, OutQ

\* A step of call c that touches no hBTx channel.
LEMMA ElsewhereNone ==
  ASSUME NEW c \in Calls, hbtx' = hbtx, \A d \in Calls : d # c => LocalSame(d)
  PROVE  Elsewhere(c)
BY DEF Elsewhere, SameCall, LocalSame, InQ, OutQ

\* Claims shrink when those of the call that moves do.
LEMMA ShrinkOwn ==
  ASSUME TypeInv, NEW c \in Calls, Elsewhere(c), OwnShrink(c)
  PROVE  ClaimsShrink
<1> SUFFICES ASSUME NEW d \in Calls, NEW h \in Nat, NEW ch \in RespChans
             PROVE  /\ OutClaim(d, h, ch)' => OutClaim(d, h, ch)
                    /\ InClaim(d, h, ch)' => InClaim(d, h, ch)
  BY DEF ClaimsShrink
<1>1. CASE d = c
  BY <1>1 DEF OwnShrink
<1>2. CASE d # c
  BY <1>2, SameCallClaims DEF Elsewhere
<1> QED BY <1>1, <1>2

\* The rest of the invariant follows from the part of the call that moves.
LEMMA OneCallMoves ==
  ASSUME CleanInv, NEW c \in Calls, Elsewhere(c), OneUser', QueuesOK(c)', RespInv'
  PROVE  CleanInv'
<1>1. ASSUME NEW d \in Calls PROVE QueuesOK(d)'
  <2>1. CASE d # c
    BY <2>1, SameCallQueues DEF Elsewhere, CleanInv
  <2> QED BY <2>1
<1> QED BY <1>1 DEF CleanInv

\* The users of the hBTx channels, when gpc does not change.
LEMMA SameUsersGpc ==
  ASSUME TypeInv, OneUser, UNCHANGED <<chIn, chOut, hbtxPool, gpc>>,
         \A x \in HBTxChans : hbtx'[x].closed = hbtx[x].closed
  PROVE  OneUser'
BY SameUsers DEF Started, Active

\* populateRange may use chOut as long as getRange has not returned.
LEMMA PopulateActive ==
  ASSUME TypeInv, CleanInv, ~SomeFailed, NEW c \in Calls, ppc[c] \in {"get", "out", "in", "last"}
  PROVE  /\ Active(c) /\ Started(c) /\ gpc[c] # "return"
         /\ chOut[c] \in HBTxChans /\ ~hbtx[chOut[c]].closed
         /\ chIn[c] \in HBTxChans /\ gpc[c] # "start" /\ chIn[c] # chOut[c]
         /\ TakeErr(c) => gpc[c] \notin {"range", "inner"}
<1>1. PhaseOK(c) /\ QueuesOK(c) /\ OneUser
  BY DEF TypeInv, CleanInv
<1>2. Started(c) /\ gpc[c] # "start"
  BY <1>1 DEF PhaseOK, Started
<1>3. gpc[c] \notin {"return", "ok", "failed"}
  BY <1>1 DEF QueuesOK, Delivered, SomeFailed
<1>4. Active(c)
  BY <1>2, <1>3 DEF Active
<1>5. ~hbtx[chOut[c]].closed /\ chIn[c] # chOut[c]
  BY <1>1, <1>2, <1>4, Apart DEF OneUser
<1>6. TakeErr(c) => gpc[c] \notin {"range", "inner"}
  <2>1. errored[c] \in 0 .. 1
    BY DEF TypeInv, TypeOK
  <2> QED BY <1>1, <2>1 DEF PhaseOK, TakeErr
<1> QED BY <1>1, <1>2, <1>3, <1>4, <1>5, <1>6 DEF PhaseOK

\* populateRange sends to its chOut: the entry is the next of its range.
LEMMA PopulateOutClean ==
  ASSUME TypeInv, TypeInv', CleanInv, ~SomeFailed, NEW c \in Calls, PopulateOut(c)
  PROVE  CleanInv' /\ Elsewhere(c)
<1> DEFINE x == chOut[c]
           e == Entry(c, next[c], held[c])
<1>1. TypeOK /\ PhaseOK(c) /\ QueuesOK(c) /\ OneUser /\ RespInv
  BY DEF TypeInv, CleanInv
<1>2. /\ Active(c) /\ Started(c) /\ gpc[c] # "return"
      /\ x \in HBTxChans /\ ~hbtx[x].closed
      /\ chIn[c] \in HBTxChans /\ gpc[c] # "start" /\ chIn[c] # x
      /\ TakeErr(c) => gpc[c] \notin {"range", "inner"}
  BY PopulateActive DEF PopulateOut
<1>3. e \in HBTx /\ e.call = c /\ e.height = next[c] /\ e.ch = held[c] /\ e.last = FALSE
  BY <1>1, EntryTypes DEF TypeOK, Entry
<1>4. /\ \A y \in HBTxChans : hbtx'[y].closed = hbtx[y].closed
      /\ \A y \in HBTxChans : y # x => hbtx'[y] = hbtx[y]
      /\ \/ Appended(hbtx[x].queue, hbtx'[x].queue, e)
         \/ hbtx'[x].queue = hbtx[x].queue /\ gpc[c] \notin {"range", "inner"}
  <2> HIDE DEF x, e
  <2>1. CASE SendHBTx(x, e)
    BY <1>1, <1>2, <1>3, <2>1, SendIs
  <2>2. CASE TakeErr(c) /\ UNCHANGED hbtx
    BY <1>2, <2>2
  <2> QED BY <2>1, <2>2 DEF PopulateOut, x, e
<1>5. /\ ppc[c] = "out" /\ ppc'[c] = "in"
      /\ UNCHANGED <<resp, respPool, hbtxPool, chIn, chOut, next, held, wpc, job, gpc, cur, out>>
      /\ \A d \in Calls : d # c => ppc'[d] = ppc[d]
  BY <1>1 DEF PopulateOut, TypeOK, wvars, gvars
<1> HIDE DEF e
<1>6. /\ InQ(c)' = InQ(c)
      /\ \/ Appended(OutQ(c), OutQ(c)', e)
         \/ OutQ(c)' = OutQ(c) /\ gpc[c] \notin {"range", "inner"}
  BY <1>2, <1>4, <1>5 DEF InQ, OutQ
<1>7. Elsewhere(c)
  <2>1. \A d \in Calls : d # c => LocalSame(d)
    BY <1>5 DEF LocalSame
  <2> HIDE DEF x
  <2> QED BY <1>1, <1>2, <1>4, <2>1, ElsewhereUsed DEF TypeInv, x
<1>8. OneUser'
  BY <1>1, <1>4, <1>5, SameUsersGpc
<1>9. OutQ(c) \in Seq(HBTx) /\ Len(OutQ(c)) \in Nat /\ OutQ(c)' \in Seq(HBTx) /\ Len(OutQ(c)') \in Nat
      /\ next[c] \in Nat /\ Len(out[c]) \in Nat
  <2>1. Started(c)'
    BY <1>2, <1>5 DEF Started
  <2> QED BY <1>1, <1>2, <2>1, QueueTypes, QueueTypesNext DEF TypeOK
<1> HIDE DEF x
<1>10. OutOrdered(c)'
  <2>1. OutOrdered(c)
    BY <1>1, <1>2 DEF QueuesOK
  <2>2. CASE OutQ(c)' = OutQ(c)
    BY <1>5, <2>1, <2>2 DEF OutOrdered
  <2>3. CASE Appended(OutQ(c), OutQ(c)', e)
    <3>1. \A i \in 1 .. Len(OutQ(c)') :
             \/ i \in 1 .. Len(OutQ(c)) /\ OutQ(c)'[i] = OutQ(c)[i]
             \/ i = Len(OutQ(c)) + 1 /\ OutQ(c)'[i] = e
      BY <1>9, <2>3 DEF Appended
    <3>2. \A i \in 1 .. Len(OutQ(c)') : OutQ(c)'[i].last => OutQ(c)'[i].ch = nil
      BY <1>3, <2>1, <3>1 DEF OutOrdered
    <3>3. \A i \in 1 .. Len(OutQ(c)) : ~OutQ(c)[i].last =>
             OutQ(c)[i].call = c /\ OutQ(c)[i].height < next[c]
      BY <1>5, <2>1 DEF OutOrdered
    <3>4. gpc[c] = "inner" => cur[c].call = c /\ cur[c].height < next[c]
      BY <1>5, <2>1 DEF OutOrdered
    <3>5. \A i \in 1 .. Len(OutQ(c)') : ~OutQ(c)'[i].last =>
             /\ OutQ(c)'[i].call = c
             /\ OutQ(c)'[i].height < next[c] \/ OutQ(c)'[i].height = next[c]
      BY <1>3, <3>1, <3>3
    <3>6. gpc[c] = "inner" =>
             \A i \in 1 .. Len(OutQ(c)') : ~OutQ(c)'[i].last => cur[c].height < OutQ(c)'[i].height
      BY <1>3, <2>1, <3>1, <3>4 DEF OutOrdered
    <3>7. \A i, j \in 1 .. Len(OutQ(c)') : i < j /\ ~OutQ(c)'[i].last /\ ~OutQ(c)'[j].last =>
             OutQ(c)'[i].height < OutQ(c)'[j].height
      <4> SUFFICES ASSUME NEW i \in 1 .. Len(OutQ(c)'), NEW j \in 1 .. Len(OutQ(c)'),
                          i < j, ~OutQ(c)'[i].last, ~OutQ(c)'[j].last
                   PROVE  OutQ(c)'[i].height < OutQ(c)'[j].height
        OBVIOUS
      <4>1. i \in 1 .. Len(OutQ(c)) /\ OutQ(c)'[i] = OutQ(c)[i]
        BY <1>9, <2>3, <3>1 DEF Appended
      <4>2. CASE j \in 1 .. Len(OutQ(c)) /\ OutQ(c)'[j] = OutQ(c)[j]
        BY <2>1, <4>1, <4>2 DEF OutOrdered
      <4>3. CASE OutQ(c)'[j] = e
        BY <1>3, <3>3, <4>1, <4>3
      <4> QED BY <3>1, <4>2, <4>3
    <3> QED BY <1>5, <3>2, <3>4, <3>5, <3>6, <3>7 DEF OutOrdered
  <2> QED BY <1>6, <2>2, <2>3
<1>11. OutComplete(c)'
  <2>1. OutComplete(c)
    BY <1>1, <1>2 DEF QueuesOK
  <2> SUFFICES ASSUME gpc[c] \in {"range", "inner"} PROVE OutComplete(c)'
    BY <1>5 DEF OutComplete
  <2>2. Appended(OutQ(c), OutQ(c)', e)
    BY <1>6
  <2>3. Received(c)' = Received(c) /\ Received(c) \in Nat /\ Sent(c)' = next[c] /\ Sent(c) = next[c] - 1
    BY <1>5, <1>9 DEF Received, Sent
  <2>4. /\ Received(c) + Len(OutQ(c)) = next[c] - 1
        /\ \A i \in 1 .. Len(OutQ(c)) : OutQ(c)[i].height = Received(c) + i /\ ~OutQ(c)[i].last
        /\ gpc[c] = "inner" => cur[c].height = Len(out[c]) + 1
    BY <1>5, <2>1, <2>3 DEF OutComplete
  <2>5. /\ Received(c) + Len(OutQ(c)') = next[c]
        /\ \A i \in 1 .. Len(OutQ(c)') : OutQ(c)'[i].height = Received(c) + i /\ ~OutQ(c)'[i].last
    <3>1. Received(c) + Len(OutQ(c)') = next[c]
      <4>1. Len(OutQ(c)') = Len(OutQ(c)) + 1
        BY <2>2 DEF Appended
      <4>2. \A r, l, n, m \in Nat : r + l = n - 1 /\ m = l + 1 => r + m = n
        OBVIOUS
      <4>3. Received(c) \in Nat /\ Received(c) + Len(OutQ(c)) = next[c] - 1
        BY <2>3, <2>4
      <4> QED BY <1>9, <4>1, <4>2, <4>3
    <3>2. ASSUME NEW i \in 1 .. Len(OutQ(c)')
          PROVE  OutQ(c)'[i].height = Received(c) + i /\ ~OutQ(c)'[i].last
      <4>1. CASE i \in 1 .. Len(OutQ(c))
        BY <2>2, <2>4, <4>1 DEF Appended
      <4>2. CASE i = Len(OutQ(c)) + 1
        <5>1. OutQ(c)'[i] = e
          BY <2>2, <4>2 DEF Appended
        <5>2. next[c] = Received(c) + i
          BY <1>9, <2>3, <2>4, <4>2
        <5> QED BY <1>3, <5>1, <5>2
      <4> QED BY <1>9, <2>2, <4>1, <4>2 DEF Appended
    <3> QED BY <3>1, <3>2
  <2> QED BY <1>5, <2>3, <2>4, <2>5 DEF OutComplete
<1>12. QueuesOK(c)'
  <2>1. InOrdered(c)'
    BY <1>1, <1>2, <1>5, <1>6 DEF QueuesOK, InOrdered
  <2>2. Delivered(c)'
    BY <1>1, <1>2, <1>5 DEF QueuesOK, Delivered, Active
  <2> QED BY <1>2, <1>5, <1>10, <1>11, <2>1, <2>2 DEF QueuesOK, Started
<1>13. OwnShrink(c)
  <2> SUFFICES ASSUME NEW h \in Nat, NEW ch \in RespChans
               PROVE  /\ OutClaim(c, h, ch)' => OutClaim(c, h, ch)
                      /\ InClaim(c, h, ch)' => InClaim(c, h, ch)
    BY DEF OwnShrink
  <2>1. OutClaim(c, h, ch)' => OutClaim(c, h, ch)
    BY <1>2, <1>3, <1>5, <1>6, <1>9 DEF OutClaim, Appended
  <2>2. InClaim(c, h, ch)' => InClaim(c, h, ch)
    BY <1>5, <1>6 DEF InClaim, Writer
  <2> QED BY <2>1, <2>2
<1>14. RespInv'
  <2>1. ClaimsShrink
    BY <1>7, <1>13, ShrinkOwn
  <2>2. MadeGrows
    BY <1>5, NextGrows
  <2> QED BY <1>1, <1>5, <2>1, <2>2, SameResp
<1> QED BY <1>7, <1>8, <1>12, <1>14, OneCallMoves

\* populateRange sends to its chIn, or leaves the height to no worker.
LEMMA PopulateInClean ==
  ASSUME TypeInv, TypeInv', CleanInv, ~SomeFailed, NEW c \in Calls, PopulateIn(c)
  PROVE  CleanInv' /\ Elsewhere(c)
<1> DEFINE x == chIn[c]
           e == Entry(c, next[c], held[c])
<1>1. TypeOK /\ PhaseOK(c) /\ QueuesOK(c) /\ OneUser /\ RespInv
  BY DEF TypeInv, CleanInv
<1>2. /\ Active(c) /\ Started(c) /\ gpc[c] \notin {"return", "getOut"}
      /\ chOut[c] \in HBTxChans /\ x \in HBTxChans /\ gpc[c] # "start" /\ x # chOut[c]
  BY PopulateActive DEF PopulateIn, Started
<1>3. e \in HBTx /\ e.call = c /\ e.height = next[c] /\ e.ch = held[c]
  BY <1>1, EntryTypes DEF TypeOK, Entry
<1>4. /\ \A y \in HBTxChans : hbtx'[y].closed = hbtx[y].closed
      /\ \A y \in HBTxChans : y # x => hbtx'[y] = hbtx[y]
      /\ \/ Appended(hbtx[x].queue, hbtx'[x].queue, e)
         \/ hbtx'[x].queue = hbtx[x].queue
  <2> HIDE DEF x, e
  <2>1. CASE SendHBTx(x, e)
    BY <1>1, <1>2, <1>3, <2>1, SendIs
  <2>2. CASE TakeErr(c) /\ UNCHANGED hbtx
    BY <2>2
  <2> QED BY <2>1, <2>2 DEF PopulateIn, x, e
<1>5. /\ ppc[c] = "in" /\ ppc'[c] \in {"get", "last"} /\ next'[c] = next[c] + 1
      /\ UNCHANGED <<resp, respPool, hbtxPool, chIn, chOut, wpc, job, gpc, cur, out>>
      /\ \A d \in Calls : d # c => ppc'[d] = ppc[d] /\ next'[d] = next[d] /\ held'[d] = held[d]
  BY <1>1 DEF PopulateIn, TypeOK, wvars, gvars
<1> HIDE DEF e
<1>6. /\ OutQ(c)' = OutQ(c)
      /\ Appended(InQ(c), InQ(c)', e) \/ InQ(c)' = InQ(c)
  BY <1>2, <1>4, <1>5 DEF InQ, OutQ
<1>7. Elsewhere(c)
  <2>1. \A d \in Calls : d # c => LocalSame(d)
    BY <1>5 DEF LocalSame
  <2> HIDE DEF x
  <2> QED BY <1>1, <1>2, <1>4, <2>1, ElsewhereUsed DEF TypeInv, x
<1>8. OneUser'
  BY <1>1, <1>4, <1>5, SameUsersGpc
<1>9. /\ InQ(c) \in Seq(HBTx) /\ Len(InQ(c)) \in Nat /\ OutQ(c) \in Seq(HBTx) /\ Len(OutQ(c)) \in Nat
      /\ next[c] \in Nat /\ Len(out[c]) \in Nat
  BY <1>1, <1>2, QueueTypes DEF TypeOK
<1> HIDE DEF x
<1>10. OutOrdered(c)'
  <2>1. OutOrdered(c) /\ \A i \in 1 .. Len(OutQ(c)) : OutQ(c)[i].height \in Nat
    BY <1>1, <1>2, <1>9, QueueElems DEF QueuesOK
  <2>2. cur[c].height \in Nat
    BY <1>1 DEF TypeOK, HBTx
  <2>3. \A k \in Nat : k < next[c] \/ k = next[c] => k < next'[c]
    BY <1>5, <1>9
  <2>4. /\ \A i \in 1 .. Len(OutQ(c)) : ~OutQ(c)[i].last => OutQ(c)[i].height < next'[c]
        /\ gpc[c] = "inner" => cur[c].height < next'[c]
    BY <2>1, <2>2, <2>3 DEF OutOrdered
  <2> QED BY <1>5, <1>6, <2>1, <2>4 DEF OutOrdered
<1>11. OutComplete(c)'
  <2>1. OutComplete(c)
    BY <1>1, <1>2 DEF QueuesOK
  <2>2. Received(c)' = Received(c) /\ Sent(c)' = Sent(c)
    BY <1>5, <1>9 DEF Received, Sent
  <2> QED BY <1>5, <1>6, <2>1, <2>2 DEF OutComplete
<1>12. InOrdered(c)'
  <2>0. \A k \in Nat : k < next[c] \/ k = next[c] => k < next'[c]
    BY <1>5, <1>9
  <2>1. InOrdered(c) /\ \A i \in 1 .. Len(InQ(c)) : InQ(c)[i].height \in Nat
    BY <1>1, <1>2, <1>9, QueueElems DEF QueuesOK
  <2>2. \A w \in Workers : job[c][w].height \in Nat
    BY <1>1 DEF TypeOK, HBTx
  <2>3. CASE InQ(c)' = InQ(c)
    BY <1>5, <2>0, <2>1, <2>2, <2>3 DEF InOrdered
  <2>4. CASE Appended(InQ(c), InQ(c)', e)
    <3>1. \A i \in 1 .. Len(InQ(c)') :
            \/ i \in 1 .. Len(InQ(c)) /\ InQ(c)'[i] = InQ(c)[i]
            \/ i = Len(InQ(c)) + 1 /\ InQ(c)'[i] = e
      BY <1>9, <2>4 DEF Appended
    <3>2. /\ \A i \in 1 .. Len(InQ(c)') : InQ(c)'[i].call = c /\ InQ(c)'[i].height < next'[c]
          /\ \A i, j \in 1 .. Len(InQ(c)') : i < j => InQ(c)'[i].height < InQ(c)'[j].height
      <4>1. ASSUME NEW i \in 1 .. Len(InQ(c)')
            PROVE  InQ(c)'[i].call = c /\ InQ(c)'[i].height < next'[c]
        BY <1>3, <1>9, <2>0, <2>1, <3>1 DEF InOrdered
      <4>2. ASSUME NEW i \in 1 .. Len(InQ(c)'), NEW j \in 1 .. Len(InQ(c)'), i < j
            PROVE  InQ(c)'[i].height < InQ(c)'[j].height
        <5>1. i \in 1 .. Len(InQ(c)) /\ InQ(c)'[i] = InQ(c)[i]
          BY <1>9, <2>4, <3>1, <4>2 DEF Appended
        <5>2. CASE j \in 1 .. Len(InQ(c)) /\ InQ(c)'[j] = InQ(c)[j]
          BY <2>1, <4>2, <5>1, <5>2 DEF InOrdered
        <5>3. CASE InQ(c)'[j] = e
          BY <1>3, <2>1, <5>1, <5>3 DEF InOrdered
        <5> QED BY <3>1, <5>2, <5>3
      <4> QED BY <4>1, <4>2
    <3>3. ASSUME NEW w \in Workers, wpc[c][w] = "send"
          PROVE  /\ job[c][w].call = c
                 /\ job[c][w].height < next'[c]
                 /\ \A i \in 1 .. Len(InQ(c)') : job[c][w].height < InQ(c)'[i].height
                 /\ \A v \in Workers : wpc[c][v] = "send" /\ job[c][v].height = job[c][w].height => v = w
      <4>1. /\ job[c][w].call = c
            /\ job[c][w].height < next[c]
            /\ \A i \in 1 .. Len(InQ(c)) : job[c][w].height < InQ(c)[i].height
            /\ \A v \in Workers : wpc[c][v] = "send" /\ job[c][v].height = job[c][w].height => v = w
        BY <2>1, <3>3 DEF InOrdered
      <4>2. job[c][w].height < next'[c]
        BY <2>0, <2>2, <4>1
      <4>3. \A i \in 1 .. Len(InQ(c)') : job[c][w].height < InQ(c)'[i].height
        BY <1>3, <3>1, <4>1
      <4> QED BY <4>1, <4>2, <4>3
    <3> QED BY <1>5, <3>2, <3>3 DEF InOrdered
  <2> QED BY <1>6, <2>3, <2>4
<1>13. QueuesOK(c)'
  <2>1. Delivered(c)'
    BY <1>1, <1>2, <1>5 DEF QueuesOK, Delivered, Active
  <2> QED BY <1>2, <1>5, <1>10, <1>11, <1>12, <2>1 DEF QueuesOK
<1>14. OwnShrink(c)
  <2> SUFFICES ASSUME NEW h \in Nat, NEW ch \in RespChans
               PROVE  /\ OutClaim(c, h, ch)' => OutClaim(c, h, ch)
                      /\ InClaim(c, h, ch)' => InClaim(c, h, ch)
    BY DEF OwnShrink
  <2>1. OutClaim(c, h, ch)' => OutClaim(c, h, ch)
    BY <1>2, <1>5, <1>6 DEF OutClaim
  <2>2. InClaim(c, h, ch)' => InClaim(c, h, ch)
    BY <1>3, <1>5, <1>6, <1>9 DEF InClaim, Writer, Appended
  <2> QED BY <2>1, <2>2
<1>15. RespInv'
  <2>1. ClaimsShrink
    BY <1>7, <1>14, ShrinkOwn
  <2>2. MadeGrows
    BY <1>5, NextGrows
  <2> QED BY <1>1, <1>5, <2>1, <2>2, SameResp
<1> QED BY <1>7, <1>8, <1>13, <1>15, OneCallMoves

\* populateRange sends the end marker to its chOut.
LEMMA PopulateLastClean ==
  ASSUME TypeInv, TypeInv', CleanInv, ~SomeFailed, NEW c \in Calls, PopulateLast(c)
  PROVE  CleanInv' /\ Elsewhere(c)
<1> DEFINE x == chOut[c]
           e == LastEntry(c)
<1>1. TypeOK /\ PhaseOK(c) /\ QueuesOK(c) /\ OneUser /\ RespInv
  BY DEF TypeInv, CleanInv
<1>2. /\ Active(c) /\ Started(c) /\ gpc[c] # "return"
      /\ x \in HBTxChans /\ ~hbtx[x].closed
      /\ chIn[c] \in HBTxChans /\ gpc[c] # "start" /\ chIn[c] # x
      /\ TakeErr(c) => gpc[c] \notin {"range", "inner"}
  BY PopulateActive DEF PopulateLast
<1>3. e \in HBTx /\ e.ch = nil /\ e.last
  BY EntryTypes
<1>4. /\ \A y \in HBTxChans : hbtx'[y].closed = hbtx[y].closed
      /\ \A y \in HBTxChans : y # x => hbtx'[y] = hbtx[y]
      /\ \/ Appended(hbtx[x].queue, hbtx'[x].queue, e)
         \/ hbtx'[x].queue = hbtx[x].queue /\ gpc[c] \notin {"range", "inner"}
  <2> HIDE DEF x, e
  <2>1. CASE SendHBTx(x, e)
    BY <1>1, <1>2, <1>3, <2>1, SendIs
  <2>2. CASE TakeErr(c) /\ UNCHANGED hbtx
    BY <1>2, <2>2
  <2> QED BY <2>1, <2>2 DEF PopulateLast, x, e
<1>5. /\ ppc[c] = "last" /\ ppc'[c] = "close"
      /\ UNCHANGED <<resp, respPool, hbtxPool, chIn, chOut, next, held, wpc, job, gpc, cur, out>>
      /\ \A d \in Calls : d # c => ppc'[d] = ppc[d]
  BY <1>1 DEF PopulateLast, TypeOK, wvars, gvars
<1> HIDE DEF e
<1>6. /\ InQ(c)' = InQ(c)
      /\ \/ Appended(OutQ(c), OutQ(c)', e)
         \/ OutQ(c)' = OutQ(c) /\ gpc[c] \notin {"range", "inner"}
  BY <1>2, <1>4, <1>5 DEF InQ, OutQ
<1>7. Elsewhere(c)
  <2>1. \A d \in Calls : d # c => LocalSame(d)
    BY <1>5 DEF LocalSame
  <2> HIDE DEF x
  <2> QED BY <1>1, <1>2, <1>4, <2>1, ElsewhereUsed DEF TypeInv, x
<1>8. OneUser'
  BY <1>1, <1>4, <1>5, SameUsersGpc
<1>9. OutQ(c) \in Seq(HBTx) /\ Len(OutQ(c)) \in Nat /\ OutQ(c)' \in Seq(HBTx) /\ Len(OutQ(c)') \in Nat
      /\ next[c] \in Nat /\ Len(out[c]) \in Nat
  <2>1. Started(c)'
    BY <1>2, <1>5 DEF Started
  <2> QED BY <1>1, <1>2, <2>1, QueueTypes, QueueTypesNext DEF TypeOK
<1> HIDE DEF x
<1>10. Appended(OutQ(c), OutQ(c)', e) =>
         \A i \in 1 .. Len(OutQ(c)') :
            \/ i \in 1 .. Len(OutQ(c)) /\ OutQ(c)'[i] = OutQ(c)[i]
            \/ i = Len(OutQ(c)) + 1 /\ OutQ(c)'[i] = e
  BY <1>9 DEF Appended
<1>11. OutOrdered(c)'
  <2>1. OutOrdered(c)
    BY <1>1, <1>2 DEF QueuesOK
  <2>2. CASE OutQ(c)' = OutQ(c)
    BY <1>5, <2>1, <2>2 DEF OutOrdered
  <2>3. CASE Appended(OutQ(c), OutQ(c)', e)
    BY <1>3, <1>5, <1>10, <2>1, <2>3 DEF OutOrdered
  <2> QED BY <1>6, <2>2, <2>3
<1>12. OutComplete(c)'
  <2> SUFFICES ASSUME gpc[c] \in {"range", "inner"} PROVE OutComplete(c)'
    BY <1>5 DEF OutComplete
  <2>1. OutComplete(c)
    BY <1>1, <1>2 DEF QueuesOK
  <2>2. Appended(OutQ(c), OutQ(c)', e) /\ Len(OutQ(c)') = Len(OutQ(c)) + 1
    BY <1>6 DEF Appended
  <2>3. Received(c)' = Received(c) /\ Received(c) \in Nat /\ Sent(c)' = next[c] /\ Sent(c) = next[c] - 1
    BY <1>5, <1>9 DEF Received, Sent
  <2>4. /\ Received(c) + Len(OutQ(c)) = next[c] - 1
        /\ \A i \in 1 .. Len(OutQ(c)) : OutQ(c)[i].height = Received(c) + i /\ ~OutQ(c)[i].last
        /\ gpc[c] = "inner" => cur[c].height = Len(out[c]) + 1
    BY <1>5, <2>1, <2>3 DEF OutComplete
  <2>5. Received(c) + Len(OutQ(c)') = next[c]
    <3>1. \A r, l, n, m \in Nat : r + l = n - 1 /\ m = l + 1 => r + m = n
      OBVIOUS
    <3>2. Received(c) \in Nat /\ Received(c) + Len(OutQ(c)) = next[c] - 1
      BY <2>3, <2>4
    <3> QED BY <1>9, <2>2, <3>1, <3>2
  <2>6. ASSUME NEW i \in 1 .. Len(OutQ(c)')
        PROVE  /\ ~OutQ(c)'[i].last => OutQ(c)'[i].height = Received(c) + i
               /\ OutQ(c)'[i].last <=> i = Len(OutQ(c)')
    <3>1. CASE i \in 1 .. Len(OutQ(c)) /\ OutQ(c)'[i] = OutQ(c)[i]
      BY <1>9, <2>2, <2>4, <3>1
    <3>2. CASE i = Len(OutQ(c)) + 1 /\ OutQ(c)'[i] = e
      BY <1>3, <2>2, <3>2
    <3> QED BY <1>10, <2>2, <3>1, <3>2
  <2>7. Len(OutQ(c)') > 0
    BY <1>9, <2>2
  <2> QED BY <1>5, <2>3, <2>4, <2>5, <2>6, <2>7 DEF OutComplete
<1>13. QueuesOK(c)'
  <2>1. InOrdered(c)'
    BY <1>1, <1>2, <1>5, <1>6 DEF QueuesOK, InOrdered
  <2>2. Delivered(c)'
    BY <1>1, <1>2, <1>5 DEF QueuesOK, Delivered, Active
  <2> QED BY <1>2, <1>5, <1>11, <1>12, <2>1, <2>2 DEF QueuesOK, Started
<1>14. OwnShrink(c)
  <2> SUFFICES ASSUME NEW h \in Nat, NEW ch \in RespChans
               PROVE  /\ OutClaim(c, h, ch)' => OutClaim(c, h, ch)
                      /\ InClaim(c, h, ch)' => InClaim(c, h, ch)
    BY DEF OwnShrink
  <2>1. OutClaim(c, h, ch)' => OutClaim(c, h, ch)
    BY <1>2, <1>3, <1>5, <1>6, <1>10, NilNoChan DEF OutClaim
  <2>2. InClaim(c, h, ch)' => InClaim(c, h, ch)
    BY <1>5, <1>6 DEF InClaim, Writer
  <2> QED BY <2>1, <2>2
<1>15. RespInv'
  <2>1. ClaimsShrink
    BY <1>7, <1>14, ShrinkOwn
  <2>2. MadeGrows
    BY <1>5, NextGrows
  <2> QED BY <1>1, <1>5, <2>1, <2>2, SameResp
<1> QED BY <1>7, <1>8, <1>13, <1>15, OneCallMoves

\* populateRange closes chIn, which goes to no pool.
LEMMA PopulateCloseClean ==
  ASSUME TypeInv, TypeInv', CleanInv, ~SomeFailed, NEW c \in Calls, PopulateClose(c)
  PROVE  CleanInv' /\ Elsewhere(c)
<1> DEFINE x == chIn[c]
<1>1. TypeOK /\ PhaseOK(c) /\ QueuesOK(c) /\ OneUser /\ RespInv
  BY DEF TypeInv, CleanInv
<1>2. Started(c) /\ gpc[c] # "start" /\ x \in HBTxChans
  BY <1>1 DEF PhaseOK, PopulateClose, Started
<1>3. /\ \A y \in HBTxChans : hbtx'[y].queue = hbtx[y].queue
      /\ \A y \in HBTxChans : y # x => hbtx'[y].closed = hbtx[y].closed
  BY <1>1, <1>2 DEF PopulateClose, TypeOK
<1>4. /\ ppc[c] = "close" /\ ppc'[c] = "done"
      /\ UNCHANGED <<resp, respPool, hbtxPool, chIn, chOut, next, held, wpc, job, gpc, cur, out>>
      /\ \A d \in Calls : d # c => ppc'[d] = ppc[d]
  BY <1>1 DEF PopulateClose, TypeOK, wvars, gvars
<1>5. Elsewhere(c)
  <2>1. \A d \in Calls : d # c => LocalSame(d)
    BY <1>4 DEF LocalSame
  <2> HIDE DEF x
  <2> QED BY <1>1, <1>2, <1>3, <2>1, ElsewhereUsed DEF TypeInv, x
<1>6. OneUser'
  <2>1. \A d \in Calls : /\ gpc'[d] = "start" <=> gpc[d] = "start"
                         /\ Started(d)' <=> Started(d)
                         /\ Active(d)' <=> Active(d)
    BY <1>4 DEF Started, Active
  <2>2. \A y \in HBTxChans : (\A d \in Calls : gpc[d] # "start" => y # chIn[d])
                               => hbtx'[y].closed = hbtx[y].closed
    BY <1>2, <1>3
  <2> QED BY <1>1, <1>4, <2>1, <2>2, SameUsers DEF TypeInv
<1>7. InQ(c)' = InQ(c) /\ (Active(c) => OutQ(c)' = OutQ(c))
  BY <1>1, <1>2, <1>3, <1>4 DEF InQ, OutQ, PhaseOK, Active
<1>8. QueuesOK(c)'
  <2>1. Active(c) => OutOrdered(c)' /\ OutComplete(c)'
    BY <1>1, <1>4, <1>7 DEF QueuesOK, OutOrdered, OutComplete, Received, Sent
  <2>2. InOrdered(c)'
    BY <1>1, <1>2, <1>4, <1>7 DEF QueuesOK, InOrdered
  <2>3. Delivered(c)'
    BY <1>1, <1>4 DEF QueuesOK, Delivered
  <2> QED BY <1>1, <1>2, <1>4, <1>7, <2>1, <2>2, <2>3 DEF QueuesOK, Active, Started
<1>9. OwnShrink(c)
  BY <1>4, <1>7 DEF OwnShrink, OutClaim, InClaim, Writer, Active, Started
<1>10. RespInv'
  <2>1. ClaimsShrink
    BY <1>5, <1>9, ShrinkOwn
  <2>2. MadeGrows
    BY <1>4, NextGrows
  <2> QED BY <1>1, <1>4, <2>1, <2>2, SameResp
<1> QED BY <1>5, <1>6, <1>8, <1>10, OneCallMoves

\* A worker takes the first entry of chIn: the claim stays, in another place.
LEMMA WorkerRecvClean ==
  ASSUME TypeInv, TypeInv', CleanInv, ~SomeFailed, NEW c \in Calls, NEW w \in Workers,
         WorkerRecv(c, w)
  PROVE  CleanInv' /\ Elsewhere(c)
<1> DEFINE x == chIn[c]
<1>1. TypeOK /\ PhaseOK(c) /\ QueuesOK(c) /\ OneUser /\ RespInv
  BY DEF TypeInv, CleanInv
<1>2. Started(c) /\ gpc[c] \notin {"start", "getOut"} /\ x \in HBTxChans /\ wpc[c][w] = "recv"
  BY <1>1 DEF PhaseOK, WorkerRecv, Started
<1>3. /\ \A y \in HBTxChans : hbtx'[y].closed = hbtx[y].closed
      /\ \A y \in HBTxChans : y # x => hbtx'[y] = hbtx[y]
      /\ Dropped(hbtx[x].queue, hbtx'[x].queue)
      /\ Head(hbtx[x].queue) = hbtx[x].queue[1]
  <2>1. hbtx[x].queue # << >> /\ hbtx' = [hbtx EXCEPT ![x].queue = Tail(@)]
    BY DEF WorkerRecv
  <2> HIDE DEF x
  <2> QED BY <1>1, <1>2, <2>1, RecvIs
<1>4. /\ wpc'[c][w] = "send" /\ job'[c][w] = Head(hbtx[x].queue)
      /\ \A v \in Workers : v # w => wpc'[c][v] = wpc[c][v] /\ job'[c][v] = job[c][v]
      /\ UNCHANGED <<resp, respPool, hbtxPool, chIn, chOut, ppc, next, held, gpc, cur, out>>
      /\ \A d \in Calls : d # c => wpc'[d] = wpc[d] /\ job'[d] = job[d]
  BY <1>1 DEF WorkerRecv, TypeOK, pvars, gvars
<1>5. /\ Dropped(InQ(c), InQ(c)') /\ job'[c][w] = InQ(c)[1]
      /\ Active(c) => OutQ(c)' = OutQ(c)
  <2>1. Active(c) => chOut[c] # x /\ chOut[c] \in HBTxChans
    BY <1>1, <1>2, Apart DEF PhaseOK
  <2> QED BY <1>2, <1>3, <1>4, <2>1 DEF InQ, OutQ
<1>6. Elsewhere(c)
  <2>1. \A d \in Calls : d # c => LocalSame(d)
    BY <1>4 DEF LocalSame
  <2> HIDE DEF x
  <2> QED BY <1>1, <1>2, <1>3, <2>1, ElsewhereUsed DEF TypeInv, x
<1>7. OneUser'
  BY <1>1, <1>3, <1>4, SameUsersGpc
<1> HIDE DEF x
<1>8. InQ(c) \in Seq(HBTx) /\ Len(InQ(c)) \in Nat /\ \A i \in 1 .. Len(InQ(c)) : InQ(c)[i].height \in Nat
  BY <1>2, QueueTypes, QueueElems
<1>9. /\ Len(InQ(c)') = Len(InQ(c)) - 1 /\ Len(InQ(c)) > 0
      /\ \A i \in 1 .. Len(InQ(c)') : i + 1 \in 1 .. Len(InQ(c)) /\ InQ(c)'[i] = InQ(c)[i + 1]
  BY <1>5, <1>8 DEF Dropped
<1>10. InOrdered(c)'
  <2>1. InOrdered(c)
    BY <1>1, <1>2 DEF QueuesOK
  <2>2. /\ \A i \in 1 .. Len(InQ(c)') : InQ(c)'[i].call = c /\ InQ(c)'[i].height < next[c]
        /\ \A i, j \in 1 .. Len(InQ(c)') : i < j => InQ(c)'[i].height < InQ(c)'[j].height
    <3>1. ASSUME NEW i \in 1 .. Len(InQ(c)') PROVE InQ(c)'[i].call = c /\ InQ(c)'[i].height < next[c]
      BY <1>9, <2>1 DEF InOrdered
    <3>2. ASSUME NEW i \in 1 .. Len(InQ(c)'), NEW j \in 1 .. Len(InQ(c)'), i < j
          PROVE  InQ(c)'[i].height < InQ(c)'[j].height
      <4>1. i + 1 < j + 1
        BY <3>2
      <4> QED BY <1>9, <2>1, <4>1 DEF InOrdered
    <3> QED BY <3>1, <3>2
  <2>3. /\ job'[c][w].call = c /\ job'[c][w].height < next[c]
        /\ \A i \in 1 .. Len(InQ(c)') : job'[c][w].height < InQ(c)'[i].height
    <3>1. 1 \in 1 .. Len(InQ(c)) /\ \A i \in 1 .. Len(InQ(c)') : 1 < i + 1
      BY <1>8, <1>9
    <3> QED BY <1>5, <1>9, <2>1, <3>1 DEF InOrdered
  <2>4. ASSUME NEW v \in Workers, v # w, wpc[c][v] = "send"
        PROVE  /\ job[c][v].call = c /\ job[c][v].height < next[c]
               /\ \A i \in 1 .. Len(InQ(c)') : job[c][v].height < InQ(c)'[i].height
               /\ job[c][v].height # job'[c][w].height
               /\ \A u \in Workers : wpc[c][u] = "send" /\ job[c][u].height = job[c][v].height => u = v
    <3>1. /\ job[c][v].call = c /\ job[c][v].height < next[c]
          /\ \A i \in 1 .. Len(InQ(c)) : job[c][v].height < InQ(c)[i].height
          /\ \A u \in Workers : wpc[c][u] = "send" /\ job[c][u].height = job[c][v].height => u = v
      BY <2>1, <2>4 DEF InOrdered
    <3>2. 1 \in 1 .. Len(InQ(c)) /\ job[c][v].height \in Nat
      <4>1. job[c][v] \in HBTx
        BY <1>1 DEF TypeOK
      <4> QED BY <1>8, <1>9, <4>1 DEF HBTx
    <3>3. job[c][v].height # InQ(c)[1].height
      BY <1>8, <3>1, <3>2
    <3> QED BY <1>5, <1>9, <3>1, <3>3
  <2> QED BY <1>2, <1>4, <2>2, <2>3, <2>4 DEF InOrdered
<1>11. QueuesOK(c)'
  <2>1. Active(c) => OutOrdered(c)' /\ OutComplete(c)'
    BY <1>1, <1>4, <1>5 DEF QueuesOK, OutOrdered, OutComplete, Received, Sent
  <2>2. Delivered(c)'
    BY <1>1, <1>4 DEF QueuesOK, Delivered
  <2> QED BY <1>1, <1>2, <1>4, <1>10, <2>1, <2>2 DEF QueuesOK, Active, Started
<1>12. OwnShrink(c)
  <2> SUFFICES ASSUME NEW h \in Nat, NEW ch \in RespChans
               PROVE  /\ OutClaim(c, h, ch)' => OutClaim(c, h, ch)
                      /\ InClaim(c, h, ch)' => InClaim(c, h, ch)
    BY DEF OwnShrink
  <2>1. OutClaim(c, h, ch)' => OutClaim(c, h, ch)
    BY <1>4, <1>5 DEF OutClaim, Active, Started
  <2>2. Writer(c) /\ 1 \in 1 .. Len(InQ(c))
    BY <1>2, <1>8, <1>9 DEF Writer
  <2>3. InClaim(c, h, ch)' => InClaim(c, h, ch)
    BY <1>4, <1>5, <1>9, <2>2 DEF InClaim
  <2> QED BY <2>1, <2>3
<1>13. RespInv'
  <2>1. ClaimsShrink
    BY <1>6, <1>12, ShrinkOwn
  <2>2. MadeGrows
    BY <1>4, NextGrows
  <2> QED BY <1>1, <1>4, <2>1, <2>2, SameResp
<1> QED BY <1>6, <1>7, <1>11, <1>13, OneCallMoves

\* A worker that ends claims nothing any more.
LEMMA WorkerExitClean ==
  ASSUME TypeInv, TypeInv', CleanInv, ~SomeFailed, NEW c \in Calls, NEW w \in Workers,
         WorkerExit(c, w)
  PROVE  CleanInv' /\ Elsewhere(c)
<1>1. TypeOK /\ PhaseOK(c) /\ QueuesOK(c) /\ OneUser /\ RespInv
  BY DEF TypeInv, CleanInv
<1>2. /\ wpc[c][w] = "recv" /\ wpc'[c][w] = "exited"
      /\ \A v \in Workers : v # w => wpc'[c][v] = wpc[c][v]
      /\ UNCHANGED <<resp, respPool, hbtx, hbtxPool, chIn, chOut, ppc, next, held, job, gpc, cur, out>>
      /\ \A d \in Calls : d # c => wpc'[d] = wpc[d]
  BY <1>1 DEF WorkerExit, TypeOK, pvars, gvars
<1>3. Elsewhere(c)
  BY <1>2, ElsewhereNone DEF LocalSame
<1>4. OneUser'
  BY <1>1, <1>2, SameUsersGpc
<1>5. InQ(c)' = InQ(c) /\ OutQ(c)' = OutQ(c)
  BY <1>2 DEF InQ, OutQ
<1>6. QueuesOK(c)'
  <2>1. Active(c) => OutOrdered(c)' /\ OutComplete(c)'
    BY <1>1, <1>2, <1>5 DEF QueuesOK, OutOrdered, OutComplete, Received, Sent
  <2>2. gpc[c] # "start" => InOrdered(c)'
    BY <1>1, <1>2, <1>5 DEF QueuesOK, InOrdered
  <2>3. Delivered(c)'
    BY <1>1, <1>2 DEF QueuesOK, Delivered
  <2> QED BY <1>1, <1>2, <1>5, <2>1, <2>2, <2>3 DEF QueuesOK, Active, Started
<1>7. OwnShrink(c)
  <2> SUFFICES ASSUME NEW h \in Nat, NEW ch \in RespChans
               PROVE  /\ OutClaim(c, h, ch)' => OutClaim(c, h, ch)
                      /\ InClaim(c, h, ch)' => InClaim(c, h, ch)
    BY DEF OwnShrink
  <2>1. OutClaim(c, h, ch)' => OutClaim(c, h, ch)
    BY <1>2, <1>5 DEF OutClaim, Active, Started
  <2>2. InClaim(c, h, ch)' => InClaim(c, h, ch)
    BY <1>2, <1>5 DEF InClaim, Writer
  <2> QED BY <2>1, <2>2
<1>8. RespInv'
  <2>1. ClaimsShrink
    BY <1>3, <1>7, ShrinkOwn
  <2>2. MadeGrows
    BY <1>2, NextGrows
  <2> QED BY <1>1, <1>2, <2>1, <2>2, SameResp
<1> QED BY <1>3, <1>4, <1>6, <1>8, OneCallMoves

\* getRange knows that the workers of the call have ended.
LEMMA WaitWorkersClean ==
  ASSUME TypeInv, TypeInv', CleanInv, ~SomeFailed, NEW c \in Calls, WaitWorkers(c)
  PROVE  CleanInv' /\ Elsewhere(c)
<1>1. TypeOK /\ PhaseOK(c) /\ QueuesOK(c) /\ OneUser /\ RespInv
  BY DEF TypeInv, CleanInv
<1>2. /\ gpc[c] = "wait" /\ gpc'[c] = "purge"
      /\ UNCHANGED <<resp, respPool, hbtx, hbtxPool, chIn, chOut, ppc, next, held, wpc, job, cur, out>>
      /\ \A d \in Calls : d # c => gpc'[d] = gpc[d]
  BY <1>1 DEF WaitWorkers, TypeOK, pvars, wvars
<1>3. Elsewhere(c)
  BY <1>2, ElsewhereNone DEF LocalSame
<1>4. OneUser'
  <2>1. \A d \in Calls : /\ gpc'[d] = "start" <=> gpc[d] = "start"
                         /\ Started(d)' <=> Started(d)
                         /\ Active(d)' <=> Active(d)
    BY <1>2 DEF Started, Active
  <2> QED BY <1>1, <1>2, <2>1, SameUsers DEF TypeInv
<1>5. InQ(c)' = InQ(c) /\ OutQ(c)' = OutQ(c) /\ Active(c) /\ Active(c)'
  BY <1>2 DEF InQ, OutQ, Active, Started
<1>6. QueuesOK(c)'
  BY <1>1, <1>2, <1>5 DEF QueuesOK, OutOrdered, OutComplete, InOrdered, Delivered
<1>7. OwnShrink(c)
  BY <1>2, <1>5 DEF OwnShrink, OutClaim, InClaim, Writer
<1>8. RespInv'
  <2>1. ClaimsShrink
    BY <1>3, <1>7, ShrinkOwn
  <2>2. MadeGrows
    BY <1>2, NextGrows
  <2> QED BY <1>1, <1>2, <2>1, <2>2, SameResp
<1> QED BY <1>3, <1>4, <1>6, <1>8, OneCallMoves

\* getRange has emptied chOut.
LEMMA PurgeEndClean ==
  ASSUME TypeInv, TypeInv', CleanInv, ~SomeFailed, NEW c \in Calls, PurgeEnd(c)
  PROVE  CleanInv' /\ Elsewhere(c)
<1>1. TypeOK /\ PhaseOK(c) /\ QueuesOK(c) /\ OneUser /\ RespInv
  BY DEF TypeInv, CleanInv
<1>2. /\ gpc[c] = "purge" /\ gpc'[c] = "returnErr"
      /\ UNCHANGED <<resp, respPool, hbtx, hbtxPool, chIn, chOut, ppc, next, held, wpc, job, cur, out>>
      /\ \A d \in Calls : d # c => gpc'[d] = gpc[d]
  BY <1>1 DEF PurgeEnd, TypeOK, pvars, wvars
<1>3. Elsewhere(c)
  BY <1>2, ElsewhereNone DEF LocalSame
<1>4. OneUser'
  <2>1. \A d \in Calls : /\ gpc'[d] = "start" <=> gpc[d] = "start"
                         /\ Started(d)' <=> Started(d)
                         /\ Active(d)' <=> Active(d)
    BY <1>2 DEF Started, Active
  <2> QED BY <1>1, <1>2, <2>1, SameUsers DEF TypeInv
<1>5. InQ(c)' = InQ(c) /\ OutQ(c)' = OutQ(c) /\ Active(c) /\ Active(c)'
  BY <1>2 DEF InQ, OutQ, Active, Started
<1>6. QueuesOK(c)'
  BY <1>1, <1>2, <1>5 DEF QueuesOK, OutOrdered, OutComplete, InOrdered, Delivered
<1>7. OwnShrink(c)
  BY <1>2, <1>5 DEF OwnShrink, OutClaim, InClaim, Writer
<1>8. RespInv'
  <2>1. ClaimsShrink
    BY <1>3, <1>7, ShrinkOwn
  <2>2. MadeGrows
    BY <1>2, NextGrows
  <2> QED BY <1>1, <1>2, <2>1, <2>2, SameResp
<1> QED BY <1>3, <1>4, <1>6, <1>8, OneCallMoves

\* getRange receives from chOut: the next entry of its range, or the end marker
\* once the whole range has been delivered.
LEMMA RangeNextClean ==
  ASSUME TypeInv, TypeInv', CleanInv, ~SomeFailed, NEW c \in Calls, RangeNext(c)
  PROVE  CleanInv' /\ Elsewhere(c)
<1> DEFINE x == chOut[c]
<1>1. TypeOK /\ PhaseOK(c) /\ QueuesOK(c) /\ OneUser /\ RespInv
  BY DEF TypeInv, CleanInv
<1>2. Started(c) /\ Active(c) /\ gpc[c] = "range" /\ x \in HBTxChans /\ chIn[c] \in HBTxChans /\ chIn[c] # x
  <2>1. gpc[c] = "range" /\ Started(c) /\ Active(c)
    BY DEF RangeNext, Started, Active
  <2> QED BY <1>1, <2>1, Apart DEF PhaseOK
<1>3. /\ \A y \in HBTxChans : hbtx'[y].closed = hbtx[y].closed
      /\ \A y \in HBTxChans : y # x => hbtx'[y] = hbtx[y]
      /\ Dropped(hbtx[x].queue, hbtx'[x].queue)
      /\ Head(hbtx[x].queue) = hbtx[x].queue[1]
  <2>1. hbtx[x].queue # << >> /\ hbtx' = [hbtx EXCEPT ![x].queue = Tail(@)]
    BY DEF RangeNext
  <2> HIDE DEF x
  <2> QED BY <1>1, <1>2, <2>1, RecvIs
<1>4. /\ InQ(c)' = InQ(c) /\ Dropped(OutQ(c), OutQ(c)')
      /\ UNCHANGED <<resp, respPool, hbtxPool, chIn, chOut, ppc, next, held, wpc, job, out>>
      /\ \A d \in Calls : d # c => gpc'[d] = gpc[d] /\ cur'[d] = cur[d]
      /\ cur'[c] = IF OutQ(c)[1].last THEN None(c) ELSE OutQ(c)[1]
      /\ gpc'[c] = IF OutQ(c)[1].last THEN "return" ELSE "inner"
  <2>1. UNCHANGED <<resp, respPool, hbtxPool, chIn, chOut, ppc, next, held, wpc, job, out>>
    BY DEF RangeNext, pvars, wvars
  <2> QED BY <1>1, <1>2, <1>3, <2>1 DEF RangeNext, TypeOK, InQ, OutQ
<1>5. Elsewhere(c)
  <2>1. \A d \in Calls : d # c => LocalSame(d)
    BY <1>4 DEF LocalSame
  <2> HIDE DEF x
  <2> QED BY <1>1, <1>2, <1>3, <2>1, ElsewhereUsed DEF TypeInv, x
<1>6. OneUser'
  <2>1. \A d \in Calls : /\ gpc'[d] = "start" <=> gpc[d] = "start"
                         /\ Started(d)' <=> Started(d)
                         /\ Active(d)' <=> Active(d)
    BY <1>2, <1>4 DEF Started, Active
  <2> HIDE DEF x
  <2> QED BY <1>1, <1>3, <1>4, <2>1, SameUsers DEF TypeInv
<1> HIDE DEF x
<1>7. /\ OutQ(c) \in Seq(HBTx) /\ Len(OutQ(c)) \in Nat /\ next[c] \in Nat /\ Len(out[c]) \in Nat
      /\ \A i \in 1 .. Len(OutQ(c)) : OutQ(c)[i].height \in Nat
  BY <1>1, <1>2, QueueTypes, QueueElems DEF TypeOK
<1>8. /\ Len(OutQ(c)') = Len(OutQ(c)) - 1 /\ 1 \in 1 .. Len(OutQ(c))
      /\ \A i \in 1 .. Len(OutQ(c)') : i + 1 \in 1 .. Len(OutQ(c)) /\ OutQ(c)'[i] = OutQ(c)[i + 1]
  BY <1>4, <1>7 DEF Dropped
<1>9. OutOrdered(c) /\ OutComplete(c)
  BY <1>1, <1>2 DEF QueuesOK
<1>10. /\ Len(out[c]) + Len(OutQ(c)) = Sent(c)
       /\ \A i \in 1 .. Len(OutQ(c)) :
            /\ ~OutQ(c)[i].last => OutQ(c)[i].height = Len(out[c]) + i
            /\ OutQ(c)[i].last <=> (i = Len(OutQ(c)) /\ ppc[c] \in {"close", "done"})
  BY <1>2, <1>9 DEF OutComplete, Received
<1>11. OutOrdered(c)'
  <2>1. /\ \A i \in 1 .. Len(OutQ(c)') : OutQ(c)'[i].last => OutQ(c)'[i].ch = nil
        /\ \A i \in 1 .. Len(OutQ(c)') : ~OutQ(c)'[i].last =>
             /\ OutQ(c)'[i].call = c
             /\ OutQ(c)'[i].height < next[c] \/ (OutQ(c)'[i].height = next[c] /\ ppc[c] = "in")
             /\ ~OutQ(c)[1].last => OutQ(c)[1].height < OutQ(c)'[i].height
    <3>1. \A i \in 1 .. Len(OutQ(c)') : 1 < i + 1
      BY <1>7, <1>8
    <3> QED BY SMTT(30), <1>8, <1>9, <3>1 DEF OutOrdered
  <2>2. ASSUME NEW i \in 1 .. Len(OutQ(c)'), NEW j \in 1 .. Len(OutQ(c)'), i < j,
               ~OutQ(c)'[i].last, ~OutQ(c)'[j].last
        PROVE  OutQ(c)'[i].height < OutQ(c)'[j].height
    <3>1. i + 1 < j + 1
      BY <2>2
    <3> QED BY <1>8, <1>9, <2>2, <3>1 DEF OutOrdered
  <2>3. ~OutQ(c)[1].last =>
          /\ OutQ(c)[1].call = c
          /\ OutQ(c)[1].height < next[c] \/ (OutQ(c)[1].height = next[c] /\ ppc[c] = "in")
    BY <1>8, <1>9 DEF OutOrdered
  <2> QED BY <1>4, <2>1, <2>2, <2>3 DEF OutOrdered
<1>12. OutComplete(c)'
  <2> SUFFICES ASSUME ~OutQ(c)[1].last PROVE OutComplete(c)'
    BY <1>4 DEF OutComplete
  <2>1. gpc'[c] = "inner" /\ cur'[c] = OutQ(c)[1] /\ Received(c)' = Len(out[c]) + 1 /\ Sent(c)' = Sent(c)
    BY <1>4 DEF Received, Sent
  <2>2. Len(out[c]) + 1 + Len(OutQ(c)') = Sent(c)
    BY <1>7, <1>8, <1>10
  <2>3. ASSUME NEW i \in 1 .. Len(OutQ(c)')
        PROVE  /\ ~OutQ(c)'[i].last => OutQ(c)'[i].height = Len(out[c]) + 1 + i
               /\ OutQ(c)'[i].last <=> (i = Len(OutQ(c)') /\ ppc[c] \in {"close", "done"})
    <3>1. Len(out[c]) + (i + 1) = Len(out[c]) + 1 + i /\ (i + 1 = Len(OutQ(c)) <=> i = Len(OutQ(c)'))
      <4>1. \A l \in Nat : \A m, k \in Int : m = l - 1 => (k + 1 = l <=> k = m)
        OBVIOUS
      <4>2. \A n \in Nat : \A k \in Int : n + (k + 1) = n + 1 + k
        OBVIOUS
      <4>3. Len(OutQ(c)') \in Int /\ Len(OutQ(c)') = Len(OutQ(c)) - 1
        BY <1>7, <1>8
      <4>4. i \in Int
        OBVIOUS
      <4>5. Len(out[c]) + (i + 1) = Len(out[c]) + 1 + i
        BY <1>7, <4>2, <4>4
      <4>6. i + 1 = Len(OutQ(c)) <=> i = Len(OutQ(c)')
        BY <1>7, <4>1, <4>3, <4>4
      <4> QED BY <4>5, <4>6
    <3> QED BY <1>8, <1>10, <3>1
  <2>4. ppc[c] \in {"close", "done"} => Len(OutQ(c)') > 0
    BY <1>7, <1>8, <1>10
  <2>5. OutQ(c)[1].height = Len(out[c]) + 1
    BY <1>8, <1>10
  <2> QED BY <1>4, <2>1, <2>2, <2>3, <2>4, <2>5 DEF OutComplete
<1>13. Delivered(c)'
  <2>1. Delivered(c)
    BY <1>1 DEF QueuesOK
  <2>2. OutQ(c)[1].last => ppc[c] \in {"close", "done"} /\ Len(out[c]) = Size[c]
    <3> SUFFICES ASSUME OutQ(c)[1].last PROVE ppc[c] \in {"close", "done"} /\ Len(out[c]) = Size[c]
      OBVIOUS
    <3>1. ppc[c] \in {"close", "done"} /\ Len(OutQ(c)) = 1
      BY <1>8, <1>10
    <3>2. Sent(c) = next[c] /\ next[c] = Size[c] + 1 /\ Size[c] \in Nat
      BY <1>1, <3>1, PoolAssumption DEF Sent, PhaseOK
    <3> QED BY <1>7, <1>10, <3>1, <3>2
  <2> QED BY <1>4, <2>1, <2>2 DEF Delivered
<1>14. QueuesOK(c)'
  <2>1. InOrdered(c)'
    BY <1>1, <1>2, <1>4 DEF QueuesOK, InOrdered
  <2> QED BY <1>4, <1>11, <1>12, <1>13, <2>1 DEF QueuesOK
<1>15. OwnShrink(c)
  <2> SUFFICES ASSUME NEW h \in Nat, NEW ch \in RespChans
               PROVE  /\ OutClaim(c, h, ch)' => OutClaim(c, h, ch)
                      /\ InClaim(c, h, ch)' => InClaim(c, h, ch)
    BY DEF OwnShrink
  <2>1. OutClaim(c, h, ch)' => OutClaim(c, h, ch)
    BY <1>2, <1>4, <1>8 DEF OutClaim
  <2>2. InClaim(c, h, ch)' => InClaim(c, h, ch)
    BY <1>4 DEF InClaim, Writer
  <2> QED BY <2>1, <2>2
<1>16. RespInv'
  <2>1. ClaimsShrink
    BY <1>5, <1>15, ShrinkOwn
  <2>2. MadeGrows
    BY <1>4, NextGrows
  <2> QED BY <1>1, <1>4, <2>1, <2>2, SameResp
<1> QED BY <1>5, <1>6, <1>14, <1>16, OneCallMoves

\* A worker writes the one response of its height: the channel was empty, and
\* nobody else will write to it.
LEMMA WorkerSendClean ==
  ASSUME TypeInv, TypeInv', CleanInv, ~SomeFailed, NEW c \in Calls, NEW w \in Workers,
         NEW outcome \in {"Block", "Error"}, WorkerSend(c, w, outcome)
  PROVE  CleanInv' /\ Elsewhere(c)
<1> DEFINE e == job[c][w]
           x == e.ch
<1>1. TypeOK /\ PhaseOK(c) /\ QueuesOK(c) /\ OneUser /\ RespInv
  BY DEF TypeInv, CleanInv
<1>2. e \in HBTx /\ x \in RespChans /\ e.height \in Nat /\ wpc[c][w] = "send" /\ gpc[c] \notin {"start", "getOut"}
  BY SMTT(30), <1>1, NilNoChan DEF TypeOK, WorkerSend, HBTx, PhaseOK, Started
<1>3. InOrdered(c)
  BY <1>1, <1>2 DEF QueuesOK
<1>4. /\ wpc'[c][w] \in {"recv", "exited"} /\ job'[c][w] = None(c)
      /\ \A v \in Workers : v # w => wpc'[c][v] = wpc[c][v] /\ job'[c][v] = job[c][v]
      /\ UNCHANGED <<respPool, hbtx, hbtxPool, chIn, chOut, ppc, next, held, gpc, cur, out>>
      /\ \A d \in Calls : d # c => wpc'[d] = wpc[d] /\ job'[d] = job[d]
  BY <1>1 DEF WorkerSend, TypeOK, pvars, gvars
<1>5. InClaim(c, e.height, x)
  BY <1>2 DEF InClaim
<1>6. /\ RespMade(x) /\ ~resp[x].closed /\ Len(resp[x].queue) = 0
  BY <1>1, <1>2, <1>5 DEF RespInv, ClaimedOK, Claim
<1>7. /\ \A y \in RespChans : resp'[y].closed = resp[y].closed
      /\ \A y \in RespChans : y # x => resp'[y] = resp[y]
      /\ Len(resp'[x].queue) = 1
      /\ resp'[x].queue[1].call = c /\ resp'[x].queue[1].height = e.height
  <2>1. resp \in [RespChans -> [queue : Seq(Messages), closed : BOOLEAN]] /\ resp[x].queue \in Seq(Messages)
    BY <1>1, <1>2 DEF TypeOK
  <2>2. Message(e, outcome) \in Messages /\ Message(e, outcome).call = c /\ Message(e, outcome).height = e.height
    BY <1>2, <1>3, EntryTypes DEF InOrdered, Message
  <2> HIDE DEF e, x
  <2>3. PICK q : q = Append(resp[x].queue, Message(e, outcome)) /\ Appended(resp[x].queue, q, Message(e, outcome))
    BY <2>1, <2>2, QueueOps
  <2>4. Len(q) = 1 /\ q[1] = Message(e, outcome)
    BY SMTT(30), <1>6, <2>3 DEF Appended
  <2>5. resp' = [resp EXCEPT ![x].queue = q]
    BY <1>6, <2>3 DEF WorkerSend, WriteResp, x, e
  <2> QED BY <1>2, <2>1, <2>2, <2>4, <2>5
<1> HIDE DEF x, e
<1>8. Elsewhere(c)
  BY <1>4, ElsewhereNone DEF LocalSame
<1>9. OneUser'
  BY <1>1, <1>4, SameUsersGpc
<1>10. InQ(c)' = InQ(c) /\ OutQ(c)' = OutQ(c)
  BY <1>4 DEF InQ, OutQ
<1>11. QueuesOK(c)'
  <2>1. Active(c) => OutOrdered(c)' /\ OutComplete(c)'
    BY <1>1, <1>4, <1>10 DEF QueuesOK, OutOrdered, OutComplete, Received, Sent
  <2>2. InOrdered(c)'
    BY <1>3, <1>4, <1>10 DEF InOrdered
  <2>3. Delivered(c)'
    BY <1>1, <1>4 DEF QueuesOK, Delivered
  <2> QED BY <1>1, <1>2, <1>4, <1>10, <2>1, <2>2, <2>3 DEF QueuesOK, Active, Started
<1>12. OwnShrink(c)
  <2> SUFFICES ASSUME NEW h \in Nat, NEW ch \in RespChans
               PROVE  /\ OutClaim(c, h, ch)' => OutClaim(c, h, ch)
                      /\ InClaim(c, h, ch)' => InClaim(c, h, ch)
    BY DEF OwnShrink
  <2>1. OutClaim(c, h, ch)' => OutClaim(c, h, ch)
    BY <1>4, <1>10 DEF OutClaim, Active, Started
  <2>2. Writer(c)' => Writer(c)
    BY <1>2, <1>4 DEF Writer
  <2>3. InClaim(c, h, ch)' => InClaim(c, h, ch)
    BY <1>4, <1>10, <2>2 DEF InClaim
  <2> QED BY <2>1, <2>3
<1>13. PICK k \in Nat, y \in RespChans : k = e.height /\ y = x
  BY <1>2
<1>14. ~InClaim(c, k, y)'
  <2>1. /\ k < next[c]
        /\ \A i \in 1 .. Len(InQ(c)) : k < InQ(c)[i].height
        /\ \A v \in Workers : wpc[c][v] = "send" /\ job[c][v].height = k => v = w
    BY <1>2, <1>3, <1>13 DEF InOrdered, e
  <2>2. next[c] \in Nat /\ \A i \in 1 .. Len(InQ(c)) : InQ(c)[i].height \in Nat
    BY <1>1, <1>2, QueueTypes, QueueElems DEF TypeOK
  <2>3. k # next[c] /\ \A i \in 1 .. Len(InQ(c)) : InQ(c)[i].height # k
    BY <2>1, <2>2
  <2>4. \A v \in Workers : ~(wpc'[c][v] = "send" /\ job'[c][v].height = k)
    BY <1>4, <2>1
  <2> QED BY <1>4, <1>10, <2>3, <2>4 DEF InClaim
<1>15. ClaimsShrink
  BY <1>8, <1>12, ShrinkOwn
<1>16. MadeGrows
  BY <1>4, NextGrows
<1>17. RespInv'
  <2>1. \A d \in Calls : \A h \in Nat : \A ch \in RespChans : Claim(d, h, ch)' => Claim(d, h, ch)
    BY <1>15 DEF ClaimsShrink, Claim
  <2>2. Claim(c, k, y)
    BY <1>5, <1>13 DEF Claim
  <2>3. \A d \in Calls : \A h \in Nat : Claim(d, h, y) => d = c /\ h = k
    BY <1>1, <2>2 DEF RespInv, OneClaim
  <2>4. OneClaim'
    BY <1>1, <2>1 DEF RespInv, OneClaim
  <2>5. ClaimedOK'
    <3> SUFFICES ASSUME NEW ch \in RespChans, NEW d \in Calls, NEW h \in Nat
                 PROVE  /\ Claim(d, h, ch)' =>
                             /\ RespMade(ch)'
                             /\ ~resp'[ch].closed
                             /\ Len(resp'[ch].queue) <= 1
                             /\ \A i \in 1 .. Len(resp'[ch].queue) :
                                  resp'[ch].queue[i].call = d /\ resp'[ch].queue[i].height = h
                        /\ InClaim(d, h, ch)' => Len(resp'[ch].queue) = 0
      BY DEF ClaimedOK
    <3>1. CASE ch # y
      BY <1>1, <1>7, <1>13, <1>15, <1>16, <2>1, <3>1 DEF RespInv, ClaimedOK, ClaimsShrink, MadeGrows
    <3>2. CASE ch = y
      <4>1. RespMade(ch)' /\ ~resp'[ch].closed
        BY <1>6, <1>7, <1>13, <1>16, <3>2 DEF MadeGrows
      <4>2. \A i \in 1 .. Len(resp'[ch].queue) :
               resp'[ch].queue[i].call = c /\ resp'[ch].queue[i].height = k
        BY <1>7, <1>13, <3>2
      <4>3. Claim(d, h, ch)' => d = c /\ h = k
        BY <2>1, <2>3, <3>2
      <4>4. ~InClaim(d, h, ch)'
        <5>1. CASE d = c /\ h = k
          BY <1>14, <3>2, <5>1
        <5>2. CASE ~(d = c /\ h = k)
          BY <4>3, <5>2 DEF Claim
        <5> QED BY <5>1, <5>2
      <4>5. Len(resp'[ch].queue) <= 1
        <5>1. Len(resp'[ch].queue) = 1 /\ 1 <= 1
          BY <1>7, <1>13, <3>2
        <5> QED BY <5>1
      <4>6. Claim(d, h, ch)' => \A i \in 1 .. Len(resp'[ch].queue) :
               resp'[ch].queue[i].call = d /\ resp'[ch].queue[i].height = h
        BY <4>2, <4>3
      <4> QED BY <4>1, <4>4, <4>5, <4>6
    <3> QED BY <3>1, <3>2
  <2>6. PooledOK'
    <3> SUFFICES ASSUME NEW i \in 1 .. Len(respPool), respPool[i] # nil
                 PROVE  /\ RespMade(respPool[i])'
                        /\ ~resp'[respPool[i]].closed /\ Len(resp'[respPool[i]].queue) = 0
                        /\ \A d \in Calls, h \in Nat : ~Claim(d, h, respPool[i])'
                        /\ \A j \in 1 .. Len(respPool) : respPool[i] = respPool[j] => i = j
      BY <1>4 DEF PooledOK
    <3>1. PICK z \in RespChans : z = respPool[i] /\ z = respPool'[i]
      BY <1>1, <1>4 DEF TypeOK
    <3>2. /\ RespMade(z)
          /\ ~resp[z].closed /\ Len(resp[z].queue) = 0
          /\ \A d \in Calls, h \in Nat : ~Claim(d, h, z)
          /\ \A j \in 1 .. Len(respPool) : z = respPool[j] => i = j
      BY <1>1, <3>1 DEF RespInv, PooledOK
    <3>3. z # y
      BY <2>2, <3>2
    <3>4. RespMade(z)' /\ \A d \in Calls, h \in Nat : ~Claim(d, h, z)'
      BY <1>16, <2>1, <3>2 DEF MadeGrows
    <3>5. RespMade(respPool[i])'
      BY <3>1, <3>4 DEF RespMade
    <3>6. \A d \in Calls, h \in Nat : ~Claim(d, h, respPool[i])'
      BY <3>1, <3>4 DEF Claim, OutClaim, InClaim
    <3> QED BY <1>7, <1>13, <3>1, <3>2, <3>3, <3>5, <3>6
  <2>7. FreshOK'
    BY <1>1, <1>6, <1>7, <1>16 DEF RespInv, FreshOK, MadeGrows
  <2> QED BY <2>4, <2>5, <2>6, <2>7 DEF RespInv
<1> QED BY <1>8, <1>9, <1>11, <1>17, OneCallMoves

-----------------------------------------------------------------------------
(* Steps that end the use of a response channel *)

\* A channel whose last claim ends goes to the pool, empty, or nowhere.
LEMMA Freed ==
  ASSUME TypeInv, TypeInv', RespInv, ClaimsShrink, MadeGrows, NEW y \in RespChans \cup {nil},
         \A z \in RespChans : z # y => resp'[z] = resp[z],
         y # nil => /\ \E d \in Calls, h \in Nat : Claim(d, h, y)
                    /\ \A d \in Calls, h \in Nat : ~Claim(d, h, y)',
         \/ /\ Appended(respPool, respPool', y)
            /\ y # nil => ~resp'[y].closed /\ Len(resp'[y].queue) = 0
         \/ respPool' = respPool
  PROVE  RespInv'
<1>1. \A d \in Calls : \A h \in Nat : \A ch \in RespChans : Claim(d, h, ch)' => Claim(d, h, ch)
  BY DEF ClaimsShrink, Claim
<1>2. y # nil => RespMade(y) /\ \A i \in 1 .. Len(respPool) : respPool[i] # y
  <2> SUFFICES ASSUME y # nil PROVE RespMade(y) /\ \A i \in 1 .. Len(respPool) : respPool[i] # y
    OBVIOUS
  <2>1. PICK d \in Calls, h \in Nat : Claim(d, h, y)
    OBVIOUS
  <2>2. RespMade(y)
    BY <2>1 DEF RespInv, ClaimedOK
  <2> QED BY <2>1, <2>2 DEF RespInv, PooledOK
<1>3. OneClaim'
  BY <1>1 DEF RespInv, OneClaim
<1>4. ClaimedOK'
  <2> SUFFICES ASSUME NEW ch \in RespChans, NEW d \in Calls, NEW h \in Nat
               PROVE  /\ Claim(d, h, ch)' =>
                           /\ RespMade(ch)'
                           /\ ~resp'[ch].closed
                           /\ Len(resp'[ch].queue) <= 1
                           /\ \A i \in 1 .. Len(resp'[ch].queue) :
                                resp'[ch].queue[i].call = d /\ resp'[ch].queue[i].height = h
                      /\ InClaim(d, h, ch)' => Len(resp'[ch].queue) = 0
    BY DEF ClaimedOK
  <2>1. CASE ch # y
    <3>1. resp'[ch] = resp[ch]
      BY <2>1
    <3>2. Claim(d, h, ch)' => Claim(d, h, ch)
      BY <1>1
    <3>3. InClaim(d, h, ch)' => InClaim(d, h, ch)
      BY DEF ClaimsShrink
    <3>4. RespMade(ch) => RespMade(ch)'
      BY DEF MadeGrows
    <3> QED BY <3>1, <3>2, <3>3, <3>4 DEF RespInv, ClaimedOK
  <2>2. CASE ch = y
    <3>1. PICK z \in RespChans : z = ch /\ z = y
      BY <2>2
    <3>2. ~Claim(d, h, z)'
      BY <3>1, NilNoChan
    <3> QED BY <3>1, <3>2 DEF Claim
  <2> QED BY <2>1, <2>2
<1>5. ASSUME NEW i \in 1 .. Len(respPool), respPool[i] # nil
      PROVE  \E z \in RespChans :
               /\ z = respPool[i] /\ z # y
               /\ RespMade(z)'
               /\ ~resp'[z].closed /\ Len(resp'[z].queue) = 0
               /\ \A d \in Calls, h \in Nat : ~Claim(d, h, z)'
               /\ \A j \in 1 .. Len(respPool) : z = respPool[j] => i = j
  <2>1. PICK z \in RespChans : z = respPool[i]
    BY <1>5 DEF TypeInv, TypeOK
  <2>2. /\ RespMade(z)
        /\ ~resp[z].closed /\ Len(resp[z].queue) = 0
        /\ \A d \in Calls, h \in Nat : ~Claim(d, h, z)
        /\ \A j \in 1 .. Len(respPool) : z = respPool[j] => i = j
    BY <1>5, <2>1 DEF RespInv, PooledOK
  <2>3. z # y
    BY <1>2, <2>1, NilNoChan
  <2>4. RespMade(z)' /\ \A d \in Calls, h \in Nat : ~Claim(d, h, z)'
    BY <1>1, <2>2 DEF MadeGrows
  <2> QED BY <2>1, <2>2, <2>3, <2>4
<1>6. ASSUME NEW i \in 1 .. Len(respPool'), respPool'[i] # nil
      PROVE  \E z \in RespChans :
               /\ z = respPool'[i]
               /\ RespMade(z)'
               /\ ~resp'[z].closed /\ Len(resp'[z].queue) = 0
               /\ \A d \in Calls, h \in Nat : ~Claim(d, h, z)'
               /\ \A j \in 1 .. Len(respPool') : z = respPool'[j] => i = j
  <2>0. Len(respPool) \in Nat
    BY DEF TypeInv, TypeOK
  <2>1. CASE respPool' = respPool
    BY <1>5, <1>6, <2>1
  <2>2. CASE Appended(respPool, respPool', y) /\ (y # nil => ~resp'[y].closed /\ Len(resp'[y].queue) = 0)
    <3>1. /\ Len(respPool') = Len(respPool) + 1
          /\ \A j \in 1 .. Len(respPool') : j \in 1 .. Len(respPool) \/ j = Len(respPool) + 1
          /\ \A j \in 1 .. Len(respPool) : respPool'[j] = respPool[j]
          /\ respPool'[Len(respPool) + 1] = y
      BY <2>0, <2>2 DEF Appended
    <3>2. CASE i \in 1 .. Len(respPool)
      <4>1. PICK z \in RespChans :
               /\ z = respPool[i] /\ z # y
               /\ RespMade(z)'
               /\ ~resp'[z].closed /\ Len(resp'[z].queue) = 0
               /\ \A d \in Calls, h \in Nat : ~Claim(d, h, z)'
               /\ \A j \in 1 .. Len(respPool) : z = respPool[j] => i = j
        BY <1>5, <1>6, <3>1, <3>2
      <4>2. \A j \in 1 .. Len(respPool') : z = respPool'[j] => i = j
        BY <3>1, <4>1
      <4> QED BY <3>1, <3>2, <4>1, <4>2
    <3>3. CASE i = Len(respPool) + 1
      <4>1. PICK z \in RespChans : z = y /\ z = respPool'[i]
        BY <1>6, <3>1, <3>3
      <4>2. RespMade(z)' /\ \A d \in Calls, h \in Nat : ~Claim(d, h, z)'
        BY <1>2, <4>1, NilNoChan DEF MadeGrows
      <4>3. \A j \in 1 .. Len(respPool') : z = respPool'[j] => i = j
        BY <1>2, <3>1, <3>3, <4>1, NilNoChan
      <4> QED BY <2>2, <4>1, <4>2, <4>3, NilNoChan
    <3> QED BY <3>1, <3>2, <3>3
  <2> QED BY <2>1, <2>2
<1>7. PooledOK'
  <2> SUFFICES ASSUME NEW i \in 1 .. Len(respPool'), respPool'[i] # nil
               PROVE  /\ RespMade(respPool[i])'
                      /\ ~resp'[respPool'[i]].closed /\ Len(resp'[respPool'[i]].queue) = 0
                      /\ \A d \in Calls, h \in Nat : ~Claim(d, h, respPool[i])'
                      /\ \A j \in 1 .. Len(respPool') : respPool'[i] = respPool'[j] => i = j
    BY DEF PooledOK
  <2>1. PICK z \in RespChans :
               /\ z = respPool'[i]
               /\ RespMade(z)'
               /\ ~resp'[z].closed /\ Len(resp'[z].queue) = 0
               /\ \A d \in Calls, h \in Nat : ~Claim(d, h, z)'
               /\ \A j \in 1 .. Len(respPool') : z = respPool'[j] => i = j
    BY <1>6
  <2>2. RespMade(respPool[i])'
    BY <2>1 DEF RespMade
  <2>3. \A d \in Calls, h \in Nat : ~Claim(d, h, respPool[i])'
    BY <2>1 DEF Claim, OutClaim, InClaim
  <2> QED BY <2>1, <2>2, <2>3
<1>8. FreshOK'
  BY <1>2, NilNoChan DEF RespInv, FreshOK, MadeGrows
<1> QED BY <1>3, <1>4, <1>7, <1>8 DEF RespInv

\* Put: the channel is in the pool, as it was handed over, or the pool was full.
LEMMA RespPutIs ==
  ASSUME TypeInv, NEW y \in RespChans \cup {nil}, NEW chans \in ChansOf(RespChans, Messages),
         RespPut(y, chans)
  PROVE  /\ \A z \in RespChans : z # y => resp'[z] = chans[z]
         /\ \/ Appended(respPool, respPool', y) /\ resp' = chans
            \/ respPool' = respPool
<1>1. respPool \in Seq(RespChans \cup {nil})
  BY DEF TypeInv, TypeOK
<1>2. CASE respPool' = Append(respPool, y) /\ resp' = chans
  BY <1>1, <1>2, QueueOps
<1>3. CASE /\ resp' = IF y = nil THEN chans ELSE [chans EXCEPT ![y].closed = TRUE]
           /\ respPool' = respPool
  <2>1. \A z \in RespChans : z # y => resp'[z] = chans[z]
    BY <1>3 DEF ChansOf
  <2> QED BY <1>3, <2>1
<1> QED BY <1>2, <1>3 DEF RespPut

\* getRange receives the one response of the height it waits for and is done with
\* its channel: it hands the channel back, or after an error forgets it.
LEMMA InnerRecvClean ==
  ASSUME TypeInv, TypeInv', CleanInv, ~SomeFailed, NEW c \in Calls, InnerRecv(c)
  PROVE  CleanInv' /\ Elsewhere(c)
<1> DEFINE x == cur[c].ch
           m == Head(resp[x].queue)
           after == [resp EXCEPT ![x].queue = Tail(@)]
<1>1. TypeOK /\ PhaseOK(c) /\ QueuesOK(c) /\ OneUser /\ RespInv
  BY DEF TypeInv, CleanInv
<1>2. /\ gpc[c] = "inner" /\ Started(c) /\ Active(c)
      /\ cur[c] \in HBTx /\ x \in RespChans /\ cur[c].height \in Nat
  BY <1>1 DEF TypeOK, InnerRecv, HBTx, Active, Started
<1>3. PICK k \in Nat, y \in RespChans : k = cur[c].height /\ y = x
  BY <1>2
<1>4. OutClaim(c, k, y)
  BY <1>2, <1>3 DEF OutClaim
<1>5. resp \in ChansOf(RespChans, Messages) /\ resp[y].queue \in Seq(Messages) /\ resp[y].queue # << >>
  BY <1>1, <1>3 DEF TypeOK, ChansOf, InnerRecv
<1>6. /\ ~resp[y].closed /\ Len(resp[y].queue) = 1
      /\ resp[y].queue[1].call = c /\ resp[y].queue[1].height = k
  <2>1. /\ ~resp[y].closed /\ Len(resp[y].queue) <= 1
        /\ \A i \in 1 .. Len(resp[y].queue) :
              resp[y].queue[i].call = c /\ resp[y].queue[i].height = k
    BY <1>1, <1>4 DEF RespInv, ClaimedOK, Claim
  <2>2. Len(resp[y].queue) \in Nat /\ Len(resp[y].queue) > 0
    BY <1>5
  <2>3. Len(resp[y].queue) = 1
    <3>1. \A n \in Nat : n > 0 /\ n <= 1 => n = 1
      OBVIOUS
    <3> QED BY <2>1, <2>2, <3>1
  <2> QED BY <2>1, <2>3
<1>7. /\ after \in ChansOf(RespChans, Messages)
      /\ \A z \in RespChans : z # y => after[z] = resp[z]
      /\ ~after[y].closed /\ Len(after[y].queue) = 0
      /\ m = resp[y].queue[1] /\ m \in Messages
  <2>1. PICK q \in Seq(Messages) : q = Tail(resp[y].queue) /\ Len(q) = 0
    <3>1. Tail(resp[y].queue) \in Seq(Messages)
      BY <1>5
    <3>2. Dropped(resp[y].queue, Tail(resp[y].queue))
      BY <1>5, QueueOps
    <3>3. Len(Tail(resp[y].queue)) = 0
      BY <1>6, <3>2 DEF Dropped
    <3> QED BY <3>1, <3>3
  <2>2. after = [resp EXCEPT ![y].queue = q]
    BY <1>3, <2>1
  <2>3. m = resp[y].queue[1] /\ m \in Messages
    BY <1>3, <1>5, <1>6
  <2> HIDE DEF after, m
  <2>4. after \in ChansOf(RespChans, Messages)
    BY <1>5, <2>2 DEF ChansOf
  <2>5. \A z \in RespChans : z # y => after[z] = resp[z]
    BY <1>5, <2>2 DEF ChansOf
  <2>6. after[y].closed = resp[y].closed /\ after[y].queue = q
    BY <1>5, <2>2 DEF ChansOf
  <2> QED BY <1>6, <2>1, <2>3, <2>4, <2>5, <2>6
<1>8. /\ UNCHANGED <<hbtx, hbtxPool, chIn, chOut, ppc, next, held, wpc, job>>
      /\ \A d \in Calls : d # c => gpc'[d] = gpc[d] /\ cur'[d] = cur[d] /\ out'[d] = out[d]
      /\ out' = [out EXCEPT ![c] = Append(@, m)]
      /\ gpc'[c] \in {"range", "wait"}
  <2>1. gpc' = [gpc EXCEPT ![c] = "range"] \/ gpc' = [gpc EXCEPT ![c] = "wait"]
    BY DEF InnerRecv
  <2>2. UNCHANGED <<hbtx, hbtxPool, chIn, chOut, ppc, next, held, wpc, job>>
    BY DEF InnerRecv, pvars, wvars
  <2>3. cur' = [cur EXCEPT ![c] = None(c)] /\ out' = [out EXCEPT ![c] = Append(@, m)]
    BY DEF InnerRecv
  <2> HIDE DEF m
  <2> QED BY <1>1, <2>1, <2>2, <2>3 DEF TypeOK
<1>9. /\ \A z \in RespChans : z # y => resp'[z] = resp[z]
      /\ \/ Appended(respPool, respPool', y) /\ ~resp'[y].closed /\ Len(resp'[y].queue) = 0
         \/ respPool' = respPool
  <2>1. RespPut(x, after) \/ (resp' = after /\ respPool' = respPool)
    BY DEF InnerRecv
  <2> HIDE DEF after, x
  <2>2. CASE RespPut(y, after)
    BY <1>7, <2>2, RespPutIs
  <2>3. CASE resp' = after /\ respPool' = respPool
    BY <1>7, <2>3
  <2> QED BY SMTT(30), <1>3, <2>1, <2>2, <2>3
<1>10. Appended(out[c], out'[c], m)
  <2>1. out \in [Calls -> Seq(Messages)]
    BY <1>1 DEF TypeOK
  <2> HIDE DEF m
  <2>2. out'[c] = Append(out[c], m)
    BY <1>8, <2>1
  <2> QED BY <1>7, <2>1, <2>2, QueueOps
<1> HIDE DEF x, m, after
<1>11. Elsewhere(c)
  BY <1>8, ElsewhereNone DEF LocalSame
<1>12. OneUser'
  <2>1. \A d \in Calls : /\ gpc'[d] = "start" <=> gpc[d] = "start"
                         /\ Started(d)' <=> Started(d)
                         /\ Active(d)' <=> Active(d)
    BY <1>2, <1>8 DEF Started, Active
  <2> QED BY <1>1, <1>8, <2>1, SameUsers DEF TypeInv
<1>13. InQ(c)' = InQ(c) /\ OutQ(c)' = OutQ(c)
  BY <1>8 DEF InQ, OutQ
<1>14. OutOrdered(c) /\ OutComplete(c) /\ Delivered(c) /\ InOrdered(c)
  BY <1>1, <1>2 DEF QueuesOK
<1>15. Len(out[c]) \in Nat /\ k = Len(out[c]) + 1 /\ Len(out'[c]) = Len(out[c]) + 1
  BY <1>2, <1>3, <1>10, <1>14, QueueTypes DEF OutComplete, Appended
<1>16. QueuesOK(c)'
  <2>1. OutOrdered(c)'
    BY <1>8, <1>13, <1>14 DEF OutOrdered
  <2>2. OutComplete(c)'
    <3> SUFFICES ASSUME gpc'[c] = "range" PROVE OutComplete(c)'
      BY <1>8 DEF OutComplete
    <3>1. Received(c)' = Received(c) /\ Sent(c)' = Sent(c)
      BY <1>2, <1>8, <1>15 DEF Received, Sent
    <3> QED BY <1>2, <1>8, <1>13, <1>14, <3>1 DEF OutComplete
  <2>3. InOrdered(c)'
    BY <1>8, <1>13, <1>14 DEF InOrdered
  <2>4. Delivered(c)'
    <3>1. ASSUME NEW i \in 1 .. Len(out'[c]) PROVE out'[c][i].call = c /\ out'[c][i].height = i
      <4>1. i \in 1 .. Len(out[c]) \/ i = Len(out[c]) + 1
        BY <1>15
      <4>2. CASE i \in 1 .. Len(out[c])
        BY <1>10, <1>14, <4>2 DEF Appended, Delivered
      <4>3. CASE i = Len(out[c]) + 1
        BY <1>6, <1>7, <1>10, <1>15, <4>3 DEF Appended
      <4> QED BY <4>1, <4>2, <4>3
    <3> QED BY <1>8, <3>1 DEF Delivered
  <2> QED BY <1>8, <2>1, <2>2, <2>3, <2>4 DEF QueuesOK
<1>17. OwnShrink(c)
  <2> SUFFICES ASSUME NEW h \in Nat, NEW ch \in RespChans
               PROVE  /\ OutClaim(c, h, ch)' => OutClaim(c, h, ch)
                      /\ InClaim(c, h, ch)' => InClaim(c, h, ch)
    BY DEF OwnShrink
  <2>1. OutClaim(c, h, ch)' => OutClaim(c, h, ch)
    BY <1>2, <1>8, <1>13 DEF OutClaim
  <2>2. InClaim(c, h, ch)' => InClaim(c, h, ch)
    BY <1>8, <1>13 DEF InClaim, Writer
  <2> QED BY <2>1, <2>2
<1>18. ClaimsShrink
  BY <1>11, <1>17, ShrinkOwn
<1>19. MadeGrows
  BY <1>8, NextGrows
<1>20. ASSUME NEW d \in Calls, NEW h \in Nat PROVE ~Claim(d, h, y)'
  <2> SUFFICES ASSUME Claim(d, h, y)' PROVE FALSE
    OBVIOUS
  <2>1. Claim(d, h, y) /\ Claim(c, k, y)
    BY <1>4, <1>18 DEF ClaimsShrink, Claim
  <2>2. d = c /\ h = k
    BY <1>1, <2>1 DEF RespInv, OneClaim
  <2>3. ~InClaim(c, k, y)'
    <3>1. ~InClaim(c, k, y)
      BY <1>1, <1>6 DEF RespInv, ClaimedOK
    <3> QED BY <1>17, <3>1 DEF OwnShrink
  <2>4. next[c] \in Nat /\ \A i \in 1 .. Len(OutQ(c)) : OutQ(c)[i].height \in Nat
    BY <1>1, <1>2, QueueTypes, QueueElems DEF TypeOK
  <2>5. k < next[c] \/ (k = next[c] /\ ppc[c] = "in")
    BY <1>2, <1>3, <1>14 DEF OutOrdered
  <2>6. \A i \in 1 .. Len(OutQ(c)) : OutQ(c)[i].last \/ k < OutQ(c)[i].height
    BY <1>2, <1>3, <1>14 DEF OutOrdered
  <2>7. \A i \in 1 .. Len(OutQ(c)) : ~(OutQ(c)[i].ch = y /\ OutQ(c)[i].height = k)
    BY <1>14, <2>4, <2>6, NilNoChan DEF OutOrdered
  <2>8. ~(ppc[c] = "out" /\ next[c] = k)
    BY <2>4, <2>5
  <2>9. ~OutClaim(c, k, y)'
    BY <1>8, <1>13, <2>7, <2>8 DEF OutClaim
  <2> QED BY <2>2, <2>3, <2>9 DEF Claim
<1>21. RespInv'
  <2>1. Claim(c, k, y)
    BY <1>4 DEF Claim
  <2> QED BY <1>1, <1>9, <1>18, <1>19, <1>20, <2>1, Freed
<1> QED BY <1>11, <1>12, <1>16, <1>21, OneCallMoves

\* getRange throws away an entry that nobody will answer any more: the workers
\* of the call have ended.
LEMMA PurgeEntryClean ==
  ASSUME TypeInv, TypeInv', CleanInv, ~SomeFailed, NEW c \in Calls, PurgeEntry(c)
  PROVE  CleanInv' /\ Elsewhere(c)
<1> DEFINE x == chOut[c]
<1>1. TypeOK /\ PhaseOK(c) /\ QueuesOK(c) /\ OneUser /\ RespInv
  BY DEF TypeInv, CleanInv
<1>2. /\ gpc[c] = "purge" /\ Started(c) /\ Active(c)
      /\ x \in HBTxChans /\ chIn[c] \in HBTxChans /\ chIn[c] # x
      /\ \A w \in Workers : wpc[c][w] = "exited"
  <2>1. gpc[c] = "purge" /\ Started(c) /\ Active(c)
    BY DEF PurgeEntry, Started, Active
  <2> QED BY <1>1, <2>1, Apart DEF PhaseOK
<1>3. /\ \A z \in HBTxChans : hbtx'[z].closed = hbtx[z].closed
      /\ \A z \in HBTxChans : z # x => hbtx'[z] = hbtx[z]
      /\ Dropped(hbtx[x].queue, hbtx'[x].queue)
      /\ Head(hbtx[x].queue) = hbtx[x].queue[1]
  <2>1. hbtx[x].queue # << >> /\ hbtx' = [hbtx EXCEPT ![x].queue = Tail(@)]
    BY DEF PurgeEntry
  <2> HIDE DEF x
  <2> QED BY <1>1, <1>2, <2>1, RecvIs
<1>4. /\ InQ(c)' = InQ(c) /\ Dropped(OutQ(c), OutQ(c)') /\ Head(OutQ(c)) = OutQ(c)[1]
      /\ UNCHANGED <<hbtxPool, chIn, chOut, ppc, next, held, wpc, job, gpc, cur, out>>
  <2>1. UNCHANGED <<hbtxPool, chIn, chOut, ppc, next, held, wpc, job, gpc, cur, out>>
    BY DEF PurgeEntry, pvars, wvars, gvars
  <2> QED BY <1>2, <1>3, <2>1 DEF InQ, OutQ
<1>5. Elsewhere(c)
  <2>1. \A d \in Calls : d # c => LocalSame(d)
    BY <1>4 DEF LocalSame
  <2> HIDE DEF x
  <2> QED BY <1>1, <1>2, <1>3, <2>1, ElsewhereUsed DEF TypeInv, x
<1>6. OneUser'
  BY <1>1, <1>3, <1>4, SameUsersGpc
<1> HIDE DEF x
<1>7. /\ OutQ(c) \in Seq(HBTx) /\ Len(OutQ(c)) \in Nat /\ next[c] \in Nat
      /\ \A i \in 1 .. Len(OutQ(c)) : OutQ(c)[i].height \in Nat /\ OutQ(c)[i].ch \in RespChans \cup {nil}
  BY <1>1, <1>2, QueueTypes, QueueElems DEF TypeOK
<1>8. /\ Len(OutQ(c)') = Len(OutQ(c)) - 1 /\ 1 \in 1 .. Len(OutQ(c))
      /\ \A i \in 1 .. Len(OutQ(c)') : i + 1 \in 1 .. Len(OutQ(c)) /\ OutQ(c)'[i] = OutQ(c)[i + 1]
      /\ \A i \in 1 .. Len(OutQ(c)') : 1 < i + 1
  BY <1>4, <1>7 DEF Dropped
<1>9. PICK k \in Nat, y \in RespChans \cup {nil} : k = OutQ(c)[1].height /\ y = OutQ(c)[1].ch
  BY <1>7, <1>8
<1>10. OutOrdered(c)
  BY <1>1, <1>2 DEF QueuesOK
<1>11. /\ \A z \in RespChans : z # y => resp'[z] = resp[z]
       /\ \/ /\ Appended(respPool, respPool', y)
             /\ y # nil => resp'[y].closed = resp[y].closed /\ Len(resp'[y].queue) = 0
          \/ respPool' = respPool
  <2>1. RespPut(y, Drained(resp, y))
    BY <1>4, <1>9 DEF PurgeEntry, OutQ
  <2>2. resp \in ChansOf(RespChans, Messages) /\ nil \notin RespChans
    BY <1>1, NilNoChan DEF TypeOK, ChansOf
  <2>3. PICK f \in ChansOf(RespChans, Messages) : f = Drained(resp, y)
    BY <2>2, DrainedIs
  <2>4. /\ \A z \in RespChans : f[z].closed = resp[z].closed
        /\ \A z \in RespChans : z # y => f[z] = resp[z]
        /\ y # nil => f[y].queue = << >>
    BY SMTT(30), <2>2, <2>3, DrainedIs
  <2>5. y # nil => f[y].closed = resp[y].closed /\ Len(f[y].queue) = 0
    BY <2>4
  <2> QED BY <2>1, <2>3, <2>4, <2>5, RespPutIs
<1>12. OutOrdered(c)'
  <2>1. /\ \A i \in 1 .. Len(OutQ(c)') : OutQ(c)'[i].last => OutQ(c)'[i].ch = nil
        /\ \A i \in 1 .. Len(OutQ(c)') : ~OutQ(c)'[i].last =>
             /\ OutQ(c)'[i].call = c
             /\ OutQ(c)'[i].height < next[c] \/ (OutQ(c)'[i].height = next[c] /\ ppc[c] = "in")
    <3> SUFFICES ASSUME NEW i \in 1 .. Len(OutQ(c)')
                 PROVE  /\ OutQ(c)'[i].last => OutQ(c)'[i].ch = nil
                        /\ ~OutQ(c)'[i].last =>
                             /\ OutQ(c)'[i].call = c
                             /\ \/ OutQ(c)'[i].height < next[c]
                                \/ OutQ(c)'[i].height = next[c] /\ ppc[c] = "in"
      OBVIOUS
    <3>1. PICK j \in 1 .. Len(OutQ(c)) : OutQ(c)'[i] = OutQ(c)[j]
      BY <1>8
    <3> QED BY <1>10, <3>1 DEF OutOrdered
  <2>2. ASSUME NEW i \in 1 .. Len(OutQ(c)'), NEW j \in 1 .. Len(OutQ(c)'), i < j,
               ~OutQ(c)'[i].last, ~OutQ(c)'[j].last
        PROVE  OutQ(c)'[i].height < OutQ(c)'[j].height
    <3>1. i + 1 < j + 1
      BY <2>2
    <3> QED BY <1>8, <1>10, <2>2, <3>1 DEF OutOrdered
  <2> QED BY <1>2, <1>4, <2>1, <2>2 DEF OutOrdered
<1>13. QueuesOK(c)'
  <2>1. OutComplete(c)'
    BY <1>2, <1>4 DEF OutComplete
  <2>2. InOrdered(c)' /\ Delivered(c)'
    BY <1>1, <1>2, <1>4 DEF QueuesOK, InOrdered, Delivered
  <2> QED BY <1>2, <1>4, <1>12, <2>1, <2>2 DEF QueuesOK
<1>14. OwnShrink(c)
  <2> SUFFICES ASSUME NEW h \in Nat, NEW ch \in RespChans
               PROVE  /\ OutClaim(c, h, ch)' => OutClaim(c, h, ch)
                      /\ InClaim(c, h, ch)' => InClaim(c, h, ch)
    BY DEF OwnShrink
  <2>1. OutClaim(c, h, ch)' => OutClaim(c, h, ch)
    BY <1>2, <1>4, <1>8 DEF OutClaim
  <2>2. InClaim(c, h, ch)' => InClaim(c, h, ch)
    BY <1>4 DEF InClaim, Writer
  <2> QED BY <2>1, <2>2
<1>15. ClaimsShrink
  BY <1>5, <1>14, ShrinkOwn
<1>16. MadeGrows
  BY <1>4, NextGrows
<1>17. y # nil => /\ OutClaim(c, k, y) /\ ~OutQ(c)[1].last
                  /\ k < next[c] \/ (k = next[c] /\ ppc[c] = "in")
                  /\ \A i \in 1 .. Len(OutQ(c)') : OutQ(c)'[i].last \/ k < OutQ(c)'[i].height
  <2>1. y # nil => ~OutQ(c)[1].last
    BY <1>8, <1>9, <1>10 DEF OutOrdered
  <2>2. OutClaim(c, k, y)
    BY <1>2, <1>8, <1>9 DEF OutClaim
  <2>3. ~OutQ(c)[1].last => k < next[c] \/ (k = next[c] /\ ppc[c] = "in")
    BY <1>8, <1>9, <1>10 DEF OutOrdered
  <2>4. ~OutQ(c)[1].last => \A i \in 1 .. Len(OutQ(c)') : OutQ(c)'[i].last \/ k < OutQ(c)'[i].height
    BY <1>8, <1>9, <1>10 DEF OutOrdered
  <2> QED BY <2>1, <2>2, <2>3, <2>4
<1>18. ASSUME y # nil, NEW d \in Calls, NEW h \in Nat PROVE ~Claim(d, h, y)'
  <2> SUFFICES ASSUME Claim(d, h, y)' PROVE FALSE
    OBVIOUS
  <2>0. y \in RespChans
    BY <1>18
  <2>1. Claim(d, h, y) /\ Claim(c, k, y)
    BY <1>15, <1>17, <1>18, <2>0 DEF ClaimsShrink, Claim
  <2>2. d = c /\ h = k
    BY <1>1, <2>0, <2>1 DEF RespInv, OneClaim
  <2>3. ~InClaim(c, k, y)'
    BY <1>2, <1>4 DEF InClaim, Writer
  <2>4. \A i \in 1 .. Len(OutQ(c)') : OutQ(c)'[i].height \in Nat
    BY <1>7, <1>8
  <2>5. \A i \in 1 .. Len(OutQ(c)') : ~(OutQ(c)'[i].ch = y /\ OutQ(c)'[i].height = k)
    BY <1>12, <1>17, <1>18, <2>4 DEF OutOrdered
  <2>6. ~(ppc[c] = "out" /\ next[c] = k)
    BY <1>7, <1>17, <1>18
  <2>7. ~OutClaim(c, k, y)'
    BY <1>2, <1>4, <2>5, <2>6 DEF OutClaim
  <2> QED BY <2>2, <2>3, <2>7 DEF Claim
<1>19. RespInv'
  <2>1. y # nil => Claim(c, k, y) /\ y \in RespChans
    BY <1>17 DEF Claim
  <2>2. y # nil => ~resp[y].closed
    BY <1>1, <2>1 DEF RespInv, ClaimedOK
  <2>3. \/ /\ Appended(respPool, respPool', y)
           /\ y # nil => ~resp'[y].closed /\ Len(resp'[y].queue) = 0
        \/ respPool' = respPool
    BY <1>11, <2>2
  <2>4. y # nil => /\ \E d \in Calls, h \in Nat : Claim(d, h, y)
                   /\ \A d \in Calls, h \in Nat : ~Claim(d, h, y)'
    BY <1>18, <2>1
  <2> QED BY <1>1, <1>11, <1>15, <1>16, <2>3, <2>4, Freed
<1> QED BY <1>5, <1>6, <1>13, <1>19, OneCallMoves

-----------------------------------------------------------------------------
(* Steps that take a channel from a pool *)

\* populateRange takes a response channel that nobody claims, empty and open.
LEMMA PopulateGetClean ==
  ASSUME TypeInv, TypeInv', CleanInv, ~SomeFailed, NEW c \in Calls, PopulateGet(c)
  PROVE  CleanInv' /\ Elsewhere(c)
<1> DEFINE n == next[c]
           fresh == <<c, n>>
<1>1. TypeOK /\ PhaseOK(c) /\ QueuesOK(c) /\ OneUser /\ RespInv
  BY DEF TypeInv, CleanInv
<1>2. ppc[c] = "get" /\ n \in Nat /\ fresh \in RespChans
  BY <1>1, ChanNames DEF PhaseOK, TypeOK, PopulateGet
<1>3. /\ respPool \in Seq(RespChans \cup {nil}) /\ Len(respPool) \in Nat
      /\ resp \in ChansOf(RespChans, Messages) /\ nil \notin RespChans
  BY <1>1, NilNoChan DEF TypeOK, ChansOf
<1>4. PICK g \in RespChans \cup {nil} : g = GotFrom(respPool, fresh).ch
  BY <1>2, <1>3, GotFromIs
<1>5. /\ ppc'[c] = "out" /\ held'[c] = g /\ resp' = Drained(resp, g)
      /\ respPool' = GotFrom(respPool, fresh).rest
      /\ UNCHANGED <<hbtx, hbtxPool, chIn, chOut, next, wpc, job, gpc, cur, out>>
      /\ \A d \in Calls : d # c => ppc'[d] = ppc[d] /\ held'[d] = held[d]
  BY <1>1, <1>4 DEF PopulateGet, TypeOK, wvars, gvars
<1>6. \/ Len(respPool) = 0 /\ g = fresh /\ respPool' = respPool
      \/ /\ Len(respPool) > 0
         /\ g = respPool[1]
         /\ Len(respPool') = Len(respPool) - 1
         /\ \A i \in 1 .. Len(respPool) - 1 : respPool'[i] = respPool[i + 1]
  <2> HIDE DEF fresh
  <2>1. fresh \in RespChans \cup {nil}
    BY <1>2
  <2>2. \/ /\ Len(respPool) = 0
           /\ GotFrom(respPool, fresh).ch = fresh
           /\ GotFrom(respPool, fresh).rest = respPool
        \/ /\ Len(respPool) > 0
           /\ GotFrom(respPool, fresh).ch = respPool[1]
           /\ Len(GotFrom(respPool, fresh).rest) = Len(respPool) - 1
           /\ \A i \in 1 .. Len(respPool) - 1 : GotFrom(respPool, fresh).rest[i] = respPool[i + 1]
    BY <1>3, <2>1, GotFromIs
  <2> QED BY <1>4, <1>5, <2>2
<1>7. /\ \A z \in RespChans : resp'[z].closed = resp[z].closed
      /\ \A z \in RespChans : z # g => resp'[z] = resp[z]
      /\ g # nil => resp'[g].queue = << >>
  BY <1>3, <1>5, DrainedIs
<1>8. ~RespMade(fresh)
  BY <1>2 DEF RespMade
<1>9. g = fresh => RespMade(g)'
  <2>1. g = fresh => g[1] = c /\ g[2] = n
    OBVIOUS
  <2> HIDE DEF fresh
  <2> QED BY <1>2, <1>5, <2>1 DEF RespMade
<1> HIDE DEF fresh
<1>10. Elsewhere(c)
  BY <1>5, ElsewhereNone DEF LocalSame
<1>11. OneUser'
  BY <1>1, <1>5, SameUsersGpc
<1>12. InQ(c)' = InQ(c) /\ OutQ(c)' = OutQ(c)
  BY <1>5 DEF InQ, OutQ
<1>13. QueuesOK(c)'
  <2>1. Active(c) => OutOrdered(c)' /\ OutComplete(c)'
    <3> SUFFICES ASSUME Active(c) PROVE OutOrdered(c)' /\ OutComplete(c)'
      OBVIOUS
    <3>1. OutOrdered(c) /\ OutComplete(c)
      BY <1>1 DEF QueuesOK
    <3>2. OutOrdered(c)'
      BY <1>2, <1>5, <1>12, <3>1 DEF OutOrdered
    <3>3. Received(c)' = Received(c) /\ Sent(c)' = Sent(c)
      BY <1>2, <1>5 DEF Received, Sent
    <3>4. OutComplete(c)'
      BY <1>2, <1>5, <1>12, <3>1, <3>3 DEF OutComplete
    <3> QED BY <3>2, <3>4
  <2>2. gpc[c] # "start" => InOrdered(c)'
    BY <1>1, <1>5, <1>12 DEF QueuesOK, InOrdered
  <2>3. Delivered(c)'
    BY <1>1, <1>2, <1>5 DEF QueuesOK, Delivered
  <2> QED BY <1>1, <1>5, <1>12, <2>1, <2>2, <2>3 DEF QueuesOK, Active, Started
<1>14. ASSUME NEW d \in Calls, NEW h \in Nat, NEW ch \in RespChans, d # c \/ h # n \/ ch # g
       PROVE  (Claim(d, h, ch)' => Claim(d, h, ch)) /\ (InClaim(d, h, ch)' => InClaim(d, h, ch))
  <2>1. CASE d # c
    BY <1>10, <2>1, SameCallClaims DEF Elsewhere, Claim
  <2>2. CASE d = c
    <3>1. OutClaim(c, h, ch)' => OutClaim(c, h, ch)
      BY <1>5, <1>12, <1>14, <2>2 DEF OutClaim, Active, Started
    <3>2. InClaim(c, h, ch)' => InClaim(c, h, ch)
      BY <1>5, <1>12, <1>14, <2>2 DEF InClaim, Writer
    <3> QED BY <2>2, <3>1, <3>2 DEF Claim
  <2> QED BY <2>1, <2>2
<1>15. MadeGrows
  BY <1>2, <1>5, NextGrows
<1>16. g # nil => /\ RespMade(g)' /\ ~resp'[g].closed /\ Len(resp'[g].queue) = 0
                  /\ \A d \in Calls, h \in Nat : ~Claim(d, h, g)
  <2> SUFFICES ASSUME g # nil
               PROVE  /\ RespMade(g)' /\ ~resp'[g].closed /\ Len(resp'[g].queue) = 0
                      /\ \A d \in Calls, h \in Nat : ~Claim(d, h, g)
    OBVIOUS
  <2>1. CASE g = fresh
    <3>1. \A d \in Calls, h \in Nat : ~Claim(d, h, fresh)
      BY <1>1, <1>2, <1>8 DEF RespInv, ClaimedOK
    <3>2. ~resp[fresh].closed
      BY <1>1, <1>2, <1>8 DEF RespInv, FreshOK
    <3>3. RespMade(g)'
      BY <1>9, <2>1
    <3> QED BY <1>2, <1>7, <2>1, <3>1, <3>2, <3>3
  <2>2. CASE Len(respPool) > 0 /\ g = respPool[1]
    <3>1. 1 \in 1 .. Len(respPool)
      BY <1>3, <2>2
    <3>2. RespMade(g) /\ ~resp[g].closed /\ \A d \in Calls, h \in Nat : ~Claim(d, h, g)
      BY <1>1, <2>2, <3>1 DEF RespInv, PooledOK
    <3>3. RespMade(g)'
      BY <1>15, <3>2 DEF MadeGrows
    <3> QED BY <1>7, <3>2, <3>3
  <2> QED BY <1>6, <2>1, <2>2
<1>17. OneClaim'
  <2> SUFFICES ASSUME NEW ch \in RespChans, NEW d \in Calls, NEW f \in Calls, NEW h \in Nat, NEW k \in Nat,
                      Claim(d, h, ch)', Claim(f, k, ch)'
               PROVE  d = f /\ h = k
    BY DEF OneClaim
  <2>1. CASE ch # g
    BY <1>1, <1>14, <2>1 DEF RespInv, OneClaim
  <2>2. CASE ch = g
    <3>1. ~Claim(d, h, ch) /\ ~Claim(f, k, ch)
      BY <1>3, <1>16, <2>2
    <3> QED BY <1>2, <1>14, <3>1
  <2> QED BY <2>1, <2>2
<1>18. ClaimedOK'
  <2> SUFFICES ASSUME NEW ch \in RespChans, NEW d \in Calls, NEW h \in Nat
               PROVE  /\ Claim(d, h, ch)' =>
                           /\ RespMade(ch)'
                           /\ ~resp'[ch].closed
                           /\ Len(resp'[ch].queue) <= 1
                           /\ \A i \in 1 .. Len(resp'[ch].queue) :
                                resp'[ch].queue[i].call = d /\ resp'[ch].queue[i].height = h
                      /\ InClaim(d, h, ch)' => Len(resp'[ch].queue) = 0
    BY DEF ClaimedOK
  <2>1. CASE ch # g
    <3>1. resp'[ch] = resp[ch]
      BY <1>7, <2>1
    <3>2. (Claim(d, h, ch)' => Claim(d, h, ch)) /\ (InClaim(d, h, ch)' => InClaim(d, h, ch))
      BY <1>14, <2>1
    <3>3. RespMade(ch) => RespMade(ch)'
      BY <1>15 DEF MadeGrows
    <3> QED BY <1>1, <3>1, <3>2, <3>3 DEF RespInv, ClaimedOK
  <2>2. CASE ch = g
    <3>1. PICK z \in RespChans : z = ch /\ z = g
      BY <2>2
    <3>2. RespMade(z)' /\ ~resp'[z].closed /\ Len(resp'[z].queue) = 0
      BY <1>3, <1>16, <3>1
    <3>3. RespMade(ch)'
      BY <3>1, <3>2
    <3>4. Len(resp'[ch].queue) = 0 /\ 0 <= 1 /\ ~resp'[ch].closed
      BY <3>1, <3>2
    <3> QED BY <3>3, <3>4
  <2> QED BY <2>1, <2>2
<1>19. PooledOK'
  <2> SUFFICES ASSUME NEW i \in 1 .. Len(respPool'), respPool'[i] # nil
               PROVE  /\ RespMade(respPool[i])'
                      /\ ~resp'[respPool'[i]].closed /\ Len(resp'[respPool'[i]].queue) = 0
                      /\ \A d \in Calls, h \in Nat : ~Claim(d, h, respPool[i])'
                      /\ \A j \in 1 .. Len(respPool') : respPool'[i] = respPool'[j] => i = j
    BY DEF PooledOK
  <2>1. /\ Len(respPool) > 0 /\ g = respPool[1]
        /\ Len(respPool') = Len(respPool) - 1
        /\ \A j \in 1 .. Len(respPool') :
             j \in Int /\ j + 1 \in 1 .. Len(respPool) /\ j + 1 # 1 /\ respPool'[j] = respPool[j + 1]
    BY <1>3, <1>6
  <2>2. 1 \in 1 .. Len(respPool)
    BY <1>3, <2>1
  <2>3. PICK z \in RespChans : z = respPool'[i] /\ z = respPool[i + 1]
    BY <1>3, <2>1
  <2>4. /\ RespMade(z)
        /\ ~resp[z].closed /\ Len(resp[z].queue) = 0
        /\ \A d \in Calls, h \in Nat : ~Claim(d, h, z)
        /\ \A j \in 1 .. Len(respPool) : z = respPool[j] => i + 1 = j
    BY <1>1, <1>3, <2>1, <2>3 DEF RespInv, PooledOK
  <2>5. z # g
    BY <2>1, <2>2, <2>4
  <2>6. RespMade(z)' /\ \A d \in Calls, h \in Nat : ~Claim(d, h, z)'
    BY <1>14, <1>15, <2>4, <2>5 DEF MadeGrows
  <2>7. ~resp'[z].closed /\ Len(resp'[z].queue) = 0
    BY <1>7, <2>4, <2>5
  <2>8. \A j \in 1 .. Len(respPool') : z = respPool'[j] => i = j
    <3> SUFFICES ASSUME NEW j \in 1 .. Len(respPool'), z = respPool'[j] PROVE i = j
      OBVIOUS
    <3>1. i + 1 = j + 1 /\ i \in Int /\ j \in Int
      BY <2>1, <2>4
    <3> QED BY <3>1
  <2>9. RespMade(respPool[i])'
    BY <2>3, <2>6 DEF RespMade
  <2>10. \A d \in Calls, h \in Nat : ~Claim(d, h, respPool[i])'
    BY ZenonT(60), <2>3, <2>6 DEF Claim, OutClaim, InClaim
  <2> QED BY <2>3, <2>7, <2>8, <2>9, <2>10
<1>20. FreshOK'
  <2> SUFFICES ASSUME NEW ch \in RespChans, ~RespMade(ch)'
               PROVE  ~resp'[ch].closed /\ Len(resp'[ch].queue) = 0
    BY DEF FreshOK
  <2>1. ~RespMade(ch)
    BY <1>15 DEF MadeGrows
  <2>2. CASE ch # g
    BY <1>1, <1>7, <2>1, <2>2 DEF RespInv, FreshOK
  <2>3. CASE ch = g
    BY <1>3, <1>16, <2>3
  <2> QED BY <2>2, <2>3
<1>21. RespInv'
  BY <1>17, <1>18, <1>19, <1>20 DEF RespInv
<1> QED BY <1>10, <1>11, <1>13, <1>21, OneCallMoves

\* Get of an hBTx channel: open, emptied, and in nobody's use.
LEMMA HBTxGot ==
  ASSUME TypeInv, OneUser, NEW v \in HBTxChans, ~HBTxMade(v),
         hbtxPool' = GotFrom(hbtxPool, v).rest
  PROVE  \E g \in HBTxChans :
           /\ g = GotFrom(hbtxPool, v).ch
           /\ g = v \/ HBTxMade(g)
           /\ ~hbtx[g].closed
           /\ \A u \in HBTxChans : InUse(u) => ChanOf(u) # g
           /\ \A i \in DOMAIN hbtxPool' : \E j \in DOMAIN hbtxPool :
                hbtxPool'[i] = hbtxPool[j] /\ hbtxPool[j] # g
           /\ \A i, j \in DOMAIN hbtxPool' : hbtxPool'[i] = hbtxPool'[j] => i = j
<1>1. hbtxPool \in Seq(HBTxChans) /\ Len(hbtxPool) \in Nat /\ DOMAIN hbtxPool = 1 .. Len(hbtxPool)
  BY DEF TypeInv, TypeOK
<1>2. PICK g \in HBTxChans : g = GotFrom(hbtxPool, v).ch
  BY <1>1, GotFromIs
<1>3. hbtxPool' \in Seq(HBTxChans) /\ DOMAIN hbtxPool' = 1 .. Len(hbtxPool')
  BY <1>1, GotFromIs
<1>4. \/ Len(hbtxPool) = 0 /\ g = v /\ hbtxPool' = hbtxPool
      \/ /\ Len(hbtxPool) > 0
         /\ g = hbtxPool[1]
         /\ Len(hbtxPool') = Len(hbtxPool) - 1
         /\ \A i \in 1 .. Len(hbtxPool) - 1 : hbtxPool'[i] = hbtxPool[i + 1]
  BY ZenonT(60), <1>1, <1>2, GotFromIs
<1>5. CASE Len(hbtxPool) = 0 /\ g = v /\ hbtxPool' = hbtxPool
  <2>1. ~hbtx[v].closed /\ \A u \in HBTxChans : InUse(u) => ChanOf(u) # v
    BY DEF OneUser
  <2>2. DOMAIN hbtxPool' = {}
    BY <1>1, <1>5
  <2> QED BY <1>2, <1>5, <2>1, <2>2
<1>6. CASE /\ Len(hbtxPool) > 0
           /\ g = hbtxPool[1]
           /\ Len(hbtxPool') = Len(hbtxPool) - 1
           /\ \A i \in 1 .. Len(hbtxPool) - 1 : hbtxPool'[i] = hbtxPool[i + 1]
  <2>1. 1 \in DOMAIN hbtxPool
    <3>1. \A n \in Nat : n > 0 => 1 \in 1 .. n
      OBVIOUS
    <3>2. Len(hbtxPool) > 0 /\ Len(hbtxPool) \in Nat
      BY <1>1, <1>6
    <3> QED BY <1>1, <3>1, <3>2
  <2>2. HBTxMade(g) /\ ~hbtx[g].closed /\ \A u \in HBTxChans : InUse(u) => ChanOf(u) # g
    BY SMTT(30), <1>6, <2>1 DEF OneUser
  <2>3. \A i \in DOMAIN hbtxPool' :
          i \in Int /\ i + 1 \in DOMAIN hbtxPool /\ i + 1 # 1 /\ hbtxPool'[i] = hbtxPool[i + 1]
    <3>1. \A n \in Nat : n > 0 => \A i \in 1 .. n - 1 : i \in Int /\ i + 1 \in 1 .. n /\ i + 1 # 1
      OBVIOUS
    <3>2. DOMAIN hbtxPool' = 1 .. Len(hbtxPool) - 1
      BY <1>3, <1>6
    <3> QED BY <1>1, <1>6, <3>1, <3>2
  <2>4. \A i, j \in DOMAIN hbtxPool : hbtxPool[i] = hbtxPool[j] => i = j
    BY DEF OneUser
  <2>5. \A i \in DOMAIN hbtxPool' : \E j \in DOMAIN hbtxPool :
          hbtxPool'[i] = hbtxPool[j] /\ hbtxPool[j] # g
    <3> SUFFICES ASSUME NEW i \in DOMAIN hbtxPool'
                 PROVE  \E j \in DOMAIN hbtxPool : hbtxPool'[i] = hbtxPool[j] /\ hbtxPool[j] # g
      OBVIOUS
    <3>1. PICK j \in DOMAIN hbtxPool : j # 1 /\ hbtxPool'[i] = hbtxPool[j]
      BY <2>3
    <3>2. hbtxPool[j] # hbtxPool[1]
      BY <2>1, <2>4, <3>1
    <3> QED BY <1>6, <3>1, <3>2
  <2>6. \A i, j \in DOMAIN hbtxPool' : hbtxPool'[i] = hbtxPool'[j] => i = j
    <3> SUFFICES ASSUME NEW i \in DOMAIN hbtxPool', NEW j \in DOMAIN hbtxPool', hbtxPool'[i] = hbtxPool'[j]
                 PROVE  i = j
      OBVIOUS
    <3>1. i + 1 = j + 1 /\ i \in Int /\ j \in Int
      BY <2>3, <2>4
    <3> QED BY <3>1
  <2> QED BY <1>2, <2>2, <2>5, <2>6
<1> QED BY <1>4, <1>5, <1>6

\* The drain of Get, on an hBTx channel.
LEMMA HBTxDrained ==
  ASSUME TypeOK, NEW g \in HBTxChans, hbtx' = Drained(hbtx, g)
  PROVE  /\ \A x \in HBTxChans : hbtx'[x].closed = hbtx[x].closed
         /\ \A x \in HBTxChans : x # g => hbtx'[x] = hbtx[x]
         /\ hbtx'[g].queue = << >>
<1>1. hbtx \in [HBTxChans -> [queue : Seq(HBTx), closed : BOOLEAN]]
  BY DEF TypeOK
<1>2. PICK q \in Seq(HBTx) : q = << >>
  <2>1. << >> \in Seq(HBTx)
    OBVIOUS
  <2> QED BY <2>1
<1>3. hbtx' = [hbtx EXCEPT ![g].queue = q]
  BY <1>2, NilNoChan DEF Drained
<1> QED BY <1>1, <1>2, <1>3

\* One more channel in use, which was in nobody's.
LEMMA UserAdded ==
  ASSUME TypeInv, TypeInv', OneUser, NEW v \in HBTxChans, NEW g \in HBTxChans,
         g = v \/ HBTxMade(g),
         ~hbtx[g].closed,
         \A u \in HBTxChans : InUse(u) => ChanOf(u) # g,
         \A i \in DOMAIN hbtxPool' : \E j \in DOMAIN hbtxPool :
           hbtxPool'[i] = hbtxPool[j] /\ hbtxPool[j] # g,
         \A i, j \in DOMAIN hbtxPool' : hbtxPool'[i] = hbtxPool'[j] => i = j,
         \A x \in HBTxChans : hbtx'[x].closed = hbtx[x].closed,
         InUse(v)' /\ ChanOf(v)' = g,
         \A u \in HBTxChans : u # v => (InUse(u)' <=> InUse(u)) /\ (InUse(u) => ChanOf(u)' = ChanOf(u)),
         HBTxMade(v)',
         \A u \in HBTxChans : HBTxMade(u) => HBTxMade(u)'
  PROVE  OneUser'
<1>1. \A u \in HBTxChans : u[1] \in Calls
  BY ChanNames
<1>2. \A u \in HBTxChans : InUse(u) => ChanOf(u) \in HBTxChans /\ HBTxMade(ChanOf(u))
  BY <1>1 DEF TypeInv, PhaseOK, InUse, ChanOf, Active, OneUser
<1>3. HBTxMade(g)'
  OBVIOUS
<1>4. \A u \in HBTxChans : InUse(u)' =>
        \E x \in HBTxChans : /\ x = ChanOf(u)' /\ HBTxMade(x)'
                             /\ u # v => x # g /\ InUse(u) /\ x = ChanOf(u)
  BY <1>2, <1>3
<1>5. \A u, w \in HBTxChans : InUse(u)' /\ InUse(w)' /\ ChanOf(u)' = ChanOf(w)' => u = w
  BY <1>4 DEF OneUser
<1>6. \A u \in HBTxChans : InUse(u)' => HBTxMade(ChanOf(u))'
  <2> SUFFICES ASSUME NEW u \in HBTxChans, InUse(u)' PROVE HBTxMade(ChanOf(u))'
    OBVIOUS
  <2>1. PICK x \in HBTxChans : x = ChanOf(u)' /\ HBTxMade(x)'
    BY <1>4
  <2> QED BY <2>1 DEF HBTxMade
<1>7. \A i \in DOMAIN hbtxPool' : /\ HBTxMade(hbtxPool[i])'
                                  /\ ~hbtx'[hbtxPool'[i]].closed
                                  /\ \A u \in HBTxChans : InUse(u)' => ChanOf(u)' # hbtxPool'[i]
                                  /\ \A j \in DOMAIN hbtxPool' : hbtxPool'[i] = hbtxPool'[j] => i = j
  <2> SUFFICES ASSUME NEW i \in DOMAIN hbtxPool'
               PROVE  /\ HBTxMade(hbtxPool[i])'
                      /\ ~hbtx'[hbtxPool'[i]].closed
                      /\ \A u \in HBTxChans : InUse(u)' => ChanOf(u)' # hbtxPool'[i]
    OBVIOUS
  <2>1. PICK j \in DOMAIN hbtxPool : hbtxPool'[i] = hbtxPool[j] /\ hbtxPool[j] # g
    OBVIOUS
  <2>2. hbtxPool[j] \in HBTxChans
    BY DEF TypeInv, TypeOK
  <2>3. PICK x \in HBTxChans : x = hbtxPool[j] /\ x = hbtxPool'[i] /\ x # g
    BY <2>1, <2>2
  <2>4. HBTxMade(x) /\ ~hbtx[x].closed /\ \A u \in HBTxChans : InUse(u) => ChanOf(u) # x
    BY <2>3 DEF OneUser
  <2>5. HBTxMade(x)' /\ ~hbtx'[x].closed
    BY <2>4
  <2>6. \A u \in HBTxChans : InUse(u)' => ChanOf(u)' # x
    BY <1>4, <2>3, <2>4
  <2>7. HBTxMade(hbtxPool[i])'
    BY <2>3, <2>5 DEF HBTxMade
  <2> QED BY <2>3, <2>5, <2>6, <2>7
<1>8. \A x \in HBTxChans : ~HBTxMade(x)' => ~hbtx'[x].closed
  BY DEF OneUser
<1>9. \A c \in Calls : Active(c)' => ~hbtx'[chOut'[c]].closed
  <2> SUFFICES ASSUME NEW c \in Calls, Active(c)' PROVE ~hbtx'[chOut'[c]].closed
    OBVIOUS
  <2>1. PICK u \in HBTxChans : u = <<c, "out">>
    BY ChanNames
  <2>2. InUse(u)' /\ ChanOf(u)' = chOut'[c] /\ (InUse(u) <=> Active(c)) /\ ChanOf(u) = chOut[c]
    BY <2>1 DEF InUse, ChanOf
  <2>3. CASE u = v
    BY <2>2, <2>3
  <2>4. CASE u # v
    <3>1. Active(c) /\ chOut'[c] = chOut[c]
      BY <2>2, <2>4
    <3>2. chOut[c] \in HBTxChans /\ ~hbtx[chOut[c]].closed
      BY <1>2, <2>2, <2>4, <3>1 DEF OneUser
    <3> QED BY <3>1, <3>2
  <2> QED BY <2>3, <2>4
<1> QED BY <1>5, <1>6, <1>7, <1>8, <1>9 DEF OneUser

\* A step of call c that touches one channel, which nobody uses.
LEMMA ElsewhereUnused ==
  ASSUME TypeInv, NEW c \in Calls, NEW x \in HBTxChans,
         \A u \in HBTxChans : InUse(u) => ChanOf(u) # x,
         \A y \in HBTxChans : y # x => hbtx'[y].queue = hbtx[y].queue,
         \A d \in Calls : d # c => LocalSame(d)
  PROVE  /\ Elsewhere(c)
         /\ \A d \in Calls : gpc[d] # "start" => chIn[d] \in HBTxChans /\ chIn[d] # x
<1>1. ASSUME NEW d \in Calls
      PROVE  /\ gpc[d] # "start" => chIn[d] \in HBTxChans /\ chIn[d] # x
             /\ Active(d) => chOut[d] \in HBTxChans /\ chOut[d] # x
  <2>1. PICK u \in HBTxChans, v \in HBTxChans : u = <<d, "in">> /\ v = <<d, "out">>
    BY ChanNames
  <2>2. /\ InUse(u) <=> gpc[d] # "start"
        /\ ChanOf(u) = chIn[d]
        /\ InUse(v) <=> Active(d)
        /\ ChanOf(v) = chOut[d]
    BY <2>1 DEF InUse, ChanOf
  <2>3. /\ gpc[d] # "start" => chIn[d] \in HBTxChans
        /\ Active(d) => chOut[d] \in HBTxChans
    BY DEF TypeInv, PhaseOK, Active
  <2> QED BY <2>2, <2>3
<1>2. ASSUME NEW d \in Calls, d # c PROVE SameCall(d)
  <2>1. LocalSame(d)
    BY <1>2
  <2> QED BY <1>1, <2>1 DEF SameCall, LocalSame, InQ, OutQ
<1> QED BY <1>1, <1>2 DEF Elsewhere

\* getRange takes chIn.
LEMMA GetInClean ==
  ASSUME TypeInv, TypeInv', CleanInv, ~SomeFailed, NEW c \in Calls, GetIn(c)
  PROVE  CleanInv' /\ Elsewhere(c)
<1>1. TypeOK /\ PhaseOK(c) /\ QueuesOK(c) /\ OneUser /\ RespInv
  BY DEF TypeInv, CleanInv
<1>2. PICK v \in HBTxChans : v = <<c, "in">>
  BY ChanNames
<1>3. /\ gpc[c] = "start" /\ gpc'[c] = "getOut" /\ chIn'[c] = GotFrom(hbtxPool, v).ch
      /\ hbtxPool' = GotFrom(hbtxPool, v).rest
      /\ hbtx' = Drained(hbtx, GotFrom(hbtxPool, v).ch)
      /\ UNCHANGED <<resp, respPool, chOut, ppc, next, held, wpc, job, cur, out>>
      /\ \A d \in Calls : d # c => gpc'[d] = gpc[d] /\ chIn'[d] = chIn[d]
  BY <1>1, <1>2 DEF GetIn, TypeOK, pvars, wvars
<1>4. /\ ~Started(c) /\ ~Started(c)' /\ ~Active(c)'
      /\ ppc[c] = "idle" /\ \A w \in Workers : wpc[c][w] = "idle"
  BY <1>1, <1>3 DEF Started, Active, PhaseOK
<1>5. ~HBTxMade(v) /\ ~InUse(v)
  BY <1>2, <1>3 DEF HBTxMade, InUse
<1>6. PICK g \in HBTxChans :
        /\ g = GotFrom(hbtxPool, v).ch
        /\ g = v \/ HBTxMade(g)
        /\ ~hbtx[g].closed
        /\ \A u \in HBTxChans : InUse(u) => ChanOf(u) # g
        /\ \A i \in DOMAIN hbtxPool' : \E j \in DOMAIN hbtxPool :
             hbtxPool'[i] = hbtxPool[j] /\ hbtxPool[j] # g
        /\ \A i, j \in DOMAIN hbtxPool' : hbtxPool'[i] = hbtxPool'[j] => i = j
  BY <1>1, <1>3, <1>5, HBTxGot
<1>7. /\ \A x \in HBTxChans : hbtx'[x].closed = hbtx[x].closed
      /\ \A x \in HBTxChans : x # g => hbtx'[x] = hbtx[x]
      /\ hbtx'[g].queue = << >>
  <2>1. hbtx' = Drained(hbtx, g)
    BY <1>3, <1>6
  <2> QED BY <1>1, <2>1, HBTxDrained
<1>8. Elsewhere(c)
  <2>1. \A d \in Calls : d # c => LocalSame(d)
    BY <1>3 DEF LocalSame
  <2> QED BY <1>6, <1>7, <2>1, ElsewhereUnused
<1>9. OneUser'
  <2>1. InUse(v)' /\ ChanOf(v)' = g /\ HBTxMade(v)'
    BY <1>2, <1>3, <1>6 DEF InUse, ChanOf, HBTxMade
  <2>2. ASSUME NEW u \in HBTxChans, u # v
        PROVE  /\ InUse(u)' <=> InUse(u)
               /\ ChanOf(u)' = ChanOf(u)
               /\ HBTxMade(u)' <=> HBTxMade(u)
    <3>1. u[1] \in Calls /\ (u = <<u[1], "in">> \/ u = <<u[1], "out">>)
      BY ChanNames
    <3>2. u[2] = "in" => u[1] # c
      BY <1>2, <2>2, <3>1
    <3>3. /\ Started(u[1])' <=> Started(u[1])
          /\ Active(u[1])' <=> Active(u[1])
      BY <1>3, <1>4, <3>1 DEF Started, Active
    <3> QED BY <1>3, <3>1, <3>2, <3>3 DEF InUse, ChanOf, HBTxMade
  <2>3. \A u \in HBTxChans : HBTxMade(u) => HBTxMade(u)'
    BY <2>1, <2>2
  <2> QED BY <1>1, <1>6, <1>7, <2>1, <2>2, <2>3, UserAdded
<1>10. Len(InQ(c)') = 0
  BY <1>3, <1>6, <1>7 DEF InQ
<1>11. QueuesOK(c)'
  <2>1. InOrdered(c)'
    BY <1>3, <1>4, <1>10 DEF InOrdered
  <2>2. Delivered(c)'
    BY <1>1, <1>3 DEF QueuesOK, Delivered
  <2> QED BY <1>3, <1>4, <1>10, <2>1, <2>2 DEF QueuesOK
<1>12. OwnShrink(c)
  BY <1>3, <1>4 DEF OwnShrink, OutClaim, InClaim, Writer
<1>13. RespInv'
  <2>1. ClaimsShrink
    BY <1>8, <1>12, ShrinkOwn
  <2>2. MadeGrows
    BY <1>3, NextGrows
  <2> QED BY <1>1, <1>3, <2>1, <2>2, SameResp
<1> QED BY <1>8, <1>9, <1>11, <1>13, OneCallMoves

\* getRange takes chOut and starts populateRange and the workers, on empty channels.
LEMMA GetOutClean ==
  ASSUME TypeInv, TypeInv', CleanInv, ~SomeFailed, NEW c \in Calls, GetOut(c)
  PROVE  CleanInv' /\ Elsewhere(c)
<1>1. TypeOK /\ PhaseOK(c) /\ QueuesOK(c) /\ OneUser /\ RespInv
  BY DEF TypeInv, CleanInv
<1>2. PICK v \in HBTxChans : v = <<c, "out">>
  BY ChanNames
<1>3. /\ gpc[c] = "getOut" /\ gpc'[c] = "range" /\ chOut'[c] = GotFrom(hbtxPool, v).ch
      /\ hbtxPool' = GotFrom(hbtxPool, v).rest
      /\ hbtx' = Drained(hbtx, GotFrom(hbtxPool, v).ch)
      /\ ppc'[c] = "get" /\ \A w \in Workers : wpc'[c][w] = "recv"
      /\ UNCHANGED <<resp, respPool, chIn, next, held, job, cur, out>>
      /\ \A d \in Calls : d # c => /\ gpc'[d] = gpc[d] /\ chOut'[d] = chOut[d]
                                   /\ ppc'[d] = ppc[d] /\ wpc'[d] = wpc[d]
  BY <1>1, <1>2 DEF GetOut, TypeOK
<1>4. /\ ~Started(c) /\ Started(c)' /\ ~Active(c) /\ Active(c)'
      /\ ppc[c] = "idle" /\ next[c] = 1
  BY <1>1, <1>3 DEF Started, Active, PhaseOK
<1>5. ~HBTxMade(v) /\ ~InUse(v)
  BY <1>2, <1>4 DEF HBTxMade, InUse
<1>6. PICK g \in HBTxChans :
        /\ g = GotFrom(hbtxPool, v).ch
        /\ g = v \/ HBTxMade(g)
        /\ ~hbtx[g].closed
        /\ \A u \in HBTxChans : InUse(u) => ChanOf(u) # g
        /\ \A i \in DOMAIN hbtxPool' : \E j \in DOMAIN hbtxPool :
             hbtxPool'[i] = hbtxPool[j] /\ hbtxPool[j] # g
        /\ \A i, j \in DOMAIN hbtxPool' : hbtxPool'[i] = hbtxPool'[j] => i = j
  BY <1>1, <1>3, <1>5, HBTxGot
<1>7. /\ \A x \in HBTxChans : hbtx'[x].closed = hbtx[x].closed
      /\ \A x \in HBTxChans : x # g => hbtx'[x] = hbtx[x]
      /\ hbtx'[g].queue = << >>
  <2>1. hbtx' = Drained(hbtx, g)
    BY <1>3, <1>6
  <2> QED BY <1>1, <2>1, HBTxDrained
<1>8. Elsewhere(c) /\ \A d \in Calls : gpc[d] # "start" => chIn[d] \in HBTxChans /\ chIn[d] # g
  <2>1. \A d \in Calls : d # c => LocalSame(d)
    BY <1>3 DEF LocalSame
  <2> QED BY <1>6, <1>7, <2>1, ElsewhereUnused
<1>9. OneUser'
  <2>1. InUse(v)' /\ ChanOf(v)' = g /\ HBTxMade(v)'
    BY <1>2, <1>3, <1>4, <1>6 DEF InUse, ChanOf, HBTxMade
  <2>2. ASSUME NEW u \in HBTxChans, u # v
        PROVE  /\ InUse(u)' <=> InUse(u)
               /\ ChanOf(u)' = ChanOf(u)
               /\ HBTxMade(u)' <=> HBTxMade(u)
    <3>1. u[1] \in Calls /\ (u = <<u[1], "in">> \/ u = <<u[1], "out">>)
      BY ChanNames
    <3>2. u[2] # "in" => u[1] # c
      BY <1>2, <2>2, <3>1
    <3>3. u[1] # c => /\ Started(u[1])' <=> Started(u[1])
                      /\ Active(u[1])' <=> Active(u[1])
      BY <1>3, <3>1 DEF Started, Active
    <3>4. gpc'[u[1]] = "start" <=> gpc[u[1]] = "start"
      BY <1>3, <3>1
    <3> QED BY <1>3, <3>1, <3>2, <3>3, <3>4 DEF InUse, ChanOf, HBTxMade
  <2>3. \A u \in HBTxChans : HBTxMade(u) => HBTxMade(u)'
    BY <2>1, <2>2
  <2> QED BY <1>1, <1>6, <1>7, <2>1, <2>2, <2>3, UserAdded
<1>10. Len(InQ(c)') = 0 /\ Len(OutQ(c)') = 0
  <2>1. Len(InQ(c)) = 0
    BY <1>1, <1>3 DEF QueuesOK
  <2>2. InQ(c)' = InQ(c)
    BY <1>3, <1>7, <1>8 DEF InQ
  <2>3. OutQ(c)' = << >>
    BY <1>3, <1>6, <1>7 DEF OutQ
  <2> QED BY <2>1, <2>2, <2>3
<1>11. QueuesOK(c)'
  <2>1. InOrdered(c)'
    BY <1>3, <1>10 DEF InOrdered
  <2>2. Delivered(c)' /\ Len(out'[c]) = 0
    BY <1>1, <1>3 DEF QueuesOK, Delivered
  <2>3. OutOrdered(c)'
    BY <1>3, <1>10 DEF OutOrdered
  <2>4. Received(c)' = 0 /\ Sent(c)' = 0
    BY <1>3, <1>4, <2>2 DEF Received, Sent
  <2>5. OutComplete(c)'
    BY <1>3, <1>10, <2>4 DEF OutComplete
  <2> QED BY <1>3, <2>1, <2>2, <2>3, <2>5 DEF QueuesOK
<1>12. OwnShrink(c)
  BY <1>3, <1>10 DEF OwnShrink, OutClaim, InClaim
<1>13. RespInv'
  <2>1. ClaimsShrink
    BY <1>8, <1>12, ShrinkOwn
  <2>2. MadeGrows
    BY <1>3, <1>4, NextGrows
  <2> QED BY <1>1, <1>3, <2>1, <2>2, SameResp
<1> QED BY <1>8, <1>9, <1>11, <1>13, OneCallMoves

-----------------------------------------------------------------------------
(* getRange returns *)

\* Put of an hBTx channel: it is in the pool, or the pool was full and it is closed.
LEMMA HBTxPutIs ==
  ASSUME TypeInv, NEW x \in HBTxChans, HBTxPut(x)
  PROVE  /\ \A y \in HBTxChans : hbtx'[y].queue = hbtx[y].queue
         /\ \A y \in HBTxChans : y # x => hbtx'[y].closed = hbtx[y].closed
         /\ \/ Appended(hbtxPool, hbtxPool', x) /\ hbtx' = hbtx
            \/ hbtxPool' = hbtxPool
<1>1. hbtxPool \in Seq(HBTxChans) /\ hbtx \in [HBTxChans -> [queue : Seq(HBTx), closed : BOOLEAN]]
  BY DEF TypeInv, TypeOK
<1>2. CASE hbtxPool' = Append(hbtxPool, x) /\ hbtx' = hbtx
  BY <1>1, <1>2, QueueOps
<1>3. CASE hbtx' = [hbtx EXCEPT ![x].closed = TRUE] /\ hbtxPool' = hbtxPool
  BY <1>1, <1>3
<1> QED BY <1>2, <1>3 DEF HBTxPut

\* A channel goes out of use, to the pool or closed for good.
LEMMA UserGone ==
  ASSUME TypeInv, TypeInv', OneUser, NEW v \in HBTxChans, NEW x \in HBTxChans,
         InUse(v), ChanOf(v) = x, ~hbtx[x].closed, ~InUse(v)',
         \A u \in HBTxChans : u # v => (InUse(u)' <=> InUse(u)),
         \A u \in HBTxChans : ChanOf(u)' = ChanOf(u) /\ (HBTxMade(u)' <=> HBTxMade(u)),
         \A y \in HBTxChans : y # x => hbtx'[y].closed = hbtx[y].closed,
         \/ Appended(hbtxPool, hbtxPool', x) /\ hbtx' = hbtx
         \/ hbtxPool' = hbtxPool
  PROVE  OneUser'
<1>1. \A u \in HBTxChans : u[1] \in Calls
  BY ChanNames
<1>2. \A u \in HBTxChans : InUse(u) => ChanOf(u) \in HBTxChans /\ HBTxMade(ChanOf(u))
  BY <1>1 DEF TypeInv, PhaseOK, InUse, ChanOf, Active, OneUser
<1>3. \A u \in HBTxChans : InUse(u)' => InUse(u) /\ u # v /\ ChanOf(u) # x
  BY DEF OneUser
<1>4. \A u, w \in HBTxChans : InUse(u)' /\ InUse(w)' /\ ChanOf(u)' = ChanOf(w)' => u = w
  BY <1>3 DEF OneUser
<1>5. \A u \in HBTxChans : InUse(u)' => HBTxMade(ChanOf(u))'
  <2> SUFFICES ASSUME NEW u \in HBTxChans, InUse(u)' PROVE HBTxMade(ChanOf(u))'
    OBVIOUS
  <2>1. PICK y \in HBTxChans : y = ChanOf(u) /\ HBTxMade(y)
    BY <1>2, <1>3
  <2>2. y = ChanOf(u)' /\ HBTxMade(y)'
    BY <2>1
  <2> QED BY <2>2 DEF HBTxMade
<1>6. /\ hbtxPool \in Seq(HBTxChans) /\ Len(hbtxPool) \in Nat /\ DOMAIN hbtxPool = 1 .. Len(hbtxPool)
      /\ hbtxPool' \in Seq(HBTxChans) /\ DOMAIN hbtxPool' = 1 .. Len(hbtxPool')
  BY DEF TypeInv, TypeOK
<1>7. ASSUME NEW i \in DOMAIN hbtxPool
      PROVE  \E y \in HBTxChans :
               /\ y = hbtxPool[i] /\ y # x
               /\ HBTxMade(y)' /\ ~hbtx'[y].closed
               /\ \A u \in HBTxChans : InUse(u)' => ChanOf(u)' # y
               /\ \A j \in DOMAIN hbtxPool : y = hbtxPool[j] => i = j
  <2>1. PICK y \in HBTxChans : y = hbtxPool[i]
    BY <1>6
  <2>2. /\ HBTxMade(y) /\ ~hbtx[y].closed
        /\ \A u \in HBTxChans : InUse(u) => ChanOf(u) # y
        /\ \A j \in DOMAIN hbtxPool : y = hbtxPool[j] => i = j
    BY <2>1 DEF OneUser
  <2>3. y # x
    BY <2>2
  <2>4. \A u \in HBTxChans : InUse(u)' => ChanOf(u)' # y
    BY <1>3, <2>2
  <2> QED BY <2>1, <2>2, <2>3, <2>4
<1>8. ASSUME NEW i \in DOMAIN hbtxPool'
      PROVE  \E y \in HBTxChans :
               /\ y = hbtxPool'[i]
               /\ HBTxMade(y)' /\ ~hbtx'[y].closed
               /\ \A u \in HBTxChans : InUse(u)' => ChanOf(u)' # y
               /\ \A j \in DOMAIN hbtxPool' : y = hbtxPool'[j] => i = j
  <2>1. CASE hbtxPool' = hbtxPool
    BY <1>7, <2>1
  <2>2. CASE Appended(hbtxPool, hbtxPool', x) /\ hbtx' = hbtx
    <3>1. /\ \A j \in DOMAIN hbtxPool' : j \in DOMAIN hbtxPool \/ j = Len(hbtxPool) + 1
          /\ \A j \in DOMAIN hbtxPool : hbtxPool'[j] = hbtxPool[j]
          /\ hbtxPool'[Len(hbtxPool) + 1] = x
      BY <1>6, <2>2 DEF Appended
    <3>2. CASE i \in DOMAIN hbtxPool
      <4>1. PICK y \in HBTxChans :
               /\ y = hbtxPool[i] /\ y # x
               /\ HBTxMade(y)' /\ ~hbtx'[y].closed
               /\ \A u \in HBTxChans : InUse(u)' => ChanOf(u)' # y
               /\ \A j \in DOMAIN hbtxPool : y = hbtxPool[j] => i = j
        BY <1>7, <3>2
      <4>2. \A j \in DOMAIN hbtxPool' : y = hbtxPool'[j] => i = j
        BY <3>1, <4>1
      <4> QED BY <3>1, <3>2, <4>1, <4>2
    <3>3. CASE i = Len(hbtxPool) + 1
      <4>1. x = hbtxPool'[i] /\ HBTxMade(x)' /\ ~hbtx'[x].closed
        BY <1>2, <2>2, <3>1, <3>3
      <4>2. \A u \in HBTxChans : InUse(u)' => ChanOf(u)' # x
        BY <1>3
      <4>3. \A j \in DOMAIN hbtxPool : hbtxPool[j] # x
        BY <1>7
      <4>4. \A j \in DOMAIN hbtxPool' : x = hbtxPool'[j] => i = j
        BY <3>1, <3>3, <4>3
      <4> QED BY <4>1, <4>2, <4>4
    <3> QED BY <3>1, <3>2, <3>3
  <2> QED BY <2>1, <2>2
<1>9. ASSUME NEW i \in DOMAIN hbtxPool'
      PROVE  /\ HBTxMade(hbtxPool[i])'
             /\ ~hbtx'[hbtxPool'[i]].closed
             /\ \A u \in HBTxChans : InUse(u)' => ChanOf(u)' # hbtxPool'[i]
             /\ \A j \in DOMAIN hbtxPool' : hbtxPool'[i] = hbtxPool'[j] => i = j
  <2>1. PICK y \in HBTxChans :
               /\ y = hbtxPool'[i]
               /\ HBTxMade(y)' /\ ~hbtx'[y].closed
               /\ \A u \in HBTxChans : InUse(u)' => ChanOf(u)' # y
               /\ \A j \in DOMAIN hbtxPool' : y = hbtxPool'[j] => i = j
    BY <1>8
  <2>2. HBTxMade(hbtxPool[i])'
    BY <2>1 DEF HBTxMade
  <2> QED BY <2>1, <2>2
<1>10. \A y \in HBTxChans : ~HBTxMade(y)' => ~hbtx'[y].closed
  <2>1. HBTxMade(x)
    BY <1>2
  <2> QED BY <2>1 DEF OneUser
<1>11. \A c \in Calls : Active(c)' => ~hbtx'[chOut'[c]].closed
  <2> SUFFICES ASSUME NEW c \in Calls, Active(c)' PROVE ~hbtx'[chOut'[c]].closed
    OBVIOUS
  <2>1. PICK u \in HBTxChans : u = <<c, "out">>
    BY ChanNames
  <2>2. InUse(u)' /\ ChanOf(u)' = chOut'[c] /\ (InUse(u) <=> Active(c)) /\ ChanOf(u) = chOut[c]
    BY <2>1 DEF InUse, ChanOf
  <2>3. Active(c) /\ chOut'[c] = chOut[c] /\ chOut[c] \in HBTxChans /\ chOut[c] # x
    BY <1>2, <1>3, <2>2
  <2> QED BY <2>3 DEF OneUser
<1> QED BY <1>4, <1>5, <1>9, <1>10, <1>11 DEF OneUser

\* getRange hands chOut back when all of it has been received.
LEMMA ReturnClean ==
  ASSUME TypeInv, TypeInv', CleanInv, ~SomeFailed', NEW c \in Calls, Return(c)
  PROVE  CleanInv' /\ Elsewhere(c)
<1> DEFINE x == chOut[c]
<1>1. TypeOK /\ PhaseOK(c) /\ QueuesOK(c) /\ OneUser /\ RespInv
  BY DEF TypeInv, CleanInv
<1>2. /\ gpc[c] = "return" /\ gpc'[c] = "ok" /\ HBTxPut(x)
      /\ UNCHANGED <<resp, respPool, chIn, chOut, ppc, next, held, wpc, job, cur, out>>
      /\ \A d \in Calls : d # c => gpc'[d] = gpc[d]
  BY <1>1 DEF Return, TypeOK, pvars, wvars, SomeFailed
<1>3. Started(c) /\ Started(c)' /\ Active(c) /\ ~Active(c)'
  BY <1>2 DEF Started, Active
<1>4. x \in HBTxChans /\ chIn[c] \in HBTxChans /\ ~hbtx[x].closed
  BY <1>1, <1>2, <1>3 DEF PhaseOK, OneUser
<1> HIDE DEF x
<1>5. /\ \A y \in HBTxChans : hbtx'[y].queue = hbtx[y].queue
      /\ \A y \in HBTxChans : y # x => hbtx'[y].closed = hbtx[y].closed
      /\ \/ Appended(hbtxPool, hbtxPool', x) /\ hbtx' = hbtx
         \/ hbtxPool' = hbtxPool
  BY <1>2, <1>4, HBTxPutIs
<1>6. Elsewhere(c)
  <2>1. \A d \in Calls : d # c => LocalSame(d)
    BY <1>2 DEF LocalSame
  <2> QED BY <1>1, <1>3, <1>4, <1>5, <2>1, ElsewhereUsed DEF x
<1>7. OneUser'
  <2>1. PICK v \in HBTxChans : v = <<c, "out">>
    BY ChanNames
  <2>2. InUse(v) /\ ChanOf(v) = x /\ ~InUse(v)'
    BY <1>3, <2>1 DEF InUse, ChanOf, x
  <2>3. \A d \in Calls : Started(d)' <=> Started(d)
    BY <1>2, <1>3 DEF Started
  <2>4. ASSUME NEW u \in HBTxChans
        PROVE  /\ u # v => (InUse(u)' <=> InUse(u))
               /\ ChanOf(u)' = ChanOf(u)
               /\ HBTxMade(u)' <=> HBTxMade(u)
    <3>1. u[1] \in Calls /\ (u = <<u[1], "in">> \/ u = <<u[1], "out">>)
      BY ChanNames
    <3>2. u # v /\ u[2] # "in" => u[1] # c
      BY <2>1, <3>1
    <3>3. u[1] # c => (Active(u[1])' <=> Active(u[1]))
      BY <1>2, <3>1 DEF Started, Active
    <3>4. gpc'[u[1]] = "start" <=> gpc[u[1]] = "start"
      BY <1>2, <3>1
    <3> QED BY <1>2, <2>3, <3>1, <3>2, <3>3, <3>4 DEF InUse, ChanOf, HBTxMade
  <2> QED BY <1>1, <1>4, <1>5, <2>2, <2>4, UserGone
<1>8. InQ(c)' = InQ(c)
  BY <1>2, <1>4, <1>5 DEF InQ
<1>9. QueuesOK(c)'
  <2>1. InOrdered(c)'
    BY <1>1, <1>2, <1>8 DEF QueuesOK, InOrdered
  <2>2. Delivered(c)'
    BY <1>1, <1>2 DEF QueuesOK, Delivered
  <2> QED BY <1>2, <1>3, <2>1, <2>2 DEF QueuesOK
<1>10. OwnShrink(c)
  <2> SUFFICES ASSUME NEW h \in Nat, NEW ch \in RespChans
               PROVE  /\ OutClaim(c, h, ch)' => OutClaim(c, h, ch)
                      /\ InClaim(c, h, ch)' => InClaim(c, h, ch)
    BY DEF OwnShrink
  <2>1. OutClaim(c, h, ch)' => OutClaim(c, h, ch)
    BY <1>2, <1>3 DEF OutClaim
  <2>2. InClaim(c, h, ch)' => InClaim(c, h, ch)
    BY <1>2, <1>8 DEF InClaim, Writer
  <2> QED BY <2>1, <2>2
<1>11. RespInv'
  <2>1. ClaimsShrink
    BY <1>6, <1>10, ShrinkOwn
  <2>2. MadeGrows
    BY <1>2, NextGrows
  <2> QED BY <1>1, <1>2, <2>1, <2>2, SameResp
<1> QED BY <1>6, <1>7, <1>9, <1>11, OneCallMoves

-----------------------------------------------------------------------------
(* The theorems *)

\* Before the first call everything is idle and empty.
LEMMA InitPooled == Init => PooledInv
<1> SUFFICES ASSUME Init PROVE PooledInv
  OBVIOUS
<1>1. TypeOK
  <2>1. NewChan \in [queue : Seq(Messages), closed : BOOLEAN] /\ NewChan \in [queue : Seq(HBTx), closed : BOOLEAN]
    BY DEF NewChan
  <2>2. \A c \in Calls : None(c) \in HBTx
    BY EntryTypes
  <2>3. \A c \in Calls : 1 \in 1 .. Size[c] + 1
    BY PoolAssumption
  <2>4. << >> \in Seq(RespChans \cup {nil}) /\ << >> \in Seq(HBTxChans) /\ << >> \in Seq(Messages)
    OBVIOUS
  <2>5. Len(respPool) <= PoolCap /\ Len(hbtxPool) <= PoolCap
    BY PoolAssumption DEF Init
  <2>6. resp \in [RespChans -> [queue : Seq(Messages), closed : BOOLEAN]]
    BY <2>1 DEF Init
  <2>7. hbtx \in [HBTxChans -> [queue : Seq(HBTx), closed : BOOLEAN]]
    BY <2>1 DEF Init
  <2>8. job \in [Calls -> [Workers -> HBTx]] /\ cur \in [Calls -> HBTx]
    BY <2>2 DEF Init
  <2>9. next \in [Calls -> Nat] /\ \A c \in Calls : next[c] \in 1 .. Size[c] + 1
    BY <2>3 DEF Init
  <2>10. out \in [Calls -> Seq(Messages)]
    BY <2>4 DEF Init
  <2>11. respPool \in Seq(RespChans \cup {nil}) /\ hbtxPool \in Seq(HBTxChans)
    BY <2>4 DEF Init
  <2>12. /\ faulty \subseteq Calls
         /\ chIn \in [Calls -> HBTxChans \cup {nil}] /\ chOut \in [Calls -> HBTxChans \cup {nil}]
         /\ held \in [Calls -> RespChans \cup {nil}]
         /\ errored \in [Calls -> 0 .. 1] /\ errClosed \in [Calls -> BOOLEAN]
         /\ crashed \in BOOLEAN
    <3>1. faulty \subseteq Calls
      BY DEF Init
    <3>2. chIn \in [Calls -> HBTxChans \cup {nil}] /\ chOut \in [Calls -> HBTxChans \cup {nil}]
      BY DEF Init
    <3>3. held \in [Calls -> RespChans \cup {nil}]
      BY DEF Init
    <3>4. errored \in [Calls -> 0 .. 1]
      BY DEF Init
    <3>5. errClosed \in [Calls -> BOOLEAN] /\ crashed \in BOOLEAN
      BY DEF Init
    <3> QED BY <3>1, <3>2, <3>3, <3>4, <3>5
  <2>13. /\ ppc \in [Calls -> {"idle", "get", "out", "in", "last", "close", "done"}]
         /\ wpc \in [Calls -> [Workers -> {"idle", "recv", "send", "exited"}]]
         /\ gpc \in [Calls -> {"start", "getOut", "range", "inner", "return", "wait", "purge",
                               "returnErr", "ok", "failed"}]
    BY DEF Init
  <2> QED BY <2>5, <2>6, <2>7, <2>8, <2>9, <2>10, <2>11, <2>12, <2>13 DEF TypeOK
<1>2. ASSUME NEW c \in Calls PROVE PhaseOK(c)
  <2>1. None(c).ch = nil
    BY EntryTypes
  <2> QED BY <2>1 DEF Init, PhaseOK, Started
<1>3. \A c \in Calls : gpc[c] = "start" /\ ~Started(c) /\ ~Active(c)
  BY DEF Init, Started, Active
<1>4. OneUser
  <2>1. \A u \in HBTxChans : ~InUse(u) /\ ~hbtx[u].closed
    BY <1>3, ChanNames DEF InUse, Init, NewChan
  <2>2. DOMAIN hbtxPool = {}
    BY DEF Init
  <2> QED BY <1>3, <2>1, <2>2 DEF OneUser
<1>5. ASSUME NEW c \in Calls PROVE QueuesOK(c)
  BY <1>3 DEF QueuesOK, Delivered, Init
<1>6. RespInv
  <2>1. \A c \in Calls : \A h \in Nat : \A ch \in RespChans : ~Claim(c, h, ch) /\ ~InClaim(c, h, ch)
    BY <1>3 DEF Claim, OutClaim, InClaim, Writer, Init
  <2>2. \A ch \in RespChans : ~resp[ch].closed /\ Len(resp[ch].queue) = 0
    BY DEF Init, NewChan
  <2>3. Len(respPool) = 0
    BY DEF Init
  <2> QED BY <2>1, <2>2, <2>3 DEF RespInv, OneClaim, ClaimedOK, PooledOK, FreshOK
<1> QED BY <1>1, <1>2, <1>4, <1>5, <1>6 DEF PooledInv, TypeInv

\* Types and phases are kept by every step.
LEMMA StepTypes == TypeInv /\ [Next]_vars => TypeInv'
<1> SUFFICES ASSUME TypeInv, [Next]_vars PROVE TypeInv'
  OBVIOUS
<1>1. ASSUME NEW c \in Calls, Populate(c) PROVE TypeInv'
  BY <1>1, PopulateGetType, PopulateOutType, PopulateInType, PopulateLastType, PopulateCloseType DEF Populate
<1>2. ASSUME NEW c \in Calls, NEW w \in Workers, Worker(c, w) PROVE TypeInv'
  BY <1>2, WorkerRecvType, WorkerExitType, WorkerSendType DEF Worker
<1>3. ASSUME NEW c \in Calls, GetRange(c) PROVE TypeInv'
  BY <1>3, GetInType, GetOutType, RangeNextType, InnerRecvType, WaitWorkersType, PurgeEntryType,
     PurgeEndType, ReturnType DEF GetRange
<1>4. CASE UNCHANGED vars
  BY <1>4 DEF vars, TypeInv, TypeOK, PhaseOK, Started
<1> QED BY <1>1, <1>2, <1>3, <1>4 DEF Next

\* The order among the channels is kept by every step until a call returns an error.
LEMMA StepClean ==
  ASSUME TypeInv, TypeInv', CleanInv, ~SomeFailed, ~SomeFailed', [Next]_vars
  PROVE  CleanInv'
<1>1. ASSUME NEW c \in Calls, Populate(c) PROVE CleanInv'
  BY <1>1, PopulateGetClean, PopulateOutClean, PopulateInClean, PopulateLastClean, PopulateCloseClean DEF Populate
<1>2. ASSUME NEW c \in Calls, NEW w \in Workers, Worker(c, w) PROVE CleanInv'
  BY <1>2, WorkerRecvClean, WorkerExitClean, WorkerSendClean DEF Worker
<1>3. ASSUME NEW c \in Calls, GetRange(c) PROVE CleanInv'
  BY <1>3, GetInClean, GetOutClean, RangeNextClean, InnerRecvClean, WaitWorkersClean, PurgeEntryClean,
     PurgeEndClean, ReturnClean DEF GetRange
<1>4. CASE UNCHANGED vars
  <2>1. UNCHANGED <<resp, respPool, hbtx, hbtxPool, chIn, chOut, ppc, next, held, wpc, job, gpc, cur, out>>
    BY <1>4 DEF vars
  <2>2. \A c \in Calls : SameCall(c)
    BY <2>1 DEF SameCall, InQ, OutQ
  <2>3. OneUser'
    BY <2>1, SameUsersGpc DEF CleanInv
  <2>4. \A c \in Calls : QueuesOK(c)'
    BY <2>2, SameCallQueues DEF CleanInv
  <2>5. ClaimsShrink
    BY <2>2, SameCallClaims DEF ClaimsShrink
  <2>6. MadeGrows
    BY <2>1, NextGrows
  <2>7. RespInv'
    BY <2>1, <2>5, <2>6, SameResp DEF CleanInv
  <2> QED BY <2>3, <2>4, <2>7 DEF CleanInv
<1> QED BY <1>1, <1>2, <1>3, <1>4 DEF Next

\* A call that has returned an error has returned it for good.
LEMMA FailedStays == TypeInv /\ SomeFailed /\ [Next]_vars => SomeFailed'
<1> SUFFICES ASSUME TypeInv, NEW d \in Calls, gpc[d] = "failed", [Next]_vars PROVE gpc'[d] = "failed"
  BY DEF SomeFailed
<1>0. gpc \in [Calls -> {"start", "getOut", "range", "inner", "return", "wait", "purge",
                         "returnErr", "ok", "failed"}]
  BY DEF TypeInv, TypeOK
<1>1. ASSUME NEW c \in Calls, Populate(c) PROVE gpc' = gpc
  BY SMTT(30), <1>1 DEF Populate, PopulateGet, PopulateOut, PopulateIn, PopulateLast, PopulateClose, gvars
<1>2. ASSUME NEW c \in Calls, NEW w \in Workers, Worker(c, w) PROVE gpc' = gpc
  BY <1>2 DEF Worker, WorkerRecv, WorkerExit, WorkerSend, gvars
<1>3. ASSUME NEW c \in Calls, GetRange(c) PROVE gpc'[d] = "failed"
  <2>1. CASE GetIn(c) \/ GetOut(c) \/ RangeNext(c) \/ WaitWorkers(c)
    BY SMTT(30), <1>0, <2>1 DEF GetIn, GetOut, RangeNext, WaitWorkers
  <2>2. CASE InnerRecv(c)
    BY <1>0, <2>2 DEF InnerRecv
  <2>3. CASE PurgeEntry(c) \/ PurgeEnd(c) \/ Return(c)
    BY <1>0, <2>3 DEF PurgeEntry, PurgeEnd, Return, gvars
  <2> QED BY <1>3, <2>1, <2>2, <2>3 DEF GetRange
<1>4. CASE UNCHANGED vars
  BY <1>4 DEF vars
<1> QED BY <1>1, <1>2, <1>3, <1>4 DEF Next

\* The invariant the other theorems follow from: the types and the phases of the
\* calls; and, until a call returns an error, that every hBTx channel has one user
\* and every response channel one claim.
THEOREM PooledInvariance == Spec => []PooledInv
<1>1. PooledInv /\ [Next]_vars => PooledInv'
  <2> SUFFICES ASSUME PooledInv, [Next]_vars PROVE PooledInv'
    OBVIOUS
  <2>1. TypeInv /\ TypeInv'
    BY StepTypes DEF PooledInv
  <2>2. ~SomeFailed' => CleanInv'
    <3> SUFFICES ASSUME ~SomeFailed' PROVE CleanInv'
      OBVIOUS
    <3>1. ~SomeFailed
      BY <2>1, FailedStays
    <3>2. CleanInv
      BY <3>1 DEF PooledInv, CleanInv
    <3> QED BY <2>1, <3>1, <3>2, StepClean
  <2> QED BY <2>1, <2>2 DEF PooledInv, CleanInv
<1> QED BY <1>1, InitPooled, PTL DEF Spec

\* Channels, pools and the places of all goroutines keep their types; a pool never
\* holds more than it has room for, and errored never more than one token.
THEOREM PoolTypeCorrect == Spec => []TypeOK
<1>1. PooledInv => TypeOK
  BY DEF PooledInv, TypeInv
<1> QED BY <1>1, PooledInvariance, PTL

\* getRange: until a call returns an error a call puts its own heights on out, in
\* order and each once, and returns without an error only after the last of them,
\* for any number of calls that pass channels to each other through the pools.
THEOREM DeliversOwn == Spec => []DeliversOwnRange
<1>1. PooledInv => DeliversOwnRange
  <2> SUFFICES ASSUME PooledInv, ~SomeFailed
               PROVE  OwnResponses /\ \A c \in Calls : gpc[c] = "ok" => Len(out[c]) = Size[c]
    BY DEF DeliversOwnRange
  <2>1. \A c \in Calls : Delivered(c) /\ out[c] \in Seq(Messages)
    BY DEF PooledInv, QueuesOK, TypeInv, TypeOK
  <2>2. ASSUME NEW c \in Calls PROVE DOMAIN out[c] = 1 .. Len(out[c])
    <3>1. out[c] \in Seq(Messages)
      BY <2>1
    <3> QED BY <3>1
  <2> QED BY <2>1, <2>2 DEF Delivered, OwnResponses
<1> QED BY <1>1, PooledInvariance, PTL

\* oRespPool and oHBTxPool: until a call returns an error the channels of the pools
\* are open, each there once and in nobody's use, response channels are empty with
\* no write to come; and what the calls use has not been closed by Put.
THEOREM IdleInPool == Spec => []PooledChannelsIdle
<1>1. PooledInv => PooledChannelsIdle
  <2> SUFFICES ASSUME PooledInv, ~SomeFailed PROVE PooledChannelsIdle
    BY DEF PooledChannelsIdle
  <2>1. TypeInv /\ TypeOK /\ OneUser /\ RespInv /\ \A c \in Calls : PhaseOK(c)
    BY DEF PooledInv, TypeInv
  <2>2. \A c \in Calls : gpc[c] \in {"range", "inner", "wait", "purge"} => ~hbtx[chOut[c]].closed
    BY <2>1 DEF OneUser, Active, Started
  <2>3. ASSUME NEW c \in Calls, cur[c].ch # nil
        PROVE  ~resp[cur[c].ch].closed /\ \E y \in RespChans, h \in Nat : y = cur[c].ch /\ Claim(c, h, y)
    <3>1. cur[c] \in HBTx /\ gpc[c] = "inner"
      BY <2>1, <2>3 DEF TypeOK, PhaseOK
    <3>2. PICK y \in RespChans, h \in Nat : y = cur[c].ch /\ h = cur[c].height
      BY <2>3, <3>1 DEF HBTx
    <3>3. Claim(c, h, y)
      BY <3>1, <3>2 DEF Claim, OutClaim
    <3> QED BY <2>1, <3>2, <3>3 DEF RespInv, ClaimedOK
  <2>4. ASSUME NEW c \in Calls, NEW w \in Workers, job[c][w].ch # nil
        PROVE  ~resp[job[c][w].ch].closed
    <3>1. job[c][w] \in HBTx /\ wpc[c][w] = "send"
      BY <2>1, <2>4 DEF TypeOK, PhaseOK
    <3>2. PICK y \in RespChans, h \in Nat : y = job[c][w].ch /\ h = job[c][w].height
      BY <2>4, <3>1 DEF HBTx
    <3>3. Claim(c, h, y)
      BY <3>1, <3>2 DEF Claim, InClaim
    <3> QED BY <2>1, <3>2, <3>3 DEF RespInv, ClaimedOK
  <2>5. \A i \in DOMAIN hbtxPool : /\ ~hbtx[hbtxPool[i]].closed
                                   /\ \A j \in DOMAIN hbtxPool : hbtxPool[i] = hbtxPool[j] => i = j
    BY <2>1 DEF OneUser
  <2>6. ASSUME NEW ch \in RespChans, PendingWrite(ch)
        PROVE  \E c \in Calls, h \in Nat : Claim(c, h, ch)
    <3>1. CASE \E c \in Calls, w \in Workers : wpc[c][w] = "send" /\ job[c][w].ch = ch
      <4>1. PICK c \in Calls, w \in Workers : wpc[c][w] = "send" /\ job[c][w].ch = ch
        BY <3>1
      <4>2. job[c][w] \in HBTx
        BY <2>1 DEF TypeOK
      <4>3. PICK h \in Nat : h = job[c][w].height
        BY <4>2 DEF HBTx
      <4>4. Claim(c, h, ch)
        BY <4>1, <4>3 DEF Claim, InClaim
      <4> QED BY <4>4
    <3>2. CASE \E c \in Calls, w \in Workers :
                 /\ wpc[c][w] \in {"recv", "send"}
                 /\ ppc[c] \in {"out", "in"} /\ held[c] = ch
      <4>1. PICK c \in Calls, w \in Workers :
                 /\ wpc[c][w] \in {"recv", "send"}
                 /\ ppc[c] \in {"out", "in"} /\ held[c] = ch
        BY <3>2
      <4>2. next[c] \in Nat
        BY <2>1 DEF TypeOK
      <4>3. Claim(c, next[c], ch)
        BY <4>1 DEF Claim, InClaim, Writer
      <4> QED BY <4>2, <4>3
    <3>3. CASE \E c \in Calls, w \in Workers :
                 /\ wpc[c][w] \in {"recv", "send"}
                 /\ \E i \in DOMAIN InQ(c) : InQ(c)[i].ch = ch
      <4>1. PICK c \in Calls, w \in Workers :
                 /\ wpc[c][w] \in {"recv", "send"}
                 /\ \E i \in DOMAIN InQ(c) : InQ(c)[i].ch = ch
        BY <3>3
      <4>2. gpc[c] # "start"
        BY <2>1, <4>1 DEF PhaseOK, Started
      <4>3. InQ(c) \in Seq(HBTx) /\ DOMAIN InQ(c) = 1 .. Len(InQ(c))
        BY <2>1, <4>2, QueueTypes
      <4>4. PICK i \in 1 .. Len(InQ(c)) : InQ(c)[i].ch = ch
        BY <4>1, <4>3
      <4>5. PICK h \in Nat : h = InQ(c)[i].height
        BY <4>3, QueueElems
      <4>6. Claim(c, h, ch)
        BY <4>1, <4>4, <4>5 DEF Claim, InClaim, Writer
      <4> QED BY <4>6
    <3> QED BY <2>6, <3>1, <3>2, <3>3 DEF PendingWrite, InQ
  <2>7. ASSUME NEW i \in DOMAIN respPool, respPool[i] # nil
        PROVE  /\ resp[respPool[i]] = NewChan
               /\ ~PendingWrite(respPool[i])
               /\ \A c \in Calls : cur[c].ch # respPool[i]
               /\ \A j \in DOMAIN respPool : respPool[i] = respPool[j] => i = j
    <3>1. DOMAIN respPool = 1 .. Len(respPool) /\ respPool[i] \in RespChans \cup {nil}
      BY <2>1 DEF TypeOK
    <3>2. PICK y \in RespChans : y = respPool[i]
      BY <2>7, <3>1
    <3>3. /\ ~resp[y].closed /\ Len(resp[y].queue) = 0
          /\ \A c \in Calls, h \in Nat : ~Claim(c, h, y)
          /\ \A j \in DOMAIN respPool : y = respPool[j] => i = j
      BY <2>1, <2>7, <3>1, <3>2 DEF RespInv, PooledOK
    <3>4. resp[y] = NewChan
      <4>1. resp[y] \in [queue : Seq(Messages), closed : BOOLEAN]
        BY <2>1 DEF TypeOK
      <4>2. resp[y].queue = << >> /\ resp[y].closed = FALSE
        BY <3>3, <4>1
      <4> QED BY <4>1, <4>2 DEF NewChan
    <3>5. ~PendingWrite(y)
      BY <2>6, <3>3
    <3>6. \A c \in Calls : cur[c].ch # y
      BY <2>3, <3>2, <3>3, NilNoChan
    <3> QED BY <3>2, <3>3, <3>4, <3>5, <3>6
  <2> QED BY <2>2, <2>3, <2>4, <2>5, <2>7 DEF PooledChannelsIdle
<1> QED BY <1>1, PooledInvariance, PTL

-----------------------------------------------------------------------------
(***************************************************************************)
(* Calls none of whose fetches fails: no goroutine of theirs waits for     *)
(* something that does not come.                                           *)
(***************************************************************************)

\* no nil channel is in use, and workers end only after populateRange has closed
\* an emptied chIn
Flowing(c) ==
  /\ gpc[c] \notin {"wait", "purge", "returnErr", "failed"}
  /\ ppc[c] \in {"out", "in"} => held[c] # nil
  /\ Active(c) => \A i \in 1 .. Len(OutQ(c)) : ~OutQ(c)[i].last => OutQ(c)[i].ch # nil
  /\ gpc[c] # "start" => \A i \in 1 .. Len(InQ(c)) : InQ(c)[i].ch # nil
  /\ gpc[c] = "inner" => cur[c].ch # nil
  /\ \A w \in Workers : wpc[c][w] = "send" => job[c][w].ch # nil
  /\ \A w \in Workers : wpc[c][w] = "exited" => ppc[c] = "done" /\ Len(InQ(c)) = 0

InClosed(c) == gpc[c] # "start" => (hbtx[chIn[c]].closed <=> ppc[c] = "done")

\* what getRange is to read has been written, or there is a worker who will write it
Backed(c) ==
  \A h \in Nat : \A ch \in RespChans :
    OutClaim(c, h, ch) => Len(resp[ch].queue) > 0 \/ InClaim(c, h, ch)

NoErrors ==
  /\ ~crashed
  /\ \A ch \in RespChans : \A i \in 1 .. Len(resp[ch].queue) : resp[ch].queue[i].type = "Block"
  /\ \A i \in 1 .. Len(respPool) : respPool[i] # nil

FlowInv == NoErrors /\ \A c \in Calls : Flowing(c) /\ InClosed(c) /\ Backed(c)

\* No call returns an error.
LEMMA FlowNotFailed == FlowInv => ~SomeFailed
BY DEF FlowInv, Flowing, SomeFailed

\* As long as a range is not fetched there is a worker for it.
LEMMA SomeWriter ==
  ASSUME TypeInv, FlowInv, NEW c \in Calls, Started(c), ppc[c] # "done" \/ Len(InQ(c)) # 0
  PROVE  Writer(c) /\ \A w \in Workers : wpc[c][w] \in {"recv", "send"}
<1>1. \A w \in Workers : wpc[c][w] \in {"idle", "recv", "send", "exited"}
  BY DEF TypeInv, TypeOK
<1>2. \A w \in Workers : wpc[c][w] # "idle" /\ wpc[c][w] # "exited"
  BY DEF TypeInv, PhaseOK, FlowInv, Flowing
<1> QED BY <1>1, <1>2, PoolAssumption DEF Writer

\* Where getRange is as long as populateRange is not through.
LEMMA FlowActive ==
  ASSUME TypeInv, CleanInv, FlowInv, NEW c \in Calls, ppc[c] \in {"get", "out", "in", "last"}
  PROVE  /\ Active(c) /\ Started(c) /\ gpc[c] \in {"range", "inner"}
         /\ chOut[c] \in HBTxChans /\ ~hbtx[chOut[c]].closed
         /\ chIn[c] \in HBTxChans /\ gpc[c] # "start" /\ chIn[c] # chOut[c]
         /\ ~hbtx[chIn[c]].closed
         /\ ~TakeErr(c)
         /\ Writer(c)
<1>1. /\ Active(c) /\ Started(c) /\ gpc[c] # "return"
      /\ chOut[c] \in HBTxChans /\ ~hbtx[chOut[c]].closed
      /\ chIn[c] \in HBTxChans /\ gpc[c] # "start" /\ chIn[c] # chOut[c]
      /\ TakeErr(c) => gpc[c] \notin {"range", "inner"}
  BY FlowNotFailed, PopulateActive
<1>2. gpc[c] \in {"start", "getOut", "range", "inner", "return", "wait", "purge", "returnErr", "ok", "failed"}
  BY DEF TypeInv, TypeOK
<1>3. gpc[c] \in {"range", "inner"}
  BY <1>1, <1>2 DEF FlowInv, Flowing, Active, Started
<1>4. ~hbtx[chIn[c]].closed
  BY <1>1 DEF FlowInv, InClosed
<1>5. Writer(c)
  BY <1>1, SomeWriter
<1> QED BY <1>1, <1>3, <1>4, <1>5

\* The calls that do not move go on as before: their channels are their own.
LEMMA FlowElsewhere ==
  ASSUME TypeInv, FlowInv, NEW c \in Calls, Elsewhere(c),
         \A d \in Calls : d # c /\ gpc[d] # "start" => hbtx'[chIn'[d]].closed = hbtx[chIn[d]].closed,
         \A d \in Calls : \A h \in Nat : \A ch \in RespChans :
           d # c /\ OutClaim(d, h, ch) /\ Len(resp[ch].queue) > 0 => Len(resp'[ch].queue) > 0,
         NoErrors', Flowing(c)', InClosed(c)', Backed(c)'
  PROVE  FlowInv'
<1> SUFFICES ASSUME NEW d \in Calls, d # c PROVE Flowing(d)' /\ InClosed(d)' /\ Backed(d)'
  BY DEF FlowInv
<1>1. SameCall(d) /\ Flowing(d) /\ InClosed(d) /\ Backed(d)
  BY DEF Elsewhere, FlowInv
<1>2. Active(d)' <=> Active(d)
  BY <1>1 DEF SameCall, Active, Started
<1>3. \A w \in Workers : wpc[d][w] = "exited" => gpc[d] # "start"
  BY DEF TypeInv, PhaseOK, Started
<1>4. Flowing(d)'
  BY SMTT(30), <1>1, <1>2, <1>3 DEF Flowing, SameCall
<1>5. InClosed(d)'
  BY <1>1 DEF InClosed, SameCall
<1>6. Backed(d)'
  <2> SUFFICES ASSUME NEW h \in Nat, NEW ch \in RespChans, OutClaim(d, h, ch)'
               PROVE  Len(resp'[ch].queue) > 0 \/ InClaim(d, h, ch)'
    BY DEF Backed
  <2>1. OutClaim(d, h, ch) /\ (InClaim(d, h, ch)' <=> InClaim(d, h, ch))
    BY <1>1, SameCallClaims
  <2>2. Len(resp[ch].queue) > 0 \/ InClaim(d, h, ch)
    BY <1>1, <2>1 DEF Backed
  <2> QED BY <2>1, <2>2
<1> QED BY <1>4, <1>5, <1>6

\* The same of a step that leaves the response channels and their pool alone.
LEMMA FlowSameResp ==
  ASSUME TypeInv, FlowInv, NEW c \in Calls, Elsewhere(c), UNCHANGED <<resp, respPool>>, ~crashed',
         \A d \in Calls : d # c /\ gpc[d] # "start" => hbtx'[chIn'[d]].closed = hbtx[chIn[d]].closed,
         Flowing(c)', InClosed(c)',
         \A h \in Nat : \A ch \in RespChans :
           /\ OutClaim(c, h, ch)' => OutClaim(c, h, ch)
           /\ OutClaim(c, h, ch)' /\ InClaim(c, h, ch) => InClaim(c, h, ch)'
  PROVE  FlowInv'
<1>1. NoErrors'
  BY DEF FlowInv, NoErrors
<1>2. Backed(c)'
  BY DEF FlowInv, Backed
<1> QED BY <1>1, <1>2, FlowElsewhere

-----------------------------------------------------------------------------
(* Steps without an error, action by action *)

\* populateRange sends to chOut, which has a place for the height in order.
LEMMA PopulateOutFlow ==
  ASSUME TypeInv, TypeInv', CleanInv, FlowInv, NEW c \in Calls, PopulateOut(c)
  PROVE  FlowInv'
<1> DEFINE x == chOut[c]
           e == Entry(c, next[c], held[c])
<1>1. TypeOK /\ Flowing(c) /\ InClosed(c) /\ Elsewhere(c)
  BY FlowNotFailed, PopulateOutClean DEF TypeInv, FlowInv
<1>2. /\ Active(c) /\ Started(c) /\ ppc[c] = "out"
      /\ x \in HBTxChans /\ ~hbtx[x].closed
      /\ chIn[c] \in HBTxChans /\ gpc[c] # "start" /\ chIn[c] # x
      /\ ~TakeErr(c) /\ Writer(c)
  BY FlowActive DEF PopulateOut
<1>3. e \in HBTx /\ e.height = next[c] /\ e.ch = held[c] /\ e.last = FALSE /\ held[c] # nil
  <2>1. held[c] \in RespChans \cup {nil} /\ next[c] \in Nat
    BY <1>1 DEF TypeOK
  <2> QED BY <1>1, <1>2, <2>1, EntryTypes DEF Entry, Flowing
<1>4. SendHBTx(x, e) /\ ppc'[c] = "in"
      /\ UNCHANGED <<resp, respPool, chIn, chOut, next, held, wpc, job, gpc, cur, out>>
  BY <1>1, <1>2 DEF PopulateOut, TypeOK, wvars, gvars
<1>5. /\ \A y \in HBTxChans : hbtx'[y].closed = hbtx[y].closed
      /\ \A y \in HBTxChans : y # x => hbtx'[y] = hbtx[y]
      /\ Appended(hbtx[x].queue, hbtx'[x].queue, e)
      /\ ~crashed'
  <2> HIDE DEF x, e
  <2>1. ~crashed'
    BY <1>2, <1>4 DEF SendHBTx
  <2> QED BY <1>1, <1>2, <1>3, <1>4, <2>1, SendIs
<1>6. InQ(c)' = InQ(c) /\ Appended(OutQ(c), OutQ(c)', e)
  BY <1>2, <1>4, <1>5 DEF InQ, OutQ
<1> HIDE DEF x, e
<1>7. Len(OutQ(c)) \in Nat /\ \A d \in Calls : gpc[d] # "start" => chIn[d] \in HBTxChans
  BY <1>2, QueueTypes DEF TypeInv, PhaseOK
<1>8. /\ Len(OutQ(c)') = Len(OutQ(c)) + 1
      /\ \A i \in 1 .. Len(OutQ(c)') : \/ i \in 1 .. Len(OutQ(c)) /\ OutQ(c)'[i] = OutQ(c)[i]
                                       \/ OutQ(c)'[i] = e
  BY <1>6, <1>7 DEF Appended
<1>9. Active(c)' /\ Writer(c)'
  BY <1>2, <1>4 DEF Active, Started, Writer
<1>10. Flowing(c)'
  BY SMTT(30), <1>1, <1>2, <1>3, <1>4, <1>6, <1>8, <1>9 DEF Flowing
<1>11. InClosed(c)'
  BY <1>1, <1>2, <1>4, <1>5 DEF InClosed
<1>12. ASSUME NEW h \in Nat, NEW ch \in RespChans
       PROVE  /\ OutClaim(c, h, ch)' => OutClaim(c, h, ch)
              /\ InClaim(c, h, ch) => InClaim(c, h, ch)'
  <2>1. OutClaim(c, h, ch)' => OutClaim(c, h, ch)
    BY <1>2, <1>3, <1>4, <1>8 DEF OutClaim
  <2>2. InClaim(c, h, ch) => InClaim(c, h, ch)'
    BY <1>4, <1>6, <1>9 DEF InClaim
  <2> QED BY <2>1, <2>2
<1> QED BY <1>1, <1>4, <1>5, <1>7, <1>10, <1>11, <1>12, FlowSameResp

\* populateRange sends to chIn, which it has not closed.
LEMMA PopulateInFlow ==
  ASSUME TypeInv, TypeInv', CleanInv, FlowInv, NEW c \in Calls, PopulateIn(c)
  PROVE  FlowInv'
<1> DEFINE x == chIn[c]
           e == Entry(c, next[c], held[c])
<1>1. TypeOK /\ Flowing(c) /\ InClosed(c) /\ Elsewhere(c)
  BY FlowNotFailed, PopulateInClean DEF TypeInv, FlowInv
<1>2. /\ Active(c) /\ Started(c) /\ ppc[c] = "in"
      /\ x \in HBTxChans /\ ~hbtx[x].closed
      /\ chOut[c] \in HBTxChans /\ gpc[c] # "start" /\ chOut[c] # x
      /\ ~TakeErr(c) /\ Writer(c)
  BY FlowActive DEF PopulateIn
<1>3. e \in HBTx /\ e.height = next[c] /\ e.ch = held[c] /\ e.last = FALSE /\ held[c] # nil
  <2>1. held[c] \in RespChans \cup {nil} /\ next[c] \in Nat
    BY <1>1 DEF TypeOK
  <2> QED BY <1>1, <1>2, <2>1, EntryTypes DEF Entry, Flowing
<1>4. SendHBTx(x, e) /\ ppc'[c] \in {"last", "get"}
      /\ UNCHANGED <<resp, respPool, chIn, chOut, wpc, job, gpc, cur, out>>
  BY <1>1, <1>2 DEF PopulateIn, TypeOK, wvars, gvars
<1>5. /\ \A y \in HBTxChans : hbtx'[y].closed = hbtx[y].closed
      /\ \A y \in HBTxChans : y # x => hbtx'[y] = hbtx[y]
      /\ Appended(hbtx[x].queue, hbtx'[x].queue, e)
      /\ ~crashed'
  <2> HIDE DEF x, e
  <2>1. ~crashed'
    BY <1>2, <1>4 DEF SendHBTx
  <2> QED BY <1>1, <1>2, <1>3, <1>4, <2>1, SendIs
<1>6. OutQ(c)' = OutQ(c) /\ Appended(InQ(c), InQ(c)', e)
  BY <1>2, <1>4, <1>5 DEF InQ, OutQ
<1> HIDE DEF x, e
<1>7. Len(InQ(c)) \in Nat /\ \A d \in Calls : gpc[d] # "start" => chIn[d] \in HBTxChans
  BY <1>2, QueueTypes DEF TypeInv, PhaseOK
<1>8. /\ Len(InQ(c)') = Len(InQ(c)) + 1
      /\ \A i \in 1 .. Len(InQ(c)') : \/ i \in 1 .. Len(InQ(c)) /\ InQ(c)'[i] = InQ(c)[i]
                                      \/ InQ(c)'[i] = e
      /\ \A i \in 1 .. Len(InQ(c)) : i \in 1 .. Len(InQ(c)') /\ InQ(c)'[i] = InQ(c)[i]
      /\ Len(InQ(c)) + 1 \in 1 .. Len(InQ(c)') /\ InQ(c)'[Len(InQ(c)) + 1] = e
  BY <1>6, <1>7 DEF Appended
<1>9. Active(c)' /\ Writer(c)' /\ \A w \in Workers : wpc'[c][w] # "exited"
  BY <1>1, <1>2, <1>4 DEF Active, Started, Writer, Flowing
<1>10. Flowing(c)'
  BY SMTT(30), <1>1, <1>2, <1>3, <1>4, <1>6, <1>8, <1>9 DEF Flowing
<1>11. InClosed(c)'
  BY <1>1, <1>2, <1>4, <1>5 DEF InClosed, x
<1>12. ASSUME NEW h \in Nat, NEW ch \in RespChans
       PROVE  /\ OutClaim(c, h, ch)' => OutClaim(c, h, ch)
              /\ InClaim(c, h, ch) => InClaim(c, h, ch)'
  <2>1. OutClaim(c, h, ch)' => OutClaim(c, h, ch)
    BY <1>2, <1>4, <1>6, <1>9 DEF OutClaim
  <2>2. InClaim(c, h, ch) => InClaim(c, h, ch)'
    <3>1. CASE held[c] = ch /\ next[c] = h
      BY <1>3, <1>8, <1>9, <3>1 DEF InClaim
    <3>2. CASE \E i \in 1 .. Len(InQ(c)) : InQ(c)[i].ch = ch /\ InQ(c)[i].height = h
      BY <1>8, <1>9, <3>2 DEF InClaim
    <3>3. CASE \E w \in Workers : wpc[c][w] = "send" /\ job[c][w].ch = ch /\ job[c][w].height = h
      BY <1>4, <3>3 DEF InClaim
    <3> QED BY <3>1, <3>2, <3>3 DEF InClaim
  <2> QED BY <2>1, <2>2
<1> QED BY <1>1, <1>4, <1>5, <1>7, <1>10, <1>11, <1>12, FlowSameResp

\* populateRange sends the end marker.
LEMMA PopulateLastFlow ==
  ASSUME TypeInv, TypeInv', CleanInv, FlowInv, NEW c \in Calls, PopulateLast(c)
  PROVE  FlowInv'
<1> DEFINE x == chOut[c]
           e == LastEntry(c)
<1>1. TypeOK /\ Flowing(c) /\ InClosed(c) /\ Elsewhere(c)
  BY FlowNotFailed, PopulateLastClean DEF TypeInv, FlowInv
<1>2. /\ Active(c) /\ Started(c) /\ ppc[c] = "last"
      /\ x \in HBTxChans /\ ~hbtx[x].closed
      /\ chIn[c] \in HBTxChans /\ gpc[c] # "start" /\ chIn[c] # x
      /\ ~TakeErr(c) /\ Writer(c)
  BY FlowActive DEF PopulateLast
<1>3. e \in HBTx /\ e.ch = nil /\ e.last
  BY EntryTypes
<1>4. SendHBTx(x, e) /\ ppc'[c] = "close"
      /\ UNCHANGED <<resp, respPool, chIn, chOut, next, held, wpc, job, gpc, cur, out>>
  BY <1>1, <1>2 DEF PopulateLast, TypeOK, wvars, gvars
<1>5. /\ \A y \in HBTxChans : hbtx'[y].closed = hbtx[y].closed
      /\ \A y \in HBTxChans : y # x => hbtx'[y] = hbtx[y]
      /\ Appended(hbtx[x].queue, hbtx'[x].queue, e)
      /\ ~crashed'
  <2> HIDE DEF x, e
  <2>1. ~crashed'
    BY <1>2, <1>4 DEF SendHBTx
  <2> QED BY <1>1, <1>2, <1>3, <1>4, <2>1, SendIs
<1>6. InQ(c)' = InQ(c) /\ Appended(OutQ(c), OutQ(c)', e)
  BY <1>2, <1>4, <1>5 DEF InQ, OutQ
<1> HIDE DEF x, e
<1>7. Len(OutQ(c)) \in Nat /\ \A d \in Calls : gpc[d] # "start" => chIn[d] \in HBTxChans
  BY <1>2, QueueTypes DEF TypeInv, PhaseOK
<1>8. /\ Len(OutQ(c)') = Len(OutQ(c)) + 1
      /\ \A i \in 1 .. Len(OutQ(c)') : \/ i \in 1 .. Len(OutQ(c)) /\ OutQ(c)'[i] = OutQ(c)[i]
                                       \/ OutQ(c)'[i] = e
  BY <1>6, <1>7 DEF Appended
<1>9. Active(c)' /\ Writer(c)'
  BY <1>2, <1>4 DEF Active, Started, Writer
<1>10. Flowing(c)'
  BY SMTT(30), <1>1, <1>2, <1>3, <1>4, <1>6, <1>8, <1>9 DEF Flowing
<1>11. InClosed(c)'
  BY <1>1, <1>2, <1>4, <1>5 DEF InClosed
<1>12. ASSUME NEW h \in Nat, NEW ch \in RespChans
       PROVE  /\ OutClaim(c, h, ch)' => OutClaim(c, h, ch)
              /\ InClaim(c, h, ch) => InClaim(c, h, ch)'
  <2>1. OutClaim(c, h, ch)' => OutClaim(c, h, ch)
    BY <1>2, <1>3, <1>4, <1>8, NilNoChan DEF OutClaim
  <2>2. InClaim(c, h, ch) => InClaim(c, h, ch)'
    BY <1>2, <1>4, <1>6, <1>9 DEF InClaim
  <2> QED BY <2>1, <2>2
<1> QED BY <1>1, <1>4, <1>5, <1>7, <1>10, <1>11, <1>12, FlowSameResp

\* populateRange closes its own chIn.
LEMMA PopulateCloseFlow ==
  ASSUME TypeInv, TypeInv', CleanInv, FlowInv, NEW c \in Calls, PopulateClose(c)
  PROVE  FlowInv'
<1> DEFINE x == chIn[c]
<1>1. TypeOK /\ PhaseOK(c) /\ OneUser /\ Flowing(c) /\ Elsewhere(c)
  BY FlowNotFailed, PopulateCloseClean DEF TypeInv, FlowInv, CleanInv
<1>2. Started(c) /\ gpc[c] # "start" /\ x \in HBTxChans /\ ppc[c] = "close"
  BY <1>1 DEF PhaseOK, PopulateClose, Started
<1>3. /\ \A y \in HBTxChans : hbtx'[y].queue = hbtx[y].queue
      /\ \A y \in HBTxChans : y # x => hbtx'[y].closed = hbtx[y].closed
      /\ hbtx'[x].closed
  BY <1>1, <1>2 DEF PopulateClose, TypeOK
<1>4. /\ ppc'[c] = "done" /\ ~crashed'
      /\ UNCHANGED <<resp, respPool, chIn, chOut, next, held, wpc, job, gpc, cur, out>>
  BY <1>1 DEF PopulateClose, TypeOK, wvars, gvars, FlowInv, NoErrors
<1>5. InQ(c)' = InQ(c) /\ (Active(c) => OutQ(c)' = OutQ(c)) /\ (Active(c)' <=> Active(c))
  BY <1>1, <1>2, <1>3, <1>4 DEF InQ, OutQ, PhaseOK, Active, Started
<1>6. \A d \in Calls : d # c /\ gpc[d] # "start" => chIn[d] \in HBTxChans /\ chIn[d] # x
  BY <1>1, <1>2, Apart DEF TypeInv, PhaseOK
<1>7. Flowing(c)'
  BY SMTT(30), <1>1, <1>2, <1>4, <1>5 DEF Flowing
<1>8. InClosed(c)'
  BY <1>3, <1>4 DEF InClosed
<1>9. ASSUME NEW h \in Nat, NEW ch \in RespChans
      PROVE  /\ OutClaim(c, h, ch)' => OutClaim(c, h, ch)
             /\ InClaim(c, h, ch) => InClaim(c, h, ch)'
  BY <1>2, <1>4, <1>5 DEF OutClaim, InClaim, Writer
<1> HIDE DEF x
<1> QED BY <1>1, <1>3, <1>4, <1>6, <1>7, <1>8, <1>9, FlowSameResp

\* A worker takes over the claim of an entry of chIn.
LEMMA WorkerRecvFlow ==
  ASSUME TypeInv, TypeInv', CleanInv, FlowInv, NEW c \in Calls, NEW w \in Workers, WorkerRecv(c, w)
  PROVE  FlowInv'
<1> DEFINE x == chIn[c]
<1>1. TypeOK /\ PhaseOK(c) /\ OneUser /\ Flowing(c) /\ InClosed(c) /\ Elsewhere(c)
  BY FlowNotFailed, WorkerRecvClean DEF TypeInv, FlowInv, CleanInv
<1>2. Started(c) /\ gpc[c] \notin {"start", "getOut"} /\ x \in HBTxChans /\ wpc[c][w] = "recv"
  BY <1>1 DEF PhaseOK, WorkerRecv, Started
<1>3. /\ \A y \in HBTxChans : hbtx'[y].closed = hbtx[y].closed
      /\ \A y \in HBTxChans : y # x => hbtx'[y] = hbtx[y]
      /\ Dropped(hbtx[x].queue, hbtx'[x].queue)
      /\ Head(hbtx[x].queue) = hbtx[x].queue[1]
  <2>1. hbtx[x].queue # << >> /\ hbtx' = [hbtx EXCEPT ![x].queue = Tail(@)]
    BY DEF WorkerRecv
  <2> HIDE DEF x
  <2> QED BY <1>1, <1>2, <2>1, RecvIs
<1>4. /\ wpc'[c][w] = "send" /\ job'[c][w] = Head(hbtx[x].queue)
      /\ \A v \in Workers : v # w => wpc'[c][v] = wpc[c][v] /\ job'[c][v] = job[c][v]
      /\ UNCHANGED <<resp, respPool, chIn, chOut, ppc, next, held, gpc, cur, out>> /\ ~crashed'
  BY <1>1 DEF WorkerRecv, TypeOK, pvars, gvars, FlowInv, NoErrors
<1>5. /\ Dropped(InQ(c), InQ(c)') /\ job'[c][w] = InQ(c)[1]
      /\ Active(c) => OutQ(c)' = OutQ(c)
  <2>1. Active(c) => chOut[c] # x /\ chOut[c] \in HBTxChans
    BY <1>1, <1>2, Apart DEF PhaseOK
  <2> QED BY <1>2, <1>3, <1>4, <2>1 DEF InQ, OutQ
<1>6. \A d \in Calls : gpc[d] # "start" => chIn[d] \in HBTxChans
  BY DEF TypeInv, PhaseOK
<1> HIDE DEF x
<1>7. /\ Len(InQ(c)) \in Nat /\ Len(InQ(c)') = Len(InQ(c)) - 1 /\ Len(InQ(c)) > 0 /\ 1 \in 1 .. Len(InQ(c))
      /\ \A i \in 1 .. Len(InQ(c)') : i + 1 \in 1 .. Len(InQ(c)) /\ InQ(c)'[i] = InQ(c)[i + 1]
      /\ \A i \in 1 .. Len(InQ(c)) : i = 1 \/ (i - 1 \in 1 .. Len(InQ(c)') /\ InQ(c)'[i - 1] = InQ(c)[i])
  <2>1. Len(InQ(c)) \in Nat
    BY <1>2, QueueTypes
  <2> QED BY <1>5, <2>1 DEF Dropped
<1>8. \A v \in Workers : wpc'[c][v] # "exited"
  BY <1>1, <1>4, <1>7 DEF Flowing
<1>9. (Active(c)' <=> Active(c)) /\ Writer(c)'
  BY <1>4 DEF Active, Started, Writer
<1>10. Flowing(c)'
  BY SMTT(30), <1>1, <1>2, <1>4, <1>5, <1>7, <1>8, <1>9 DEF Flowing
<1>11. InClosed(c)'
  BY <1>1, <1>2, <1>3, <1>4 DEF InClosed, x
<1>12. ASSUME NEW h \in Nat, NEW ch \in RespChans
       PROVE  /\ OutClaim(c, h, ch)' => OutClaim(c, h, ch)
              /\ InClaim(c, h, ch) => InClaim(c, h, ch)'
  <2>1. OutClaim(c, h, ch)' => OutClaim(c, h, ch)
    BY <1>4, <1>5, <1>9 DEF OutClaim
  <2>2. InClaim(c, h, ch) => InClaim(c, h, ch)'
    <3>1. CASE ppc[c] \in {"out", "in"} /\ held[c] = ch /\ next[c] = h
      BY <1>4, <1>9, <3>1 DEF InClaim
    <3>2. CASE \E i \in 1 .. Len(InQ(c)) : InQ(c)[i].ch = ch /\ InQ(c)[i].height = h
      BY <1>4, <1>5, <1>7, <1>9, <3>2 DEF InClaim
    <3>3. CASE \E v \in Workers : wpc[c][v] = "send" /\ job[c][v].ch = ch /\ job[c][v].height = h
      <4>1. PICK v \in Workers : wpc[c][v] = "send" /\ job[c][v].ch = ch /\ job[c][v].height = h
        BY <3>3
      <4>2. wpc'[c][v] = "send" /\ job'[c][v] = job[c][v]
        BY <1>2, <1>4, <4>1
      <4> QED BY <4>1, <4>2 DEF InClaim
    <3> QED BY <3>1, <3>2, <3>3 DEF InClaim
  <2> QED BY <2>1, <2>2
<1> QED BY <1>1, <1>3, <1>4, <1>6, <1>11, <1>10, <1>12, FlowSameResp

\* A worker ends when nothing is left to write.
LEMMA WorkerExitFlow ==
  ASSUME TypeInv, TypeInv', CleanInv, FlowInv, NEW c \in Calls, NEW w \in Workers, WorkerExit(c, w)
  PROVE  FlowInv'
<1>1. TypeOK /\ PhaseOK(c) /\ Flowing(c) /\ InClosed(c) /\ Elsewhere(c)
  BY FlowNotFailed, WorkerExitClean DEF TypeInv, FlowInv
<1>2. /\ wpc[c][w] = "recv" /\ gpc[c] # "start" /\ ppc[c] = "done" /\ Len(InQ(c)) = 0
  BY <1>1 DEF PhaseOK, WorkerExit, Started, InClosed, InQ
<1>3. /\ wpc'[c][w] = "exited"
      /\ \A v \in Workers : v # w => wpc'[c][v] = wpc[c][v]
      /\ UNCHANGED <<resp, respPool, hbtx, chIn, chOut, ppc, next, held, job, gpc, cur, out>> /\ ~crashed'
  BY <1>1 DEF WorkerExit, TypeOK, pvars, gvars, FlowInv, NoErrors
<1>4. InQ(c)' = InQ(c) /\ OutQ(c)' = OutQ(c) /\ (Active(c)' <=> Active(c))
  BY <1>3 DEF InQ, OutQ, Active, Started
<1>5. Flowing(c)'
  BY SMTT(30), <1>1, <1>2, <1>3, <1>4 DEF Flowing
<1>6. InClosed(c)'
  BY <1>1, <1>3 DEF InClosed
<1>7. ASSUME NEW h \in Nat, NEW ch \in RespChans
      PROVE  /\ OutClaim(c, h, ch)' => OutClaim(c, h, ch)
             /\ InClaim(c, h, ch) => InClaim(c, h, ch)'
  <2>1. OutClaim(c, h, ch)' => OutClaim(c, h, ch)
    BY <1>3, <1>4 DEF OutClaim
  <2>2. InClaim(c, h, ch) => InClaim(c, h, ch)'
    <3> SUFFICES ASSUME InClaim(c, h, ch) PROVE InClaim(c, h, ch)'
      OBVIOUS
    <3>1. PICK v \in Workers : wpc[c][v] = "send" /\ job[c][v].ch = ch /\ job[c][v].height = h
      BY <1>2 DEF InClaim
    <3>2. wpc'[c][v] = "send" /\ job'[c][v] = job[c][v]
      BY <1>2, <1>3, <3>1
    <3> QED BY <3>1, <3>2 DEF InClaim
  <2> QED BY <2>1, <2>2
<1> QED BY <1>1, <1>3, <1>5, <1>6, <1>7, FlowSameResp

\* A worker writes what getRange waits for.
LEMMA WorkerSendFlow ==
  ASSUME TypeInv, TypeInv', CleanInv, FlowInv, faulty = {}, NEW c \in Calls, NEW w \in Workers,
         NEW outcome \in {"Block", "Error"}, WorkerSend(c, w, outcome)
  PROVE  FlowInv'
<1> DEFINE e == job[c][w]
           x == e.ch
<1>1. TypeOK /\ PhaseOK(c) /\ Flowing(c) /\ InClosed(c) /\ Backed(c) /\ NoErrors /\ Elsewhere(c)
  BY FlowNotFailed, WorkerSendClean DEF TypeInv, FlowInv
<1>2. e \in HBTx /\ x \in RespChans /\ wpc[c][w] = "send" /\ gpc[c] \notin {"start", "getOut"}
  BY SMTT(30), <1>1, NilNoChan DEF TypeOK, WorkerSend, HBTx, PhaseOK, Started
<1>3. /\ wpc'[c][w] = "recv" /\ job'[c][w] = None(c) /\ outcome = "Block"
      /\ \A v \in Workers : v # w => wpc'[c][v] = wpc[c][v] /\ job'[c][v] = job[c][v]
      /\ UNCHANGED <<respPool, hbtx, chIn, chOut, ppc, next, held, gpc, cur, out>>
  BY <1>1 DEF WorkerSend, TypeOK, pvars, gvars
<1>0. ~resp[x].closed /\ ~crashed'
  <2>1. InClaim(c, e.height, x) /\ e.height \in Nat
    BY <1>2 DEF InClaim, HBTx
  <2>2. ~resp[x].closed
    BY <1>2, <2>1 DEF CleanInv, RespInv, ClaimedOK, Claim
  <2> QED BY <2>2 DEF WorkerSend, WriteResp
<1>4. /\ \A y \in RespChans : y # x => resp'[y] = resp[y]
      /\ Appended(resp[x].queue, resp'[x].queue, Message(e, outcome))
      /\ Len(resp[x].queue) \in Nat
  <2>1. resp \in [RespChans -> [queue : Seq(Messages), closed : BOOLEAN]] /\ resp[x].queue \in Seq(Messages)
    BY <1>1, <1>2 DEF TypeOK
  <2>2. Message(e, outcome) \in Messages
    BY <1>2, EntryTypes
  <2> HIDE DEF e, x
  <2>3. PICK q : q = Append(resp[x].queue, Message(e, outcome)) /\ Appended(resp[x].queue, q, Message(e, outcome))
    BY <2>1, <2>2, QueueOps
  <2>4. resp' = [resp EXCEPT ![x].queue = q]
    BY <1>0, <2>3 DEF WorkerSend, WriteResp, x, e
  <2> QED BY <1>2, <2>1, <2>3, <2>4
<1>5. Message(e, outcome).type = "Block"
  BY <1>3 DEF Message
<1>6. InQ(c)' = InQ(c) /\ OutQ(c)' = OutQ(c) /\ (Active(c)' <=> Active(c)) /\ Writer(c)'
  BY <1>3 DEF InQ, OutQ, Active, Started, Writer
<1>7. Flowing(c)'
  BY SMTT(30), <1>1, <1>2, <1>3, <1>6 DEF Flowing
<1>8. InClosed(c)'
  BY <1>1, <1>3 DEF InClosed
<1> HIDE DEF x
<1>9. \A ch \in RespChans : Len(resp[ch].queue) > 0 \/ ch = x => Len(resp'[ch].queue) > 0
  BY <1>4 DEF Appended
<1>10. NoErrors'
  <2>1. ASSUME NEW ch \in RespChans, NEW i \in 1 .. Len(resp'[ch].queue) PROVE resp'[ch].queue[i].type = "Block"
    <3>1. CASE ch # x
      BY <1>1, <1>4, <2>1, <3>1 DEF NoErrors
    <3>2. CASE ch = x
      <4>1. i \in 1 .. Len(resp[x].queue) \/ i = Len(resp[x].queue) + 1
        BY <1>4, <2>1, <3>2 DEF Appended
      <4> HIDE DEF e
      <4> QED BY <1>1, <1>2, <1>4, <1>5, <3>2, <4>1 DEF NoErrors, Appended
    <3> QED BY <3>1, <3>2
  <2> QED BY <1>0, <1>1, <1>3, <2>1 DEF NoErrors
<1>11. Backed(c)'
  <2> SUFFICES ASSUME NEW h \in Nat, NEW ch \in RespChans, OutClaim(c, h, ch)', ch # x
               PROVE  Len(resp'[ch].queue) > 0 \/ InClaim(c, h, ch)'
    BY <1>9 DEF Backed
  <2>1. OutClaim(c, h, ch)
    BY <1>3, <1>6 DEF OutClaim
  <2>2. CASE InClaim(c, h, ch)
    <3>1. CASE ppc[c] \in {"out", "in"} /\ held[c] = ch /\ next[c] = h
      BY <1>3, <1>6, <3>1 DEF InClaim
    <3>2. CASE \E i \in 1 .. Len(InQ(c)) : InQ(c)[i].ch = ch /\ InQ(c)[i].height = h
      BY <1>6, <3>2 DEF InClaim
    <3>3. CASE \E v \in Workers : wpc[c][v] = "send" /\ job[c][v].ch = ch /\ job[c][v].height = h
      <4>1. PICK v \in Workers : wpc[c][v] = "send" /\ job[c][v].ch = ch /\ job[c][v].height = h
        BY <3>3
      <4>2. v # w
        BY <4>1 DEF x
      <4>3. wpc'[c][v] = "send" /\ job'[c][v] = job[c][v]
        BY <1>3, <4>1, <4>2
      <4> QED BY <4>1, <4>3 DEF InClaim
    <3> QED BY <2>2, <3>1, <3>2, <3>3 DEF InClaim
  <2> QED BY <1>1, <1>9, <2>1, <2>2 DEF Backed
<1> QED BY <1>1, <1>3, <1>7, <1>8, <1>9, <1>10, <1>11, FlowElsewhere

\* getRange takes the next entry, whose response it will wait for.
LEMMA RangeNextFlow ==
  ASSUME TypeInv, TypeInv', CleanInv, FlowInv, NEW c \in Calls, RangeNext(c)
  PROVE  FlowInv'
<1> DEFINE x == chOut[c]
<1>1. TypeOK /\ PhaseOK(c) /\ OneUser /\ Flowing(c) /\ InClosed(c) /\ Elsewhere(c)
  BY FlowNotFailed, RangeNextClean DEF TypeInv, FlowInv, CleanInv
<1>2. Started(c) /\ Active(c) /\ gpc[c] = "range" /\ x \in HBTxChans /\ chIn[c] \in HBTxChans /\ chIn[c] # x
  <2>1. gpc[c] = "range" /\ Started(c) /\ Active(c)
    BY DEF RangeNext, Started, Active
  <2> QED BY <1>1, <2>1, Apart DEF PhaseOK
<1>3. /\ \A y \in HBTxChans : hbtx'[y].closed = hbtx[y].closed
      /\ \A y \in HBTxChans : y # x => hbtx'[y] = hbtx[y]
      /\ Dropped(hbtx[x].queue, hbtx'[x].queue)
      /\ Head(hbtx[x].queue) = hbtx[x].queue[1]
  <2>1. hbtx[x].queue # << >> /\ hbtx' = [hbtx EXCEPT ![x].queue = Tail(@)]
    BY DEF RangeNext
  <2> HIDE DEF x
  <2> QED BY <1>1, <1>2, <2>1, RecvIs
<1>4. /\ InQ(c)' = InQ(c) /\ Dropped(OutQ(c), OutQ(c)')
      /\ UNCHANGED <<resp, respPool, chIn, chOut, ppc, next, held, wpc, job, out>> /\ ~crashed'
      /\ cur'[c] = IF OutQ(c)[1].last THEN None(c) ELSE OutQ(c)[1]
      /\ gpc'[c] = IF OutQ(c)[1].last THEN "return" ELSE "inner"
      /\ \A d \in Calls : gpc[d] # "start" => chIn[d] \in HBTxChans
  <2>1. UNCHANGED <<resp, respPool, chIn, chOut, ppc, next, held, wpc, job, out>> /\ ~crashed'
    BY DEF RangeNext, pvars, wvars, FlowInv, NoErrors
  <2>2. \A d \in Calls : gpc[d] # "start" => chIn[d] \in HBTxChans
    BY DEF TypeInv, PhaseOK
  <2> QED BY <1>1, <1>2, <1>3, <2>1, <2>2 DEF RangeNext, TypeOK, InQ, OutQ
<1> HIDE DEF x
<1>5. /\ Len(OutQ(c)') = Len(OutQ(c)) - 1 /\ 1 \in 1 .. Len(OutQ(c))
      /\ \A i \in 1 .. Len(OutQ(c)') : i + 1 \in 1 .. Len(OutQ(c)) /\ OutQ(c)'[i] = OutQ(c)[i + 1]
  <2>1. Len(OutQ(c)) \in Nat
    BY <1>2, QueueTypes
  <2> QED BY <1>4, <2>1 DEF Dropped
<1>6. Active(c)' /\ gpc'[c] \in {"return", "inner"} /\ (gpc'[c] = "inner" => ~OutQ(c)[1].last /\ cur'[c] = OutQ(c)[1])
  BY <1>4 DEF Active, Started
<1>7. Flowing(c)'
  BY SMTT(30), <1>1, <1>2, <1>4, <1>5, <1>6 DEF Flowing
<1>8. InClosed(c)'
  BY <1>1, <1>2, <1>3, <1>4 DEF InClosed
<1>9. ASSUME NEW h \in Nat, NEW ch \in RespChans
      PROVE  /\ OutClaim(c, h, ch)' => OutClaim(c, h, ch)
             /\ InClaim(c, h, ch) => InClaim(c, h, ch)'
  <2>1. OutClaim(c, h, ch)' => OutClaim(c, h, ch)
    BY <1>2, <1>4, <1>5, <1>6 DEF OutClaim
  <2>2. InClaim(c, h, ch) => InClaim(c, h, ch)'
    BY <1>4 DEF InClaim, Writer
  <2> QED BY <2>1, <2>2
<1> QED BY <1>1, <1>3, <1>4, <1>7, <1>8, <1>9, FlowSameResp

\* getRange receives a block and hands its channel back; nobody else waits for it.
LEMMA InnerRecvFlow ==
  ASSUME TypeInv, TypeInv', CleanInv, FlowInv, NEW c \in Calls, InnerRecv(c)
  PROVE  FlowInv'
<1> DEFINE x == cur[c].ch
           m == Head(resp[x].queue)
           after == [resp EXCEPT ![x].queue = Tail(@)]
<1>1. /\ TypeOK /\ PhaseOK(c) /\ QueuesOK(c) /\ RespInv
      /\ Flowing(c) /\ InClosed(c) /\ Backed(c) /\ NoErrors /\ Elsewhere(c)
  BY FlowNotFailed, InnerRecvClean DEF TypeInv, FlowInv, CleanInv
<1>2. /\ gpc[c] = "inner" /\ Started(c) /\ Active(c) /\ x # nil
      /\ cur[c] \in HBTx /\ x \in RespChans /\ cur[c].height \in Nat
  BY <1>1 DEF TypeOK, InnerRecv, HBTx, Active, Started
<1>3. PICK k \in Nat, y \in RespChans : k = cur[c].height /\ y = x /\ y # nil
  BY <1>2
<1>4. resp \in ChansOf(RespChans, Messages) /\ resp[y].queue \in Seq(Messages) /\ resp[y].queue # << >>
  BY <1>1, <1>3 DEF TypeOK, ChansOf, InnerRecv
<1>5. /\ after \in ChansOf(RespChans, Messages)
      /\ \A z \in RespChans : z # y => after[z] = resp[z]
      /\ Dropped(resp[y].queue, after[y].queue)
      /\ m.type = "Block"
  <2>1. PICK q \in Seq(Messages) : q = Tail(resp[y].queue) /\ Dropped(resp[y].queue, q)
    <3>1. Tail(resp[y].queue) \in Seq(Messages)
      BY <1>4
    <3>2. Dropped(resp[y].queue, Tail(resp[y].queue))
      BY <1>4, QueueOps
    <3> QED BY <3>1, <3>2
  <2>2. after = [resp EXCEPT ![y].queue = q]
    BY <1>3, <2>1
  <2>3. m.type = "Block"
    <3>1. m = resp[y].queue[1] /\ 1 \in 1 .. Len(resp[y].queue)
      BY <1>3, <1>4
    <3> QED BY <1>1, <3>1 DEF NoErrors
  <2> HIDE DEF after, m
  <2> QED BY <1>4, <2>1, <2>2, <2>3 DEF ChansOf
<1>6. /\ UNCHANGED <<hbtx, chIn, chOut, ppc, next, held, wpc, job>>
      /\ gpc'[c] = "range"
      /\ RespPut(y, after)
  <2>1. gpc' = [gpc EXCEPT ![c] = "range"] /\ RespPut(x, after)
    BY <1>5 DEF InnerRecv
  <2>2. UNCHANGED <<hbtx, chIn, chOut, ppc, next, held, wpc, job>>
    BY DEF InnerRecv, pvars, wvars
  <2> HIDE DEF m, after, x
  <2> QED BY <1>1, <1>3, <2>1, <2>2 DEF TypeOK
<1> HIDE DEF after, m, x
<1>7. /\ \A z \in RespChans : resp'[z].queue = after[z].queue
      /\ ~crashed'
      /\ Appended(respPool, respPool', y) \/ respPool' = respPool
  <2>1. respPool \in Seq(RespChans \cup {nil}) /\ ~crashed
    BY <1>1 DEF TypeOK, NoErrors
  <2>2. CASE respPool' = Append(respPool, y) /\ resp' = after /\ UNCHANGED crashed
    BY <2>1, <2>2, QueueOps
  <2>3. CASE /\ resp' = IF y = nil THEN after ELSE [after EXCEPT ![y].closed = TRUE]
             /\ crashed' = (y = nil)
             /\ respPool' = respPool
    <3>1. resp' = [after EXCEPT ![y].closed = TRUE] /\ ~crashed'
      BY <1>3, <2>3
    <3> QED BY <1>5, <2>3, <3>1, ClosedSet
  <2> QED BY <1>6, <2>2, <2>3 DEF RespPut
<1>8. NoErrors'
  <2>1. ASSUME NEW z \in RespChans, NEW i \in 1 .. Len(resp'[z].queue) PROVE resp'[z].queue[i].type = "Block"
    <3>1. CASE z # y
      BY <1>1, <1>5, <1>7, <2>1, <3>1 DEF NoErrors
    <3>2. CASE z = y
      <4>1. Len(resp[y].queue) \in Nat
        BY <1>4
      <4>2. i + 1 \in 1 .. Len(resp[y].queue) /\ resp'[z].queue[i] = resp[y].queue[i + 1]
        BY <1>5, <1>7, <2>1, <3>2, <4>1 DEF Dropped
      <4> QED BY <1>1, <4>2 DEF NoErrors
    <3> QED BY <3>1, <3>2
  <2>2. ASSUME NEW i \in 1 .. Len(respPool') PROVE respPool'[i] # nil
    <3>1. Len(respPool) \in Nat
      BY <1>1 DEF TypeOK
    <3> QED BY <1>1, <1>3, <1>7, <2>2, <3>1 DEF NoErrors, Appended
  <2> QED BY <1>7, <2>1, <2>2 DEF NoErrors
<1>9. InQ(c)' = InQ(c) /\ OutQ(c)' = OutQ(c) /\ Active(c)'
  BY <1>6 DEF InQ, OutQ, Active, Started
<1>10. Flowing(c)'
  BY SMTT(30), <1>1, <1>2, <1>6, <1>9 DEF Flowing
<1>11. InClosed(c)'
  BY <1>1, <1>2, <1>6 DEF InClosed
<1>12. \A d \in Calls : \A h \in Nat : OutClaim(d, h, y) => d = c /\ h = k
  <2>1. OutClaim(c, k, y)
    BY <1>2, <1>3 DEF OutClaim, x
  <2> QED BY <1>1, <2>1 DEF RespInv, OneClaim, Claim
<1>13. \A h \in Nat : \A ch \in RespChans : OutClaim(c, h, ch)' => OutClaim(c, h, ch)
  BY <1>2, <1>6, <1>9 DEF OutClaim
<1>14. ~OutClaim(c, k, y)'
  <2>1. OutOrdered(c) /\ next[c] \in Nat
    BY <1>1, <1>2 DEF QueuesOK, TypeOK
  <2>2. \A i \in 1 .. Len(OutQ(c)) : ~OutQ(c)[i].last => k < OutQ(c)[i].height
    BY <1>2, <1>3, <2>1 DEF OutOrdered
  <2>3. \A i \in 1 .. Len(OutQ(c)) : OutQ(c)[i].ch = y => OutQ(c)[i].height # k
    <3>1. \A i \in 1 .. Len(OutQ(c)) : OutQ(c)[i].height \in Nat
      BY <1>2, QueueTypes, QueueElems
    <3> QED BY <1>3, <2>1, <2>2, <3>1 DEF OutOrdered
  <2>4. ppc[c] = "out" => k # next[c]
    BY <1>2, <1>3, <2>1 DEF OutOrdered
  <2> QED BY <1>6, <1>9, <2>3, <2>4 DEF OutClaim
<1>15. Backed(c)'
  <2> SUFFICES ASSUME NEW h \in Nat, NEW ch \in RespChans, OutClaim(c, h, ch)'
               PROVE  Len(resp'[ch].queue) > 0 \/ InClaim(c, h, ch)'
    BY DEF Backed
  <2>1. OutClaim(c, h, ch) /\ ch # y
    BY <1>12, <1>13, <1>14
  <2>2. InClaim(c, h, ch) => InClaim(c, h, ch)'
    BY <1>6, <1>9 DEF InClaim, Writer
  <2>3. resp'[ch].queue = resp[ch].queue
    BY <1>5, <1>7, <2>1
  <2> QED BY <1>1, <2>1, <2>2, <2>3 DEF Backed
<1>16. \A d \in Calls : \A h \in Nat : \A ch \in RespChans :
         d # c /\ OutClaim(d, h, ch) /\ Len(resp[ch].queue) > 0 => Len(resp'[ch].queue) > 0
  BY <1>5, <1>7, <1>12
<1> QED BY <1>1, <1>6, <1>8, <1>10, <1>11, <1>15, <1>16, FlowElsewhere

\* populateRange takes a channel nobody waits for, and will write to it.
LEMMA PopulateGetFlow ==
  ASSUME TypeInv, TypeInv', CleanInv, FlowInv, NEW c \in Calls, PopulateGet(c)
  PROVE  FlowInv'
<1>1. /\ TypeOK /\ PhaseOK(c) /\ RespInv
      /\ Flowing(c) /\ InClosed(c) /\ Backed(c) /\ NoErrors /\ Elsewhere(c)
  BY FlowNotFailed, PopulateGetClean DEF TypeInv, FlowInv, CleanInv
<1>2. ppc[c] = "get" /\ next[c] \in Nat /\ Writer(c) /\ gpc[c] # "start"
  BY <1>1, FlowActive DEF TypeOK, PopulateGet
<1>3. PICK fresh \in RespChans : fresh = <<c, next[c]>>
  <2>1. next[c] \in 1 .. Size[c]
    BY <1>1, <1>2 DEF PhaseOK, TypeOK
  <2> QED BY <2>1, ChanNames
<1>4. /\ respPool \in Seq(RespChans \cup {nil}) /\ Len(respPool) \in Nat
      /\ resp \in ChansOf(RespChans, Messages) /\ nil \notin RespChans
  BY <1>1, NilNoChan DEF TypeOK, ChansOf
<1>5. \/ /\ Len(respPool) = 0
         /\ GotFrom(respPool, fresh).ch = fresh
         /\ GotFrom(respPool, fresh).rest = respPool
      \/ /\ Len(respPool) > 0
         /\ GotFrom(respPool, fresh).ch = respPool[1]
         /\ Len(GotFrom(respPool, fresh).rest) = Len(respPool) - 1
         /\ \A i \in 1 .. Len(respPool) - 1 : GotFrom(respPool, fresh).rest[i] = respPool[i + 1]
  <2>1. fresh \in RespChans \cup {nil}
    OBVIOUS
  <2> QED BY <1>4, <2>1, GotFromIs
<1>6. PICK g \in RespChans : /\ g = GotFrom(respPool, fresh).ch /\ g # nil
                             /\ g = fresh \/ (Len(respPool) > 0 /\ g = respPool[1])
  <2>1. Len(respPool) > 0 => respPool[1] \in RespChans
    BY <1>1, <1>4 DEF NoErrors
  <2> QED BY <1>4, <1>5, <2>1
<1>7. /\ ppc'[c] = "out" /\ held'[c] = g /\ resp' = Drained(resp, g)
      /\ respPool' = GotFrom(respPool, fresh).rest
      /\ UNCHANGED <<hbtx, chIn, chOut, next, wpc, job, gpc, cur, out>> /\ ~crashed'
  BY <1>1, <1>3, <1>6 DEF PopulateGet, TypeOK, wvars, gvars, NoErrors
<1>8. /\ \A z \in RespChans : z # g => resp'[z] = resp[z]
      /\ resp'[g].queue = << >>
  <2>1. g \in RespChans \cup {nil}
    BY <1>6
  <2>2. resp' = Drained(resp, g)
    BY <1>7
  <2>3. /\ \A z \in RespChans : z # g => Drained(resp, g)[z] = resp[z]
        /\ g # nil => Drained(resp, g)[g].queue = << >>
    BY <1>4, <2>1, DrainedIs
  <2> QED BY <1>6, <2>2, <2>3
<1>9. \A d \in Calls : \A h \in Nat : ~Claim(d, h, g)
  <2>1. CASE g = fresh
    <3>1. fresh[1] = c /\ fresh[2] = next[c]
      BY <1>3
    <3>2. ~RespMade(fresh)
      BY <1>2, <3>1 DEF RespMade
    <3> QED BY <1>1, <2>1, <3>2 DEF RespInv, ClaimedOK
  <2>2. CASE Len(respPool) > 0 /\ g = respPool[1]
    <3>1. 1 \in 1 .. Len(respPool)
      BY <1>4, <2>2
    <3>2. \A d \in Calls, h \in Nat : ~Claim(d, h, respPool[1])
      BY <1>1, <1>6, <2>2, <3>1 DEF RespInv, PooledOK
    <3> QED BY <2>2, <3>2
  <2> QED BY <1>6, <2>1, <2>2
<1>10. NoErrors'
  <2>1. \A z \in RespChans : \A i \in 1 .. Len(resp'[z].queue) : resp'[z].queue[i].type = "Block"
    <3>1. Len(resp'[g].queue) = 0
      BY <1>8
    <3> QED BY <1>1, <1>8, <3>1 DEF NoErrors
  <2>2. ASSUME NEW i \in 1 .. Len(respPool') PROVE respPool'[i] # nil
    BY <1>1, <1>4, <1>5, <1>7, <2>2 DEF NoErrors
  <2> QED BY <1>7, <2>1, <2>2 DEF NoErrors
<1>11. InQ(c)' = InQ(c) /\ OutQ(c)' = OutQ(c) /\ (Active(c)' <=> Active(c)) /\ Writer(c)'
  BY <1>2, <1>7 DEF InQ, OutQ, Active, Started, Writer
<1>12. Flowing(c)'
  BY SMTT(30), <1>1, <1>2, <1>6, <1>7, <1>11 DEF Flowing
<1>13. InClosed(c)'
  BY <1>1, <1>2, <1>7 DEF InClosed
<1>14. Backed(c)'
  <2> SUFFICES ASSUME NEW h \in Nat, NEW ch \in RespChans, OutClaim(c, h, ch)'
               PROVE  Len(resp'[ch].queue) > 0 \/ InClaim(c, h, ch)'
    BY DEF Backed
  <2>1. CASE held'[c] = ch /\ next'[c] = h
    BY <1>7, <1>11, <2>1 DEF InClaim
  <2>2. CASE ~(held'[c] = ch /\ next'[c] = h)
    <3>1. OutClaim(c, h, ch)
      BY <1>7, <1>11, <2>2 DEF OutClaim
    <3>2. ch # g
      BY <1>9, <3>1 DEF Claim
    <3>3. InClaim(c, h, ch) => InClaim(c, h, ch)'
      BY <1>2, <1>7, <1>11 DEF InClaim
    <3> QED BY <1>1, <1>8, <3>1, <3>2, <3>3 DEF Backed
  <2> QED BY <2>1, <2>2
<1>15. \A d \in Calls : \A h \in Nat : \A ch \in RespChans :
         d # c /\ OutClaim(d, h, ch) /\ Len(resp[ch].queue) > 0 => Len(resp'[ch].queue) > 0
  BY <1>8, <1>9 DEF Claim
<1> QED BY <1>1, <1>7, <1>10, <1>12, <1>13, <1>14, <1>15, FlowElsewhere

\* getRange takes chIn, empty and open.
LEMMA GetInFlow ==
  ASSUME TypeInv, TypeInv', CleanInv, FlowInv, NEW c \in Calls, GetIn(c)
  PROVE  FlowInv'
<1>1. TypeOK /\ PhaseOK(c) /\ OneUser /\ Flowing(c) /\ Elsewhere(c)
  BY FlowNotFailed, GetInClean DEF TypeInv, FlowInv, CleanInv
<1>2. PICK v \in HBTxChans : v = <<c, "in">>
  BY ChanNames
<1>3. /\ gpc[c] = "start" /\ gpc'[c] = "getOut" /\ chIn'[c] = GotFrom(hbtxPool, v).ch
      /\ hbtxPool' = GotFrom(hbtxPool, v).rest
      /\ hbtx' = Drained(hbtx, GotFrom(hbtxPool, v).ch)
      /\ UNCHANGED <<resp, respPool, chOut, ppc, next, held, wpc, job, cur, out>> /\ ~crashed'
      /\ \A d \in Calls : d # c => chIn'[d] = chIn[d]
  BY <1>1, <1>2 DEF GetIn, TypeOK, pvars, wvars, FlowInv, NoErrors
<1>4. /\ ~Active(c)' /\ ppc[c] = "idle" /\ \A w \in Workers : wpc[c][w] = "idle"
  BY <1>1, <1>3 DEF Started, Active, PhaseOK
<1>5. ~HBTxMade(v)
  BY <1>2, <1>3 DEF HBTxMade
<1>6. PICK g \in HBTxChans : g = GotFrom(hbtxPool, v).ch /\ ~hbtx[g].closed
  BY <1>1, <1>3, <1>5, HBTxGot
<1>7. /\ \A x \in HBTxChans : hbtx'[x].closed = hbtx[x].closed
      /\ hbtx'[g].queue = << >>
  <2>1. hbtx' = Drained(hbtx, g)
    BY <1>3, <1>6
  <2> QED BY <1>1, <2>1, HBTxDrained
<1>8. Len(InQ(c)') = 0
  BY <1>3, <1>6, <1>7 DEF InQ
<1>9. Flowing(c)'
  BY SMTT(30), <1>3, <1>4, <1>8 DEF Flowing
<1>10. InClosed(c)'
  BY <1>3, <1>4, <1>6, <1>7 DEF InClosed
<1>11. \A h \in Nat : \A ch \in RespChans : ~OutClaim(c, h, ch)'
  BY <1>3, <1>4 DEF OutClaim
<1>12. \A d \in Calls : gpc[d] # "start" => chIn[d] \in HBTxChans
  BY DEF TypeInv, PhaseOK
<1> QED BY <1>1, <1>3, <1>7, <1>9, <1>10, <1>11, <1>12, FlowSameResp

\* getRange takes chOut, which is not its chIn, and starts its goroutines.
LEMMA GetOutFlow ==
  ASSUME TypeInv, TypeInv', CleanInv, FlowInv, NEW c \in Calls, GetOut(c)
  PROVE  FlowInv'
<1>1. TypeOK /\ PhaseOK(c) /\ QueuesOK(c) /\ OneUser /\ Flowing(c) /\ InClosed(c) /\ Elsewhere(c)
  BY FlowNotFailed, GetOutClean DEF TypeInv, FlowInv, CleanInv
<1>2. PICK v \in HBTxChans : v = <<c, "out">>
  BY ChanNames
<1>3. /\ gpc[c] = "getOut" /\ gpc'[c] = "range" /\ chOut'[c] = GotFrom(hbtxPool, v).ch
      /\ hbtxPool' = GotFrom(hbtxPool, v).rest
      /\ hbtx' = Drained(hbtx, GotFrom(hbtxPool, v).ch)
      /\ ppc'[c] = "get" /\ \A w \in Workers : wpc'[c][w] = "recv"
      /\ UNCHANGED <<resp, respPool, chIn, next, held, job, cur, out>> /\ ~crashed'
  BY <1>1, <1>2 DEF GetOut, TypeOK, FlowInv, NoErrors
<1>4. ~Started(c) /\ Active(c)' /\ ppc[c] = "idle"
  BY <1>1, <1>3 DEF Started, Active, PhaseOK
<1>5. ~HBTxMade(v)
  BY <1>2, <1>4 DEF HBTxMade
<1>6. PICK g \in HBTxChans : /\ g = GotFrom(hbtxPool, v).ch
                             /\ \A u \in HBTxChans : InUse(u) => ChanOf(u) # g
  BY <1>1, <1>3, <1>5, HBTxGot
<1>7. /\ \A x \in HBTxChans : hbtx'[x].closed = hbtx[x].closed
      /\ \A x \in HBTxChans : x # g => hbtx'[x] = hbtx[x]
      /\ hbtx'[g].queue = << >>
  <2>1. hbtx' = Drained(hbtx, g)
    BY <1>3, <1>6
  <2> QED BY <1>1, <2>1, HBTxDrained
<1>8. chIn[c] \in HBTxChans /\ chIn[c] # g
  <2>1. PICK u \in HBTxChans : u = <<c, "in">>
    BY ChanNames
  <2>2. InUse(u) /\ ChanOf(u) = chIn[c]
    BY <1>3, <2>1 DEF InUse, ChanOf
  <2> QED BY <1>1, <1>3, <1>6, <2>2 DEF PhaseOK
<1>9. Len(InQ(c)') = 0 /\ Len(OutQ(c)') = 0
  <2>1. Len(InQ(c)) = 0
    BY <1>1, <1>3 DEF QueuesOK
  <2>2. InQ(c)' = InQ(c)
    BY <1>3, <1>7, <1>8 DEF InQ
  <2>3. OutQ(c)' = << >>
    BY <1>3, <1>6, <1>7 DEF OutQ
  <2> QED BY <2>1, <2>2, <2>3
<1>10. Flowing(c)'
  BY SMTT(30), <1>3, <1>9 DEF Flowing
<1>11. InClosed(c)'
  BY <1>1, <1>3, <1>4, <1>7, <1>8 DEF InClosed
<1>12. \A h \in Nat : \A ch \in RespChans : ~OutClaim(c, h, ch)'
  BY <1>3, <1>9 DEF OutClaim
<1>13. \A d \in Calls : gpc[d] # "start" => chIn[d] \in HBTxChans
  BY DEF TypeInv, PhaseOK
<1> QED BY <1>1, <1>3, <1>7, <1>10, <1>11, <1>12, <1>13, FlowSameResp

\* getRange gives up chOut, which no chIn is.
LEMMA ReturnFlow ==
  ASSUME TypeInv, TypeInv', CleanInv, FlowInv, NEW c \in Calls, Return(c)
  PROVE  FlowInv'
<1> DEFINE x == chOut[c]
<1>1. TypeOK /\ PhaseOK(c) /\ QueuesOK(c) /\ OneUser /\ Flowing(c) /\ InClosed(c)
  BY DEF TypeInv, CleanInv, FlowInv
<1>2. /\ gpc[c] = "return" /\ gpc'[c] = "ok" /\ HBTxPut(x)
      /\ UNCHANGED <<resp, respPool, chIn, chOut, ppc, next, held, wpc, job, cur, out>> /\ ~crashed'
      /\ \A d \in Calls : d # c => gpc'[d] = gpc[d]
  BY <1>1 DEF Return, TypeOK, pvars, wvars, Flowing, FlowInv, NoErrors
<1>3. Started(c) /\ Active(c) /\ ~Active(c)' /\ x \in HBTxChans /\ chIn[c] \in HBTxChans
  BY <1>1, <1>2 DEF Started, Active, PhaseOK
<1>4. Elsewhere(c)
  <2>1. ~SomeFailed'
    BY <1>2 DEF SomeFailed, FlowInv, Flowing
  <2> QED BY <2>1, ReturnClean
<1> HIDE DEF x
<1>5. /\ \A y \in HBTxChans : hbtx'[y].queue = hbtx[y].queue
      /\ \A y \in HBTxChans : y # x => hbtx'[y].closed = hbtx[y].closed
  BY <1>2, <1>3, HBTxPutIs
<1>6. \A d \in Calls : gpc[d] # "start" => chIn[d] \in HBTxChans /\ chIn[d] # x
  BY <1>1, <1>3, Apart DEF TypeInv, PhaseOK, x
<1>7. InQ(c)' = InQ(c) /\ ppc[c] \in {"close", "done"}
  BY <1>1, <1>2, <1>3, <1>5 DEF InQ, QueuesOK, Delivered
<1>8. Flowing(c)'
  BY SMTT(30), <1>1, <1>2, <1>3, <1>7 DEF Flowing
<1>9. InClosed(c)'
  BY <1>1, <1>2, <1>5, <1>6 DEF InClosed
<1>10. \A h \in Nat : \A ch \in RespChans : ~OutClaim(c, h, ch)'
  BY <1>2, <1>3, <1>7 DEF OutClaim
<1> QED BY <1>2, <1>4, <1>5, <1>6, <1>8, <1>9, <1>10, FlowSameResp

\* Every step keeps what calls without failing fetches rely on.
LEMMA StepFlow ==
  ASSUME TypeInv, TypeInv', CleanInv, FlowInv, faulty = {}, [Next]_vars
  PROVE  FlowInv'
<1>1. ASSUME NEW c \in Calls, Populate(c) PROVE FlowInv'
  BY <1>1, PopulateGetFlow, PopulateOutFlow, PopulateInFlow, PopulateLastFlow, PopulateCloseFlow DEF Populate
<1>2. ASSUME NEW c \in Calls, NEW w \in Workers, Worker(c, w) PROVE FlowInv'
  BY <1>2, WorkerRecvFlow, WorkerExitFlow, WorkerSendFlow DEF Worker
<1>3. ASSUME NEW c \in Calls, GetRange(c) PROVE FlowInv'
  <2>1. ~WaitWorkers(c) /\ ~PurgeEntry(c) /\ ~PurgeEnd(c)
    BY DEF FlowInv, Flowing, WaitWorkers, PurgeEntry, PurgeEnd
  <2> QED BY <1>3, <2>1, GetInFlow, GetOutFlow, RangeNextFlow, InnerRecvFlow, ReturnFlow DEF GetRange
<1>4. CASE UNCHANGED vars
  <2>1. UNCHANGED <<resp, respPool, hbtx, chIn, chOut, ppc, next, held, wpc, job, gpc, cur, out, crashed>>
    BY <1>4 DEF vars
  <2>2. NoErrors'
    BY <2>1 DEF FlowInv, NoErrors
  <2>3. ASSUME NEW d \in Calls PROVE Flowing(d)' /\ InClosed(d)' /\ Backed(d)'
    <3>1. Flowing(d) /\ InClosed(d) /\ Backed(d)
      BY DEF FlowInv
    <3>2. Flowing(d)' /\ InClosed(d)'
      BY <2>1, <3>1 DEF Flowing, InClosed, InQ, OutQ, Active, Started
    <3>3. SameCall(d)
      BY <2>1 DEF SameCall, InQ, OutQ
    <3>4. Backed(d)'
      BY <2>1, <3>1, <3>3, SameCallClaims DEF Backed
    <3> QED BY <3>2, <3>4
  <2> QED BY <2>2, <2>3 DEF FlowInv
<1> QED BY <1>1, <1>2, <1>3, <1>4 DEF Next

\* Which calls may meet failing fetches does not change.
LEMMA FaultySame == [Next]_vars => faulty' = faulty
<1> SUFFICES ASSUME [Next]_vars PROVE faulty' = faulty
  OBVIOUS
<1>1. ASSUME NEW c \in Calls, Populate(c) PROVE faulty' = faulty
  BY <1>1 DEF Populate, PopulateGet, PopulateOut, PopulateIn, PopulateLast, PopulateClose
<1>2. ASSUME NEW c \in Calls, NEW w \in Workers, Worker(c, w) PROVE faulty' = faulty
  BY <1>2 DEF Worker, WorkerRecv, WorkerExit, WorkerSend
<1>3. ASSUME NEW c \in Calls, GetRange(c) PROVE faulty' = faulty
  BY SMTT(30), <1>3 DEF GetRange, GetIn, GetOut, RangeNext, InnerRecv, WaitWorkers, PurgeEntry, PurgeEnd, Return
<1>4. CASE UNCHANGED vars
  BY <1>4 DEF vars
<1> QED BY <1>1, <1>2, <1>3, <1>4 DEF Next

\* Unless a fetch fails: no nil channel is in use or pooled, a worker ends only
\* behind a closed and emptied chIn, and every response that getRange is to read
\* is there or has a worker that will write it.
THEOREM FlowInvariance == Spec => [](faulty = {} => FlowInv)
<1>1. Init => FlowInv
  <2> SUFFICES ASSUME Init PROVE FlowInv
    OBVIOUS
  <2>1. NoErrors
    BY DEF Init, NoErrors, NewChan
  <2>2. ASSUME NEW c \in Calls PROVE Flowing(c) /\ InClosed(c) /\ Backed(c)
    BY DEF Init, Flowing, InClosed, Backed, OutClaim, Active, Started
  <2> QED BY <2>1, <2>2 DEF FlowInv
<1>2. PooledInv /\ PooledInv' /\ (faulty = {} => FlowInv) /\ [Next]_vars => (faulty = {} => FlowInv)'
  <2> SUFFICES ASSUME PooledInv, PooledInv', FlowInv, [Next]_vars, faulty = {} PROVE FlowInv'
    BY FaultySame
  <2>1. TypeInv /\ TypeInv' /\ CleanInv
    BY FlowNotFailed DEF PooledInv, CleanInv
  <2> QED BY <2>1, StepFlow
<1> QED BY <1>1, <1>2, PooledInvariance, PTL DEF Spec

\* getRange on shared pools: unless a fetch fails, every call that is not over has
\* a goroutine that can go on, for any number of calls that hand channels to each
\* other, all capacities and every moment; and none of them ends the process.
THEOREM CallsNeverStuck == Spec => []CallsNotStuck
<1>1. PooledInv /\ (faulty = {} => FlowInv) => CallsNotStuck
  <2> SUFFICES ASSUME PooledInv, FlowInv, NEW c \in Calls, ~CallOver(c),
                      ~PopulateCanGo(c), \A w \in Workers : ~WorkerCanGo(c, w), ~GetRangeCanGo(c)
               PROVE  FALSE
    BY DEF CallsNotStuck, FlowInv, NoErrors
  <2>1. TypeInv /\ CleanInv /\ TypeOK /\ PhaseOK(c) /\ QueuesOK(c) /\ RespInv
    BY FlowNotFailed DEF PooledInv, TypeInv, CleanInv
  <2>2. Flowing(c) /\ InClosed(c) /\ Backed(c)
    BY DEF FlowInv
  <2>3. /\ gpc[c] \in {"range", "inner", "ok"}
        /\ ppc[c] \in {"out", "in", "last", "done"}
        /\ \A w \in Workers : wpc[c][w] \in {"recv", "send", "exited"}
    <3>1. /\ gpc[c] \in {"start", "getOut", "range", "inner", "return", "wait", "purge", "returnErr", "ok", "failed"}
          /\ ppc[c] \in {"idle", "get", "out", "in", "last", "close", "done"}
          /\ \A w \in Workers : wpc[c][w] \in {"idle", "recv", "send", "exited"}
      BY <2>1 DEF TypeOK
    <3>2. gpc[c] \in {"range", "inner", "ok"}
      BY <2>2, <3>1 DEF Flowing, GetRangeCanGo
    <3> QED BY <2>1, <3>1, <3>2 DEF PhaseOK, Started, PopulateCanGo
  <2>4. Started(c) /\ gpc[c] # "start" /\ Len(InQ(c)) \in Nat /\ Len(OutQ(c)) \in Nat /\ ChanCap \in Nat \ {0}
    <3>1. Started(c) /\ gpc[c] # "start"
      BY <2>3 DEF Started
    <3> QED BY <2>1, <3>1, QueueTypes, PoolAssumption
  <2>5. \A w \in Workers : wpc[c][w] # "send"
    BY <2>2 DEF Flowing, WorkerCanGo
  <2>6. Len(InQ(c)) = 0 /\ ppc[c] # "in"
    <3>1. CASE Len(InQ(c)) # 0
      <4>1. PICK w \in Workers : wpc[c][w] \in {"recv", "send"}
        BY <2>1, <2>4, <3>1, SomeWriter, PoolAssumption
      <4>2. wpc[c][w] = "recv" /\ Len(InQ(c)) > 0
        BY <2>4, <2>5, <3>1, <4>1
      <4> QED BY <4>2 DEF WorkerCanGo, InQ
    <3>2. CASE Len(InQ(c)) = 0 /\ ppc[c] = "in"
      BY <2>4, <3>2 DEF PopulateCanGo, InQ
    <3> QED BY <3>1, <3>2
  <2>7. CASE gpc[c] = "ok"
    <3>1. ppc[c] = "done"
      BY <2>1, <2>3, <2>7 DEF QueuesOK, Delivered
    <3>2. hbtx[chIn[c]].closed
      BY <2>2, <2>4, <3>1 DEF InClosed
    <3>3. \A w \in Workers : wpc[c][w] = "exited"
      BY <2>3, <2>5, <3>2 DEF WorkerCanGo
    <3> QED BY <2>7, <3>1, <3>3 DEF CallOver
  <2>8. CASE gpc[c] = "range"
    <3>1. Len(OutQ(c)) = 0
      BY <2>4, <2>8 DEF GetRangeCanGo, OutQ
    <3>2. ppc[c] \notin {"out", "last"}
      BY <2>4, <3>1 DEF PopulateCanGo, OutQ
    <3>3. ppc[c] # "done"
      <4>1. Active(c)
        BY <2>8 DEF Active, Started
      <4> QED BY <2>1, <2>8, <3>1, <4>1 DEF QueuesOK, OutComplete
    <3> QED BY <2>3, <2>6, <3>2, <3>3
  <2>9. CASE gpc[c] = "inner"
    <3>1. PICK ch \in RespChans, h \in Nat : ch = cur[c].ch /\ h = cur[c].height
      <4>1. cur[c] \in HBTx /\ cur[c].ch # nil
        BY <2>1, <2>2, <2>9 DEF TypeOK, Flowing
      <4> QED BY <4>1 DEF HBTx
    <3>2. OutClaim(c, h, ch)
      BY <2>9, <3>1 DEF OutClaim
    <3>3. ~(Len(resp[ch].queue) > 0)
      BY <2>2, <2>9, <3>1 DEF GetRangeCanGo, Flowing
    <3>4. InClaim(c, h, ch)
      BY <2>2, <3>2, <3>3 DEF Backed
    <3>5. ppc[c] = "out" /\ next[c] = h
      <4>1. \A i \in 1 .. Len(InQ(c)) : FALSE
        BY <2>6
      <4> QED BY <2>5, <2>6, <3>4, <4>1 DEF InClaim
    <3>6. h < next[c] /\ next[c] \in Nat
      <4>1. Active(c)
        BY <2>9 DEF Active, Started
      <4> QED BY <2>1, <2>9, <3>1, <3>5, <4>1 DEF QueuesOK, OutOrdered, TypeOK
    <3> QED BY <3>5, <3>6
  <2> QED BY <2>3, <2>7, <2>8, <2>9
<1> QED BY <1>1, PooledInvariance, FlowInvariance, PTL
=============================================================================
