------------------------ MODULE RangePipelineProofs ------------------------
(***************************************************************************)
(* IInv is an inductive invariant of RangePipeline: one lemma per action.  *)
(* With it, getRange implements OrderedRange, for every range, number of   *)
(* workers, channel capacity and set of failing heights.                   *)
(***************************************************************************)
EXTENDS RangePipeline, TLAPS

\* The heights populateRange hands out are the naturals from Start to LastHeight.
LEMMA HeightsFacts ==
  /\ Start \in Nat /\ LastHeight \in Nat /\ Start <= LastHeight
  /\ Heights = Start .. LastHeight /\ Heights \subseteq Nat
  BY PipelineAssumption DEF Heights, LastHeight

\* The assumptions on the parameters of the pipeline.
LEMMA ConstFacts ==
  /\ NumTxs \in [Heights -> Nat]
  /\ ChanCap \in Nat \ {0} /\ RespCap \in Nat \ {0} /\ OutCap \in Nat \ {0}
  /\ MayFail \subseteq Heights
  /\ MayCancel \in BOOLEAN
  BY PipelineAssumption

\* A send on a channel: the element goes behind the ones that wait.
LEMMA AppendFacts ==
  ASSUME NEW S, NEW s \in Seq(S), NEW e \in S
  PROVE  /\ Append(s, e) \in Seq(S)
         /\ Append(s, e) # << >>
         /\ Len(s) \in Nat
         /\ Len(Append(s, e)) = Len(s) + 1
         /\ \A i \in 1 .. Len(s) : Append(s, e)[i] = s[i]
         /\ Append(s, e)[Len(s) + 1] = e
  OBVIOUS

\* Every element of a channel has the channel's type.
LEMMA ElemFacts ==
  ASSUME NEW S, NEW s \in Seq(S)
  PROVE  Len(s) \in Nat /\ \A i \in 1 .. Len(s) : s[i] \in S
  OBVIOUS

\* The type invariant, the part about heights.
LEMMA NumFacts ==
  ASSUME IInv
  PROVE  /\ next \in Nat /\ cur \in Int /\ LastHeight \in Nat /\ Start \in Nat
         /\ \A w \in Workers : wh[w] \in Heights /\ wh[w] \in Nat
         /\ \A h \in Heights : h \in Nat /\ Start <= h /\ h <= LastHeight
<1>1. TypeOK
  BY DEF IInv
<1>2. next \in Nat /\ cur \in Int
  BY <1>1, HeightsFacts DEF TypeOK
<1>3. \A h \in Heights : h \in Nat /\ Start <= h /\ h <= LastHeight
  BY HeightsFacts
<1>4. \A w \in Workers : wh[w] \in Heights /\ wh[w] \in Nat
  BY <1>1, <1>3 DEF TypeOK
<1>5. QED
  BY <1>2, <1>3, <1>4, HeightsFacts

\* The type invariant, the part about workers and response channels.
LEMMA FunFacts ==
  ASSUME IInv
  PROVE  /\ wpc \in [Workers -> {"recv", "fetch", "send", "exited"}]
         /\ wh \in [Workers -> Heights]
         /\ fetched \in [Heights -> {"none", "ok", "err"}]
         /\ sent \in [Heights -> Nat] /\ read \in [Heights -> Nat]
         /\ NumTxs \in [Heights -> Nat]
  BY ConstFacts DEF IInv, TypeOK

\* What waits on chIn are heights.
LEMMA ChInFacts ==
  ASSUME IInv
  PROVE  /\ Len(chIn) \in Nat
         /\ \A i \in 1 .. Len(chIn) : chIn[i] \in Heights /\ chIn[i] \in Nat
  <1>1. chIn \in Seq(Heights)
    BY DEF IInv, TypeOK
  <1>2. QED
    BY <1>1, ElemFacts, HeightsFacts

\* A receive from a channel: the first element leaves, the others move up.
LEMMA TailFacts ==
  ASSUME NEW S, NEW s \in Seq(S), s # << >>
  PROVE  /\ Head(s) \in S
         /\ Head(s) = s[1]
         /\ Tail(s) \in Seq(S)
         /\ Len(s) \in Nat \ {0}
         /\ Len(Tail(s)) = Len(s) - 1
         /\ \A i \in 1 .. Len(s) - 1 : Tail(s)[i] = s[i + 1]
  OBVIOUS

\* The loop of populateRange hands out every height up to LastHeight, and no more.
LEMMA NextStep ==
  ASSUME IInv, ppc = "in", Advance
  PROVE  /\ next \in Heights /\ next \in Nat /\ next' = next + 1
         /\ next' \in Start .. LastHeight + 1
         /\ (ppc' = "last" /\ next = LastHeight) \/ (ppc' = "out" /\ next < LastHeight)
<1>1. next \in Heights /\ next \in Nat
  BY HeightsFacts DEF IInv, TypeOK, HeightsFetchedOnce, PopulateBound
<1>2. QED
  BY <1>1, HeightsFacts, PipelineAssumption DEF Advance, LastHeight

\* What is known of chOut as long as no Error has been met.
LEMMA ChOutFacts ==
  ASSUME IInv, Delivering
  PROVE  NoErrorYet /\ ChOutOrder /\ ChOutReach
  BY DEF IInv, ChOutConsecutive

\* A receive from chOut by getRange.
LEMMA ChOutTail ==
  ASSUME IInv, chOut # << >>, chOut' = Tail(chOut)
  PROVE  /\ Head(chOut) = chOut[1]
         /\ chOut' \in Seq(HBTx)
         /\ Len(chOut) \in Nat /\ Len(chOut) > 0 /\ Len(chOut') = Len(chOut) - 1
         /\ 1 \in 1 .. Len(chOut)
         /\ \A i \in 1 .. Len(chOut') :
              i \in Nat /\ i + 1 \in 1 .. Len(chOut) /\ chOut'[i] = chOut[i + 1]
<1>1. chOut \in Seq(HBTx)
  BY DEF IInv, TypeOK
<1>2. QED
  BY <1>1, TailFacts

-----------------------------------------------------------------------------
(* populateRange *)

\* PopulateOut preserves the invariant.
LEMMA PopulateOutStep == ASSUME IInv, PopulateOut PROVE IInv'
<1>a. next \in Heights /\ Entry(next) \in HBTx
  BY HeightsFacts DEF IInv, TypeOK, HeightsFetchedOnce, PopulateBound, PopulateOut,
                      Entry, HBTx
<1>b. /\ chOut' \in Seq(HBTx) /\ Len(chOut') = Len(chOut) + 1 /\ Len(chOut) \in Nat
      /\ \A i \in 1 .. Len(chOut) : chOut'[i] = chOut[i]
      /\ chOut'[Len(chOut) + 1] = Entry(next)
  BY <1>a, AppendFacts DEF IInv, TypeOK, PopulateOut
<1>c. /\ UNCHANGED <<next, gpc, cur, errored, errClosed>>
      /\ ppc = "out" /\ ppc' = "in"
  BY DEF PopulateOut, gvars
<1>1. TypeOK'
  <2>1. Len(chOut') <= ChanCap
    BY <1>b, ConstFacts DEF PopulateOut
  <2>2. QED
    BY <1>b, <1>c, <2>1 DEF IInv, TypeOK, PopulateOut, wvars, evars
<1>2. ChOutConsecutive'
  <2>1. SUFFICES ASSUME Delivering PROVE ChOutConsecutive'
    BY <1>c DEF ChOutConsecutive, Delivering
  <2>2. ChOutOrder /\ ChOutReach /\ NoErrorYet
    BY <2>1, ChOutFacts
  <2>3. ChOutOrder'
    <3>1. next = cur + (Len(chOut) + 1)
      BY <1>b, <1>c, <2>2, NumFacts DEF ChOutReach
    <3>2. chOut'[Len(chOut) + 1].kind = "height" /\ chOut'[Len(chOut) + 1].height = next
      BY <1>b DEF Entry
    <3>3. \A i \in 1 .. Len(chOut') : i \in 1 .. Len(chOut) \/ i = Len(chOut) + 1
      BY <1>b
    <3>4. QED
      BY <1>b, <1>c, <2>2, <3>1, <3>2, <3>3 DEF ChOutOrder
  <2>4. ChOutReach'
    BY <1>b, <1>c, <2>2, NumFacts DEF ChOutReach
  <2>5. QED
    BY <1>c, <2>2, <2>3, <2>4 DEF ChOutConsecutive, NoErrorYet
<1>3. HeightsFetchedOnce'
  BY DEF IInv, HeightsFetchedOnce, PopulateBound, ChInAscending,
          ChInUnfetched, BusyPassed, BusyBelowChIn, BusyDistinct,
          AheadUnfetched, Busy, PopulateOut, wvars, gvars, evars
<1>4. ResponsesCounted'
  BY DEF IInv, ResponsesCounted, RespLen, HandedBack, PopulateOut, wvars,
          gvars, evars
<1>5. OutPosition'
  BY DEF IInv, OutPosition, Delivering, OutThrough, OutAt, PopulateOut, wvars,
          gvars, evars
<1>6. QED
  BY <1>1, <1>2, <1>3, <1>4, <1>5 DEF IInv

\* PopulateOutErr preserves the invariant.
LEMMA PopulateOutErrStep == ASSUME IInv, PopulateOutErr PROVE IInv'
<1>1. TypeOK'
  <2>1. errored' \in 0 .. 1
    BY DEF IInv, TypeOK, PopulateOutErr, TakeErr
  <2>2. QED
    BY <2>1 DEF IInv, TypeOK, PopulateOutErr, wvars, gvars, evars
<1>2. ChOutConsecutive'
  BY DEF IInv, ChOutConsecutive, Delivering, NoErrorYet, ChOutOrder,
          ChOutReach, PopulateOutErr, TakeErr, wvars, gvars, evars
<1>3. HeightsFetchedOnce'
  BY DEF IInv, HeightsFetchedOnce, PopulateBound, ChInAscending,
          ChInUnfetched, BusyPassed, BusyBelowChIn, BusyDistinct,
          AheadUnfetched, Busy, PopulateOutErr, wvars, gvars, evars
<1>4. ResponsesCounted'
  BY DEF IInv, ResponsesCounted, RespLen, HandedBack, PopulateOutErr, wvars,
          gvars, evars
<1>5. OutPosition'
  BY DEF IInv, OutPosition, Delivering, OutThrough, OutAt, PopulateOutErr,
          wvars, gvars, evars
<1>6. QED
  BY <1>1, <1>2, <1>3, <1>4, <1>5 DEF IInv

\* PopulateIn preserves the invariant.
LEMMA PopulateInStep == ASSUME IInv, PopulateIn PROVE IInv'
<1>a. /\ next \in Heights /\ next \in Nat /\ next' = next + 1
      /\ (ppc' = "last" /\ next = LastHeight) \/ (ppc' = "out" /\ next < LastHeight)
  BY NextStep DEF PopulateIn
<1>b. /\ chIn' \in Seq(Heights) /\ Len(chIn') = Len(chIn) + 1
      /\ \A i \in 1 .. Len(chIn) : chIn'[i] = chIn[i]
      /\ chIn'[Len(chIn) + 1] = next
  BY <1>a, AppendFacts DEF IInv, TypeOK, PopulateIn
<1>d. /\ UNCHANGED <<wpc, wh, fetched>>
  BY DEF PopulateIn, wvars
<1>e. /\ PopulateBound /\ ChInAscending /\ ChInUnfetched /\ BusyPassed
      /\ BusyBelowChIn /\ BusyDistinct /\ AheadUnfetched
  BY DEF IInv, HeightsFetchedOnce
<1>1. TypeOK'
  <2>1. chIn' \in Seq(Heights) /\ Len(chIn') <= ChanCap
    BY <1>b, ChInFacts, ConstFacts DEF PopulateIn
  <2>2. ppc' \in {"out", "in", "last", "done"} /\ next' \in Start .. LastHeight + 1
    BY <1>a, HeightsFacts
  <2>3. UNCHANGED <<chOut, errored, errClosed, wpc, wh, fetched, sent, read, gpc, cur, out, taken,
                    ctxDone, sender>>
    BY DEF PopulateIn, wvars, gvars, evars
  <2>4. QED
    BY <2>1, <2>2, <2>3 DEF IInv, TypeOK
<1>2. ChOutConsecutive'
  <2>1. UNCHANGED <<gpc, cur, errored, errClosed, chOut>> /\ ppc = "in"
    BY DEF PopulateIn, gvars
  <2>2. SUFFICES ASSUME Delivering PROVE ChOutConsecutive'
    BY <2>1 DEF ChOutConsecutive, Delivering
  <2>3. ChOutOrder' /\ ChOutReach' /\ NoErrorYet'
    BY <1>a, <2>1, <2>2, ChOutFacts, NumFacts DEF ChOutOrder, ChOutReach, NoErrorYet
  <2>4. QED
    BY <2>3 DEF ChOutConsecutive
<1>3. HeightsFetchedOnce'
  <2>1. PopulateBound'
    BY <1>a, NumFacts DEF PopulateBound
  <2>2. ChInAscending'
    BY <1>a, <1>b, <1>e, ChInFacts DEF ChInAscending, ChInUnfetched
  <2>3. ChInUnfetched'
    BY SMTT(30), <1>a, <1>b, <1>d, <1>e, NumFacts, ChInFacts DEF ChInUnfetched, AheadUnfetched
  <2>4. BusyPassed'
    BY <1>a, <1>d, <1>e, NumFacts DEF BusyPassed, Busy
  <2>8. BusyBelowChIn'
    BY <1>a, <1>b, <1>d, <1>e, NumFacts, ChInFacts DEF BusyBelowChIn, BusyPassed, Busy
  <2>5. BusyDistinct'
    BY <1>d, <1>e DEF BusyDistinct, Busy
  <2>6. AheadUnfetched'
    BY <1>a, <1>d, <1>e, NumFacts DEF AheadUnfetched
  <2>7. QED
    BY <2>1, <2>2, <2>3, <2>4, <2>5, <2>6, <2>8 DEF HeightsFetchedOnce
<1>4. ResponsesCounted'
  BY DEF IInv, ResponsesCounted, RespLen, HandedBack, PopulateIn, wvars,
          gvars, evars
<1>5. OutPosition'
  BY DEF IInv, OutPosition, Delivering, OutThrough, OutAt, PopulateIn, wvars,
          gvars, evars
<1>6. QED
  BY <1>1, <1>2, <1>3, <1>4, <1>5 DEF IInv

\* PopulateInErr preserves the invariant.
LEMMA PopulateInErrStep == ASSUME IInv, PopulateInErr PROVE IInv'
<1>a. /\ next \in Heights /\ next \in Nat /\ next' = next + 1
      /\ (ppc' = "last" /\ next = LastHeight) \/ (ppc' = "out" /\ next < LastHeight)
  BY NextStep DEF PopulateInErr
<1>d. /\ UNCHANGED <<wpc, wh, fetched, chIn>>
  BY DEF PopulateInErr, wvars
<1>e. /\ PopulateBound /\ ChInAscending /\ ChInUnfetched /\ BusyPassed
      /\ BusyBelowChIn /\ BusyDistinct /\ AheadUnfetched
  BY DEF IInv, HeightsFetchedOnce
<1>1. TypeOK'
  <2>1. errored' \in 0 .. 1
    BY DEF IInv, TypeOK, PopulateInErr, TakeErr
  <2>2. ppc' \in {"out", "in", "last", "done"} /\ next' \in Start .. LastHeight + 1
    BY <1>a, HeightsFacts
  <2>3. UNCHANGED <<chIn, chOut, errClosed, wpc, wh, fetched, sent, read, gpc, cur, out, taken,
                    ctxDone, sender>>
    BY DEF PopulateInErr, wvars, gvars, evars
  <2>4. QED
    BY <2>1, <2>2, <2>3 DEF IInv, TypeOK
<1>2. ChOutConsecutive'
  BY DEF IInv, ChOutConsecutive, Delivering, NoErrorYet, ChOutOrder,
          ChOutReach, PopulateInErr, TakeErr, wvars, gvars, evars
<1>3. HeightsFetchedOnce'
  <2>1. PopulateBound'
    BY <1>a, NumFacts DEF PopulateBound
  <2>2. ChInAscending'
    BY <1>d, <1>e DEF ChInAscending
  <2>3. ChInUnfetched'
    BY <1>a, <1>d, <1>e, NumFacts, ChInFacts DEF ChInUnfetched
  <2>4. BusyPassed'
    BY <1>a, <1>d, <1>e, NumFacts DEF BusyPassed, Busy
  <2>8. BusyBelowChIn'
    BY <1>a, <1>d, <1>e, NumFacts, ChInFacts DEF BusyBelowChIn, BusyPassed, Busy
  <2>5. BusyDistinct'
    BY <1>d, <1>e DEF BusyDistinct, Busy
  <2>6. AheadUnfetched'
    BY <1>a, <1>d, <1>e, NumFacts DEF AheadUnfetched
  <2>7. QED
    BY <2>1, <2>2, <2>3, <2>4, <2>5, <2>6, <2>8 DEF HeightsFetchedOnce
<1>4. ResponsesCounted'
  BY DEF IInv, ResponsesCounted, RespLen, HandedBack, PopulateInErr, wvars,
          gvars, evars
<1>5. OutPosition'
  BY DEF IInv, OutPosition, Delivering, OutThrough, OutAt, PopulateInErr,
          wvars, gvars, evars
<1>6. QED
  BY <1>1, <1>2, <1>3, <1>4, <1>5 DEF IInv

\* PopulateLast preserves the invariant.
LEMMA PopulateLastStep == ASSUME IInv, PopulateLast PROVE IInv'
<1>a. LastEntry \in HBTx
  BY DEF LastEntry, HBTx
<1>b. /\ chOut' \in Seq(HBTx) /\ Len(chOut') = Len(chOut) + 1 /\ Len(chOut) \in Nat
      /\ \A i \in 1 .. Len(chOut) : chOut'[i] = chOut[i]
      /\ chOut'[Len(chOut) + 1] = LastEntry
  BY <1>a, AppendFacts DEF IInv, TypeOK, PopulateLast
<1>c. /\ UNCHANGED <<next, gpc, cur, errored, errClosed>>
      /\ ppc = "last" /\ ppc' = "done"
  BY DEF PopulateLast, gvars
<1>1. TypeOK'
  <2>1. Len(chOut') <= ChanCap
    BY <1>b, ConstFacts DEF PopulateLast
  <2>2. QED
    BY <1>b, <1>c, <2>1 DEF IInv, TypeOK, PopulateLast, wvars, evars
<1>2. ChOutConsecutive'
  <2>1. SUFFICES ASSUME Delivering PROVE ChOutConsecutive'
    BY <1>c DEF ChOutConsecutive, Delivering
  <2>2. ChOutOrder /\ ChOutReach /\ NoErrorYet
    BY <2>1, ChOutFacts
  <2>3. ChOutOrder'
    <3> SUFFICES ASSUME NEW i \in 1 .. Len(chOut')
                 PROVE  /\ (chOut'[i].kind = "last") <=> (i = Len(chOut'))
                        /\ chOut'[i].kind = "height" => chOut'[i].height = cur + i
      BY <1>c DEF ChOutOrder
    <3>1. CASE i = Len(chOut) + 1
      BY <3>1, <1>b DEF LastEntry
    <3>2. CASE i # Len(chOut) + 1
      <4>1. i \in 1 .. Len(chOut) /\ i # Len(chOut')
        BY <3>2, <1>b
      <4>2. chOut[i].kind # "last" /\ (chOut[i].kind = "height" => chOut[i].height = cur + i)
        BY <4>1, <1>c, <2>2 DEF ChOutOrder
      <4>3. QED
        BY <4>1, <4>2, <1>b
    <3>3. QED
      BY <3>1, <3>2
  <2>4. ChOutReach'
    BY <1>b, <1>c, <2>2, NumFacts DEF ChOutReach
  <2>5. QED
    BY <1>c, <2>2, <2>3, <2>4 DEF ChOutConsecutive, NoErrorYet
<1>3. HeightsFetchedOnce'
  BY DEF IInv, HeightsFetchedOnce, PopulateBound, ChInAscending,
          ChInUnfetched, BusyPassed, BusyBelowChIn, BusyDistinct,
          AheadUnfetched, Busy, PopulateLast, wvars, gvars, evars
<1>4. ResponsesCounted'
  BY DEF IInv, ResponsesCounted, RespLen, HandedBack, PopulateLast, wvars,
          gvars, evars
<1>5. OutPosition'
  BY DEF IInv, OutPosition, Delivering, OutThrough, OutAt, PopulateLast,
          wvars, gvars, evars
<1>6. QED
  BY <1>1, <1>2, <1>3, <1>4, <1>5 DEF IInv

\* PopulateLastErr preserves the invariant.
LEMMA PopulateLastErrStep == ASSUME IInv, PopulateLastErr PROVE IInv'
<1>1. TypeOK'
  <2>1. errored' \in 0 .. 1
    BY DEF IInv, TypeOK, PopulateLastErr, TakeErr
  <2>2. QED
    BY <2>1 DEF IInv, TypeOK, PopulateLastErr, wvars, gvars, evars
<1>2. ChOutConsecutive'
  BY DEF IInv, ChOutConsecutive, Delivering, NoErrorYet, ChOutOrder,
          ChOutReach, PopulateLastErr, TakeErr, wvars, gvars, evars
<1>3. HeightsFetchedOnce'
  BY DEF IInv, HeightsFetchedOnce, PopulateBound, ChInAscending,
          ChInUnfetched, BusyPassed, BusyBelowChIn, BusyDistinct,
          AheadUnfetched, Busy, PopulateLastErr, wvars, gvars, evars
<1>4. ResponsesCounted'
  BY DEF IInv, ResponsesCounted, RespLen, HandedBack, PopulateLastErr, wvars,
          gvars, evars
<1>5. OutPosition'
  BY DEF IInv, OutPosition, Delivering, OutThrough, OutAt, PopulateLastErr,
          wvars, gvars, evars
<1>6. QED
  BY <1>1, <1>2, <1>3, <1>4, <1>5 DEF IInv

-----------------------------------------------------------------------------
(* asyncBlockAndTx *)

\* WorkerRecv preserves the invariant.
LEMMA WorkerRecvStep == ASSUME IInv, NEW w \in Workers, WorkerRecv(w) PROVE IInv'
<1>a. /\ Head(chIn) \in Heights /\ Head(chIn) = chIn[1] /\ Tail(chIn) \in Seq(Heights)
      /\ Len(chIn) \in Nat \ {0} /\ Len(chIn') = Len(chIn) - 1
      /\ \A i \in 1 .. Len(chIn) - 1 : chIn'[i] = chIn[i + 1]
  BY TailFacts DEF IInv, TypeOK, WorkerRecv
<1>h. \A i \in 1 .. Len(chIn') : i \in Nat /\ i + 1 \in 1 .. Len(chIn) /\ chIn'[i] = chIn[i + 1]
  BY <1>a
<1>d. /\ UNCHANGED <<ppc, next, fetched>>
      /\ wh' = [wh EXCEPT ![w] = chIn[1]] /\ wpc' = [wpc EXCEPT ![w] = "fetch"]
  BY <1>a DEF WorkerRecv, pvars
<1>f. /\ \A v \in Workers \ {w} : (Busy(v)' <=> Busy(v)) /\ wh'[v] = wh[v]
      /\ wh'[w] = chIn[1] /\ ~Busy(w)
  BY <1>d, FunFacts DEF Busy, WorkerRecv
<1>e. /\ PopulateBound /\ ChInAscending /\ ChInUnfetched /\ BusyPassed
      /\ BusyBelowChIn /\ BusyDistinct /\ AheadUnfetched
  BY DEF IInv, HeightsFetchedOnce
<1>g. \A v \in Workers \ {w} : Busy(v) => wh[v] < chIn[1] /\ wh[v] \in Nat
  BY <1>a, <1>e, NumFacts DEF BusyBelowChIn
<1>1. TypeOK'
  <2>1. chIn' \in Seq(Heights) /\ Len(chIn') <= ChanCap
    BY <1>a, ConstFacts DEF IInv, TypeOK, WorkerRecv
  <2>2. wpc' \in [Workers -> {"recv", "fetch", "send", "exited"}] /\ wh' \in [Workers -> Heights]
    BY <1>a, <1>d, FunFacts
  <2>3. QED
    BY <2>1, <2>2 DEF IInv, TypeOK, WorkerRecv, pvars, gvars, evars
<1>2. ChOutConsecutive'
  BY DEF IInv, ChOutConsecutive, Delivering, NoErrorYet, ChOutOrder,
          ChOutReach, WorkerRecv, pvars, gvars, evars
<1>3. HeightsFetchedOnce'
  <2>1. PopulateBound'
    BY <1>d, <1>e DEF PopulateBound
  <2>2. ChInAscending'
    <3> SUFFICES ASSUME NEW i \in 1 .. Len(chIn'), NEW j \in 1 .. Len(chIn'), i < j
                 PROVE  chIn'[i] < chIn'[j]
      BY DEF ChInAscending
    <3>1. i + 1 < j + 1
      BY <1>h
    <3>2. QED
      BY <3>1, <1>e, <1>h DEF ChInAscending
  <2>3. ChInUnfetched'
    BY <1>d, <1>e, <1>h DEF ChInUnfetched
  <2>4. BusyPassed'
    BY <1>a, <1>d, <1>e, <1>f, NumFacts, ChInFacts DEF BusyPassed, ChInUnfetched
  <2>8. BusyBelowChIn'
    <3> SUFFICES ASSUME NEW v \in Workers, NEW i \in 1 .. Len(chIn'), Busy(v)'
                 PROVE  wh'[v] < chIn'[i]
      BY DEF BusyBelowChIn
    <3>1. i + 1 \in 1 .. Len(chIn) /\ 1 \in 1 .. Len(chIn) /\ 1 < i + 1 /\ chIn'[i] = chIn[i + 1]
      BY <1>h
    <3>2. CASE v = w
      <4>1. chIn[1] < chIn[i + 1]
        BY <3>1, <1>e DEF ChInAscending
      <4>2. QED
        BY <3>1, <3>2, <4>1, <1>f
    <3>3. CASE v # w
      <4>1. Busy(v) /\ wh'[v] = wh[v]
        BY <3>3, <1>f
      <4>2. wh[v] < chIn[i + 1]
        BY <3>1, <4>1, <1>e DEF BusyBelowChIn
      <4>3. QED
        BY <3>1, <4>1, <4>2
    <3>4. QED
      BY <3>2, <3>3
  <2>5. BusyDistinct'
    BY <1>a, <1>d, <1>e, <1>f, <1>g, NumFacts, ChInFacts DEF BusyDistinct
  <2>6. AheadUnfetched'
    BY <1>d, <1>e DEF AheadUnfetched
  <2>7. QED
    BY <2>1, <2>2, <2>3, <2>4, <2>5, <2>6, <2>8 DEF HeightsFetchedOnce
<1>4. ResponsesCounted'
  <2>1. fetched[wh'[w]] = "none"
    BY <1>a, <1>e, <1>f, ChInFacts DEF ChInUnfetched
  <2>2. \A v \in Workers \ {w} : wpc'[v] = wpc[v] /\ wh'[v] = wh[v]
    BY <1>d, FunFacts
  <2>3. wpc'[w] = "fetch"
    BY <1>d, FunFacts
  <2>4. UNCHANGED <<fetched, sent, read, gpc, cur>>
    BY DEF WorkerRecv, gvars
  <2>5. QED
    BY <2>1, <2>2, <2>3, <2>4 DEF IInv, ResponsesCounted, RespLen, HandedBack
<1>5. OutPosition'
  BY DEF IInv, OutPosition, Delivering, OutThrough, OutAt, WorkerRecv, pvars,
          gvars, evars
<1>6. QED
  BY <1>1, <1>2, <1>3, <1>4, <1>5 DEF IInv

\* WorkerExit preserves the invariant.
LEMMA WorkerExitStep == ASSUME IInv, NEW w \in Workers, WorkerExit(w) PROVE IInv'
<1>1. TypeOK'
  BY DEF IInv, TypeOK, WorkerExit, pvars, gvars, evars
<1>2. ChOutConsecutive'
  BY DEF IInv, ChOutConsecutive, Delivering, NoErrorYet, ChOutOrder,
          ChOutReach, WorkerExit, pvars, gvars, evars
<1>3. HeightsFetchedOnce'
  BY DEF IInv, HeightsFetchedOnce, PopulateBound, ChInAscending,
          ChInUnfetched, BusyPassed, BusyBelowChIn, BusyDistinct,
          AheadUnfetched, Busy, WorkerExit, pvars, gvars, evars
<1>4. ResponsesCounted'
  BY DEF IInv, ResponsesCounted, RespLen, HandedBack, WorkerExit, pvars,
          gvars, evars
<1>5. OutPosition'
  BY DEF IInv, OutPosition, Delivering, OutThrough, OutAt, WorkerExit, pvars,
          gvars, evars
<1>6. QED
  BY <1>1, <1>2, <1>3, <1>4, <1>5 DEF IInv

\* WorkerFetch preserves the invariant.
LEMMA WorkerFetchStep == ASSUME IInv, NEW w \in Workers, NEW outcome \in {"ok", "err"}, WorkerFetch(w, outcome) PROVE IInv'
<1>a. /\ UNCHANGED <<ppc, next, chIn, wh>> /\ wpc[w] = "fetch"
      /\ wpc' = [wpc EXCEPT ![w] = "send"] /\ fetched' = [fetched EXCEPT ![wh[w]] = outcome]
  BY DEF WorkerFetch, pvars
<1>b. \A v \in Workers : Busy(v)' <=> Busy(v)
  BY <1>a, FunFacts DEF Busy
<1>c. \A h \in Heights : h # wh[w] => fetched'[h] = fetched[h]
  BY <1>a, FunFacts
<1>e. /\ PopulateBound /\ ChInAscending /\ ChInUnfetched /\ BusyPassed
      /\ BusyBelowChIn /\ BusyDistinct /\ AheadUnfetched
  BY DEF IInv, HeightsFetchedOnce
<1>f. Busy(w)
  BY <1>a DEF Busy
<1>1. TypeOK'
  <2>1. /\ wpc' \in [Workers -> {"recv", "fetch", "send", "exited"}]
        /\ fetched' \in [Heights -> {"none", "ok", "err"}]
    BY <1>a, FunFacts
  <2>2. QED
    BY <2>1 DEF IInv, TypeOK, WorkerFetch, pvars, gvars, evars
<1>2. ChOutConsecutive'
  BY DEF IInv, ChOutConsecutive, Delivering, NoErrorYet, ChOutOrder,
          ChOutReach, WorkerFetch, pvars, gvars, evars
<1>3. HeightsFetchedOnce'
  <2>1. PopulateBound' /\ ChInAscending'
    BY <1>a, <1>e DEF PopulateBound, ChInAscending
  <2>2. ChInUnfetched'
    BY <1>a, <1>c, <1>e, <1>f, NumFacts, ChInFacts DEF ChInUnfetched, BusyBelowChIn
  <2>3. BusyPassed' /\ BusyBelowChIn' /\ BusyDistinct'
    BY <1>a, <1>b, <1>e DEF BusyPassed, BusyBelowChIn, BusyDistinct
  <2>4. AheadUnfetched'
    BY <1>a, <1>c, <1>e, <1>f, NumFacts DEF AheadUnfetched, BusyPassed
  <2>5. QED
    BY <2>1, <2>2, <2>3, <2>4 DEF HeightsFetchedOnce
<1>4. ResponsesCounted'
  <2>1. ResponsesCounted /\ UNCHANGED <<sent, read, wh, gpc, cur>>
    BY DEF IInv, WorkerFetch, gvars
  <2>2. \A v \in Workers : v # w /\ Busy(v) => wh[v] # wh[w]
    BY <1>a DEF IInv, HeightsFetchedOnce, BusyDistinct, Busy
  <2>3. /\ \A h \in Heights : h # wh[w] => fetched'[h] = fetched[h] /\ RespLen(h)' = RespLen(h)
        /\ fetched'[wh[w]] = outcome /\ sent[wh[w]] = 0 /\ read[wh[w]] = 0 /\ ~HandedBack(wh[w])
    BY <1>a, <2>1, FunFacts DEF RespLen, ResponsesCounted
  <2>4. RespLen(wh[w])' \in Nat \ {0}
    BY <1>a, <2>3, FunFacts DEF RespLen
  <2>5. \A h \in Heights : HandedBack(h)' <=> HandedBack(h)
    BY <2>1 DEF HandedBack
  <2>6. QED
    BY <1>a, <2>1, <2>2, <2>3, <2>4, <2>5, FunFacts DEF ResponsesCounted, Busy
<1>5. OutPosition'
  <2>1. \A h \in Heights : fetched[h] # "none" => fetched'[h] = fetched[h]
    BY <1>a, FunFacts DEF IInv, ResponsesCounted
  <2>2. UNCHANGED <<gpc, cur, read, out>>
    BY DEF WorkerFetch, gvars
  <2>3. QED
    BY <2>1, <2>2 DEF IInv, OutPosition, Delivering, OutThrough, OutAt
<1>6. QED
  BY <1>1, <1>2, <1>3, <1>4, <1>5 DEF IInv

\* WorkerSend preserves the invariant.
LEMMA WorkerSendStep == ASSUME IInv, NEW w \in Workers, WorkerSend(w) PROVE IInv'
<1>1. TypeOK'
  <2>1. wpc' \in [Workers -> {"recv", "fetch", "send", "exited"}]
    BY FunFacts DEF WorkerSend
  <2>2. sent' \in [Heights -> Nat]
    BY FunFacts DEF WorkerSend
  <2>3. QED
    BY <2>1, <2>2 DEF IInv, TypeOK, WorkerSend, pvars, gvars, evars
<1>2. ChOutConsecutive'
  BY DEF IInv, ChOutConsecutive, Delivering, NoErrorYet, ChOutOrder,
          ChOutReach, WorkerSend, pvars, gvars, evars
<1>3. HeightsFetchedOnce'
  BY DEF IInv, HeightsFetchedOnce, PopulateBound, ChInAscending,
          ChInUnfetched, BusyPassed, BusyBelowChIn, BusyDistinct,
          AheadUnfetched, Busy, WorkerSend, pvars, gvars, evars
<1>4. ResponsesCounted'
  <2>1. /\ ResponsesCounted /\ UNCHANGED <<fetched, read, wh, gpc, cur>>
        /\ wh[w] \in Heights /\ wpc[w] = "send"
        /\ wpc' = [wpc EXCEPT ![w] = wpc'[w]]
        /\ wpc'[w] = "send" => sent[wh[w]] + 1 < RespLen(wh[w])
        /\ wpc'[w] # "fetch"
        /\ sent' = [sent EXCEPT ![wh[w]] = @ + 1]
    BY FunFacts DEF IInv, WorkerSend, gvars
  <2>2. \A v \in Workers : v # w /\ Busy(v) => wh[v] # wh[w]
    BY <2>1 DEF IInv, HeightsFetchedOnce, BusyDistinct, Busy
  <2>3. \A h \in Heights : /\ RespLen(h)' = RespLen(h) /\ RespLen(h) \in Nat
                           /\ HandedBack(h)' <=> HandedBack(h)
    BY <2>1, FunFacts DEF RespLen, HandedBack
  <2>4. /\ \A h \in Heights : h # wh[w] => sent'[h] = sent[h]
        /\ sent'[wh[w]] = sent[wh[w]] + 1
        /\ sent[wh[w]] < RespLen(wh[w])
    BY <2>1, FunFacts DEF ResponsesCounted
  <2>5. QED
    BY <2>1, <2>2, <2>3, <2>4, FunFacts DEF ResponsesCounted, Busy
<1>5. OutPosition'
  BY DEF IInv, OutPosition, Delivering, OutThrough, OutAt, WorkerSend, pvars,
          gvars, evars
<1>6. QED
  BY <1>1, <1>2, <1>3, <1>4, <1>5 DEF IInv

-----------------------------------------------------------------------------
(* getRange *)

\* RangeEnd preserves the invariant.
LEMMA RangeEndStep == ASSUME IInv, RangeEnd PROVE IInv'
<1>a. /\ UNCHANGED <<cur, out>> /\ gpc = "range" /\ gpc' = "ok" /\ Head(chOut).kind = "last"
      /\ chOut # << >> /\ chOut' = Tail(chOut)
  BY DEF RangeEnd
<1>b. Head(chOut) = chOut[1] /\ 1 \in 1 .. Len(chOut)
  BY <1>a, ChOutTail
<1>c. ChOutOrder /\ ChOutReach
  BY <1>a, ChOutFacts DEF Delivering
<1>d. ppc = "done" /\ Len(chOut) = 1
  BY <1>a, <1>b, <1>c, Zenon DEF ChOutOrder
<1>e. cur = LastHeight
  BY <1>d, <1>c, NumFacts DEF ChOutReach
<1>f. cur \in Heights
  BY <1>e, HeightsFacts
<1>g. OutThrough(cur)'
  BY <1>a DEF IInv, OutPosition, OutThrough, OutAt
<1>1. TypeOK'
  <2>1. chOut' \in Seq(HBTx) /\ Len(chOut') <= ChanCap
    BY <1>a, ChOutTail, ConstFacts DEF IInv, TypeOK
  <2>2. QED
    BY <1>a, <2>1 DEF IInv, TypeOK, RangeEnd, pvars, wvars, evars
<1>2. ChOutConsecutive'
  BY DEF IInv, ChOutConsecutive, Delivering, NoErrorYet, ChOutOrder,
          ChOutReach, RangeEnd, pvars, wvars, evars
<1>3. HeightsFetchedOnce'
  BY DEF IInv, HeightsFetchedOnce, PopulateBound, ChInAscending,
          ChInUnfetched, BusyPassed, BusyBelowChIn, BusyDistinct,
          AheadUnfetched, Busy, RangeEnd, pvars, wvars, evars
<1>4. ResponsesCounted'
  BY DEF IInv, ResponsesCounted, RespLen, HandedBack, RangeEnd, pvars, wvars,
          evars
<1>5. OutPosition'
  BY <1>a, <1>e, <1>f, <1>g DEF OutPosition, Delivering
<1>6. QED
  BY <1>1, <1>2, <1>3, <1>4, <1>5 DEF IInv

\* RangeNext preserves the invariant.
LEMMA RangeNextStep == ASSUME IInv, RangeNext PROVE IInv'
<1>a. /\ UNCHANGED <<ppc, next, out, read, fetched, sent, wpc, wh, errored, errClosed>>
      /\ gpc = "range" /\ gpc' = "inner" /\ Head(chOut).kind = "height" /\ cur' = Head(chOut).height
      /\ chOut' = Tail(chOut) /\ chOut # << >>
  BY DEF RangeNext, pvars, wvars
<1>b. /\ Head(chOut) = chOut[1] /\ 1 \in 1 .. Len(chOut)
      /\ Len(chOut) \in Nat /\ Len(chOut) > 0 /\ Len(chOut') = Len(chOut) - 1
      /\ \A i \in 1 .. Len(chOut') :
              i \in Nat /\ i + 1 \in 1 .. Len(chOut) /\ chOut'[i] = chOut[i + 1]
  BY <1>a, ChOutTail
<1>c. ChOutOrder /\ ChOutReach /\ NoErrorYet
  BY <1>a, ChOutFacts DEF Delivering
<1>d. cur' = cur + 1
  BY <1>a, <1>b, <1>c, Zenon DEF ChOutOrder
<1>f. ppc = "done" => Len(chOut) # 1
  BY <1>a, <1>b, <1>c, Zenon DEF ChOutOrder
<1>e. cur' \in Heights
  <2>1. cur + 1 <= LastHeight
    <3>1. ppc \in {"out", "in"} => next <= LastHeight
      BY DEF IInv, HeightsFetchedOnce, PopulateBound
    <3>3. ppc \in {"out", "in", "last", "done"}
      BY DEF IInv, TypeOK
    <3>4. QED
      BY <3>1, <3>3, <1>b, <1>c, <1>f, NumFacts DEF ChOutReach
  <2>2. cur + 1 >= Start
    BY HeightsFacts DEF IInv, TypeOK
  <2> QED BY <2>1, <2>2, <1>d, HeightsFacts, NumFacts
<1>1. TypeOK'
  <2>1. chOut' \in Seq(HBTx) /\ Len(chOut') <= ChanCap
    BY <1>a, <1>b, ChOutTail, ConstFacts DEF IInv, TypeOK
  <2>2. cur' \in (Start - 1) .. LastHeight
    BY <1>e, HeightsFacts
  <2>3. QED
    BY <1>a, <2>1, <2>2 DEF IInv, TypeOK, RangeNext, evars
<1>2. ChOutConsecutive'
  <2>1. ChOutOrder'
    <3> SUFFICES ASSUME NEW i \in 1 .. Len(chOut')
                 PROVE  /\ (chOut'[i].kind = "last") <=> (ppc' = "done" /\ i = Len(chOut'))
                        /\ chOut'[i].kind = "height" => chOut'[i].height = cur' + i
      BY DEF ChOutOrder
    <3>1. chOut'[i] = chOut[i + 1] /\ i + 1 \in 1 .. Len(chOut) /\ i \in Nat
      BY <1>b
    <3>2. /\ (chOut[i + 1].kind = "last") <=> (ppc = "done" /\ i + 1 = Len(chOut))
          /\ chOut[i + 1].kind = "height" => chOut[i + 1].height = cur + (i + 1)
      BY <3>1, <1>c DEF ChOutOrder
    <3>3. (i + 1 = Len(chOut)) <=> (i = Len(chOut'))
      BY <3>1, <1>b
    <3>4. cur + (i + 1) = cur' + i
      BY <3>1, <1>d, NumFacts
    <3>5. ppc' = ppc
      BY <1>a
    <3>6. QED
      BY <3>1, <3>2, <3>3, <3>4, <3>5, Zenon
  <2>2. ChOutReach'
    <3>1. /\ Len(chOut') = Len(chOut) - 1 /\ Len(chOut) \in Nat /\ Len(chOut) > 0
          /\ next' = next /\ ppc' = ppc /\ next \in Nat /\ cur \in Int /\ LastHeight \in Nat
      BY <1>a, <1>b, NumFacts
    <3>2. QED
      BY <3>1, <1>c, <1>d, <1>f DEF ChOutReach
  <2> QED BY <2>1, <2>2, <1>a, <1>c DEF ChOutConsecutive, NoErrorYet
<1>3. HeightsFetchedOnce'
  BY DEF IInv, HeightsFetchedOnce, PopulateBound, ChInAscending,
          ChInUnfetched, BusyPassed, BusyBelowChIn, BusyDistinct,
          AheadUnfetched, Busy, RangeNext, pvars, wvars, evars
<1>4. ResponsesCounted'
  <2>1. \A h \in Heights : HandedBack(h)' => HandedBack(h)
    BY <1>a, <1>d, NumFacts DEF HandedBack
  <2>2. \A h \in Heights : RespLen(h)' = RespLen(h)
    BY <1>a DEF RespLen
  <2>3. QED
    BY <1>a, <2>1, <2>2, FunFacts DEF IInv, ResponsesCounted
<1>5. OutPosition'
  <2>1. OutThrough(cur)
    BY <1>a DEF IInv, OutPosition
  <2>2. OutThrough(cur - 1)'
    <3>1. cur' - 1 = cur
      BY <1>d, NumFacts
    <3>2. QED
      BY <3>1, <2>1, <1>a DEF OutThrough, OutAt
  <2>3. \A h \in Heights : h >= cur' => read[h] = 0
    BY <1>a, <1>d, NumFacts DEF IInv, OutPosition, Delivering
  <2> QED BY <2>2, <2>3, <1>a, <1>e, NumFacts DEF OutPosition, Delivering
<1>6. QED
  BY <1>1, <1>2, <1>3, <1>4, <1>5 DEF IInv

\* Where getRange stands when it receives from a response channel.
LEMMA ReadFacts == ASSUME IInv, InnerRecv
  PROVE  /\ cur \in Heights /\ cur \in Nat /\ gpc = "inner" /\ read[cur] < sent[cur] /\ read[cur] \in Nat /\ sent[cur] <= RespLen(cur)
         /\ fetched[cur] \in {"ok", "err"} /\ sent[cur] \in Nat /\ NumTxs[cur] \in Nat
         /\ read' = [read EXCEPT ![cur] = read[cur] + 1] /\ UNCHANGED <<out, cur, sent, fetched, wpc, wh>>
<1>1. gpc = "inner" /\ read[cur] < sent[cur] /\ read' = [read EXCEPT ![cur] = read[cur] + 1]
      /\ UNCHANGED <<out, cur, sent, fetched, wpc, wh>>
  BY DEF InnerRecv, wvars
<1>2. cur \in Heights /\ cur \in Nat
  BY <1>1, NumFacts DEF IInv, OutPosition
<1>3. read[cur] \in Nat /\ sent[cur] \in Nat /\ NumTxs[cur] \in Nat
  BY <1>2, FunFacts
<1>4. sent[cur] <= RespLen(cur)
  BY <1>2 DEF IInv, ResponsesCounted
<1>5. fetched[cur] \in {"ok", "err"}
  BY <1>1, <1>2, <1>3, FunFacts DEF IInv, ResponsesCounted
<1> QED BY <1>1, <1>2, <1>3, <1>4, <1>5

\* The three cases of the switch in getRange, told apart by the counters.
LEMMA InnerRecvCases == ASSUME IInv, InnerRecv
  PROVE  \/ /\ gpc' = "range" /\ fetched[cur] = "ok" /\ read[cur] = NumTxs[cur] + 1 /\ errored' = errored
         \/ /\ gpc' = "emitErr" /\ fetched[cur] = "err" /\ read[cur] = 0 /\ errored' = errored + 1
         \/ /\ gpc' = "emit" /\ fetched[cur] = "ok" /\ read[cur] <= NumTxs[cur] /\ errored' = errored
<1>1. CASE fetched[cur] = "err"
  BY <1>1, ReadFacts DEF InnerRecv, RespType, RespLen
<1>2. CASE fetched[cur] = "ok"
  BY <1>2, ReadFacts DEF InnerRecv, RespType, RespLen
<1>3. QED
  BY <1>1, <1>2, ReadFacts

\* InnerRecv preserves the invariant.
LEMMA InnerRecvStep == ASSUME IInv, InnerRecv PROVE IInv'
<1>b. read'[cur] = read[cur] + 1 /\ \A h \in Heights : h # cur => read'[h] = read[h]
  BY ReadFacts, FunFacts
<1>1. TypeOK'
  <2>1. read' \in [Heights -> Nat]
    BY ReadFacts, FunFacts
  <2>2. errored' \in 0 .. 1 /\ gpc' \in {"range", "emitErr", "emit"}
    BY ReadFacts, InnerRecvCases, ChOutFacts DEF Delivering, NoErrorYet
  <2>3. QED
    BY <2>1, <2>2 DEF IInv, TypeOK, InnerRecv, pvars, wvars, evars
<1>2. ChOutConsecutive'
  BY DEF IInv, ChOutConsecutive, Delivering, NoErrorYet, ChOutOrder,
          ChOutReach, InnerRecv, pvars, wvars, evars
<1>3. HeightsFetchedOnce'
  BY DEF IInv, HeightsFetchedOnce, PopulateBound, ChInAscending,
          ChInUnfetched, BusyPassed, BusyBelowChIn, BusyDistinct,
          AheadUnfetched, Busy, InnerRecv, pvars, wvars, evars
<1>4. ResponsesCounted'
  <2>1. \A h \in Heights : h # cur => (HandedBack(h)' <=> HandedBack(h))
    BY ReadFacts, NumFacts DEF HandedBack
  <2>2. \A h \in Heights : RespLen(h)' = RespLen(h)
    BY ReadFacts DEF RespLen
  <2>3. HandedBack(cur)' => fetched[cur] = "ok" /\ read'[cur] = RespLen(cur)
    BY <1>b, ReadFacts, InnerRecvCases DEF HandedBack, RespLen
  <2>4. read'[cur] <= sent[cur]
    BY <1>b, ReadFacts
  <2>5. /\ \A w \in Workers : wpc[w] = "fetch" => fetched[wh[w]] = "none"
        /\ \A w \in Workers : wpc[w] = "send" =>
             fetched[wh[w]] # "none" /\ sent[wh[w]] < RespLen(wh[w])
    BY DEF IInv, ResponsesCounted
  <2>6. /\ (\A w \in Workers : wpc[w] = "fetch" => fetched[wh[w]] = "none")'
        /\ (\A w \in Workers : wpc[w] = "send" =>
             fetched[wh[w]] # "none" /\ sent[wh[w]] < RespLen(wh[w]))'
    BY <2>2, <2>5, NumFacts, ReadFacts
  <2>7. ASSUME NEW h \in Heights
        PROVE /\ read'[h] <= sent'[h]
              /\ fetched'[h] = "none" => sent'[h] = 0
              /\ sent'[h] <= RespLen(h)'
              /\ HandedBack(h)' => fetched'[h] = "ok" /\ read'[h] = RespLen(h)'
    <3>1. CASE h = cur
      BY <3>1, <2>2, <2>3, <2>4, ReadFacts
    <3>2. CASE h # cur
      BY <3>2, <1>b, <2>1, <2>2, ReadFacts DEF IInv, ResponsesCounted
    <3> QED BY <3>1, <3>2
  <2>8. QED
    BY <2>6, <2>7 DEF ResponsesCounted
<1>5. OutPosition'
  <2>1. IF read[cur] = 0 THEN OutThrough(cur - 1)
        ELSE /\ fetched[cur] = "ok"
             /\ read[cur] <= NumTxs[cur] + 1
             /\ OutAt(cur, read[cur] - 1)
    BY ReadFacts DEF IInv, OutPosition
  <2>2. \A h \in Heights : h > cur => read'[h] = 0
    BY <1>b, ReadFacts, NumFacts DEF IInv, OutPosition, Delivering
  <2>3. CASE gpc' = "range"
    <3>1. OutAt(cur, NumTxs[cur])
      BY <2>1, <2>3, InnerRecvCases, ReadFacts
    <3>2. OutThrough(cur)'
      BY <3>1, ReadFacts, NumFacts DEF OutThrough, OutAt
    <3>3. QED
      BY <2>2, <2>3, <3>2, ReadFacts DEF OutPosition
  <2>4. CASE gpc' = "emitErr"
    <3>1. OutThrough(cur - 1)'
      BY <2>1, <2>4, InnerRecvCases, ReadFacts DEF OutThrough, OutAt
    <3>2. QED
      BY <2>2, <2>4, <3>1, <1>b, InnerRecvCases, ReadFacts DEF OutPosition, Delivering
  <2>5. CASE gpc' = "emit"
    <3>1. read'[cur] \in 1 .. NumTxs[cur] + 1 /\ fetched[cur] = "ok"
      BY <2>5, <1>b, InnerRecvCases, ReadFacts
    <3>2. read[cur] = 0 => OutThrough(cur - 1)'
      BY <2>1, ReadFacts DEF OutThrough, OutAt
    <3>3. read[cur] # 0 => OutAt(cur, read[cur] - 2)'
      BY <2>1, <1>b, ReadFacts DEF OutAt
    <3>4. QED
      BY <2>2, <2>5, <3>1, <3>2, <3>3, <1>b, ReadFacts DEF OutPosition, Delivering
  <2>6. QED
    BY <2>3, <2>4, <2>5, InnerRecvCases
<1>6. QED
  BY <1>1, <1>2, <1>3, <1>4, <1>5 DEF IInv

\* The response getRange forwards: its type, height and position.
LEMMA EmitOutFacts ==
  ASSUME IInv, EmitOut
  PROVE  /\ cur \in Heights /\ cur \in Nat /\ NumTxs[cur] \in Nat /\ read[cur] \in Nat
         /\ Resp(cur, read[cur]) \in OutResponses
         /\ Resp(cur, read[cur]).height = cur
         /\ gpc = "emit" => /\ Resp(cur, read[cur]).type # "Error"
                            /\ Resp(cur, read[cur]).i = read[cur] - 1
         /\ gpc = "emitErr" => Resp(cur, read[cur]).type = "Error"
<1>1. gpc \in {"emit", "emitErr"}
  BY DEF EmitOut
<1>2. cur \in Heights /\ cur \in Nat
  BY <1>1, NumFacts DEF IInv, OutPosition
<1>3. NumTxs[cur] \in Nat /\ read[cur] \in Nat
  BY <1>2, FunFacts
<1>4. CASE gpc = "emit"
  <2>1. fetched[cur] = "ok" /\ read[cur] \in 1 .. NumTxs[cur] + 1
    BY <1>4 DEF IInv, OutPosition
  <2>2. RespType(cur, read[cur]) \in {"Block", "Transaction"}
    BY <2>1, <1>3 DEF RespType
  <2>3. QED
    BY <1>2, <1>3, <1>4, <2>1, <2>2 DEF Resp, Response, OutResponses
<1>5. CASE gpc = "emitErr"
  <2>1. fetched[cur] = "err" /\ read[cur] = 1
    BY <1>5 DEF IInv, OutPosition
  <2>2. RespType(cur, read[cur]) = "Error"
    BY <2>1 DEF RespType
  <2>3. QED
    BY <1>2, <1>3, <1>5, <2>1, <2>2 DEF Resp, Response, OutResponses
<1>6. QED
  BY <1>1, <1>4, <1>5

\* A send on out.
LEMMA OutAppend ==
  ASSUME IInv, EmitOut
  PROVE  /\ out' \in Seq(OutResponses) /\ out' # << >>
         /\ Len(out') = Len(out) + 1 /\ Len(out) \in Nat
         /\ LastOf(out') = Resp(cur, read[cur])
<1>1. out \in Seq(OutResponses) /\ out' = Append(out, Resp(cur, read[cur]))
  BY DEF IInv, TypeOK, EmitOut
<1>2. QED
  BY <1>1, EmitOutFacts, AppendFacts DEF LastOf

\* EmitOut preserves the invariant.
LEMMA EmitOutStep == ASSUME IInv, EmitOut PROVE IInv'
<1>1. TypeOK'
  <2>1. taken' \in 0 .. Len(out')
    BY OutAppend DEF IInv, TypeOK, EmitOut
  <2>2. gpc' \in {"inner", "wait"}
    BY DEF EmitOut
  <2>3. QED
    BY <2>1, <2>2, OutAppend DEF IInv, TypeOK, EmitOut, pvars, wvars, evars
<1>2. ChOutConsecutive'
  BY DEF IInv, ChOutConsecutive, Delivering, NoErrorYet, ChOutOrder,
          ChOutReach, EmitOut, pvars, wvars, evars
<1>3. HeightsFetchedOnce'
  BY DEF IInv, HeightsFetchedOnce, PopulateBound, ChInAscending,
          ChInUnfetched, BusyPassed, BusyBelowChIn, BusyDistinct,
          AheadUnfetched, Busy, EmitOut, pvars, wvars, evars
<1>4. ResponsesCounted'
  BY DEF IInv, ResponsesCounted, RespLen, HandedBack, EmitOut, pvars, wvars,
          evars
<1>5. OutPosition'
  <2>1. UNCHANGED <<cur, read, fetched>>
    BY DEF EmitOut, wvars
  <2>2. CASE gpc = "emit"
    <3>1. gpc' = "inner"
      BY <2>2 DEF EmitOut
    <3>2. fetched[cur] = "ok" /\ read[cur] \in 1 .. NumTxs[cur] + 1
      BY <2>2 DEF IInv, OutPosition
    <3>3. \A h \in Heights : h > cur => read[h] = 0
      BY <2>2 DEF IInv, OutPosition, Delivering
    <3>4. OutAt(cur, read[cur] - 1)'
      BY <2>1, <2>2, OutAppend, EmitOutFacts DEF OutAt
    <3>5. QED
      BY <2>1, <3>1, <3>2, <3>3, <3>4, EmitOutFacts DEF OutPosition, Delivering
  <2>3. CASE gpc = "emitErr"
    <3>1. gpc' = "wait"
      BY <2>3 DEF EmitOut
    <3>2. QED
      BY <2>1, <2>3, <3>1, OutAppend, EmitOutFacts DEF OutPosition, Delivering
  <2>4. QED
    BY <2>2, <2>3 DEF EmitOut
<1>6. QED
  BY <1>1, <1>2, <1>3, <1>4, <1>5 DEF IInv

\* WaitWorkers preserves the invariant.
LEMMA WaitWorkersStep == ASSUME IInv, WaitWorkers PROVE IInv'
<1>1. TypeOK'
  BY DEF IInv, TypeOK, WaitWorkers, pvars, wvars, evars
<1>2. ChOutConsecutive'
  BY DEF IInv, ChOutConsecutive, Delivering, NoErrorYet, ChOutOrder,
          ChOutReach, WaitWorkers, pvars, wvars, evars
<1>3. HeightsFetchedOnce'
  BY DEF IInv, HeightsFetchedOnce, PopulateBound, ChInAscending,
          ChInUnfetched, BusyPassed, BusyBelowChIn, BusyDistinct,
          AheadUnfetched, Busy, WaitWorkers, pvars, wvars, evars
<1>4. ResponsesCounted'
  BY DEF IInv, ResponsesCounted, RespLen, HandedBack, WaitWorkers, pvars,
          wvars, evars
<1>5. OutPosition'
  BY DEF IInv, OutPosition, Delivering, OutThrough, OutAt, WaitWorkers, pvars,
          wvars, evars
<1>6. QED
  BY <1>1, <1>2, <1>3, <1>4, <1>5 DEF IInv

\* PurgeEntry preserves the invariant.
LEMMA PurgeEntryStep == ASSUME IInv, PurgeEntry PROVE IInv'
<1>1. TypeOK'
  <2>1. chOut' \in Seq(HBTx) /\ Len(chOut') <= ChanCap
    BY ChOutTail, ConstFacts DEF IInv, TypeOK, PurgeEntry
  <2>2. read' \in [Heights -> Nat]
    BY FunFacts DEF PurgeEntry
  <2>3. QED
    BY <2>1, <2>2 DEF IInv, TypeOK, PurgeEntry, pvars, wvars, gvars, evars
<1>2. ChOutConsecutive'
  BY DEF IInv, ChOutConsecutive, Delivering, NoErrorYet, ChOutOrder,
          ChOutReach, PurgeEntry, pvars, wvars, gvars, evars
<1>3. HeightsFetchedOnce'
  BY DEF IInv, HeightsFetchedOnce, PopulateBound, ChInAscending,
          ChInUnfetched, BusyPassed, BusyBelowChIn, BusyDistinct,
          AheadUnfetched, Busy, PurgeEntry, pvars, wvars, gvars, evars
<1>4. ResponsesCounted'
  <2>1. \A h \in Heights : read'[h] = read[h] \/ read'[h] = sent[h]
    BY DEF PurgeEntry
  <2>2. gpc = "purge" /\ UNCHANGED <<wpc, wh, fetched, sent, gpc, cur>>
    BY DEF PurgeEntry, wvars, gvars
  <2>3. \A h \in Heights : RespLen(h) \in Nat /\ sent[h] \in Nat /\ read[h] \in Nat
    BY FunFacts DEF RespLen
  <2>4. QED
    BY <2>1, <2>2, <2>3 DEF IInv, ResponsesCounted, RespLen, HandedBack
<1>5. OutPosition'
  BY DEF IInv, OutPosition, Delivering, OutThrough, OutAt, PurgeEntry, pvars,
          wvars, gvars, evars
<1>6. QED
  BY <1>1, <1>2, <1>3, <1>4, <1>5 DEF IInv

\* PurgeEnd preserves the invariant.
LEMMA PurgeEndStep == ASSUME IInv, PurgeEnd PROVE IInv'
<1>1. TypeOK'
  BY DEF IInv, TypeOK, PurgeEnd, pvars, wvars, evars
<1>2. ChOutConsecutive'
  BY DEF IInv, ChOutConsecutive, Delivering, NoErrorYet, ChOutOrder,
          ChOutReach, PurgeEnd, pvars, wvars, evars
<1>3. HeightsFetchedOnce'
  BY DEF IInv, HeightsFetchedOnce, PopulateBound, ChInAscending,
          ChInUnfetched, BusyPassed, BusyBelowChIn, BusyDistinct,
          AheadUnfetched, Busy, PurgeEnd, pvars, wvars, evars
<1>4. ResponsesCounted'
  BY DEF IInv, ResponsesCounted, RespLen, HandedBack, PurgeEnd, pvars, wvars,
          evars
<1>5. OutPosition'
  BY DEF IInv, OutPosition, Delivering, OutThrough, OutAt, PurgeEnd, pvars,
          wvars, evars
<1>6. QED
  BY <1>1, <1>2, <1>3, <1>4, <1>5 DEF IInv

-----------------------------------------------------------------------------
(* the task around the call *)

\* TakeOut preserves the invariant.
LEMMA TakeOutStep == ASSUME IInv, TakeOut PROVE IInv'
<1>1. TypeOK'
  <2>1. taken' \in 0 .. Len(out)
    BY ElemFacts DEF IInv, TypeOK, TakeOut
  <2>2. QED
    BY <2>1 DEF IInv, TypeOK, TakeOut, pvars, wvars, gvars, evars
<1>2. ChOutConsecutive'
  BY DEF IInv, ChOutConsecutive, Delivering, NoErrorYet, ChOutOrder,
          ChOutReach, TakeOut, pvars, wvars, gvars, evars
<1>3. HeightsFetchedOnce'
  BY DEF IInv, HeightsFetchedOnce, PopulateBound, ChInAscending,
          ChInUnfetched, BusyPassed, BusyBelowChIn, BusyDistinct,
          AheadUnfetched, Busy, TakeOut, pvars, wvars, gvars, evars
<1>4. ResponsesCounted'
  BY DEF IInv, ResponsesCounted, RespLen, HandedBack, TakeOut, pvars, wvars,
          gvars, evars
<1>5. OutPosition'
  BY DEF IInv, OutPosition, Delivering, OutThrough, OutAt, TakeOut, pvars,
          wvars, gvars, evars
<1>6. QED
  BY <1>1, <1>2, <1>3, <1>4, <1>5 DEF IInv

\* CancelCtx preserves the invariant.
LEMMA CancelCtxStep == ASSUME IInv, CancelCtx PROVE IInv'
<1>1. TypeOK'
  BY DEF IInv, TypeOK, CancelCtx, pvars, wvars, gvars
<1>2. ChOutConsecutive'
  BY DEF IInv, ChOutConsecutive, Delivering, NoErrorYet, ChOutOrder,
          ChOutReach, CancelCtx, pvars, wvars, gvars
<1>3. HeightsFetchedOnce'
  BY DEF IInv, HeightsFetchedOnce, PopulateBound, ChInAscending,
          ChInUnfetched, BusyPassed, BusyBelowChIn, BusyDistinct,
          AheadUnfetched, Busy, CancelCtx, pvars, wvars, gvars
<1>4. ResponsesCounted'
  BY DEF IInv, ResponsesCounted, RespLen, HandedBack, CancelCtx, pvars, wvars,
          gvars
<1>5. OutPosition'
  BY DEF IInv, OutPosition, Delivering, OutThrough, OutAt, CancelCtx, pvars,
          wvars, gvars
<1>6. QED
  BY <1>1, <1>2, <1>3, <1>4, <1>5 DEF IInv

\* SenderLeaves preserves the invariant.
LEMMA SenderLeavesStep == ASSUME IInv, SenderLeaves PROVE IInv'
<1>1. TypeOK'
  BY DEF IInv, TypeOK, SenderLeaves, pvars, wvars, gvars
<1>2. ChOutConsecutive'
  BY DEF IInv, ChOutConsecutive, Delivering, NoErrorYet, ChOutOrder,
          ChOutReach, SenderLeaves, pvars, wvars, gvars
<1>3. HeightsFetchedOnce'
  BY DEF IInv, HeightsFetchedOnce, PopulateBound, ChInAscending,
          ChInUnfetched, BusyPassed, BusyBelowChIn, BusyDistinct,
          AheadUnfetched, Busy, SenderLeaves, pvars, wvars, gvars
<1>4. ResponsesCounted'
  BY DEF IInv, ResponsesCounted, RespLen, HandedBack, SenderLeaves, pvars,
          wvars, gvars
<1>5. OutPosition'
  BY DEF IInv, OutPosition, Delivering, OutThrough, OutAt, SenderLeaves,
          pvars, wvars, gvars
<1>6. QED
  BY <1>1, <1>2, <1>3, <1>4, <1>5 DEF IInv

-----------------------------------------------------------------------------
(* The invariant *)

\* The invariant holds when getRange has started its goroutines.
LEMMA InitIInv == Init => IInv
<1> SUFFICES ASSUME Init PROVE IInv
  OBVIOUS
<1>1. TypeOK
  <2>1. /\ next \in Start .. LastHeight + 1 /\ cur \in (Start - 1) .. LastHeight
        /\ wh \in [Workers -> Heights]
    BY HeightsFacts DEF Init
  <2>2. chIn \in Seq(Heights) /\ chOut \in Seq(HBTx) /\ out \in Seq(OutResponses)
    BY DEF Init
  <2>3. Len(chIn) <= ChanCap /\ Len(chOut) <= ChanCap /\ taken \in 0 .. Len(out)
    BY ConstFacts DEF Init
  <2>4. /\ wpc \in [Workers -> {"recv", "fetch", "send", "exited"}]
        /\ fetched \in [Heights -> {"none", "ok", "err"}]
        /\ sent \in [Heights -> Nat] /\ read \in [Heights -> Nat]
    BY DEF Init
  <2>5. ppc = "out" /\ gpc = "range" /\ errored \in 0 .. 1
    BY DEF Init
  <2>6. errClosed \in BOOLEAN /\ ctxDone \in BOOLEAN /\ sender \in BOOLEAN
    BY Zenon DEF Init
  <2>7. QED
    BY <2>1, <2>2, <2>3, <2>4, <2>5, <2>6 DEF TypeOK
<1>2. ChOutConsecutive
  BY HeightsFacts DEF Init, ChOutConsecutive, NoErrorYet, ChOutOrder, ChOutReach
<1>3. HeightsFetchedOnce
  BY HeightsFacts DEF Init, HeightsFetchedOnce, PopulateBound, ChInAscending, ChInUnfetched,
                      BusyPassed, BusyBelowChIn, BusyDistinct, AheadUnfetched, Busy
<1>4. ResponsesCounted
  BY HeightsFacts, ConstFacts DEF Init, ResponsesCounted, RespLen, HandedBack
<1>5. OutPosition
  BY HeightsFacts DEF Init, OutPosition, OutThrough
<1>6. QED
  BY <1>1, <1>2, <1>3, <1>4, <1>5 DEF IInv

\* A step that changes nothing preserves the invariant.
LEMMA StutterStep == ASSUME IInv, UNCHANGED vars PROVE IInv'
  BY DEF vars, IInv, TypeOK, ChOutConsecutive, Delivering, NoErrorYet, ChOutOrder, ChOutReach,
         HeightsFetchedOnce, PopulateBound, ChInAscending, ChInUnfetched, BusyPassed,
         BusyBelowChIn, BusyDistinct, AheadUnfetched, Busy, ResponsesCounted, RespLen,
         HandedBack, OutPosition, OutThrough, OutAt

\* Every step of the pipeline preserves the invariant.
LEMMA NextIInv == IInv /\ [Next]_vars => IInv'
<1> SUFFICES ASSUME IInv, [Next]_vars PROVE IInv'
  OBVIOUS
<1>1. CASE Populate
  BY <1>1, PopulateOutStep, PopulateOutErrStep, PopulateInStep, PopulateInErrStep,
     PopulateLastStep, PopulateLastErrStep DEF Populate
<1>2. CASE \E w \in Workers : Worker(w)
  BY <1>2, WorkerRecvStep, WorkerExitStep, WorkerFetchStep, WorkerSendStep DEF Worker
<1>3. CASE GetRange
  BY <1>3, RangeEndStep, RangeNextStep, InnerRecvStep, EmitOutStep, WaitWorkersStep,
     PurgeEntryStep, PurgeEndStep DEF GetRange
<1>4. CASE TakeOut \/ CancelCtx \/ SenderLeaves
  BY <1>4, TakeOutStep, CancelCtxStep, SenderLeavesStep
<1>5. CASE UNCHANGED vars
  BY <1>5, StutterStep
<1>6. QED
  BY <1>1, <1>2, <1>3, <1>4, <1>5 DEF Next

\* The inductive invariant holds throughout every call of getRange.
THEOREM Invariance == Spec => []IInv
<1>1. QED
  BY InitIInv, NextIInv, PTL DEF Spec

\* Every variable of the pipeline keeps its type: no channel exceeds its
\* capacity, and at most one token is ever on errored (it has room for seven).
THEOREM TypeCorrect == Spec => []TypeOK
<1>1. IInv => TypeOK
  BY DEF IInv
<1>2. QED
  BY <1>1, Invariance, PTL

\* A response channel that getRange puts back into oRespPool after the Partial
\* of its height is empty and no worker of this call will write to it again.
THEOREM HandedBackIdle == Spec => []HandedBackChannelsIdle
<1>1. ASSUME IInv PROVE HandedBackChannelsIdle
  <2> SUFFICES ASSUME NEW h \in Heights, HandedBack(h)
               PROVE  /\ fetched[h] = "ok"
                      /\ sent[h] = RespLen(h) /\ read[h] = RespLen(h)
                      /\ \A w \in Workers : wpc[w] \in {"fetch", "send"} => wh[w] # h
    BY DEF HandedBackChannelsIdle
  <2>1. /\ fetched[h] = "ok" /\ read[h] = RespLen(h)
        /\ read[h] <= sent[h] /\ sent[h] <= RespLen(h)
    BY <1>1 DEF IInv, ResponsesCounted
  <2>2. sent[h] \in Nat /\ read[h] \in Nat
    BY <1>1, FunFacts
  <2>3. sent[h] = RespLen(h)
    BY <2>1, <2>2
  <2>4. \A w \in Workers : wpc[w] \in {"fetch", "send"} => wh[w] # h
    BY <1>1, <2>1, <2>2, <2>3 DEF IInv, ResponsesCounted
  <2>5. QED
    BY <2>1, <2>3, <2>4
<1>2. QED
  BY <1>1, Invariance, PTL

-----------------------------------------------------------------------------
(* The refinement *)

\* What getRange puts on out is one of the responses OrderedRange lets follow.
LEMMA EmitRefines ==
  ASSUME IInv, EmitOut
  PROVE  Resp(cur, read[cur]) \in Ordered!Continuations
<1>1. CASE gpc = "emit" /\ read[cur] > 1
  <2>1. fetched[cur] = "ok" /\ read[cur] <= NumTxs[cur] + 1 /\ OutAt(cur, read[cur] - 2)
    BY <1>1, EmitOutFacts DEF IInv, OutPosition
  <2>2. Resp(cur, read[cur]) = Response(cur, "Transaction", read[cur] - 1)
    BY <1>1, <2>1, EmitOutFacts DEF Resp, RespType
  <2>3. read[cur] - 2 < NumTxs[cur] /\ read[cur] - 2 + 1 = read[cur] - 1
    BY <1>1, <2>1, EmitOutFacts
  <2>4. QED
    BY <2>1, <2>2, <2>3, EmitOutFacts
       DEF OutAt, Ordered!Continuations, Ordered!Successors, Ordered!LastOf, LastOf,
           Ordered!Response, Response
<1>2. CASE gpc = "emitErr" \/ (gpc = "emit" /\ read[cur] = 1)
  <2>1. OutThrough(cur - 1) /\ read[cur] = 1
    BY <1>2 DEF IInv, OutPosition
  <2>2. Resp(cur, read[cur]) \in {Response(cur, "Block", 0), Response(cur, "Error", 0)}
    BY <2>1 , <1>2 DEF Resp, RespType, IInv, OutPosition
  <2>3. Resp(cur, read[cur]) \in Ordered!Heads(cur)
    BY <2>2, EmitOutFacts DEF Ordered!Heads, Ordered!Response, Response,
                              Ordered!Heights, Heights, Ordered!LastHeight, LastHeight
  <2>4. CASE cur = Start
    BY <2>1, <2>3, <2>4, NumFacts DEF OutThrough, Ordered!Continuations
  <2>5. CASE cur # Start
    <3>1. cur > Start
      BY <2>5, EmitOutFacts, NumFacts
    <3>2. OutAt(cur - 1, NumTxs[cur - 1]) /\ cur - 1 + 1 = cur /\ cur - 1 \in Heights
      BY <3>1, <2>1, EmitOutFacts, NumFacts, HeightsFacts DEF OutThrough
    <3>3. NumTxs[cur - 1] \in Nat
      BY <3>2, FunFacts
    <3>4. QED
      BY <3>2, <3>3, <2>3 DEF OutAt, Ordered!Continuations, Ordered!Successors, Ordered!LastOf, LastOf
  <2>6. QED
    BY <2>4, <2>5
<1>3. gpc = "emit" => read[cur] \in Nat /\ read[cur] >= 1
  BY DEF IInv, OutPosition
<1>4. QED
  BY <1>1, <1>2, <1>3 DEF EmitOut

\* When getRange takes the end marker from chOut the whole range is on out.
LEMMA FinishRefines ==
  ASSUME IInv, IInv', RangeEnd
  PROVE  /\ out # << >> /\ LastOf(out).type # "Error"
         /\ Ordered!Continuations = {}
<1>1. cur' = cur /\ out' = out /\ gpc' = "ok"
  BY DEF RangeEnd
<1>2. cur = LastHeight /\ OutThrough(cur)
  BY <1>1 DEF IInv, OutPosition, OutThrough, OutAt
<1>3. OutAt(LastHeight, NumTxs[LastHeight])
  BY <1>2, HeightsFacts DEF OutThrough
<1>4. NumTxs[LastHeight] \in Nat
  BY HeightsFacts, ConstFacts
<1>5. Ordered!Heads(LastHeight + 1) = {}
  BY HeightsFacts DEF Ordered!Heads, Ordered!Heights, Ordered!LastHeight, LastHeight
<1>6. QED
  BY <1>3, <1>4, <1>5 DEF OutAt, Ordered!Continuations, Ordered!Successors, Ordered!LastOf, LastOf

\* Every step of the pipeline is a step of OrderedRange or leaves it unchanged.
LEMMA StepRefines ==
  ASSUME IInv, IInv', [Next]_vars
  PROVE  [Ordered!Next]_Ordered!vars
<1>1. CASE UNCHANGED <<out, status>>
  BY <1>1 DEF Ordered!vars
<1>2. CASE EmitOut
  <2>1. status = "open" /\ status' = "open"
    BY <1>2 DEF EmitOut, status
  <2>2. out' = Append(out, Resp(cur, read[cur]))
    BY <1>2 DEF EmitOut
  <2>3. Ordered!Emit
    BY <1>2, <2>1, <2>2, EmitRefines DEF Ordered!Emit
  <2>4. QED
    BY <2>3 DEF Ordered!Next
<1>3. CASE RangeEnd
  <2>1. status = "open" /\ status' = "ok" /\ out' = out
    BY <1>3 DEF RangeEnd, status
  <2>2. Ordered!Finish
    BY <1>3, <2>1, FinishRefines DEF Ordered!Finish, Ordered!LastOf, LastOf
  <2>3. QED
    BY <2>2 DEF Ordered!Next
<1>4. CASE PurgeEnd
  <2>1. status = "open" /\ status' = "failed" /\ out' = out
    BY <1>4 DEF PurgeEnd, status
  <2>2. out # << >> /\ LastOf(out).type = "Error"
    BY <1>4 DEF PurgeEnd, IInv, OutPosition
  <2>3. Ordered!Fail
    BY <2>1, <2>2 DEF Ordered!Fail, Ordered!LastOf, LastOf
  <2>4. QED
    BY <2>3 DEF Ordered!Next
<1>5. CASE Populate
  BY <1>5, <1>1 DEF Populate, PopulateOut, PopulateOutErr, PopulateIn, PopulateInErr,
                    PopulateLast, PopulateLastErr, gvars, status
<1>6. CASE \E w \in Workers : Worker(w)
  BY <1>6, <1>1 DEF Worker, WorkerRecv, WorkerExit, WorkerFetch, WorkerSend, gvars, status
<1>7. CASE RangeNext \/ InnerRecv \/ WaitWorkers \/ PurgeEntry
  BY <1>7, <1>1, InnerRecvCases DEF RangeNext, InnerRecv, WaitWorkers, PurgeEntry, gvars, status
<1>8. CASE TakeOut \/ CancelCtx \/ SenderLeaves
  BY <1>8, <1>1 DEF TakeOut, CancelCtx, SenderLeaves, gvars, status
<1>9. CASE UNCHANGED vars
  BY <1>9, <1>1 DEF vars, status
<1>10. QED
  BY <1>2, <1>3, <1>4, <1>5, <1>6, <1>7, <1>8, <1>9 DEF Next, GetRange

\* getRange implements OrderedRange: whatever the number of workers and the
\* order they finish in, whatever fails and whenever the context is cancelled,
\* the responses leave in height order, each once, and a nil return means all.
THEOREM Refinement == Spec => RefinesOrderedRange
<1>1. Init => Ordered!Init
  BY DEF Init, Ordered!Init, status
<1>2. IInv /\ IInv' /\ [Next]_vars => [Ordered!Next]_Ordered!vars
  BY StepRefines
<1>3. QED
  BY <1>1, <1>2, Invariance, PTL DEF Spec, RefinesOrderedRange, Ordered!Spec

-----------------------------------------------------------------------------
(* What the promise means for out *)

Promise == INSTANCE OrderedRangeProofs WITH out <- out, status <- status

\* No interleaving of the workers loses, repeats or displaces a response, and a
\* nil return means that every block and transaction of the range is on out.
THEOREM DeliversWhole == Spec => []OutWhole
<1>1. Promise!RangeOK
  BY PipelineAssumption DEF Promise!RangeOK, Promise!Heights, Heights, Promise!LastHeight, LastHeight
<1>2. Promise!Spec => []Promise!WholeInOrder
  BY <1>1, Promise!DeliversRange
<1>3. Promise!WholeInOrder => OutWhole
  BY DEF OutWhole, Promise!WholeInOrder, Ordered!WholeInOrder, Promise!Before, Ordered!Before,
         Promise!Content, Ordered!Content, Promise!Response, Ordered!Response,
         Promise!Heights, Ordered!Heights, Promise!LastHeight, Ordered!LastHeight
<1>4. Ordered!Init => Promise!Init
  BY DEF Ordered!Init, Promise!Init
<1>5. [Ordered!Next]_Ordered!vars => [Promise!Next]_Promise!vars
  BY DEF Ordered!Next, Promise!Next, Ordered!vars, Promise!vars, Ordered!Emit, Promise!Emit,
         Ordered!Finish, Promise!Finish, Ordered!Fail, Promise!Fail,
         Ordered!Continuations, Promise!Continuations, Ordered!Successors, Promise!Successors,
         Ordered!Heads, Promise!Heads, Ordered!LastOf, Promise!LastOf,
         Promise!Response, Ordered!Response, Promise!Heights, Ordered!Heights,
         Promise!LastHeight, Ordered!LastHeight
<1> QED
  BY <1>2, <1>3, <1>4, <1>5, Refinement, PTL DEF RefinesOrderedRange, Ordered!Spec, Promise!Spec

-----------------------------------------------------------------------------
(* The call is never stuck *)

Waiting(h)   == \E i \in 1 .. Len(chIn) : chIn[i] = h
WorkedOn(h)  == \E w \in Workers : Busy(w) /\ wh[w] = h
Answered(h)  == fetched[h] # "none" /\ sent[h] = RespLen(h)

\* Until getRange meets an Error, every height populateRange has passed waits on
\* chIn, is with a worker, or has all its responses.
NoHeightLost == Delivering => \A h \in Heights : h < next => Waiting(h) \/ WorkedOn(h) \/ Answered(h)

\* A worker ends when chIn is closed and empty, or with an Error for a height below
\* all that wait on chIn.
ExitReason(w) ==
  \/ ppc = "done" /\ chIn = << >>
  \/ /\ fetched[wh[w]] = "err" /\ wh[w] < next
     /\ \A i \in 1 .. Len(chIn) : wh[w] < chIn[i]

ExitsExplained == \A w \in Workers : wpc[w] = "exited" => ExitReason(w)

\* After an Error chOut holds at most the heights behind the failed one that
\* populateRange has passed.
ChOutBehind == /\ ppc = "out" => cur + Len(chOut) < next
               /\ ppc = "in" => cur + Len(chOut) <= next
               /\ ppc = "last" => cur + Len(chOut) <= LastHeight

FailedBehind == gpc \in {"emitErr", "wait"} => fetched[cur] = "err" /\ ChOutBehind

\* getRange purges chOut when all workers have ended, and closes errored when it
\* returns.
Ending == /\ gpc \in {"purge", "failed"} => \A w \in Workers : wpc[w] = "exited"
          /\ gpc \in {"ok", "failed"} => errClosed

\* populateRange leaves its loop behind the last height.
LoopDone == ppc \in {"last", "done"} => next = LastHeight + 1

ProgressInv == NoHeightLost /\ ExitsExplained /\ FailedBehind /\ Ending /\ LoopDone

\* What a step does to the heights on their way: nothing, or it is a step of the
\* second select of populateRange or of a worker.
LEMMA HeightSteps ==
  ASSUME [Next]_vars
  PROVE  \/ UNCHANGED <<next, chIn, wpc, wh, fetched, sent>> /\ (ppc = "done" => ppc' = "done")
         \/ PopulateIn \/ PopulateInErr
         \/ \E w \in Workers : Worker(w)
<1>1. CASE PopulateOut \/ PopulateOutErr \/ PopulateLast \/ PopulateLastErr
  BY <1>1 DEF PopulateOut, PopulateOutErr, PopulateLast, PopulateLastErr, wvars
<1>2. CASE RangeEnd \/ RangeNext \/ InnerRecv \/ EmitOut
  BY <1>2 DEF RangeEnd, RangeNext, InnerRecv, EmitOut, wvars, pvars
<1>3. CASE WaitWorkers \/ PurgeEntry \/ PurgeEnd
  BY <1>3 DEF WaitWorkers, PurgeEntry, PurgeEnd, wvars, pvars
<1>4. CASE TakeOut \/ CancelCtx \/ SenderLeaves \/ UNCHANGED vars
  BY <1>4 DEF TakeOut, CancelCtx, SenderLeaves, wvars, pvars, vars
<1>5. QED
  BY <1>1, <1>2, <1>3, <1>4 DEF Next, Populate, GetRange

\* What a worker's step leaves alone.
LEMMA WorkerLeaves ==
  ASSUME NEW w \in Workers, Worker(w)
  PROVE  UNCHANGED <<ppc, next, chOut, errored, errClosed, gpc, cur>>
BY DEF Worker, WorkerRecv, WorkerExit, WorkerFetch, WorkerSend, pvars, gvars

\* getRange never goes back to delivering.
LEMMA DeliveringBefore ==
  ASSUME IInv, [Next]_vars, Delivering'
  PROVE  Delivering
<1>1. CASE gpc' = gpc
  BY <1>1 DEF Delivering
<1>2. CASE GetRange
  BY <1>2 DEF GetRange, RangeEnd, RangeNext, InnerRecv, EmitOut, WaitWorkers, PurgeEntry,
              PurgeEnd, Delivering, gvars
<1>3. CASE Populate
  <2>1. gpc' = gpc
    BY <1>3 DEF Populate, PopulateOut, PopulateOutErr, PopulateIn, PopulateInErr, PopulateLast,
                PopulateLastErr, gvars
  <2>2. QED BY <1>1, <2>1
<1>4. CASE TakeOut \/ CancelCtx \/ SenderLeaves \/ UNCHANGED vars
  <2>1. gpc' = gpc
    BY <1>4 DEF TakeOut, CancelCtx, SenderLeaves, gvars, vars
  <2>2. QED BY <1>1, <2>1
<1>5. CASE \E w \in Workers : Worker(w)
  BY <1>1, <1>5, WorkerLeaves
<1>6. QED
  BY <1>2, <1>3, <1>4, <1>5 DEF Next

\* A step of worker w concerns no other worker.
LEMMA WorkerOwn ==
  ASSUME IInv, NEW w \in Workers, Worker(w)
  PROVE  /\ wpc[w] # "exited"
         /\ \A v \in Workers : v # w => wpc'[v] = wpc[v] /\ wh'[v] = wh[v]
         /\ \A v \in Workers : v # w => (Busy(v)' <=> Busy(v))
<1>1. /\ wpc[w] # "exited"
      /\ \A v \in Workers : v # w => wpc'[v] = wpc[v] /\ wh'[v] = wh[v]
  <2>1. CASE WorkerRecv(w)
    BY <2>1, FunFacts DEF WorkerRecv
  <2>2. CASE WorkerExit(w)
    BY <2>2, FunFacts DEF WorkerExit
  <2>3. CASE \E outcome \in {"ok", "err"} : WorkerFetch(w, outcome)
    BY <2>3, FunFacts DEF WorkerFetch
  <2>4. CASE WorkerSend(w)
    BY <2>4, FunFacts DEF WorkerSend
  <2>5. QED
    BY <2>1, <2>2, <2>3, <2>4 DEF Worker
<1>2. QED
  BY <1>1 DEF Busy

\* No height is lost on its way to the workers.
LEMMA NoHeightLostStep ==
  ASSUME IInv, NoHeightLost, [Next]_vars
  PROVE  NoHeightLost'
<1>1. SUFFICES ASSUME Delivering' PROVE \A h \in Heights : h < next' => Waiting(h)' \/ WorkedOn(h)' \/ Answered(h)'
  BY DEF NoHeightLost
<1>2. Delivering /\ errored = 0 /\ ~errClosed
  BY <1>1, DeliveringBefore, ChOutFacts DEF NoErrorYet
<1>3. \A h \in Heights : h < next => Waiting(h) \/ WorkedOn(h) \/ Answered(h)
  BY <1>2 DEF NoHeightLost
<1>4. CASE UNCHANGED <<next, chIn, wpc, wh, fetched, sent>>
  BY <1>3, <1>4 DEF Waiting, WorkedOn, Answered, Busy, RespLen
<1>5. CASE PopulateIn
  <2>1. /\ next' = next + 1 /\ next \in Heights /\ next \in Nat
        /\ chIn' = Append(chIn, next) /\ chIn \in Seq(Heights)
        /\ UNCHANGED <<wpc, wh, fetched, sent>>
    BY <1>5, NextStep DEF PopulateIn, wvars, IInv, TypeOK
  <2>2. /\ Len(chIn) \in Nat /\ Len(chIn') = Len(chIn) + 1 /\ chIn'[Len(chIn) + 1] = next
        /\ \A i \in 1 .. Len(chIn) : chIn'[i] = chIn[i]
    BY <2>1, AppendFacts
  <2>3. ASSUME NEW h \in Heights, h < next' PROVE Waiting(h)' \/ WorkedOn(h)' \/ Answered(h)'
    <3>1. CASE h = next
      BY <2>2, <3>1 DEF Waiting
    <3>2. CASE h # next
      <4>1. h < next
        BY <2>1, <2>3, <3>2, NumFacts
      <4>2. CASE Waiting(h)
        BY <2>2, <4>2 DEF Waiting
      <4>3. CASE WorkedOn(h)
        BY <2>1, <4>3 DEF WorkedOn, Busy
      <4>4. CASE Answered(h)
        BY <2>1, <4>4 DEF Answered, RespLen
      <4>5. QED
        BY <1>3, <4>1, <4>2, <4>3, <4>4
    <3>3. QED
      BY <3>1, <3>2
  <2>4. QED
    BY <2>3
<1>6. CASE PopulateInErr
  BY <1>2, <1>6 DEF PopulateInErr, TakeErr
<1>7. ASSUME NEW w \in Workers, Worker(w)
      PROVE  \A h \in Heights : h < next' => Waiting(h)' \/ WorkedOn(h)' \/ Answered(h)'
  <2>1. SUFFICES ASSUME NEW h \in Heights, h < next
                 PROVE  Waiting(h)' \/ WorkedOn(h)' \/ Answered(h)'
    BY <1>7, WorkerLeaves
  <2>2. ASSUME NEW v \in Workers, v # w, Busy(v), wh[v] = h PROVE WorkedOn(h)'
    BY <1>7, <2>2, WorkerOwn DEF WorkedOn
  <2>3. CASE WorkerRecv(w)
    <3>1. /\ wpc[w] = "recv" /\ chIn # << >> /\ chIn' = Tail(chIn) /\ chIn \in Seq(Heights)
          /\ wh'[w] = Head(chIn) /\ wpc'[w] = "fetch" /\ UNCHANGED <<fetched, sent>>
      BY <2>3, FunFacts DEF WorkerRecv, IInv, TypeOK
    <3>2. /\ Len(chIn) \in Nat \ {0} /\ Head(chIn) = chIn[1] /\ Len(chIn') = Len(chIn) - 1
          /\ \A i \in 1 .. Len(chIn) - 1 : chIn'[i] = chIn[i + 1]
      BY <3>1, TailFacts
    <3>3. CASE Waiting(h)
      <4>1. PICK i \in 1 .. Len(chIn) : chIn[i] = h
        BY <3>3 DEF Waiting
      <4>2. CASE i = 1
        BY <3>1, <3>2, <4>1, <4>2 DEF WorkedOn, Busy
      <4>3. CASE i # 1
        <5>1. i - 1 \in 1 .. Len(chIn') /\ chIn'[i - 1] = h
          BY <3>2, <4>1, <4>3
        <5>2. QED
          BY <5>1 DEF Waiting
      <4>4. QED
        BY <4>2, <4>3
    <3>4. CASE WorkedOn(h)
      BY <2>2, <3>1, <3>4 DEF WorkedOn, Busy
    <3>5. CASE Answered(h)
      BY <3>1, <3>5 DEF Answered, RespLen
    <3>6. QED
      BY <1>3, <2>1, <3>3, <3>4, <3>5
  <2>4. CASE WorkerExit(w)
    <3>1. wpc[w] = "recv" /\ UNCHANGED <<chIn, fetched, sent>>
      BY <2>4 DEF WorkerExit
    <3>2. CASE WorkedOn(h)
      BY <2>2, <3>1, <3>2 DEF WorkedOn, Busy
    <3>3. QED
      BY <1>3, <2>1, <3>1, <3>2 DEF Waiting, Answered, RespLen
  <2>5. CASE \E outcome \in {"ok", "err"} : WorkerFetch(w, outcome)
    <3>1. /\ wpc'[w] = "send" /\ wh' = wh /\ UNCHANGED <<chIn, sent>>
          /\ \A g \in Heights : g # wh[w] => fetched'[g] = fetched[g]
      BY <2>5, FunFacts DEF WorkerFetch
    <3>2. CASE h = wh[w]
      BY <3>1, <3>2 DEF WorkedOn, Busy
    <3>3. CASE h # wh[w]
      <4>1. CASE WorkedOn(h)
        BY <2>2, <3>3, <4>1 DEF WorkedOn
      <4>2. CASE Answered(h)
        BY <3>1, <3>3, <4>2 DEF Answered, RespLen
      <4>3. CASE Waiting(h)
        BY <3>1, <4>3 DEF Waiting
      <4>4. QED
        BY <1>3, <2>1, <4>1, <4>2, <4>3
    <3>4. QED
      BY <3>2, <3>3
  <2>6. CASE WorkerSend(w)
    <3>1. /\ wpc[w] = "send" /\ UNCHANGED <<chIn, fetched, wh>>
          /\ sent'[wh[w]] = sent[wh[w]] + 1
          /\ \A g \in Heights : g # wh[w] => sent'[g] = sent[g]
          /\ sent[wh[w]] + 1 < RespLen(wh[w]) => wpc'[w] = "send"
      BY <2>6, FunFacts, NumFacts DEF WorkerSend
    <3>2. CASE h = wh[w]
      <4>1. /\ fetched[h] # "none" /\ sent[h] < RespLen(h) /\ sent[h] \in Nat /\ RespLen(h) \in Nat
        BY <3>1, <3>2, FunFacts DEF IInv, ResponsesCounted, RespLen
      <4>2. CASE sent[h] + 1 < RespLen(h)
        BY <3>1, <3>2, <4>2 DEF WorkedOn, Busy
      <4>3. CASE ~(sent[h] + 1 < RespLen(h))
        <5>1. sent'[h] = RespLen(h)
          BY <3>1, <3>2, <4>1, <4>3
        <5>2. QED
          BY <3>1, <4>1, <5>1 DEF Answered, RespLen
      <4>4. QED
        BY <4>2, <4>3
    <3>3. CASE h # wh[w]
      <4>1. CASE WorkedOn(h)
        BY <2>2, <3>3, <4>1 DEF WorkedOn
      <4>2. CASE Answered(h)
        BY <3>1, <3>3, <4>2 DEF Answered, RespLen
      <4>3. CASE Waiting(h)
        BY <3>1, <4>3 DEF Waiting
      <4>4. QED
        BY <1>3, <2>1, <4>1, <4>2, <4>3
    <3>4. QED
      BY <3>2, <3>3
  <2>7. QED
    BY <1>7, <2>3, <2>4, <2>5, <2>6 DEF Worker
<1>8. QED
  BY <1>4, <1>5, <1>6, <1>7, HeightSteps

\* The reason a worker has ended for stays true.
LEMMA ExitsExplainedStep ==
  ASSUME IInv, ExitsExplained, [Next]_vars
  PROVE  ExitsExplained'
<1>1. CASE UNCHANGED <<next, chIn, wpc, wh, fetched, sent>> /\ (ppc = "done" => ppc' = "done")
  BY <1>1 DEF ExitsExplained, ExitReason
<1>2. CASE PopulateIn \/ PopulateInErr
  <2>1. /\ next' = next + 1 /\ next \in Heights /\ next \in Nat /\ ppc = "in"
        /\ chIn \in Seq(Heights)
        /\ chIn' = Append(chIn, next) \/ chIn' = chIn
        /\ UNCHANGED <<wpc, wh, fetched>>
    BY <1>2, NextStep DEF PopulateIn, PopulateInErr, wvars, IInv, TypeOK
  <2>2. /\ Len(chIn) \in Nat
        /\ \A i \in 1 .. Len(chIn') : (i \in 1 .. Len(chIn) /\ chIn'[i] = chIn[i]) \/ chIn'[i] = next
    <3>1. CASE chIn' = chIn
      BY <2>1, <3>1, ElemFacts
    <3>2. CASE chIn' = Append(chIn, next)
      <4>1. /\ Len(chIn) \in Nat /\ Len(chIn') = Len(chIn) + 1 /\ chIn'[Len(chIn) + 1] = next
            /\ \A i \in 1 .. Len(chIn) : chIn'[i] = chIn[i]
        BY <2>1, <3>2, AppendFacts
      <4>2. QED
        BY <4>1
    <3>3. QED
      BY <2>1, <3>1, <3>2
  <2>3. ASSUME NEW v \in Workers, wpc[v] = "exited" PROVE ExitReason(v)'
    <3>1. /\ fetched[wh[v]] = "err" /\ wh[v] < next
          /\ \A i \in 1 .. Len(chIn) : wh[v] < chIn[i]
      BY <2>1, <2>3 DEF ExitsExplained, ExitReason
    <3>2. wh[v] < next'
      BY <2>1, <3>1, NumFacts
    <3>3. \A i \in 1 .. Len(chIn') : wh[v] < chIn'[i]
      BY <2>2, <3>1
    <3>4. QED
      BY <2>1, <3>1, <3>2, <3>3 DEF ExitReason
  <2>4. QED
    BY <2>1, <2>3 DEF ExitsExplained
<1>3. ASSUME NEW w \in Workers, Worker(w) PROVE ExitsExplained'
  <2>1. ppc' = ppc /\ next' = next
    BY <1>3, WorkerLeaves
  <2>2. ASSUME NEW v \in Workers, v # w, wpc'[v] = "exited" PROVE ExitReason(v)'
    <3>1. wpc[v] = "exited" /\ wh'[v] = wh[v] /\ ExitReason(v) /\ wh[v] \in Heights
      BY <1>3, <2>2, WorkerOwn, FunFacts DEF ExitsExplained
    <3>2. fetched[wh[v]] = "err" => fetched'[wh[v]] = "err"
      <4>1. CASE \E outcome \in {"ok", "err"} : WorkerFetch(w, outcome)
        <5>1. /\ fetched[wh[w]] = "none"
              /\ \A g \in Heights : g # wh[w] => fetched'[g] = fetched[g]
          BY <4>1, FunFacts DEF WorkerFetch, IInv, ResponsesCounted
        <5>2. QED
          BY <3>1, <5>1
      <4>2. CASE WorkerRecv(w) \/ WorkerExit(w) \/ WorkerSend(w)
        BY <4>2 DEF WorkerRecv, WorkerExit, WorkerSend
      <4>3. QED
        BY <1>3, <4>1, <4>2 DEF Worker
    <3>3. CASE WorkerRecv(w)
      <4>1. chIn # << >> /\ chIn' = Tail(chIn) /\ chIn \in Seq(Heights)
        BY <3>3 DEF WorkerRecv, IInv, TypeOK
      <4>2. /\ Len(chIn) \in Nat \ {0} /\ Len(chIn') = Len(chIn) - 1
            /\ \A i \in 1 .. Len(chIn) - 1 : chIn'[i] = chIn[i + 1]
        BY <4>1, TailFacts
      <4>3. /\ fetched[wh[v]] = "err" /\ wh[v] < next
            /\ \A i \in 1 .. Len(chIn) : wh[v] < chIn[i]
        BY <3>1, <4>1 DEF ExitReason
      <4>4. \A i \in 1 .. Len(chIn') : wh[v] < chIn'[i]
        BY <4>2, <4>3
      <4>5. QED
        BY <2>1, <3>1, <3>2, <4>3, <4>4 DEF ExitReason
    <3>4. CASE chIn' = chIn
      BY <2>1, <3>1, <3>2, <3>4 DEF ExitReason
    <3>5. QED
      BY <1>3, <3>3, <3>4 DEF Worker, WorkerExit, WorkerFetch, WorkerSend
  <2>3. ASSUME wpc'[w] = "exited" PROVE ExitReason(w)'
    <3>1. CASE WorkerExit(w)
      BY <3>1, <2>1 DEF WorkerExit, ExitReason
    <3>2. CASE WorkerSend(w)
      <4>1. /\ wpc[w] = "send" /\ fetched[wh[w]] = "err" /\ UNCHANGED <<chIn, wh, fetched>>
        BY <2>3, <3>2, FunFacts DEF WorkerSend
      <4>2. wh[w] < next /\ \A i \in 1 .. Len(chIn) : wh[w] < chIn[i]
        BY <4>1 DEF IInv, HeightsFetchedOnce, BusyPassed, BusyBelowChIn, Busy
      <4>3. QED
        BY <2>1, <4>1, <4>2 DEF ExitReason
    <3>3. CASE WorkerRecv(w) \/ \E outcome \in {"ok", "err"} : WorkerFetch(w, outcome)
      BY <2>3, <3>3, FunFacts DEF WorkerRecv, WorkerFetch
    <3>4. QED
      BY <1>3, <3>1, <3>2, <3>3 DEF Worker
  <2>4. QED
    BY <2>2, <2>3 DEF ExitsExplained
<1>4. QED
  BY <1>1, <1>2, <1>3, HeightSteps

\* The failed height stays failed: no worker fetches it again.
LEMMA ErrStays ==
  ASSUME IInv, [Next]_vars, NEW h \in Heights, fetched[h] = "err"
  PROVE  fetched'[h] = "err"
<1>1. CASE UNCHANGED fetched
  BY <1>1
<1>2. CASE PopulateIn \/ PopulateInErr
  BY <1>1, <1>2 DEF PopulateIn, PopulateInErr, wvars
<1>3. ASSUME NEW w \in Workers, Worker(w) PROVE fetched'[h] = "err"
  <2>1. CASE \E outcome \in {"ok", "err"} : WorkerFetch(w, outcome)
    BY <2>1, FunFacts DEF WorkerFetch, IInv, ResponsesCounted
  <2>2. CASE WorkerRecv(w) \/ WorkerExit(w) \/ WorkerSend(w)
    BY <1>1, <2>2 DEF WorkerRecv, WorkerExit, WorkerSend
  <2>3. QED
    BY <1>3, <2>1, <2>2 DEF Worker
<1>4. QED
  BY <1>1, <1>2, <1>3, HeightSteps

\* What populateRange may still add to chOut lies behind the failed height.
LEMMA FailedBehindStep ==
  ASSUME IInv, FailedBehind, [Next]_vars
  PROVE  FailedBehind'
<1>0. /\ Len(chOut) \in Nat /\ next \in Nat /\ cur \in Int /\ LastHeight \in Nat
      /\ cur \in Heights \/ gpc = "range"
  BY NumFacts DEF IInv, TypeOK, OutPosition
<1>1. SUFFICES ASSUME gpc' \in {"emitErr", "wait"} PROVE fetched'[cur'] = "err" /\ ChOutBehind'
  BY DEF FailedBehind
<1>2. CASE InnerRecv
  <2>1. /\ gpc = "inner" /\ gpc' = "emitErr" /\ UNCHANGED <<ppc, next, chOut, cur>>
    BY <1>1, <1>2 DEF InnerRecv, pvars
  <2>2. fetched'[cur'] = "err"
    BY <1>2, <2>1, InnerRecvStep DEF IInv, OutPosition
  <2>3. ChOutReach
    BY <2>1, ChOutFacts DEF Delivering
  <2>4. ChOutBehind
    BY <1>0, <2>3 DEF ChOutReach, ChOutBehind
  <2>5. QED
    BY <2>1, <2>2, <2>4 DEF ChOutBehind
<1>3. CASE Populate
  <2>1. gpc' = gpc /\ cur' = cur /\ fetched' = fetched
    BY <1>3 DEF Populate, PopulateOut, PopulateOutErr, PopulateIn, PopulateInErr, PopulateLast,
                PopulateLastErr, gvars, wvars
  <2>2. fetched[cur] = "err" /\ ChOutBehind
    BY <1>1, <2>1 DEF FailedBehind
  <2>3. CASE PopulateOut
    <3>1. /\ ppc = "out" /\ ppc' = "in" /\ next' = next /\ Len(chOut') = Len(chOut) + 1
      BY <2>3 DEF PopulateOut, IInv, TypeOK
    <3>2. QED
      BY <1>0, <2>1, <2>2, <3>1 DEF ChOutBehind
  <2>4. CASE PopulateOutErr
    BY <1>0, <2>1, <2>2, <2>4 DEF PopulateOutErr, ChOutBehind
  <2>5. CASE PopulateIn \/ PopulateInErr
    <3>1. /\ ppc = "in" /\ next' = next + 1 /\ chOut' = chOut
          /\ (ppc' = "last" /\ next = LastHeight) \/ ppc' = "out"
      BY <2>5, NextStep DEF PopulateIn, PopulateInErr
    <3>2. QED
      BY <1>0, <2>1, <2>2, <3>1 DEF ChOutBehind
  <2>6. CASE PopulateLast \/ PopulateLastErr
    <3>1. ppc' = "done"
      BY <2>6 DEF PopulateLast, PopulateLastErr
    <3>2. QED
      BY <2>1, <2>2, <3>1 DEF ChOutBehind
  <2>7. QED
    BY <1>3, <2>3, <2>4, <2>5, <2>6 DEF Populate
<1>4. CASE UNCHANGED <<ppc, next, chOut, cur>> /\ gpc \in {"emitErr", "wait"}
  <2>1. fetched[cur] = "err" /\ ChOutBehind /\ cur \in Heights
    BY <1>0, <1>4 DEF FailedBehind
  <2>2. QED
    BY <1>4, <2>1, ErrStays DEF ChOutBehind
<1>5. CASE \E w \in Workers : Worker(w)
  BY <1>1, <1>4, <1>5, WorkerLeaves
<1>6. CASE RangeEnd \/ RangeNext \/ EmitOut \/ WaitWorkers \/ PurgeEntry \/ PurgeEnd
  BY <1>1, <1>4, <1>6 DEF RangeEnd, RangeNext, EmitOut, WaitWorkers, PurgeEntry, PurgeEnd,
                          pvars, gvars
<1>7. CASE TakeOut \/ CancelCtx \/ SenderLeaves \/ UNCHANGED vars
  BY <1>1, <1>4, <1>7 DEF TakeOut, CancelCtx, SenderLeaves, pvars, gvars, vars
<1>8. QED
  BY <1>2, <1>3, <1>5, <1>6, <1>7 DEF Next, GetRange

\* Workers that have ended stay so, and errored stays closed.
LEMMA EndingStep ==
  ASSUME IInv, Ending, [Next]_vars
  PROVE  Ending'
<1>1. \A w \in Workers : wpc[w] = "exited" => wpc'[w] = "exited"
  <2>1. CASE UNCHANGED wpc
    BY <2>1
  <2>2. CASE PopulateIn \/ PopulateInErr
    BY <2>1, <2>2 DEF PopulateIn, PopulateInErr, wvars
  <2>3. CASE \E w \in Workers : Worker(w)
    BY <2>3, WorkerOwn
  <2>4. QED
    BY <2>1, <2>2, <2>3, HeightSteps
<1>2. CASE gpc' = gpc /\ errClosed' = errClosed
  BY <1>1, <1>2 DEF Ending
<1>3. CASE RangeEnd \/ PurgeEnd
  BY <1>1, <1>3 DEF RangeEnd, PurgeEnd, Ending
<1>4. CASE RangeNext \/ InnerRecv \/ EmitOut
  <2>1. gpc' \notin {"purge", "ok", "failed"}
    BY <1>4 DEF RangeNext, InnerRecv, EmitOut
  <2>2. QED
    BY <2>1 DEF Ending
<1>5. CASE WaitWorkers
  BY <1>1, <1>5 DEF WaitWorkers, Ending
<1>6. CASE PurgeEntry \/ TakeOut \/ CancelCtx \/ SenderLeaves \/ UNCHANGED vars
  BY <1>2, <1>6 DEF PurgeEntry, TakeOut, CancelCtx, SenderLeaves, gvars, vars
<1>7. CASE Populate
  BY <1>2, <1>7 DEF Populate, PopulateOut, PopulateOutErr, PopulateIn, PopulateInErr,
                    PopulateLast, PopulateLastErr, gvars
<1>8. CASE \E w \in Workers : Worker(w)
  BY <1>2, <1>8, WorkerLeaves
<1>9. QED
  BY <1>3, <1>4, <1>5, <1>6, <1>7, <1>8 DEF Next, GetRange

\* Only the second select moves populateRange on, and only it ends the loop.
LEMMA LoopDoneStep ==
  ASSUME IInv, LoopDone, [Next]_vars
  PROVE  LoopDone'
<1>1. CASE next' = next /\ (ppc' = ppc \/ ppc' = "in" \/ ppc = "last")
  BY <1>1 DEF LoopDone
<1>2. CASE PopulateIn \/ PopulateInErr
  <2>1. next' = next + 1 /\ ((ppc' = "last" /\ next = LastHeight) \/ ppc' = "out")
    BY <1>2, NextStep DEF PopulateIn, PopulateInErr
  <2>2. QED
    BY <2>1 DEF LoopDone
<1>3. CASE PopulateOut \/ PopulateOutErr \/ PopulateLast \/ PopulateLastErr
  BY <1>1, <1>3 DEF PopulateOut, PopulateOutErr, PopulateLast, PopulateLastErr
<1>4. CASE \E w \in Workers : Worker(w)
  BY <1>1, <1>4, WorkerLeaves
<1>5. CASE GetRange \/ TakeOut \/ CancelCtx \/ SenderLeaves \/ UNCHANGED vars
  <2>1. UNCHANGED <<ppc, next>>
    BY <1>5 DEF GetRange, RangeEnd, RangeNext, InnerRecv, EmitOut, WaitWorkers, PurgeEntry,
                PurgeEnd, TakeOut, CancelCtx, SenderLeaves, vars, pvars
  <2>2. QED
    BY <1>1, <2>1
<1>6. QED
  BY <1>2, <1>3, <1>4, <1>5 DEF Next, Populate

\* ProgressInv is inductive, given IInv.
THEOREM ProgressInvariance == Spec => []ProgressInv
<1>1. Init => ProgressInv
  <2>1. SUFFICES ASSUME Init PROVE ProgressInv
    OBVIOUS
  <2>2. next = Start /\ ppc = "out" /\ gpc = "range" /\ wpc = [w \in Workers |-> "recv"]
    BY <2>1 DEF Init
  <2>3. NoHeightLost
    BY <2>2, HeightsFacts DEF NoHeightLost
  <2>4. ExitsExplained
    BY <2>2 DEF ExitsExplained
  <2>5. QED
    BY <2>2, <2>3, <2>4 DEF ProgressInv, FailedBehind, Ending, LoopDone
<1>2. IInv /\ ProgressInv /\ [Next]_vars => ProgressInv'
  BY NoHeightLostStep, ExitsExplainedStep, FailedBehindStep, EndingStep, LoopDoneStep
     DEF ProgressInv
<1>3. QED
  BY <1>1, <1>2, Invariance, PTL DEF Spec

\* A worker that writes to the channel of a height getRange has not passed; the
\* heights it has passed are answered and read.
LEMMA SendsAhead ==
  ASSUME IInv, NEW w \in Workers, wpc[w] = "send", gpc # "range", gpc # "ok"
  PROVE  wh[w] >= cur
<1>1. wh[w] \in Heights /\ wh[w] \in Nat /\ cur \in Int
  BY NumFacts
<1>2. CASE wh[w] < cur
  <2>1. read[wh[w]] = RespLen(wh[w])
    BY <1>1, <1>2 DEF IInv, ResponsesCounted, HandedBack
  <2>2. read[wh[w]] <= sent[wh[w]] /\ sent[wh[w]] < RespLen(wh[w])
    BY <1>1 DEF IInv, ResponsesCounted
  <2>3. read[wh[w]] \in Nat /\ sent[wh[w]] \in Nat
    BY <1>1, FunFacts
  <2>4. QED
    BY <2>1, <2>2, <2>3
<1>3. QED
  BY <1>1, <1>2

\* getRange reads from chOut: populateRange has an entry for it.
LEMMA RangeGoes ==
  ASSUME IInv, gpc = "range"
  PROVE  GetRangeCanGo \/ PopulateCanGo
<1>1. CASE chOut # << >>
  BY <1>1 DEF GetRangeCanGo
<1>2. CASE chOut = << >>
  <2>1. Len(chOut) = 0 /\ 0 < ChanCap
    BY <1>2, ConstFacts
  <2>2. ChOutReach
    BY ChOutFacts DEF Delivering
  <2>3. CASE ppc \in {"out", "last"}
    BY <2>1, <2>3 DEF PopulateCanGo
  <2>4. CASE ppc = "in"
    <3>1. next = cur /\ next \in Heights
      BY <2>1, <2>2, <2>4, NumFacts, HeightsFacts
         DEF ChOutReach, IInv, TypeOK, HeightsFetchedOnce, PopulateBound
    <3>2. fetched[cur] = "ok"
      BY <3>1 DEF IInv, ResponsesCounted, HandedBack
    <3>3. fetched[cur] = "none"
      BY <3>1, NumFacts DEF IInv, HeightsFetchedOnce, AheadUnfetched
    <3>4. QED
      BY <3>2, <3>3
  <2>5. CASE ppc = "done"
    BY <2>1, <2>2, <2>5 DEF ChOutReach
  <2>6. QED
    BY <2>3, <2>4, <2>5 DEF IInv, TypeOK
<1>3. QED
  BY <1>1, <1>2

\* If something waits on chIn that is not below cur, no worker that cannot take it
\* is to blame: as long as getRange delivers, some worker can go on.
LEMMA WorkersFree ==
  ASSUME IInv, ProgressInv, gpc = "inner", NEW i \in 1 .. Len(chIn),
         chIn[i] = cur \/ next = cur
  PROVE  \E w \in Workers : WorkerCanGo(w)
<1>1. /\ Len(chIn) \in Nat /\ chIn # << >> /\ chIn[i] \in Nat /\ chIn[i] < next /\ cur \in Int
      /\ next \in Nat
  BY ChInFacts, NumFacts DEF IInv, HeightsFetchedOnce, ChInUnfetched
<1>2. chIn[i] <= cur
  BY <1>1
<1>3. PICK w \in Workers : TRUE
  BY PipelineAssumption
<1>4. wh[w] \in Heights /\ wh[w] \in Nat
  BY NumFacts
<1>5. CASE wpc[w] = "recv" \/ wpc[w] = "fetch"
  BY <1>1, <1>5 DEF WorkerCanGo
<1>6. CASE wpc[w] = "send"
  <2>1. wh[w] < chIn[i]
    BY <1>6 DEF IInv, HeightsFetchedOnce, BusyBelowChIn, Busy
  <2>2. wh[w] >= cur
    BY <1>6, SendsAhead
  <2>3. QED
    BY <1>1, <1>2, <1>4, <2>1, <2>2
<1>7. CASE wpc[w] = "exited"
  <2>1. fetched[wh[w]] = "err" /\ wh[w] < chIn[i]
    BY <1>1, <1>7 DEF ProgressInv, ExitsExplained, ExitReason
  <2>2. wh[w] < cur
    BY <1>1, <1>2, <1>4, <2>1
  <2>3. fetched[wh[w]] = "ok"
    BY <1>4, <2>2 DEF IInv, ResponsesCounted, HandedBack
  <2>4. QED
    BY <2>1, <2>3
<1>8. QED
  BY <1>3, <1>5, <1>6, <1>7, FunFacts

\* getRange waits for a response of cur: it is there, or comes.
LEMMA InnerGoes ==
  ASSUME IInv, ProgressInv, gpc = "inner"
  PROVE  GetRangeCanGo \/ PopulateCanGo \/ \E w \in Workers : WorkerCanGo(w)
<1>1. /\ cur \in Heights /\ cur \in Nat /\ next \in Nat /\ read[cur] \in Nat /\ sent[cur] \in Nat
      /\ NumTxs[cur] \in Nat /\ RespCap \in Nat \ {0} /\ ChanCap \in Nat \ {0}
  BY NumFacts, FunFacts, ConstFacts DEF IInv, OutPosition
<1>2. SUFFICES ASSUME ~(read[cur] < sent[cur])
               PROVE  PopulateCanGo \/ \E w \in Workers : WorkerCanGo(w)
  BY DEF GetRangeCanGo
<1>3. read[cur] = sent[cur]
  BY <1>1, <1>2 DEF IInv, ResponsesCounted
<1>4. CASE cur < next
  <2>1. Waiting(cur) \/ WorkedOn(cur) \/ Answered(cur)
    BY <1>1, <1>4 DEF ProgressInv, NoHeightLost, Delivering
  <2>2. CASE Waiting(cur)
    BY <2>2, WorkersFree DEF Waiting
  <2>3. CASE WorkedOn(cur)
    <3>1. PICK w \in Workers : Busy(w) /\ wh[w] = cur
      BY <2>3 DEF WorkedOn
    <3>2. sent[wh[w]] - read[wh[w]] < RespCap
      BY <1>1, <1>3, <3>1
    <3>3. QED
      BY <3>1, <3>2 DEF Busy, WorkerCanGo
  <2>4. CASE Answered(cur)
    <3>1. read[cur] = RespLen(cur)
      BY <1>3, <2>4 DEF Answered
    <3>2. read[cur] = 0 \/ (fetched[cur] = "ok" /\ read[cur] <= NumTxs[cur] + 1)
      BY DEF IInv, OutPosition
    <3>3. QED
      BY <1>1, <3>1, <3>2 DEF RespLen
  <2>5. QED
    BY <2>1, <2>2, <2>3, <2>4
<1>5. CASE ~(cur < next)
  <2>1. ChOutReach
    BY ChOutFacts DEF Delivering
  <2>2. Len(chOut) \in Nat /\ Len(chIn) \in Nat /\ next \in Start .. LastHeight + 1
    BY ChInFacts DEF IInv, TypeOK
  <2>3. ppc = "in" \/ ppc = "done" \/ ppc = "last" \/ ppc = "out"
    BY DEF IInv, TypeOK
  <2>4. CASE ppc = "in"
    <3>1. next = cur
      BY <1>1, <1>5, <2>1, <2>2, <2>4 DEF ChOutReach
    <3>2. CASE Len(chIn) < ChanCap
      BY <2>4, <3>2 DEF PopulateCanGo
    <3>3. CASE ~(Len(chIn) < ChanCap)
      <4>1. 1 \in 1 .. Len(chIn)
        BY <1>1, <2>2, <3>3
      <4>2. QED
        BY <3>1, <4>1, WorkersFree
    <3>4. QED
      BY <3>2, <3>3
  <2>5. CASE ppc = "out"
    BY <1>1, <1>5, <2>1, <2>2, <2>5 DEF ChOutReach
  <2>6. CASE ppc \in {"last", "done"}
    <3>1. cur <= LastHeight /\ next = LastHeight + 1
      BY <2>6, HeightsFacts DEF ProgressInv, LoopDone, IInv, TypeOK
    <3>2. QED
      BY <1>1, <1>5, <3>1, HeightsFacts
  <2>7. QED
    BY <2>3, <2>4, <2>5, <2>6
<1>6. QED
  BY <1>4, <1>5

\* getRange waits for the workers: whatever lies behind the failed height fits the
\* channels, so each worker writes its responses and ends.
LEMMA WaitGoes ==
  ASSUME IInv, ProgressInv, RestFits, gpc = "wait"
  PROVE  GetRangeCanGo \/ PopulateCanGo \/ \E w \in Workers : WorkerCanGo(w)
<1>1. /\ cur \in Heights /\ cur \in Nat /\ next \in Nat /\ LastHeight \in Nat
      /\ Len(chOut) \in Nat /\ Len(chIn) \in Nat
      /\ RespCap \in Nat \ {0} /\ ChanCap \in Nat \ {0}
  BY NumFacts, ConstFacts, ChInFacts DEF IInv, OutPosition, TypeOK
<1>2. fetched[cur] = "err" /\ ChOutBehind
  BY DEF ProgressInv, FailedBehind
<1>3. LastHeight - cur < ChanCap /\ \A k \in cur + 1 .. LastHeight : NumTxs[k] + 2 <= RespCap
  BY <1>1, <1>2 DEF RestFits
<1>4. CASE \A w \in Workers : wpc[w] = "exited"
  BY <1>4 DEF GetRangeCanGo
<1>5. ASSUME NEW w \in Workers, wpc[w] # "exited"
      PROVE  PopulateCanGo \/ \E v \in Workers : WorkerCanGo(v)
  <2>1. CASE wpc[w] = "fetch"
    BY <2>1 DEF WorkerCanGo
  <2>2. CASE wpc[w] = "send"
    <3>1. /\ wh[w] \in Heights /\ wh[w] \in Nat /\ wh[w] <= LastHeight /\ wh[w] >= cur
      BY <2>2, NumFacts, SendsAhead
    <3>2. /\ sent[wh[w]] \in Nat /\ read[wh[w]] \in Nat /\ NumTxs[wh[w]] \in Nat
          /\ sent[wh[w]] < RespLen(wh[w])
      BY <2>2, <3>1, FunFacts DEF IInv, ResponsesCounted
    <3>3. RespLen(wh[w]) <= RespCap
      <4>1. CASE fetched[wh[w]] = "err"
        BY <1>1, <4>1 DEF RespLen
      <4>2. CASE fetched[wh[w]] # "err"
        <5>1. wh[w] \in cur + 1 .. LastHeight
          BY <1>1, <1>2, <3>1, <4>2
        <5>2. QED
          BY <1>3, <4>2, <5>1 DEF RespLen
      <4>3. QED
        BY <4>1, <4>2
    <3>4. RespLen(wh[w]) \in Nat
      BY <3>2 DEF RespLen
    <3>5. sent[wh[w]] - read[wh[w]] < RespCap
      BY <1>1, <3>2, <3>3, <3>4
    <3>6. QED
      BY <2>2, <3>5 DEF WorkerCanGo
  <2>3. CASE wpc[w] = "recv"
    <3>1. CASE chIn # << >> \/ ppc = "done"
      BY <2>3, <3>1 DEF WorkerCanGo
    <3>2. CASE chIn = << >> /\ ppc = "in"
      BY <1>1, <3>2 DEF PopulateCanGo
    <3>3. CASE ppc \in {"out", "last"}
      <4>1. ppc = "out" => next <= LastHeight
        BY DEF IInv, HeightsFetchedOnce, PopulateBound
      <4>2. cur + Len(chOut) <= LastHeight
        BY <1>1, <1>2, <3>3, <4>1 DEF ChOutBehind
      <4>3. Len(chOut) < ChanCap
        BY <1>1, <1>3, <4>2
      <4>4. QED
        BY <3>3, <4>3 DEF PopulateCanGo
    <3>4. QED
      BY <3>1, <3>2, <3>3 DEF IInv, TypeOK
  <2>4. QED
    BY <1>5, <2>1, <2>2, <2>3, FunFacts
<1>6. QED
  BY <1>4, <1>5

\* getRange has returned: populateRange gets through by the closed errored, and
\* the workers by what has been read.
LEMMA ReturnedGoes ==
  ASSUME IInv, ProgressInv, gpc \in {"ok", "failed"}, ~CallOver
  PROVE  PopulateCanGo \/ \E w \in Workers : WorkerCanGo(w)
<1>1. errClosed
  BY DEF ProgressInv, Ending
<1>2. CASE ppc # "done"
  BY <1>1, <1>2 DEF PopulateCanGo
<1>3. CASE ppc = "done"
  <2>1. PICK w \in Workers : wpc[w] # "exited"
    BY <1>3 DEF CallOver
  <2>2. gpc = "ok"
    BY <2>1 DEF ProgressInv, Ending
  <2>3. CASE wpc[w] = "recv" \/ wpc[w] = "fetch"
    BY <1>3, <2>3 DEF WorkerCanGo
  <2>4. CASE wpc[w] = "send"
    <3>1. wh[w] \in Heights /\ wh[w] \in Nat /\ wh[w] <= LastHeight /\ LastHeight \in Nat
      BY NumFacts
    <3>2. HandedBack(wh[w])
      BY <2>2, <3>1 DEF HandedBack, IInv, OutPosition
    <3>3. /\ read[wh[w]] = RespLen(wh[w]) /\ read[wh[w]] <= sent[wh[w]]
          /\ sent[wh[w]] < RespLen(wh[w])
      BY <2>4, <3>1, <3>2 DEF IInv, ResponsesCounted
    <3>4. read[wh[w]] \in Nat /\ sent[wh[w]] \in Nat
      BY <3>1, FunFacts
    <3>5. QED
      BY <3>3, <3>4
  <2>5. QED
    BY <2>1, <2>3, <2>4, FunFacts
<1>4. QED
  BY <1>2, <1>3

\* The goroutines of a call and sendResp never all wait for each other, for every
\* range, number of workers and capacities, whatever fails and whenever the
\* context ends, if what lies behind a failure fits the channels.
THEOREM PipelineNeverStuck == Spec => []PipelineNotStuck
<1>1. IInv /\ ProgressInv => PipelineNotStuck
  <2>1. SUFFICES ASSUME IInv, ProgressInv, sender, RestFits, ~CallOver
                 PROVE  \/ PopulateCanGo \/ (\E w \in Workers : WorkerCanGo(w))
                        \/ GetRangeCanGo \/ taken < Len(out)
    BY DEF PipelineNotStuck
  <2>2. CASE gpc = "range"
    BY <2>1, <2>2, RangeGoes
  <2>3. CASE gpc = "inner"
    BY <2>1, <2>3, InnerGoes
  <2>4. CASE gpc \in {"emit", "emitErr"}
    <3>1. Len(out) \in Nat /\ taken \in Nat /\ OutCap \in Nat \ {0}
      BY <2>1, ConstFacts DEF IInv, TypeOK
    <3>2. Len(out) - taken < OutCap \/ taken < Len(out)
      BY <3>1
    <3>3. QED
      BY <2>4, <3>2 DEF GetRangeCanGo
  <2>5. CASE gpc = "wait"
    BY <2>1, <2>5, WaitGoes
  <2>6. CASE gpc = "purge"
    BY <2>6 DEF GetRangeCanGo
  <2>7. CASE gpc \in {"ok", "failed"}
    BY <2>1, <2>7, ReturnedGoes
  <2>8. QED
    BY <2>1, <2>2, <2>3, <2>4, <2>5, <2>6, <2>7 DEF IInv, TypeOK
<1>2. QED
  BY <1>1, Invariance, ProgressInvariance, PTL
=============================================================================
