------------------------- MODULE OrderedRangeProofs -------------------------
(***************************************************************************)
(* What the caller of getRange can rely on (WholeInOrder) follows from     *)
(* OrderedRange, for every range and every number of transactions.         *)
(***************************************************************************)
EXTENDS OrderedRange, TLAPS

\* A range of heights and the transactions of its blocks.
RangeOK == Start \in Nat /\ End \in Nat /\ NumTxs \in [Heights -> Nat]

\* With it, what is on the channel are responses of the range.
RangeInv ==
  /\ out \in Seq(OutResponses)
  /\ \A i \in 1 .. Len(out) : out[i].i <= NumTxs[out[i].height]
  /\ \A i \in 1 .. Len(out) : out[i].type # "Error" => out[i] = Content(out[i].height, out[i].i)
  /\ WholeInOrder

\* The heights are the naturals from Start to LastHeight.
LEMMA HeightsAre ==
  ASSUME RangeOK
  PROVE  /\ LastHeight \in Nat /\ Heights = Start .. LastHeight /\ Start \in Heights
         /\ \A h \in Heights : h \in Nat /\ NumTxs[h] \in Nat
BY DEF RangeOK, Heights, LastHeight

\* The elements of the channel, and the last of them.
LEMMA OutElems ==
  ASSUME RangeOK, RangeInv
  PROVE  /\ Len(out) \in Nat
         /\ \A i \in 1 .. Len(out) : out[i] \in OutResponses
         /\ out # << >> => Len(out) \in 1 .. Len(out) /\ LastOf(out) = out[Len(out)]
BY DEF RangeInv, LastOf

\* The place of a response: a height and a number.
LEMMA Places ==
  ASSUME RangeOK, NEW m \in OutResponses
  PROVE  m.height \in Heights /\ m.height \in Nat /\ m.i \in Nat /\ NumTxs[m.height] \in Nat
BY HeightsAre DEF OutResponses

\* Content(h, k) has its place at height h, number k, and is no Error.
LEMMA ContentIs ==
  ASSUME NEW h, NEW k
  PROVE  Content(h, k).height = h /\ Content(h, k).i = k /\ Content(h, k).type # "Error"
BY DEF Content, Response

\* What may follow is a response of the range.
LEMMA ContinuationIs ==
  ASSUME RangeOK, RangeInv, NEW m \in Continuations
  PROVE  /\ m \in OutResponses /\ m.i <= NumTxs[m.height]
         /\ m.type # "Error" => m = Content(m.height, m.i)
         /\ out # << >> => LastOf(out).type # "Error"
         /\ out = << >> => m.height = Start /\ m.i = 0
         /\ out # << >> =>
              \/ /\ m.height = LastOf(out).height /\ m.i = LastOf(out).i + 1
              \/ /\ m.height = LastOf(out).height + 1 /\ m.i = 0
                 /\ LastOf(out).i = NumTxs[LastOf(out).height]
<1>1. ASSUME NEW h, m \in Heads(h)
      PROVE  /\ m \in OutResponses /\ m.i <= NumTxs[m.height]
             /\ m.type # "Error" => m = Content(m.height, m.i)
             /\ m.height = h /\ m.i = 0
  BY <1>1, HeightsAre DEF Heads, OutResponses, Response, Content
<1>2. CASE out = << >>
  BY <1>1, <1>2 DEF Continuations
<1>3. CASE out # << >>
  <2> DEFINE L == LastOf(out)
  <2>1. L \in OutResponses /\ L.i <= NumTxs[L.height] /\ L.type # "Error" /\ m \in Successors(L)
    BY <1>3, OutElems DEF RangeInv, Continuations, Successors
  <2>2. L.height \in Heights /\ L.height \in Nat /\ L.i \in Nat /\ NumTxs[L.height] \in Nat
    BY <2>1, Places
  <2> HIDE DEF L
  <2>3. CASE L.i < NumTxs[L.height]
    <3>1. m = Response(L.height, "Transaction", L.i + 1)
      BY <2>1, <2>3 DEF Successors
    <3>2. m.height = L.height /\ m.i = L.i + 1 /\ m.type = "Transaction"
      BY <3>1 DEF Response
    <3>3. m \in OutResponses /\ m = Content(m.height, m.i) /\ m.i <= NumTxs[m.height]
      BY <2>2, <2>3, <3>1, <3>2 DEF Response, OutResponses, Content
    <3> QED BY <1>3, <2>1, <3>2, <3>3 DEF L
  <2>4. CASE ~(L.i < NumTxs[L.height])
    <3>1. m \in Heads(L.height + 1) /\ L.i = NumTxs[L.height]
      BY <2>1, <2>2, <2>4 DEF Successors
    <3> QED BY <1>1, <1>3, <2>1, <3>1 DEF L
  <2> QED BY <2>3, <2>4
<1> QED BY <1>2, <1>3

\* Everything up to the last response is on the channel.
LEMMA UpToLast ==
  ASSUME RangeOK, RangeInv, out # << >>, LastOf(out).type # "Error",
         NEW h \in Heights, NEW k \in 0 .. NumTxs[h],
         \/ h < LastOf(out).height
         \/ h = LastOf(out).height /\ k <= LastOf(out).i
  PROVE  \E i \in 1 .. Len(out) : out[i] = Content(h, k)
<1> DEFINE L == LastOf(out)
<1>1. Len(out) \in 1 .. Len(out) /\ L = out[Len(out)] /\ L \in OutResponses
  BY OutElems
<1>2. L = Content(L.height, L.i)
  BY <1>1 DEF RangeInv
<1>3. L.height \in Nat /\ L.i \in Nat /\ h \in Nat /\ k \in Nat
  BY <1>1, Places, HeightsAre
<1>4. CASE h = L.height /\ k = L.i
  BY <1>1, <1>2, <1>4
<1>5. CASE h < L.height \/ (h = L.height /\ k < L.i)
  <2>1. Before(Content(h, k), out[Len(out)])
    BY <1>1, <1>5, ContentIs DEF Before
  <2> QED BY <1>1, <2>1 DEF RangeInv, WholeInOrder
<1> QED BY <1>3, <1>4, <1>5

\* The next response keeps the promise.
LEMMA EmitKeeps ==
  ASSUME RangeOK, RangeInv, Emit
  PROVE  RangeInv'
<1>1. PICK m \in Continuations : out' = Append(out, m)
  BY DEF Emit
<1>2. status = "open" /\ status' = "open"
  BY DEF Emit
<1> DEFINE n == Len(out)
<1>3. /\ n \in Nat /\ out' \in Seq(OutResponses) /\ Len(out') = n + 1 /\ out'[n + 1] = m
      /\ \A i \in 1 .. n : out'[i] = out[i]
      /\ \A i \in 1 .. n + 1 : i \in 1 .. n \/ i = n + 1
  BY <1>1, ContinuationIs DEF RangeInv
<1>4. \A i \in 1 .. Len(out') : /\ out'[i].i <= NumTxs[out'[i].height]
                                /\ out'[i].type # "Error" => out'[i] = Content(out'[i].height, out'[i].i)
  BY <1>3, ContinuationIs DEF RangeInv
<1>5. ASSUME NEW i \in 1 .. n PROVE Before(out[i], m)
  <2>1. out # << >>
    OBVIOUS
  <2> DEFINE L == LastOf(out)
  <2>2. out[i] \in OutResponses /\ L \in OutResponses /\ L = out[n] /\ n \in 1 .. n /\ m \in OutResponses
    BY <2>1, OutElems, ContinuationIs
  <2>3. out[i].height \in Nat /\ out[i].i \in Nat /\ L.height \in Nat /\ L.i \in Nat
    BY <2>2, Places
  <2>4. out[i] = L \/ Before(out[i], L)
    BY <2>2, <1>3 DEF RangeInv, WholeInOrder
  <2>5. (m.height = L.height /\ m.i = L.i + 1) \/ m.height = L.height + 1
    BY <2>1, ContinuationIs
  <2> HIDE DEF L
  <2> QED BY <2>3, <2>4, <2>5 DEF Before
<1>6. \A i, j \in 1 .. Len(out') : i < j => Before(out'[i], out'[j])
  <2> SUFFICES ASSUME NEW i \in 1 .. Len(out'), NEW j \in 1 .. Len(out'), i < j
               PROVE  Before(out'[i], out'[j])
    OBVIOUS
  <2>1. i \in 1 .. n /\ out'[i] = out[i]
    BY <1>3
  <2>2. CASE j \in 1 .. n
    BY <1>3, <2>1, <2>2 DEF RangeInv, WholeInOrder
  <2>3. CASE j = n + 1
    BY <1>3, <1>5, <2>1, <2>3
  <2> QED BY <1>3, <2>2, <2>3
<1>7. ASSUME NEW h \in Heights, NEW k \in 0 .. NumTxs[h],
             NEW j \in 1 .. Len(out'), Before(Content(h, k), out'[j])
      PROVE  \E i \in 1 .. Len(out') : out'[i] = Content(h, k)
  <2>1. (\E i \in 1 .. n : out[i] = Content(h, k)) => (\E i \in 1 .. Len(out') : out'[i] = Content(h, k))
    BY <1>3
  <2>2. CASE j \in 1 .. n
    BY <1>3, <1>7, <2>1, <2>2 DEF RangeInv, WholeInOrder
  <2>3. CASE j = n + 1
    <3>0. h \in Nat /\ k \in Nat /\ k <= NumTxs[h] /\ Start <= h
      BY HeightsAre DEF RangeOK
    <3>1. h < m.height \/ (h = m.height /\ k < m.i)
      BY <1>3, <1>7, <2>3, ContentIs DEF Before
    <3>2. out # << >>
      BY <3>0, <3>1, ContinuationIs DEF RangeOK
    <3> DEFINE L == LastOf(out)
    <3>3. L.type # "Error" /\ L.height \in Nat /\ L.i \in Nat
      BY <3>2, OutElems, Places, ContinuationIs
    <3>4. \/ m.height = L.height /\ m.i = L.i + 1
          \/ m.height = L.height + 1 /\ m.i = 0 /\ L.i = NumTxs[L.height]
      BY <3>2, ContinuationIs
    <3>5. h < L.height \/ (h = L.height /\ k <= L.i)
      <4> HIDE DEF L
      <4> QED BY <3>0, <3>1, <3>3, <3>4
    <3> QED BY <2>1, <3>2, <3>3, <3>5, UpToLast
  <2> QED BY <1>3, <2>2, <2>3
<1>8. \A i \in 1 .. Len(out') : out'[i].type = "Error" => i = Len(out')
  <2> SUFFICES ASSUME NEW i \in 1 .. n, out[i].type = "Error" PROVE FALSE
    BY <1>3
  <2>1. i = n /\ out # << >>
    BY DEF RangeInv, WholeInOrder
  <2> QED BY <2>1, OutElems, ContinuationIs
<1> QED BY <1>2, <1>3, <1>4, <1>6, <1>7, <1>8 DEF RangeInv, WholeInOrder

\* When nothing can follow, nothing is missing.
LEMMA FinishKeeps ==
  ASSUME RangeOK, RangeInv, Finish
  PROVE  RangeInv'
<1> DEFINE L == LastOf(out)
<1>1. out # << >> /\ L.type # "Error" /\ Continuations = {} /\ out' = out /\ status = "open" /\ status' = "ok"
  BY DEF Finish
<1>2. L \in OutResponses /\ L.height \in Heights /\ L.height \in Nat /\ L.i \in Nat /\ NumTxs[L.height] \in Nat
      /\ L.i <= NumTxs[L.height] /\ L = out[Len(out)] /\ Len(out) \in 1 .. Len(out)
  BY <1>1, OutElems, Places DEF RangeInv
<1>3. Successors(L) = {}
  BY <1>1 DEF Continuations
<1> HIDE DEF L
<1>4. L.i = NumTxs[L.height] /\ Heads(L.height + 1) = {}
  BY <1>1, <1>2, <1>3 DEF Successors
<1>5. L.height = LastHeight
  <2>1. L.height + 1 \notin Heights
    BY <1>4 DEF Heads
  <2> QED BY <1>2, <2>1, HeightsAre DEF RangeOK
<1>6. ASSUME NEW h \in Heights, NEW k \in 0 .. NumTxs[h]
      PROVE  \E i \in 1 .. Len(out) : out[i] = Content(h, k)
  <2>1. h \in Nat /\ h <= L.height /\ k \in Nat /\ k <= NumTxs[h]
    BY <1>5, HeightsAre
  <2>2. h < L.height \/ (h = L.height /\ k <= L.i)
    BY <1>2, <1>4, <2>1
  <2> QED BY <1>1, <2>2, UpToLast DEF L
<1>7. \A i \in 1 .. Len(out) : out[i].type # "Error"
  BY <1>1, <1>2 DEF RangeInv, WholeInOrder
<1> QED BY <1>1, <1>6, <1>7 DEF RangeInv, WholeInOrder

\* The invariant holds while a call keeps to OrderedRange.
THEOREM RangeInvariance ==
  ASSUME RangeOK
  PROVE  Spec => []RangeInv
<1>1. Init => RangeInv
  BY DEF Init, RangeInv, WholeInOrder
<1>2. RangeInv /\ [Next]_vars => RangeInv'
  <2> SUFFICES ASSUME RangeInv, [Next]_vars PROVE RangeInv'
    OBVIOUS
  <2>1. CASE Emit
    BY <2>1, EmitKeeps
  <2>2. CASE Finish
    BY <2>2, FinishKeeps
  <2>3. CASE Fail
    BY <2>3 DEF Fail, RangeInv, WholeInOrder
  <2>4. CASE UNCHANGED vars
    BY <2>4 DEF vars, RangeInv, WholeInOrder
  <2> QED BY <2>1, <2>2, <2>3, <2>4 DEF Next
<1> QED BY <1>1, <1>2, PTL DEF Spec

\* A call that keeps to OrderedRange delivers its range whole and in order, as
\* far as it gets: the meaning of the promise RangePipeline is shown to keep.
THEOREM DeliversRange ==
  ASSUME RangeOK
  PROVE  Spec => []WholeInOrder
<1>1. RangeInv => WholeInOrder
  BY DEF RangeInv
<1> QED BY <1>1, RangeInvariance, PTL
=============================================================================
