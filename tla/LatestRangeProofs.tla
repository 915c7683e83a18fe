-------------------------- MODULE LatestRangeProofs --------------------------
(***************************************************************************)
(* The ranges of GetLatest, for every width of the integers, every         *)
(* maximumHeightsToGet and every chain.                                    *)
(***************************************************************************)
EXTENDS LatestRange, TLAPS

\* The unsigned subtraction stays within the width.
LEMMA MinusType ==
  ASSUME NEW a \in 0 .. W - 1, NEW b \in 0 .. W - 1
  PROVE  Minus(a, b) \in 0 .. W - 1 /\ (a >= b => Minus(a, b) = a - b)
  BY LatestAssumption DEF Minus

\* What getLastHeightRange returns for heights of a chain.
LEMMA RangeType ==
  ASSUME TypeOK
  PROVE  LET r == getLastHeightRange(known, MaxHeights, latest)
         IN  r.start \in 0 .. W - 1 /\ r.end = latest /\ r = [start |-> r.start, end |-> r.end]
<1>1. known \in 0 .. W - 1 /\ MaxHeights \in 0 .. W - 1 /\ latest \in 0 .. W - 1
  BY LatestAssumption DEF TypeOK
<1>2. Minus(latest, MaxHeights) \in 0 .. W - 1
  BY <1>1, MinusType
<1>3. QED
  BY <1>1, <1>2 DEF getLastHeightRange, HeightRange

\* Every range stays within the width of uint64 and ends at the node's height.
THEOREM LatestTypeCorrect == Spec => []TypeOK
<1>1. Init => TypeOK
  BY LatestAssumption DEF Init, TypeOK, HeightRange
<1>2. ASSUME TypeOK, Next PROVE TypeOK'
  <2>1. CASE NodeMoves
    BY <1>2, <2>1 DEF NodeMoves, TypeOK
  <2>2. CASE Poll
    <3>1. hr' \in [start : 0 .. W - 1, end : MinLatest .. MaxLatest] /\ hr'.end = latest
      BY <1>2, <2>2, RangeType DEF Poll, TypeOK
    <3>2. known' \in 0 .. MaxLatest
      BY <1>2, <2>2, <3>1, LatestAssumption DEF Poll, TypeOK
    <3>3. QED
      BY <1>2, <2>2, <3>1, <3>2 DEF Poll, TypeOK
  <2>3. QED
    BY <1>2, <2>1, <2>2 DEF Next
<1>3. TypeOK /\ UNCHANGED vars => TypeOK'
  BY DEF TypeOK, vars
<1>4. QED
  BY <1>1, <1>2, <1>3, PTL DEF Spec

\* Once the chain is longer than maximumHeightsToGet no poll underflows: it asks
\* for existing heights, in ascending order, and not for more than it may, also
\* when the node is behind the height the manager has.
THEOREM SaneRanges == Spec => []RangeSane
<1>1. Init => RangeSane
  BY LatestAssumption DEF Init, RangeSane, HeightRange
<1>2. ASSUME TypeOK, RangeSane, Next PROVE RangeSane'
  <2>1. CASE NodeMoves
    BY <1>2, <2>1 DEF NodeMoves, RangeSane
  <2>2. ASSUME Poll, hr'.end > MaxHeights PROVE RangeSane'
    <3>0. hr'.end = latest
      BY <1>2, <2>2, RangeType DEF Poll
    <3>1. /\ known \in 0 .. W - 1 /\ known \in Nat /\ latest \in Nat
          /\ latest \in 0 .. W - 1 /\ latest > MaxHeights
      BY <1>2, <2>2, <3>0, LatestAssumption DEF TypeOK
    <3>2. Minus(latest, MaxHeights) = latest - MaxHeights
      BY <3>1, LatestAssumption DEF Minus
    <3>3. CASE hr' = HeightRange(latest - MaxHeights, latest)
      BY <3>1, <3>3, LatestAssumption DEF RangeSane, HeightRange
    <3>4. CASE /\ hr' = HeightRange(known, latest) /\ known # 0
               /\ Minus(latest, known) <= MaxHeights
      <4>1. known <= latest
        BY <3>1, <3>4, LatestAssumption, <1>2 DEF Minus, TypeOK
      <4>2. latest - known <= MaxHeights
        BY <3>1, <3>4, <4>1 DEF Minus
      <4>3. QED
        BY <3>1, <3>4, <4>1, <4>2 DEF RangeSane, HeightRange
    <3>5. QED
      BY <2>2, <3>1, <3>2, <3>3, <3>4, LatestAssumption, MinusType
         DEF Poll, getLastHeightRange
  <2>3. QED
    BY <1>2, <2>1, <2>2 DEF Next, RangeSane
<1>3. RangeSane /\ UNCHANGED vars => RangeSane'
  BY DEF RangeSane, vars
<1>4. QED
  BY <1>1, <1>2, <1>3, LatestTypeCorrect, PTL DEF Spec

\* A manager that is not more than maximumHeightsToGet + 1 behind misses nothing.
THEOREM NoHeightSkipped == Spec => NothingSkipped
<1>1. ASSUME TypeOK, known > 0, known <= latest, latest - known <= MaxHeights + 1, Poll
      PROVE  hr'.start <= known + 1 /\ hr'.end = latest
  <2>1. known \in Nat /\ latest \in Nat /\ MaxHeights \in Nat /\ W \in Nat
    BY <1>1, LatestAssumption DEF TypeOK
  <2>2. Minus(latest, known) = latest - known
    BY <1>1, <2>1 DEF Minus
  <2>3. CASE MaxHeights < latest - known
    <3>1. Minus(latest, MaxHeights) = latest - MaxHeights
      BY <1>1, <2>1, <2>3 DEF Minus
    <3>2. hr' = HeightRange(latest - MaxHeights, latest)
      BY <1>1, <2>1, <2>2, <2>3, <3>1 DEF Poll, getLastHeightRange
    <3>3. QED
      BY <1>1, <2>1, <3>2 DEF HeightRange
  <2>4. CASE ~(MaxHeights < latest - known)
    BY <1>1, <2>1, <2>2, <2>4 DEF Poll, getLastHeightRange, HeightRange
  <2>5. QED
    BY <2>3, <2>4
<1>2. TypeOK => [known > 0 /\ known <= latest /\ latest - known <= MaxHeights + 1 /\ Poll
                   => hr'.start <= known + 1 /\ hr'.end = latest]_vars
  BY <1>1
<1>3. QED
  BY <1>2, LatestTypeCorrect, PTL DEF NothingSkipped
=============================================================================
