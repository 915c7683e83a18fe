----------------------------- MODULE LatestRange -----------------------------
(***************************************************************************)
(* Which heights a GetLatest task asks for: getLastHeightRange             *)
(* (client/client.go), a pure function over uint64, and the polling it     *)
(* serves.  The manager polls with the last height it has; the node        *)
(* answers GetBlock with its latest height, which grows and, behind a load *)
(* balancer, may be behind an earlier answer.                              *)
(***************************************************************************)
EXTENDS Integers

CONSTANTS W,             \* 2^64: heights are uint64
          MaxHeights,    \* maximumHeightsToGet of the worker
          MinLatest,     \* the age of the chain: no node is below this height
          MaxLatest      \* bound on the height of the chain

ASSUME LatestAssumption ==
  /\ W \in Nat /\ MaxHeights \in Nat \ {0}
  /\ MinLatest \in Nat \ {0} /\ MaxLatest \in Nat
  /\ MinLatest <= MaxLatest /\ MaxLatest < W /\ MaxHeights < W

\* Mutant: signed heights
MinusSigned(a, b) == a - b

\* a - b on uint64
Minus(a, b) == IF a >= b THEN a - b ELSE a - b + W

HeightRange(s, e) == [start |-> s, end |-> e]

\* Mutant: no limit once something is scraped
RangeUnlimited(lastKnownHeight, maximumHeightsToGet, lastBlockFromNetwork) ==
  IF lastKnownHeight = 0
  THEN HeightRange(Minus(lastBlockFromNetwork, maximumHeightsToGet), lastBlockFromNetwork)
  ELSE HeightRange(lastKnownHeight, lastBlockFromNetwork)

\* Mutant: the limit is counted from the height the manager has
RangeAhead(lastKnownHeight, maximumHeightsToGet, lastBlockFromNetwork) ==
  HeightRange(lastKnownHeight, lastKnownHeight + maximumHeightsToGet)

\* Mutant: the limited range is one height short
RangeShort(lastKnownHeight, maximumHeightsToGet, lastBlockFromNetwork) ==
  LET lastX == Minus(lastBlockFromNetwork, maximumHeightsToGet) IN
  IF \/ lastKnownHeight = 0 /\ lastX > 0
     \/ maximumHeightsToGet < Minus(lastBlockFromNetwork, lastKnownHeight)
  THEN HeightRange(lastX + 1, lastBlockFromNetwork)
  ELSE HeightRange(lastKnownHeight, lastBlockFromNetwork)

getLastHeightRange(lastKnownHeight, maximumHeightsToGet, lastBlockFromNetwork) ==
  LET lastX == Minus(lastBlockFromNetwork, maximumHeightsToGet) IN
  IF \/ lastKnownHeight = 0 /\ lastX > 0
     \/ maximumHeightsToGet < Minus(lastBlockFromNetwork, lastKnownHeight)
  THEN HeightRange(lastX, lastBlockFromNetwork)
  ELSE HeightRange(lastKnownHeight, lastBlockFromNetwork)

-----------------------------------------------------------------------------
VARIABLES latest,    \* the node's latest height
          known,     \* LastHeight of the manager's next LatestDataRequest
          hr         \* the range of the last poll

vars == <<latest, known, hr>>

Init == /\ latest \in MinLatest .. MaxLatest
        /\ known = 0
        /\ hr = HeightRange(MinLatest, MinLatest)

\* the node answering the next poll is at another height
NodeMoves == /\ latest' \in MinLatest .. MaxLatest
             /\ UNCHANGED <<known, hr>>

\* GetLatest; the manager goes on from the end of the range or, if the range
\* failed, from where it was
Poll == /\ hr' = getLastHeightRange(known, MaxHeights, latest)
        /\ known' \in {known, hr'.end}
        /\ UNCHANGED latest

Next == NodeMoves \/ Poll

Spec == Init /\ [][Next]_vars

-----------------------------------------------------------------------------
(* Properties *)

TypeOK == /\ latest \in MinLatest .. MaxLatest
          /\ known \in 0 .. MaxLatest
          /\ hr \in [start : 0 .. W - 1, end : MinLatest .. MaxLatest]

\* A poll asks for real heights in ascending order, at most MaxHeights beyond
\* the first: no step below zero of the unsigned subtractions gets out, even if
\* the node is behind the manager.  On a chain not longer than MaxHeights they
\* do get out: the range of a first poll starts at 0 or near 2^64.
RangeSane == hr.end > MaxHeights =>
               /\ 1 <= hr.start /\ hr.start <= hr.end
               /\ hr.end - hr.start <= MaxHeights

\* A poll leaves no gap behind the height the manager has, if the node is not
\* more than MaxHeights + 1 ahead of it.
NothingSkipped ==
  [][known > 0 /\ known <= latest /\ latest - known <= MaxHeights + 1 /\ Poll
       => hr'.start <= known + 1 /\ hr'.end = latest]_vars
=============================================================================
