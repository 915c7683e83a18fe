-------------------------- MODULE BlockCacheProofs --------------------------
(***************************************************************************)
(* The block cache stays coherent for every capacity, chain and number of  *)
(* concurrent callers, gives up its oldest block only when it is full, and *)
(* GetBlock answers every caller with the height it asked for.             *)
(***************************************************************************)
EXTENDS BlockCache, TLAPS

\* A block put on the channel goes behind the others.
LEMMA PutFacts ==
  ASSUME NEW S, NEW s \in Seq(S), NEW e \in S
  PROVE  /\ Append(s, e) \in Seq(S)
         /\ Len(s) \in Nat /\ Len(Append(s, e)) = Len(s) + 1
         /\ \A i \in 1 .. Len(s) : Append(s, e)[i] = s[i]
         /\ Append(s, e)[Len(s) + 1] = e
  OBVIOUS

\* The oldest block of the channel is taken, the others move up.
LEMMA EvictFacts ==
  ASSUME NEW S, NEW s \in Seq(S), Len(s) > 0
  PROVE  /\ Tail(s) \in Seq(S) /\ Len(s) \in Nat /\ Len(Tail(s)) = Len(s) - 1
         /\ Head(s) = s[1] /\ Head(s) \in S
         /\ \A i \in 1 .. Len(s) - 1 : Tail(s)[i] = s[i + 1]
  OBVIOUS

\* Adding a block to a cache that is not full.
LEMMA AddRoom ==
  ASSUME CacheCoherent, TypeOK, NEW b \in Chain, b \notin space, Len(blocks) < Cap,
         space' = space \cup {b}, blocks' = Append(blocks, b)
  PROVE  CacheCoherent' /\ blocks' \in Seq(Chain)
<1>1. /\ blocks' \in Seq(Chain) /\ Len(blocks) \in Nat /\ Len(blocks') = Len(blocks) + 1
      /\ \A i \in 1 .. Len(blocks) : blocks'[i] = blocks[i]
      /\ blocks'[Len(blocks) + 1] = b
  BY PutFacts DEF TypeOK
<1>2. \A i \in 1 .. Len(blocks) : blocks[i] # b
  BY DEF CacheCoherent
<1>3. Len(blocks') <= Cap
  BY <1>1, CacheAssumption
<1>4. \A i \in 1 .. Len(blocks') : i \in 1 .. Len(blocks) \/ i = Len(blocks) + 1
  BY <1>1
<1>5. \A x \in Chain : x \in space' <=> \E i \in 1 .. Len(blocks') : blocks'[i] = x
  <2>1. ASSUME NEW x \in Chain, x \in space' PROVE \E i \in 1 .. Len(blocks') : blocks'[i] = x
    <3>1. CASE x = b
      BY <3>1, <1>1
    <3>2. CASE x # b
      <4>1. PICK i \in 1 .. Len(blocks) : blocks[i] = x
        BY <2>1, <3>2 DEF CacheCoherent
      <4>2. QED
        BY <4>1, <1>1
    <3>3. QED
      BY <3>1, <3>2
  <2>2. ASSUME NEW x \in Chain, NEW i \in 1 .. Len(blocks'), blocks'[i] = x PROVE x \in space'
    BY <2>2, <1>1, <1>4 DEF CacheCoherent
  <2>3. QED
    BY <2>1, <2>2
<1>6. \A i, j \in 1 .. Len(blocks') : blocks'[i] = blocks'[j] => i = j
  BY <1>1, <1>2, <1>4 DEF CacheCoherent
<1>7. QED
  BY <1>1, <1>3, <1>5, <1>6 DEF CacheCoherent

\* Adding a block to a full cache: the oldest makes room.
LEMMA AddFull ==
  ASSUME CacheCoherent, TypeOK, NEW b \in Chain, b \notin space, Len(blocks) = Cap,
         space' = (space \cup {b}) \ {Head(blocks)},
         blocks' = Append(Tail(blocks), b)
  PROVE  CacheCoherent' /\ blocks' \in Seq(Chain) /\ space' \subseteq Chain
<1>1. /\ Tail(blocks) \in Seq(Chain) /\ Len(blocks) \in Nat /\ Len(blocks) > 0
      /\ Len(Tail(blocks)) = Len(blocks) - 1
      /\ Head(blocks) = blocks[1] /\ Head(blocks) \in Chain
      /\ \A i \in 1 .. Len(blocks) - 1 : Tail(blocks)[i] = blocks[i + 1]
  BY EvictFacts, CacheAssumption DEF TypeOK
<1>2. /\ blocks' \in Seq(Chain) /\ Len(blocks') = Len(blocks)
      /\ \A i \in 1 .. Len(blocks) - 1 : blocks'[i] = blocks[i + 1]
      /\ blocks'[Len(blocks)] = b
  BY <1>1, PutFacts
<1>3. \A i \in 1 .. Len(blocks) : blocks[i] # b
  BY DEF CacheCoherent
<1>4. \A i \in 1 .. Len(blocks') : i \in 1 .. Len(blocks) - 1 \/ i = Len(blocks)
  BY <1>1, <1>2
<1>5. \A x \in Chain : x \in space' <=> \E i \in 1 .. Len(blocks') : blocks'[i] = x
  <2>1. ASSUME NEW x \in Chain, x \in space' PROVE \E i \in 1 .. Len(blocks') : blocks'[i] = x
    <3>1. CASE x = b
      BY <3>1, <1>1, <1>2
    <3>2. CASE x # b
      <4>1. PICK i \in 1 .. Len(blocks) : blocks[i] = x
        BY <2>1, <3>2 DEF CacheCoherent
      <4>2. i # 1
        BY <4>1, <2>1, <1>1
      <4>3. i - 1 \in 1 .. Len(blocks) - 1 /\ i - 1 \in 1 .. Len(blocks') /\ i - 1 + 1 = i
        BY <4>2, <1>1, <1>2
      <4>4. blocks'[i - 1] = x
        BY <4>1, <4>3, <1>2
      <4>5. QED
        BY <4>3, <4>4
    <3>3. QED
      BY <3>1, <3>2
  <2>2. ASSUME NEW x \in Chain, NEW i \in 1 .. Len(blocks'), blocks'[i] = x PROVE x \in space'
    <3>1. CASE i = Len(blocks)
      <4>1. x = b
        BY <3>1, <2>2, <1>2
      <4>2. b # Head(blocks)
        BY <1>1, <1>3
      <4>3. QED
        BY <4>1, <4>2
    <3>2. CASE i \in 1 .. Len(blocks) - 1
      <4>1. x = blocks[i + 1] /\ i + 1 \in 1 .. Len(blocks) /\ i + 1 # 1
        BY <3>2, <2>2, <1>1, <1>2
      <4>2. x \in space
        BY <4>1 DEF CacheCoherent
      <4>3. x # Head(blocks)
        BY <4>1, <1>1 DEF CacheCoherent
      <4>4. QED
        BY <4>2, <4>3
    <3>3. QED
      BY <3>1, <3>2, <1>4
  <2>3. QED
    BY <2>1, <2>2
<1>6. ASSUME NEW i \in 1 .. Len(blocks'), NEW j \in 1 .. Len(blocks'), blocks'[i] = blocks'[j]
      PROVE  i = j
  <2>1. CASE i \in 1 .. Len(blocks) - 1 /\ j \in 1 .. Len(blocks) - 1
    <3>1. blocks[i + 1] = blocks[j + 1] /\ i + 1 \in 1 .. Len(blocks) /\ j + 1 \in 1 .. Len(blocks)
      BY <2>1, <1>6, <1>1, <1>2
    <3>2. i + 1 = j + 1
      BY <3>1 DEF CacheCoherent
    <3>3. QED
      BY <3>2, <2>1
  <2>2. CASE i = Len(blocks) /\ j \in 1 .. Len(blocks) - 1
    BY <2>2, <1>6, <1>1, <1>2, <1>3
  <2>3. CASE j = Len(blocks) /\ i \in 1 .. Len(blocks) - 1
    BY <2>3, <1>6, <1>1, <1>2, <1>3
  <2>4. QED
    BY <2>1, <2>2, <2>3, <1>4
<1>7. Len(blocks') <= Cap
  BY <1>1, <1>2
<1>8. space' \subseteq Chain
  BY DEF TypeOK
<1>9. QED
  BY <1>2, <1>5, <1>6, <1>7, <1>8 DEF CacheCoherent

\* Every step of a caller keeps the types and the coherence of the cache.
LEMMA CacheStep ==
  ASSUME TypeOK, CacheCoherent, [Next]_vars
  PROVE  TypeOK' /\ CacheCoherent'
<1>1. ASSUME NEW c \in Callers, NEW h \in Chain \cup {0}, Lookup(c, h)
      PROVE  TypeOK' /\ CacheCoherent'
  BY <1>1 DEF Lookup, TypeOK, CacheCoherent, GetKey
<1>2. ASSUME NEW c \in Callers, NEW b \in Chain, Fetch(c, b)
      PROVE  TypeOK' /\ CacheCoherent'
  BY <1>2, CacheAssumption DEF Fetch, TypeOK, CacheCoherent
<1>3. ASSUME NEW c \in Callers, FetchFails(c) \/ Return(c)
      PROVE  TypeOK' /\ CacheCoherent'
  BY <1>3 DEF FetchFails, Return, TypeOK, CacheCoherent
<1>4. ASSUME NEW c \in Callers, AddFetched(c)
      PROVE  TypeOK' /\ CacheCoherent'
  <2>1. found[c] \in Chain
    BY <1>4 DEF AddFetched, TypeOK
  <2>2. CacheCoherent' /\ blocks' \in Seq(Chain) /\ space' \subseteq Chain
    <3>1. CASE UNCHANGED <<space, blocks>>
      BY <3>1 DEF CacheCoherent, TypeOK
    <3>2. CASE /\ found[c] \notin space /\ Len(blocks) < Cap
               /\ space' = space \cup {found[c]} /\ blocks' = Append(blocks, found[c])
      BY <2>1, <3>2, AddRoom DEF TypeOK
    <3>3. CASE /\ found[c] \notin space /\ Len(blocks) = Cap
               /\ space' = (space \cup {found[c]}) \ {Head(blocks)}
               /\ blocks' = Append(Tail(blocks), found[c])
      BY <2>1, <3>3, AddFull
    <3>4. QED
      BY <1>4, <3>1, <3>2, <3>3 DEF AddFetched, Add
  <2>3. pc' \in [Callers -> {"idle", "fetch", "add", "done"}] /\ UNCHANGED <<want, found>>
    BY <1>4 DEF AddFetched, TypeOK
  <2>4. \A d \in Callers : pc'[d] = "add" => found[d] # 0
    BY <1>4 DEF AddFetched, TypeOK
  <2>5. QED
    BY <2>2, <2>3, <2>4 DEF TypeOK
<1>5. UNCHANGED vars => TypeOK' /\ CacheCoherent'
  BY DEF vars, TypeOK, CacheCoherent
<1>6. QED
  BY <1>1, <1>2, <1>3, <1>4, <1>5 DEF Next

\* The cache is coherent in every state: map and channel hold the same blocks,
\* each once, and at most Cap of them.
THEOREM Coherence == Spec => [](TypeOK /\ CacheCoherent)
<1>1. Init => TypeOK /\ CacheCoherent
  BY CacheAssumption DEF Init, TypeOK, CacheCoherent
<1>2. QED
  BY <1>1, CacheStep, PTL DEF Spec

\* No caller ever puts a foreign value into the map, the channel or the field
\* another caller works on: GetBlock and Sbc.Add keep the types.
THEOREM CacheTypeCorrect == Spec => []TypeOK
<1>1. TypeOK /\ CacheCoherent => TypeOK
  OBVIOUS
<1>2. QED
  BY <1>1, Coherence, PTL

-----------------------------------------------------------------------------
\* A caller that has its block, and has still to add it or already holds the
\* answer of GetBlock, holds the one it asked for (the strengthening of
\* RightBlock by the callers that stand before Sbc.Add).
HoldsRightBlock ==
  \A c \in Callers : pc[c] \in {"add", "done"} /\ want[c] # 0 => found[c] = want[c]

\* Get never hits: it reads the map at height 0, which is no height of the chain.
LEMMA LookupMisses ==
  ASSUME TypeOK, NEW h
  PROVE  GetKey(h) \notin space
  BY CacheAssumption DEF TypeOK, GetKey

\* The steps of one caller, and those of the others between them, keep what the
\* caller holds next to what it asked for.
LEMMA RightBlockStep ==
  ASSUME TypeOK, HoldsRightBlock, [Next]_vars
  PROVE  HoldsRightBlock'
<1>1. ASSUME NEW c \in Callers, NEW h \in Chain \cup {0}, Lookup(c, h)
      PROVE  HoldsRightBlock'
  <2>1. pc' = [pc EXCEPT ![c] = "fetch"]
    BY <1>1, LookupMisses DEF Lookup
  <2>2. \A d \in Callers \ {c} : UNCHANGED <<want[d], found[d]>>
    BY <1>1 DEF Lookup, TypeOK
  <2>3. QED
    BY <2>1, <2>2 DEF TypeOK, HoldsRightBlock
<1>2. ASSUME NEW c \in Callers, NEW b \in Chain, Fetch(c, b)
      PROVE  HoldsRightBlock'
  BY <1>2 DEF Fetch, TypeOK, HoldsRightBlock
<1>3. ASSUME NEW c \in Callers, FetchFails(c) \/ AddFetched(c) \/ Return(c)
      PROVE  HoldsRightBlock'
  BY <1>3 DEF FetchFails, AddFetched, Return, TypeOK, HoldsRightBlock
<1>4. UNCHANGED vars => HoldsRightBlock'
  BY DEF vars, HoldsRightBlock
<1>5. QED
  BY <1>1, <1>2, <1>3, <1>4 DEF Next

\* GetBlock answers with the height it was asked for, however the fetches and
\* insertions of other callers fall between its own steps.
THEOREM AnswersRightBlock == Spec => []RightBlock
<1>1. Init => HoldsRightBlock
  BY DEF Init, HoldsRightBlock
<1>2. HoldsRightBlock => RightBlock
  BY DEF HoldsRightBlock, RightBlock
<1>3. QED
  BY <1>1, <1>2, RightBlockStep, CacheTypeCorrect, PTL DEF Spec

-----------------------------------------------------------------------------
\* Only Sbc.Add on a full channel takes a block out of the map, and it takes the
\* one that has been in the channel longest.
THEOREM EvictsOldest == Spec => OldestEvicted
<1> DEFINE Evicts == \A b \in space \ space' : Len(blocks) = Cap /\ b = Head(blocks)
<1>1. ASSUME Next PROVE Evicts
  <2>1. ASSUME NEW c \in Callers, AddFetched(c) PROVE Evicts
    BY <2>1 DEF AddFetched, Add
  <2>2. ASSUME NEW c \in Callers, FetchFails(c) \/ Return(c) PROVE Evicts
    BY <2>2 DEF FetchFails, Return
  <2>3. ASSUME NEW c \in Callers, NEW h, Lookup(c, h) \/ Fetch(c, h) PROVE Evicts
    BY <2>3 DEF Lookup, Fetch
  <2>4. QED
    BY <1>1, <2>1, <2>2, <2>3 DEF Next
<1>2. [Next]_vars => [Evicts]_vars
  BY <1>1
<1>3. QED
  BY <1>2, PTL DEF Spec, OldestEvicted
=============================================================================
