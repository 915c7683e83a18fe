----------------------------- MODULE BlockCache -----------------------------
(***************************************************************************)
(* SimpleBlockCache (api/block_cache.go) and GetBlock (api/block.go), which *)
(* the workers of every task call concurrently on the one api.Client.  The *)
(* cache is a map by height and a buffered channel that remembers the      *)
(* order of insertion.  A block is represented by its height.              *)
(***************************************************************************)
EXTENDS Integers, Sequences

CONSTANTS Callers,   \* goroutines inside GetBlock
          Chain,     \* the heights of the chain
          Cap        \* capacity of the channel (400)

ASSUME CacheAssumption == /\ Chain \subseteq Nat \ {0}
                          /\ Cap \in Nat \ {0}

VARIABLES space,     \* keys of the map
          blocks,    \* contents of the channel: heights, oldest first
          pc, want,  \* callers: where they stand, height they ask for (0: latest)
          found      \* what a caller holds: the cached or fetched block, 0 if none

vars == <<space, blocks, pc, want, found>>

Init == /\ space = {} /\ blocks = << >>
        /\ pc = [c \in Callers |-> "idle"]
        /\ want = [c \in Callers |-> 0]
        /\ found = [c \in Callers |-> 0]

\* Mutant: the block before the one asked for
GetKeyOffByOne(height) == height - 1

\* Get reads the map at the Height of its still empty result, that is at 0
GetKey(height) == 0

\* GetBlock: a height other than 0 is looked up first
Lookup(c, h) ==
  /\ pc[c] = "idle"
  /\ want' = [want EXCEPT ![c] = h]
  /\ LET hit == h # 0 /\ GetKey(h) \in space IN
     /\ pc' = [pc EXCEPT ![c] = IF hit THEN "done" ELSE "fetch"]
     /\ found' = [found EXCEPT ![c] = IF hit THEN GetKey(h) ELSE 0]
  /\ UNCHANGED <<space, blocks>>

\* Mutant: the answer is not kept
FetchForgets(c, b) ==
  /\ pc[c] = "fetch"
  /\ want[c] \in {0, b}
  /\ pc' = [pc EXCEPT ![c] = "add"]
  /\ UNCHANGED <<space, blocks, want, found>>

\* GetLatestBlock or GetBlockByHeight answers
Fetch(c, b) ==
  /\ pc[c] = "fetch"
  /\ want[c] \in {0, b}
  /\ found' = [found EXCEPT ![c] = b]
  /\ pc' = [pc EXCEPT ![c] = "add"]
  /\ UNCHANGED <<space, blocks, want>>

\* the rate limiter or the call fails: GetBlock returns the error
FetchFails(c) ==
  /\ pc[c] = "fetch"
  /\ pc' = [pc EXCEPT ![c] = "idle"]
  /\ UNCHANGED <<space, blocks, want, found>>

\* Mutant: the evicted block stays in the map
AddWithoutDelete(b) ==
  \/ b \in space /\ UNCHANGED <<space, blocks>>
  \/ /\ b \notin space
     /\ space' = space \cup {b}
     /\ blocks' = Append(IF Len(blocks) = Cap THEN Tail(blocks) ELSE blocks, b)

\* Mutant: the cache is taken for full one block too early
AddEvictsEarly(b) ==
  \/ b \in space /\ UNCHANGED <<space, blocks>>
  \/ /\ b \notin space /\ Len(blocks) < Cap - 1
     /\ space' = space \cup {b}
     /\ blocks' = Append(blocks, b)
  \/ /\ b \notin space /\ Len(blocks) >= Cap - 1
     /\ space' = (space \cup {b}) \ {Head(blocks)}
     /\ blocks' = Append(Tail(blocks), b)

\* Sbc.Add under its lock: a full channel gives up its oldest block
Add(b) ==
  \/ b \in space /\ UNCHANGED <<space, blocks>>
  \/ /\ b \notin space /\ Len(blocks) < Cap
     /\ space' = space \cup {b}
     /\ blocks' = Append(blocks, b)
  \/ /\ b \notin space /\ Len(blocks) = Cap
     /\ space' = (space \cup {b}) \ {Head(blocks)}
     /\ blocks' = Append(Tail(blocks), b)

AddFetched(c) ==
  /\ pc[c] = "add"
  /\ Add(found[c])
  /\ pc' = [pc EXCEPT ![c] = "done"]
  /\ UNCHANGED <<want, found>>

\* the caller takes the block and may come back
Return(c) ==
  /\ pc[c] = "done"
  /\ pc' = [pc EXCEPT ![c] = "idle"]
  /\ UNCHANGED <<space, blocks, want, found>>

Next == \E c \in Callers :
          \/ \E h \in Chain \cup {0} : Lookup(c, h)
          \/ \E b \in Chain : Fetch(c, b)
          \/ FetchFails(c) \/ AddFetched(c) \/ Return(c)

Spec == Init /\ [][Next]_vars

-----------------------------------------------------------------------------
(* Properties *)

TypeOK == /\ space \subseteq Chain
          /\ blocks \in Seq(Chain)
          /\ pc \in [Callers -> {"idle", "fetch", "add", "done"}]
          /\ want \in [Callers -> Chain \cup {0}]
          /\ found \in [Callers -> Chain \cup {0}]
          /\ \A c \in Callers : pc[c] = "add" => found[c] # 0

\* Map and channel hold the same blocks, each once, and no more than Cap:
\* concurrent fetches of one height neither duplicate it nor leave a block in
\* the map that no eviction will ever find.
CacheCoherent ==
  /\ Len(blocks) <= Cap
  /\ \A b \in Chain : b \in space <=> \E i \in 1 .. Len(blocks) : blocks[i] = b
  /\ \A i, j \in 1 .. Len(blocks) : blocks[i] = blocks[j] => i = j

\* A block leaves the cache only when it is full, and then it is the oldest.
OldestEvicted ==
  [][\A b \in space \ space' : Len(blocks) = Cap /\ b = Head(blocks)]_vars

\* GetBlock answers with the height it was asked for.
RightBlock ==
  \A c \in Callers : pc[c] = "done" /\ want[c] # 0 => found[c] = want[c]

\* "Get and check block of given height": a height that is in the cache when
\* GetBlock looks it up is not fetched from the node again.
CachedNotFetched ==
  [][\A c \in Callers, h \in Chain : Lookup(c, h) /\ h \in space => pc'[c] = "done"]_vars
=============================================================================
