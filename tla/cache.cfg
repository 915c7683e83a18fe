SPECIFICATION Spec
CONSTANTS
  c1 = c1
  c2 = c2
  Callers = {c1, c2}
  Chain <- MCChain
  Cap = 2
INVARIANTS TypeOK CacheCoherent RightBlock
PROPERTIES OldestEvicted
