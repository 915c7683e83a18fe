SPECIFICATION Spec
CONSTANTS
  W = 16
  MaxHeights = 3
  MinLatest = 1
  MaxLatest = 12
INVARIANTS TypeOK RangeSane
PROPERTIES NothingSkipped
