SPECIFICATION FairSpec
CONSTANTS
  Blocks <- MCBlocks
  PerPage = 2
INVARIANTS TypeOK PagesJoin EventsOwn TransfersTrue
PROPERTIES NothingLeftBehind SearchEnds
CHECK_DEADLOCK FALSE
