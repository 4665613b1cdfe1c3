SPECIFICATION Spec
CONSTANTS
  Blocks <- MCBlocks
  MaxSpan = 1
  L1 <- OneSetTwoWays
  LLC <- TwoSetsTwoWays
  RootCounts <- MCRootCounts
  SourceLimits <- MCLimits
  LineLimits <- MCLimits
  EventLimits <- NoEvents
INVARIANTS SameFootprint
PROPERTIES ServesLikeLru
CHECK_DEADLOCK FALSE
