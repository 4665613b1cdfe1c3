SPECIFICATION FairSpec
CONSTANTS
  Blocks <- MCBlocks
  MaxSpan = 2
  L1 <- TwoSetsOneWay
  LLC <- OneSetTwoWays
  RootCounts <- MCRootCounts
  SourceLimits <- MCSources
  LineLimits <- MCLines
  EventLimits <- MCEvents
INVARIANTS ChecksNeverFire BudgetCharged EventsDescribeRun EventsAddUp ResultIsValid
PROPERTIES Ends
CHECK_DEADLOCK FALSE
