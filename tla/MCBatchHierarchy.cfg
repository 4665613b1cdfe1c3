SPECIFICATION Spec
CONSTANTS
  Blocks <- MCBlocks
  MaxLines = 6
  L1 <- OneSetTwoWays
  LLC <- TwoSetsOneWay
INVARIANTS BatchMatchesStreaming RowsPair
CHECK_DEADLOCK FALSE
