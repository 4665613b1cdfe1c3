SPECIFICATION MCSpec
CONSTANTS
  MaxWord = 127
  MaxId = 15
  Units <- MCUnits
  DefaultLine = 2
  DefaultWays = 2
  Documents <- MCDocuments
INVARIANTS ConfigurationIsSound
PROPERTIES ReadingEnds
CHECK_DEADLOCK FALSE
