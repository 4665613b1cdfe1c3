SPECIFICATION DocumentSpec
CONSTANTS
  Modules <- MCModules
  Reports <- MCReports
  Documents <- MCDocuments
  Names <- MCNames
  Bits = 3
  CountBits = 4
  NodeLimits <- MCNodeLimits
  DepthLimits <- MCDepthLimits
INVARIANTS ExpansionMeansCalls ExpansionRefusedForCause ExpansionBounded CountsMeanCalls
CHECK_DEADLOCK FALSE
