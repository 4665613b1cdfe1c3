SPECIFICATION MCSpec
CONSTANTS
  Accesses <- MCAccesses
  Images <- MCImages
  Indices <- MCIndices
  Bits = 5
  AddressBits = 4
  AccessLimit = 2
INVARIANTS PlanIsInvisible AccessNamesItsBytes RegionsAreData ObjectsAreSymbols
CHECK_DEADLOCK FALSE
