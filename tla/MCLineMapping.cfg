SPECIFICATION Spec
CONSTANTS
  MaxWord = 15
  Geometries <- MCGeometries
  Addresses <- MCAddresses
  Offsets <- MCOffsets
  Sizes <- MCSizes
INVARIANTS LinesPartitionAccess MappingsTraceBack RefusedForCause
CHECK_DEADLOCK FALSE
