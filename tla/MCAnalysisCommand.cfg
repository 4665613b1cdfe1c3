SPECIFICATION CommandSpec
CONSTANTS
  Arguments <- MCArguments
  ArgumentLimit = 7
  ClockLimit = 2
  CallbackLimit = 3
  Kinds <- MCKinds
INVARIANTS LastValuesDecide TelemetryAccepted ErrorsKeepTheirSource
CHECK_DEADLOCK FALSE
