SPECIFICATION Spec
CONSTANTS
  N = 3
INVARIANTS ResultComesLast NothingLost HandledFailureRestores OutcomeTellsState
CHECK_DEADLOCK FALSE
