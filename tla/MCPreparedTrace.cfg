SPECIFICATION Spec
CONSTANTS
  Bits = 3
  Programs <- MCPrograms
  SingleLimits <- MCSingleLimits
  CumulativeLimits <- MCCumulativeLimits
INVARIANTS VisitsAsWritten FailsForCause BindingsCurrent LoopValuesFit WorkCharged
CHECK_DEADLOCK FALSE
