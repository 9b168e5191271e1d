SPECIFICATION Spec
CONSTANTS
  Fan = 4
  Scenarios <- Faulting
  MaxOutstanding = 2
  Ways = 1
INVARIANT NoFaultAnswered
CHECK_DEADLOCK FALSE
