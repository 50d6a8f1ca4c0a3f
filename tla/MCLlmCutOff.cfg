SPECIFICATION Spec
CONSTANTS
  MaxCalls = 1
  Parts = 2
  Deliveries = {"together"}
INVARIANT NoCallLosesItsArguments
CHECK_DEADLOCK FALSE
