SPECIFICATION Spec
CONSTANTS
  MaxCalls = 2
  Parts = 2
  Deliveries = {"in_turn"}
INVARIANT CallsStayApart
CHECK_DEADLOCK FALSE
