SPECIFICATION Spec
CONSTANTS
  MaxCalls = 3
  Parts = 2
  Deliveries <- EveryDelivery
INVARIANTS TypeOK WholeAnswerArrives TruncatedCallsAreWhole
CHECK_DEADLOCK FALSE
