SPECIFICATION Spec
CONSTANTS
  A = A
  B = B
  C = C
  None = None
  Deliveries <- MCDeliveries
  Scenarios <- MCScenarios
  MaxSelected = 2
  MaxTries = 2
  MaxFaults = 1
INVARIANTS TypeOK OncePerSession
PROPERTIES OutcomesStay ClaimsEnd
CHECK_DEADLOCK FALSE
