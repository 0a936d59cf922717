SPECIFICATION Spec
CONSTANTS
  p1 = p1
  p2 = p2
  tap = tap
  command = command
  T1 = T1
  T2 = T2
  None = None
  Jobs <- MCJobs
  Scenarios <- MCScenarios
  TargetOf <- MCTargetOf
  MaxTries = 2
  MaxFaults = 1
INVARIANTS TypeOK 
PROPERTIES SettlesWhatItSaw ClaimsEnd
CHECK_DEADLOCK FALSE
