SPECIFICATION KeySpec
CONSTANTS
  r1 = r1
  r2 = r2
  r3 = r3
  r4 = r4
  k1 = k1
  k2 = k2
  Nothing = Nothing
  Requests <- MCRequests
  Keys <- MCKeys
  KeyOf <- MCKeyOf
  PayloadOf <- MCPayloadOf
CHECK_DEADLOCK FALSE
INVARIANTS
  KeyTypeOK
  KeyRules
  StrandedOnlyByLoss
PROPERTIES
  ImplementsOnceOnly
  RequestsEnd
