SPECIFICATION Spec
CONSTANTS
  c1 = c1
  c2 = c2
  None = None
  Chunks <- MCChunks
  SourceOf <- MCSourceOf
  KindOf <- MCKindOf
  Facts <- MCFacts
  Scopes <- MCScopes
  Messages <- MCMessages
  Current = 3
  Limits <- MCLimits
  MaxBatch = 2
CHECK_DEADLOCK FALSE
INVARIANTS
  AnswerStorable
