SPECIFICATION IndexingSpec
CONSTANTS
  q1 = q1
  q2 = q2
  q3 = q3
  h1 = h1
  h2 = h2
  Requests <- MCRequests
  Identities <- MCIdentities
  Parts = {p1}
  None = None
  PagesOf <- MCPagesOf
  NameOf <- MCNameOf
  HeaderLength = 1
  MaxChunk = 4
  MaxInputs = 2
  MaxTokens = 4
  MaxAttempts = 2
INVARIANTS TypeOK WholeSources RepliesHold SourcesAccounted RowsTrue
SYMMETRY Symmetry
CHECK_DEADLOCK FALSE
