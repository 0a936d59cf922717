SPECIFICATION SpecWithRecovery
CONSTANTS
  c1 = c1
  c2 = c2
  A = A
  B = B
  D = D
  k1 = k1
  k2 = k2
  k3 = k3
  n1 = n1
  n9 = n9
  p1 = p1
  p9 = p9
  i1 = i1
  i9 = i9
  w1 = w1
  w2 = w2
  w9 = w9
  h1 = h1
  h9 = h9
  f9 = f9
  v9 = v9
  None = None
  Requests = {c1, c2}
  Pages = {A, B, D}
  Calls = {k1, k2, k3}
  Anchors <- MCAnchors
  Kind <- MCKind
  Marked <- MCMarked
  Source <- MCSource
  Titles <- MCTitles
  Claims <- MCClaims
  Drafts <- MCDrafts
  Scenarios <- MCScenarios
  TitlesOf <- MCTitlesOf
  Order <- MCOrder
  MaxMinutes = 3
INVARIANTS
  TypeOK
  StoredIsGrounded
  ReviewsHold
  RecordsTell
  PickerWhole
CHECK_DEADLOCK FALSE
