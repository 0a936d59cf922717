SPECIFICATION ReaderSpec
CONSTANTS
  A = A
  B = B
  x = x
  long = long
  subpage = subpage
  head = head
  tail = tail
  Pages = {A, B}
  Blocks = {x}
  Home <- MCHome
  Runs = {r1, r2}
  Orders <- MCOrders
  MaxEdits = 2
  Layout <- MCLayout
  Lines <- MCLines
  SearchResults <- MCSearchResults
  PageSize = 2
  MaxAttempts = 3
  MaxChunk = 5
  None = None
INVARIANTS TreeReplaced
SYMMETRY Symmetry
CHECK_DEADLOCK FALSE
