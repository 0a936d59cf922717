SPECIFICATION QuestionSpec
CONSTANTS
  A = A
  B = B
  doc = doc
  w1 = w1
  w2 = w2
  w3 = w3
  here = here
  there = there
  inDoc = inDoc
  root = root
  leaf = leaf
  Nothing = Nothing
  Sources <- MCSources
  Rows <- MCChunks
  Row <- MCRow
  Editions <- MCEditions
  Questions <- MCQuestions
  MaxPool = 4
  Floor = 30
INVARIANTS
  QuestionTypeOK
  AnswersFromOneStore
  OutcomeTold
