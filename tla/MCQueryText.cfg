SPECIFICATION Spec
CONSTANTS
  Chars <- MCChars
  Lines <- MCLines
  Tries <- MCTries
  Hash <- MCHash
  BLOOMSIZE = 2
  INIT_SIZE = 1
  BUFFER_SIZE = 3
INVARIANTS
  TypeOK
  BuffersHold
  SplitsInWords
  AnswerIsSearch
  LosesOnlyCovered
PROPERTIES
  QueryAnswered
