SPECIFICATION TestSpec
CONSTANTS
  Words <- AllWords
  Hashkey <- Keys
  m = 2
  IN_SIZE = 3
  MINSIZE = 3
  Ngrams <- TestNgrams
  Versions = {0}
  Length <- Lengths
  Texts <- NoTexts
INVARIANTS
  BinarySearchFinds
  FoundAsExpected
  CompactConfirmed
