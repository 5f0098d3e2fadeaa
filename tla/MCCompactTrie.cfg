SPECIFICATION CompactSpec
CONSTANTS
  Words <- ThreeWords
  Hashkey <- Keys
  m = 1
  IN_SIZE = 1
  MINSIZE = 1
  Ngrams <- MCNgrams
  Versions <- OneVersion
  Length <- Lengths
  Texts <- AllTexts
INVARIANTS
  TypeOK
  RepresentsTrie
  ArraysInOrder
  NoFreedArrayRead
  TableAccounting
  NothingLeaked
  CompactSearchesTrie
