SPECIFICATION Spec
CONSTANTS
  Words = {"a", "b"}
  InitFiles <- BothTypes
  Letters <- AnyLines
  Ngrams <- WithEmpty
  Texts <- OneText
  Bits <- OwnBits
  Garbage = Garbage
  CMD_INIT = 1
  FreshUpdates = FALSE
  MaxBurst = 3
  MaxBursts = 2
INVARIANTS
  TypeOK
  FreedOnce
  SlotsOwned
  VersionsOrder
  AnswersSound
  BranchesEnd
PROPERTIES
  NothingMovesUnderAQuery
