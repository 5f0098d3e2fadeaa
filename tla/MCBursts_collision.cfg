SPECIFICATION Spec
CONSTANTS
  Words = {"a", "b"}
  InitFiles <- Dynamic
  Letters <- AllLines
  Ngrams <- TwoBranches
  Texts <- TwoTexts
  Bits <- SharedBits
  Garbage = Garbage
  CMD_INIT = 1
  FreshUpdates = TRUE
  MaxBurst = 3
  MaxBursts = 2
INVARIANTS
  QueriesSequential
