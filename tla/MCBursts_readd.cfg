SPECIFICATION Spec
CONSTANTS
  Words = {"a", "b"}
  InitFiles <- Dynamic
  Letters <- AddsAndQueries
  Ngrams <- OneBranch
  Texts <- OneText
  Bits <- OwnBits
  Garbage = Garbage
  CMD_INIT = 1
  FreshUpdates = FALSE
  MaxBurst = 3
  MaxBursts = 2
INVARIANTS
  QueriesSequential
