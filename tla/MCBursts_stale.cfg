SPECIFICATION Spec
CONSTANTS
  Words = {"a", "b"}
  InitFiles <- Dynamic
  Letters <- Updates
  Ngrams <- OneBranch
  Texts <- OneText
  Bits <- OwnBits
  Garbage = Garbage
  CMD_INIT = 1
  FreshUpdates = FALSE
  MaxBurst = 1
  MaxBursts = 3
INVARIANTS
  StoredIsAnswerable
