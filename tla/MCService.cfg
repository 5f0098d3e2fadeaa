SPECIFICATION FairSpec
CONSTANTS
  Words = {"a", "b"}
  InitFiles <- BothTypes
  Letters <- AllLines
  Ngrams <- TwoBranches
  Texts <- OneText
  Bits <- OwnBits
  Garbage = Garbage
  CMD_INIT = 1
  FreshUpdates = TRUE
  MaxBurst = 2
  MaxBursts = 3
PROPERTIES
  ImplementsService
  BurstServed
