SPECIFICATION Spec
CONSTANTS
  Workers = {w1, w2, w3}
  NoThread = NoThread
  Destroyed = Destroyed
  Jobs = {j1, j2, j3}
  NoJob = NoJob
  Ngrams <- ThreeNgrams
  Keys <- MCKeys
  m = 2
  TOPK_IN_SIZE = 1
  Ks <- UpToThree
  MaxInserts = 5
SYMMETRY Symmetry
INVARIANTS
  TypeOK
  BucketsSorted
  CountsExact
  BucketsNotShared
  StringsFreed
PROPERTIES
  ImplementsRanking
