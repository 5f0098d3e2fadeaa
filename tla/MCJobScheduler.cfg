SPECIFICATION FairSpec
CONSTANTS
  Workers = {w1, w2, w3}
  Main = Main
  Jobs = {j1, j2}
  NoJob = NoJob
  NoThread = NoThread
  QINIT = 1
INVARIANTS
  TypeOK
  QueueAccounting
  BarrierIsolation
  ExactlyOnce
  NoLostWakeup
PROPERTIES
  ImplementsPool
  BurstCompletes
  ShutdownCompletes
  ImplementsFairPool
