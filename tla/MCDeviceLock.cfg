CONSTANTS
  w1 = w1
  w2 = w2
  w3 = w3
  None = None
  Worker <- MCWorker
  Device <- MCDevice
  accel_ids <- MCAccelIds
SPECIFICATION FairSpec
INVARIANTS
  MutualExclusion
  NoLockError
  SameOrderEverywhere
PROPERTIES
  AcquireReturns
