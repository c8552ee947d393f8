SPECIFICATION FairSpec
CONSTANTS
  g1 = g1
  g2 = g2
  g3 = g3
  g4 = g4
  None = None
  Groups = {g1, g2, g3, g4}
  Requests <- FourInThree
  RolloutInstances = 3
  RolloutMP = 1
  InferenceInstances = 1
  InferenceMP = 1
  ActorInstances = 1
  ActorMP = 1
  PromptsPerIter = 12
  MaxRunningRequests = 1
  NMinibatches = 4
  UsePreProcess = TRUE
  WorkersPreProcess = TRUE
  UseWaitBeforeLast = TRUE
  MaxRounds = 2
INVARIANTS
  ActorGpusFree StartsEmpty StaysForMigrations OnePlace
PROPERTIES KeepsLedger StepsEnd
CHECK_DEADLOCK FALSE
