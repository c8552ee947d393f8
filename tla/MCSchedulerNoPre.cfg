SPECIFICATION Spec
CONSTANTS
  g1 = g1
  g2 = g2
  g3 = g3
  g4 = g4
  None = None
  Groups = {g1, g2, g3}
  Requests <- OneEach
  RolloutInstances = 3
  RolloutMP = 1
  InferenceInstances = 0
  InferenceMP = 1
  ActorInstances = 1
  ActorMP = 1
  PromptsPerIter = 12
  MaxRunningRequests = 1
  NMinibatches = 3
  UsePreProcess = FALSE
  WorkersPreProcess = FALSE
  UseWaitBeforeLast = FALSE
  MaxRounds = 2
INVARIANTS ActorScaledDown
CHECK_DEADLOCK FALSE
