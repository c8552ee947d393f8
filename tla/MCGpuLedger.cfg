SPECIFICATION Spec
CONSTANTS
  RolloutInstances = 5
  RolloutMP = 2
  InferenceInstances = 2
  InferenceMP = 1
  ActorInstances = 2
  ActorMP = 1
  PromptsPerIter = 12
  MaxRunningRequests = 2
  NMinibatches = 5
  UsePreProcess = TRUE
  WorkersPreProcess = TRUE
INVARIANTS GpusConserved AllocateNeverAsserts
