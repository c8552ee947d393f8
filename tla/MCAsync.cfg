SPECIFICATION FairSpec
CONSTANTS
    Workers = {w1, w2}
    p1 = p1
    p2 = p2
    Params = {p1, p2}
    Updates <- OneParam
    Modes <- PatchModes
    MaxSteps = 3
    Staleness = 1
    StoreSize = 1
    NChunks = 1
    QueueBound = 1
INVARIANTS
    WeightsMatchVersion
    SnapshotIsReceivers
    TrainedWithinStaleness
    HandlesTruthful
PROPERTIES
    ImplementsRegister
    RunFinishes
