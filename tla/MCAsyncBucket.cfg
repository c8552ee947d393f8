SPECIFICATION Spec
CONSTANTS
    Workers = {w1}
    p1 = p1
    p2 = p2
    Params = {p1, p2}
    Updates <- OneParam
    Modes <- BlockingBucket
    MaxSteps = 2
    Staleness = 1
    StoreSize = 1
    NChunks = 1
    QueueBound = 1
PROPERTIES
    SamplesMatchVersion
