SPECIFICATION FairSpec
CONSTANTS
    Window = 2
    Pool = 2
    Prefetch = 1
    World = 2
    Setups <- AllSetups
    MaxAdds = 3
    MaxCrashes = 2
    MaxFails = 1
INVARIANTS IdsUnique RestoreSucceeds RightSamples ClosedIsDurable
PROPERTIES CloseReturns PreloadServed
