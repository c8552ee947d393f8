SPECIFICATION FairSpec
CONSTANTS
    Setups <- BothWays
INVARIANTS FramesMatch
