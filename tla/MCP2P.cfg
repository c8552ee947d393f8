SPECIFICATION FairSpec
CONSTANTS
    Setups <- AllSetups
INVARIANTS FramesMatch RecvMatchesSend
PROPERTIES CallsReturn
