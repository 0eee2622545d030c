CONSTANTS
    MaxFrames = 3
    MaxWrites = 1
    ChanCap = 1
SPECIFICATION FairSpec
INVARIANTS
    FramesInOrder
PROPERTIES
    WindowsAreClean
    FramesReachMachine
CHECK_DEADLOCK FALSE
