CONSTANTS
    None = None
    NoTool = 7777
    Laser = 8888
    Probe3DTool = 9999
    Surface = 0
    Job <- MCJob
    Clients <- MCClients
    SafeZ = 3
    Anchor = 1
    Limits <- MCLimits
    Scenes <- MCScenes
SPECIFICATION LiveSpec
INVARIANTS
    TravelAtSafeZ
PROPERTIES
    YieldsToOthers
    SuccessIsTrue
    OperationsEnd
CHECK_DEADLOCK FALSE
