CONSTANTS
    Callers = {"tray", "web"}
    Boot = "boot"
    Scenes <- MCScenes
    MaxProcs = 5
SPECIFICATION FairSpec
INVARIANTS
    BinaryKept
PROPERTIES
    DeployedServes
    StaysSupervised
    ComesBack
CHECK_DEADLOCK FALSE
