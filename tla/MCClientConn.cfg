CONSTANTS
    Paths <- MCPaths
    NoFile = NoFile
    None = None
    PacketSize = 2
    MaxConns = 3
    Scenes <- MCScenes
SPECIFICATION Spec
INVARIANTS
    ResultsAreTrue
PROPERTIES
    TransfersEnd
CHECK_DEADLOCK FALSE
