CONSTANTS
    Files <- MCFiles
    None = None
    Markers <- MCMarkers
    HistoryCap = 2
    EventCap = 2
    LastLine = 1
    StatusCap = 1
    ChangeCap = 2
    DeliveryCap = 2
    SendResolved = TRUE
    InStep = TRUE
    Scenes <- MCScenes
    MaxHolds = 1
SPECIFICATION LiveSpec
INVARIANTS
    RunsFollowJobs
    EpisodesToldOnce
PROPERTIES
    SettlesWhenIdle
CHECK_DEADLOCK FALSE
