CONSTANTS
    Scenes <- MCScenes
    SegDur = 2
    Lookahead = 4
    MaxPerTick = 2
    LeadCheck = 1
    LeadLimit = 6
    StatusGap = 1
    PollGap = 2
    MaxAge = 3
    Grace = 2
    QueryTimeout = 2
    SafeZ = 1
    ZMax = 1
    MaxQueue = 3
    MaxLate = 7
SPECIFICATION FairSpec
INVARIANTS
    PlanIsTrue
    MovesAreSafe
    StopsInTime
PROPERTIES
    TargetIsJudged
CHECK_DEADLOCK FALSE
