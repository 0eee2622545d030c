CONSTANTS
    u1 = u1
    u2 = u2
    u3 = u3
    dav = dav
    Sessions <- MCOneSession
    Clients <- MCNoClients
    NoOne = NoOne
    QueueCap = 1
    StatusCap = 4
    MaxCommands = 6
SPECIFICATION FairSpec
PROPERTIES
    DisarmHonoured
CHECK_DEADLOCK FALSE
