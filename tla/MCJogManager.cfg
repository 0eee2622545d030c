CONSTANTS
    u1 = u1
    u2 = u2
    u3 = u3
    dav = dav
    Sessions <- MCThreeSessions
    Clients <- MCClients
    NoOne = NoOne
    QueueCap = 1
    StatusCap = 2
    MaxCommands = 2
SPECIFICATION Spec
INVARIANTS
    LeaseHeldByOwner
    OneReaderInsideLease
    AnswersAreOwn
    NoWaitCycle
SYMMETRY MCSymmetry
CHECK_DEADLOCK FALSE
