CONSTANTS
    poll = poll
    sync = sync
    jog = jog
    halt = halt
    s1 = s1
    s2 = s2
    Callers <- MCCallers
    Pollers <- MCPollers
    Joggers <- MCJoggers
    Controls <- MCControls
    Sessions <- MCSessions
    NoProc = NoProc
    NoSession = NoSession
    MaxConn = 2
SPECIFICATION Spec
INVARIANTS
    SingleConversation
    NothingLeftBehind
PROPERTIES
    ImplementsConversation
    EveryCallReturns
