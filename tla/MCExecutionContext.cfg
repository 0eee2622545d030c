CONSTANTS
    None = None
    Files <- MCFiles
    Program <- MCProgram
    Silent = 9
    MaxVersion = 2
    Scenes <- MCScenes
    Interval = 1
    MaxClock = 2
SPECIFICATION LiveSpec
INVARIANTS
    ChoicesAreKept
PROPERTIES
    PlayingFileIsFound
    NewerCommandWins
