SPECIFICATION FairSpec
CONSTANTS
    MaxReqs = 3
    MaxOut = 1
    PipeCap = 1
    MaxWin = 1
    Habits <- MCHabits
INVARIANTS
    TypeOK
    ExitStatusIsLast
    NoChildEscapes
PROPERTIES
    SessionEnds
    ExitIsReported
    KeepsPromise
CHECK_DEADLOCK FALSE
