SPECIFICATION Spec
CONSTANTS
    MaxReqs = 3
    MaxOut = 1
    PipeCap = 1
    MaxWin = 1
    Habits <- MCHabits
INVARIANT
    SignalsReachOwnGroup
CHECK_DEADLOCK FALSE
