SPECIFICATION SupervisorSpec
CONSTANTS
    Shipped = TRUE
    MaxCycles = 3
INVARIANTS
    WatchRetries
CHECK_DEADLOCK FALSE
