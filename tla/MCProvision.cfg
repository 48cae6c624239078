SPECIFICATION ProvisionSpec
CONSTANTS
    c1 = c1
    c2 = c2
    n1 = n1
    Callers = {c1, c2}
    Names = {n1}
    Nobody = Nobody
    MaxBoxes = 3
    MaxCalls = 3
    Unset = Unset
    Garbled = Garbled
    Nobody65534 = 65534
    IdSpan = 65536
    AsRoot = FALSE
    MaxTries = 2
    Situations <- MCSituations
INVARIANTS
    ProvisionTypeOK
    Accounted
    
    StagedAsAsked
    InstalledAsStaged
CHECK_DEADLOCK FALSE
