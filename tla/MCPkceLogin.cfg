SPECIFICATION FairSpec
CONSTANTS
    first = first
    second = second
    c1 = c1
    c2 = c2
    c3 = c3
    Attempts <- MCAttempts
    Callbacks <- MCCallbacks
    Nobody = Nobody
INVARIANTS
    TypeOK
    CodesStayHome
PROPERTIES
    LoginEnds
    TabsAnswered
CHECK_DEADLOCK FALSE
