SPECIFICATION FairSpec
CONSTANTS
    MinBackoff = 1
    MaxBackoff = 3
    MaxInbox = 2
    MaxOpens = 2
INVARIANTS
    TypeOK
    ConnectionsReleased
PROPERTIES
    Reconnects
    StopsOnCancel
    OpenersSettle
CHECK_DEADLOCK FALSE
