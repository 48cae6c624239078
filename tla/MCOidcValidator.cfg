SPECIFICATION Spec
CONSTANTS
    k1 = k1
    k2 = k2
    k3 = k3
    a = a
    b = b
    Kids <- MCKids
    Callers <- MCCallers
    Forger = Forger
    NoKid = NoKid
    Nobody = Nobody
    TTL = 1
    Latency = 1
    MaxTime = 2
    MaxRotations = 1
    MaxCalls = 3
INVARIANTS
    TypeOK
    WithdrawnKeysExpire
    UnknownOnlyIfUnpublished
SYMMETRY Symmetric
CHECK_DEADLOCK FALSE
