SPECIFICATION ProviderSpec
CONSTANTS
    ghId = ghId
    ghToken = ghToken
    v1 = v1
    v2 = v2
    Keys <- MCKeys
    Values <- MCValues
    Absent = Absent
    EnvKek = EnvKek
    Prefixes <- MCPrefixes
    Batches <- MCBatches
    MaxKeks = 3
    Faults = {"writeKek", "flush"}
INVARIANT
    PinnedStillDecrypts
CHECK_DEADLOCK FALSE
