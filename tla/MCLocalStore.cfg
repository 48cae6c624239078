SPECIFICATION ProviderSpec
CONSTANTS
    ghId = ghId
    ghToken = ghToken
    v1 = v1
    v2 = v2
    Keys <- MCKeys
    Values <- MCValues
    Absent = Absent
    EnvKek = EnvKek
    Prefixes <- MCPrefixes
    Batches <- MCBatches
    MaxKeks = 2
    Faults = {"writeKek", "readKek", "flush"}
INVARIANTS
    ProviderTypeOK
    Recoverable
    ServedIsDurable
    CredentialsDurable
PROPERTIES
    ImplementsDurableMap
CHECK_DEADLOCK FALSE
