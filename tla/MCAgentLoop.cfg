SPECIFICATION FairSpec
CONSTANTS
    j1 = j1
    j2 = j2
    Jobs <- MCJobs
    Chunks <- MCChunks
    NoJob = NoJob
    MaxOutput = 3
    MaxWritten = 5
INVARIANTS
    TypeOK
PROPERTIES
    KeepsPolling
    KeepsPromise
