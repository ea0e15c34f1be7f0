SPECIFICATION BackendSpec
CONSTANTS
    Stages = {"dedup", "filter", "join", "cluster", "receiver", "call"}
    N = 3
    Key <- OneKey
    Outcome <- FirstRefused
    NoKey = "none"
    MaxBatch = 2
    MaxDeliver = 2
    WindowHolds = TRUE
    RedeliverHeld = TRUE
    MaxFaults = 1
    MaxStops = 1
    Lefts = {1, 3}
    Rights = {2, 4}
    JoinKey <- SharedKey
    JoinKeys = {"a"}
    NoRight = 0
    MaxTries = 3
    MaxExpired = 1
    MaxFailures = 2
    Clients = {c1, c2}
    MaxRequests = 4
    MaxClusterFaults = 1
    Calls = {k1, k2}
    BatchSize = 2
    ChunkSize = 1
    MaxConcurrent = 2
    MaxAttempts = 2
    Deduplicates <- SecondDeduplicates
    FieldValue <- OneIdShared
    Empty = ""
    MaxCallFaults = 1
    MaxLeaves = 1
    MaxCacheExpiries = 0
SYMMETRY Symmetric
INVARIANTS
    AckedIsAccounted
    KeyOnce
    LeftIsKept
    FailureRepeatsOne
    AnsweredAsStored
PROPERTIES
    RequestSurvives
    SpecChangesAtRest
CHECK_DEADLOCK FALSE
