SPECIFICATION FairSpec
CONSTANTS
    Partitions = {"p1", "p2"}
    LogEnd = 2
    Kind <- OneInvalid
    MaxPoll = 2
    PendingLimit = 2
    MaxFaults = 1
    MaxStops = 1
    MaxRuns = 3
INVARIANT CancelCostsOneRecord
PROPERTIES
    AllCommitted
    ShutdownCompletes
