SPECIFICATION Spec
CONSTANTS
    Partitions = {"p1", "p2"}
    LogEnd = 3
    Kind <- MixedKinds
    MaxPoll = 3
    PendingLimit = 2
    MaxFaults = 1
    MaxStops = 1
    MaxRuns = 2
INVARIANTS
    NoLoss
    OncePerRun
    
PROPERTIES
    ImplementsHandoff
CHECK_DEADLOCK FALSE
