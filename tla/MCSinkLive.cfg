SPECIFICATION FairSpec
CONSTANTS
    N = 2
    Kind <- LastUnmappable
    Schema <- OneSchema
    Schemas = {"v1"}
    Workers = {"w1"}
    MaxBatch = 3
    MaxDeliver = 3
    RedeliverHeld = FALSE
    MaxFaults = 1
    MaxStops = 0
PROPERTIES
    AllAcked
CHECK_DEADLOCK FALSE
