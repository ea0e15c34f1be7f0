SPECIFICATION Spec
CONSTANTS
    N = 1
    Kind <- AllGood
    Schema <- OneSchema
    Schemas = {"v1"}
    Workers = {"w1"}
    MaxBatch = 2
    MaxDeliver = 2
    RedeliverHeld = TRUE
    MaxFaults = 1
    MaxStops = 0
INVARIANTS
    AckedIsWritten
CHECK_DEADLOCK FALSE
