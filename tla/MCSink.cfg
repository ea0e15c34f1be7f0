SPECIFICATION Spec
CONSTANTS
    w1 = w1
    w2 = w2
    N = 3
    Kind <- OuterRefused
    Schema <- TwoSchemas
    Schemas = {"v1", "v2"}
    Workers = {w1, w2}
    MaxBatch = 2
    MaxDeliver = 2
    RedeliverHeld = FALSE
    MaxFaults = 1
    MaxStops = 1
ACTION_CONSTRAINT LateStop
INVARIANTS
    AckedHasFate
    OneRowPerDelivery
    DLQOnlyBad
SYMMETRY WorkerSymmetry
CHECK_DEADLOCK FALSE
