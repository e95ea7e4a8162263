CONSTANTS
    Jobs <- TradingJobs
    Kind <- TradingKind
    Amount <- TradingAmount
    Docs = {d1, d2, d3}
    NoDoc = NoDoc
    Initial = 10
    Faults = {"crash"}
SPECIFICATION Spec
INVARIANTS
    Durable
    SnapshotCaughtUp
PROPERTIES
    DiskContract
SYMMETRY DocSymmetry
CHECK_DEADLOCK FALSE
