CONSTANTS
    Jobs <- MixedJobs
    Kind <- MixedKind
    Amount <- MixedAmount
    Docs = {d1, d2}
    NoDoc = NoDoc
    Initial = 10
    Faults = {"abort", "unknown", "writeFails", "disconnect", "crash"}
SPECIFICATION FairSpec
PROPERTIES
    EveryCallSettles
CHECK_DEADLOCK FALSE
