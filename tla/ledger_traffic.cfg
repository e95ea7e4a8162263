CONSTANTS
    Jobs <- TrafficJobs
    Kind <- TrafficKind
    Amount <- TrafficAmount
    Docs = {d1, d2, d3}
    NoDoc = NoDoc
    Initial = 10
    Faults = {"abort"}
SPECIFICATION Spec
INVARIANTS
    TypeOK
    NoOverdraft
    Conservation
PROPERTIES
    ClosedIsFinal
    MemoryContract
SYMMETRY DocSymmetry
CHECK_DEADLOCK FALSE
