CONSTANTS
    a = a
    b = b
    c = c
    f = f
    d1 = d1
    d2 = d2
    d3 = d3
    NoPos = NoPos
    Nothing = Nothing
    Calls = {a, b, c, f}
    CallLists <- CloserAndOrders
    Side <- Sides4
    Qty <- Sizes4
    Docs = {d1, d2}
    Openings = {2}
    Equity = 5
    Faults = {}
SPECIFICATION Spec
SYMMETRY DocSymmetry
CHECK_DEADLOCK FALSE
INVARIANTS
    EquityKept
