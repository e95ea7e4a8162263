CONSTANTS
    a = a
    b = b
    c = c
    f = f
    d1 = d1
    d2 = d2
    d3 = d3
    NoPos = NoPos
    Nothing = Nothing
    Calls = {a, b, c, f}
    CallLists <- Separate
    Side <- Sides4
    Qty <- Sizes4
    Docs = {d1, d2, d3}
    Openings = {0, 2}
    Equity = 5
    Faults = {"createFails", "claimFails", "deadline"}
SPECIFICATION Spec
SYMMETRY DocSymmetry
CHECK_DEADLOCK FALSE
INVARIANTS
    TypeOK
    EquityKept
    OneTradePerSymbol
    TradesWatched
    NoGhost
PROPERTIES
    ClosedUntouched
