CONSTANTS
    a = a
    b = b
    c = c
    f = f
    d1 = d1
    d2 = d2
    d3 = d3
    NoPos = NoPos
    Nothing = Nothing
    Calls = {a, b, c, f}
    CallLists <- Together
    Side <- Sides4
    Qty <- Sizes4
    Docs = {d1, d2, d3}
    Openings = {0, 3}
    Equity = 5
    Faults = {"createFails", "claimFails", "updateFails", "snapshotFails", "deadline"}
SPECIFICATION Spec
SYMMETRY DocSymmetry
CHECK_DEADLOCK FALSE
PROPERTIES
    ClosedForGood
