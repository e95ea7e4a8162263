CONSTANTS
    a = a
    b = b
    c = c
    d = d
    Calls = {a, b, c, d}
    NoCall = NoCall
    MaxDocs = 5
    Spare = 2
    Scenes <- EntryAndRecon
SPECIFICATION Spec
CHECK_DEADLOCK FALSE
INVARIANT NoHidden
