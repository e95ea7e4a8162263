CONSTANTS
    a = a
    b = b
    c = c
    d = d
    Calls = {a, b, c, d}
    NoCall = NoCall
    MaxDocs = 5
    Spare = 2
    Scenes <- PassScenes
SPECIFICATION FairSpec
CHECK_DEADLOCK FALSE
INVARIANTS
    TypeOK
    NoHidden
    OneRecord
    NotOversold
PROPERTIES
    BlockKept
    ExitServed
    AuditConverges
