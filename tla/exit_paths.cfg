CONSTANTS
    j1 = j1
    j2 = j2
    j3 = j3
    j4 = j4
    s1 = s1
    s2 = s2
    Instances = {s1, s2}
    NoOwner = NoOwner
    Stopped = Stopped
    Jobs = {j1, j2, j3, j4}
    Home <- TwoServers
    Scenes <- PassScenes
    Qty = 3
SPECIFICATION Spec
CHECK_DEADLOCK FALSE
INVARIANTS
    TypeOK
    ReturnedOnce
    SoldOnce
    MarginKept
PROPERTIES
    ClosedForGood
