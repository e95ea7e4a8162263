CONSTANTS
    j1 = j1
    j2 = j2
    j3 = j3
    j4 = j4
    s1 = s1
    s2 = s2
    Instances = {s1}
    NoOwner = NoOwner
    Stopped = Stopped
    Jobs = {j1, j2, j3, j4}
    Home <- Server
    Scenes <- MonitorAndSquareOff
    Qty = 1
SPECIFICATION Spec
CHECK_DEADLOCK FALSE
INVARIANTS
    ReturnedOnce
