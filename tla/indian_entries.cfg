CONSTANTS
    a = a
    b = b
    c = c
    d = d
    e = e
    f = f
    g = g
    s1 = s1
    s2 = s2
    Calls = {a, b, c, d, e, f, g}
    NoCall = NoCall
    Strategies = {s1, s2}
    ScannerStrategy = scanner
    Cost <- Costs
    Equity = 6
    MaxConcurrentTrades = 1
    MaxConsecutiveLosses = 2
    MaxDailyLoss = 2
    Outcomes <- WinOrLoss
    Scenes <- PassScenes
SPECIFICATION FairSpec
INVARIANTS
    TypeOK
    OneOpenPerStrategy
    NoOpposite
    WithinLimit
    MarginTaken
    SavedCovers
    NotOverdrawn
    CooledForTrade
    LossLocks
    LockKept
PROPERTIES
    HaltHolds
    TurnEnds
CHECK_DEADLOCK FALSE
