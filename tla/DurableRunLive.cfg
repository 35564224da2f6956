CONSTANTS
    c1 = c1
    c2 = c2
    p1 = p1
    p2 = p2
    Calls = {c1, c2}
    Procs = {p1, p2}
    NoProc = NoProc
    MaxTurns = 2
    MaxCalls = 2
    MaxRuns = 2
    ReuseIds = FALSE
    Faults = {"journal", "provider", "cancel"}
SPECIFICATION FairSpec

PROPERTY EveryProcessEnds
