\* No store fault: what must come out of a crash, a deadline, a cancellation or
\* the end of a process.
SPECIFICATION FairSpec
CONSTANTS
    Hosts = {h1, h2}
    Jobs = {j1, j2}
    Kids = {k1}
    Root = root
    Nobody = nobody
    MaxChildren = 1
    Zombies = FALSE
    Resumes = FALSE
    Faults = {"crash", "provider"}
CHECK_DEADLOCK FALSE
INVARIANT OrphanIsFailed
PROPERTY EveryChildSettles
