\* A parent process and one more (a restarted parent or a user's resume), two
\* child tasks over two tool calls with room for one child, all faults.
SPECIFICATION Spec
CONSTANTS
    Hosts = {h1, h2}
    Jobs = {j1, j2}
    Kids = {k1, k2}
    Root = root
    Nobody = nobody
    MaxChildren = 1
    Zombies = TRUE
    Resumes = TRUE
    Faults = {"crash", "store", "provider"}
SYMMETRY PenSymmetry
CHECK_DEADLOCK FALSE
INVARIANT TypeOK
INVARIANT RowNamesOwner
INVARIANT CompletedIsTrue
INVARIANT BudgetHolds
INVARIANT EntryHasTask
