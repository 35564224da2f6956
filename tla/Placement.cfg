\* Two sessions, two processes: every order of their steps and of the user's.
SPECIFICATION Spec
CONSTANTS
    Sessions = {s, c}
    Processes = {p, q}
    NoOne = NoOne
    Callers <- MCCallers
SYMMETRY Same
CHECK_DEADLOCK FALSE
INVARIANT TypeOK
INVARIANT NoStrangerInATree
PROPERTY RunsInItsOwnTree
PROPERTY WorkIsKept
PROPERTY ConfinedToItsPlace
