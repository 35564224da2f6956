SPECIFICATION Spec
CONSTANTS
    Procs = {p, q}
    None = None
    Blank = Blank
    Torn = Torn
    EXPIRY_SKEW = 1
    POLL_TIMEOUT = 2
    BROWSER_TIMEOUT = 1
    Intervals = {1, 3}
    Lifetimes = {2}
    MaxTime = 3
    MaxTokens = 2
    MaxLogins = 2
INVARIANT StoreIsNeverTorn
CHECK_DEADLOCK FALSE
