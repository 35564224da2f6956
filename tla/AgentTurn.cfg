\* One prompt, two turns: every reply after every reply, with every failure.
SPECIFICATION FairSpec
CONSTANTS
    Adapters = {"anthropic", "compatible", "codex", "openrouter"}
    Replies <- MCReplies
    MAX_ATTEMPTS = 3
    StreamFaults = {"cut", "garble", "error"}
    Names = {"read", "bash", "nope"}
    Registered = {"read", "bash"}
    ParallelSafe = {"read"}
    max_parallel_tools = 2
    MaxTurns = 2
    MaxRuns = 1
CHECK_DEADLOCK FALSE
INVARIANT TypeOK
INVARIANT PermitsHold
INVARIANT EffectsLookSequential
INVARIANT OutputsInRequestOrder
INVARIANT WholeReplyIsDelivered
INVARIANT RequestIsFaithful
PROPERTY EveryRunEnds
