\* Streams that end early, few replies.
SPECIFICATION Spec
CONSTANTS
    Adapters = {"anthropic"}
    Replies <- FewReplies
    MAX_ATTEMPTS = 2
    StreamFaults = {"cut"}
    Names = {"read", "bash", "nope"}
    Registered = {"read", "bash"}
    ParallelSafe = {"read"}
    max_parallel_tools = 2
    MaxTurns = 2
    MaxRuns = 2
CHECK_DEADLOCK FALSE
PROPERTY PartialRepliesStayOut
