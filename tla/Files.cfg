SPECIFICATION Spec
CONSTANTS
    Agents = {a1, a2}
    x = x
    y = y
    blank = blank
    None = None
    Words <- MCWords
    Blank = blank
    LineHash <- MCLineHash
    Nothing = None
    Contents <- MCContents
    InitialTexts <- MCInitialTexts
    MaxLines = 3
    MaxCalls = 2
    MaxWords = 1
    RichCalls = 1
    MaxOutside = 1
    MAX_OUTPUT_BYTES = 4
    MAX_RESULTS = 2
    MAX_ENTRIES = 2
    MAX_ROWS = 2
    MAX_ENTRY_BYTES = 2
    MAX_SCAN_BYTES = 6
    MaxItems = 6
    MaxMembers = 3
    MaxPayload = 2
INVARIANT TypeOK
INVARIANT AnchorsFollowTheirLine
INVARIANT PatchIsItsSplices
INVARIANT LinesLeaveOnPurpose
INVARIANT NoSilentCap
SYMMETRY MCSymmetry
CHECK_DEADLOCK FALSE
