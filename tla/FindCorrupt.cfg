CONSTANTS
    MaxDepth = 4
    Boundaries = {b1, b2}
    Malformed = FALSE
    Scraps = FALSE
    MaxNesting = 1
    BufLines = 3
SPECIFICATION Spec
INVARIANT CorruptIsCorrupt
CHECK_DEADLOCK FALSE
