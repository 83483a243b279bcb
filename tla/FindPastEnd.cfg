CONSTANTS
    MaxDepth = 4
    Boundaries = {b1, b2}
    Malformed = FALSE
    Scraps = FALSE
    MaxNesting = 1
    BufLines = 3
SPECIFICATION Spec
INVARIANT NeverPastEnd
CHECK_DEADLOCK FALSE
