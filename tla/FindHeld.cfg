CONSTANTS
    MaxDepth = 4
    Boundaries = {b1, b2}
    Malformed = FALSE
    Scraps = TRUE
    MaxNesting = 1
    BufLines = 3
SPECIFICATION Spec
INVARIANT OpenParts
CHECK_DEADLOCK FALSE
