\* Legal messages of nested multiparts that the tracker follows (Followed), cut
\* behind any line and inside a delimiter, but not into scraps.
CONSTANTS
    MaxDepth = 5
    Boundaries = {b1, b2, b3}
    Malformed = FALSE
    Scraps = FALSE
    MaxNesting = 3
    BufLines = 4
SPECIFICATION Spec
INVARIANTS OpenParts EndSeen
CHECK_DEADLOCK FALSE
