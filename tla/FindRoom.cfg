\* A header that leaves less room than the next segment.
CONSTANTS
    BufLen = 8
    MaxGrowth = 3
    MaxSegment = 2
SPECIFICATION Spec
INVARIANT HeaderLeavesRoom
CHECK_DEADLOCK FALSE
