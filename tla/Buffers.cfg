\* A buffer of eight bytes that may be enlarged twice.
CONSTANTS
    BufLen = 8
    MaxGrowth = 3
    MaxSegment = 9
SPECIFICATION Spec
INVARIANTS TypeOK InBounds FullOnlyPastHeader
CHECK_DEADLOCK FALSE
