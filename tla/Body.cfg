\* Every body of a few characters in any pieces; memory may be refused.
\* A body of that length has no further piece.
CONSTANTS
    Characters <- SomeCharacters
    MaxRun = 2
    MaxSent <- SomeLength
    MayRefuse = TRUE
SPECIFICATION Spec
INVARIANTS TypeOK BufferHolds InBounds AsEncoded
PROPERTY Returns
CHECK_DEADLOCK FALSE
