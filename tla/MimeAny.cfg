\* Lines in any order, a stack that overflows, scraps of delimiters.
CONSTANTS
    MaxDepth = 4
    Boundaries = {b1, b2}
    Malformed = TRUE
    Scraps = TRUE
    MaxNesting = 0
    BufLines = 2
SPECIFICATION Spec
INVARIANTS TypeOK PartsNest BalancedAtEnd
PROPERTY Returns
CHECK_DEADLOCK FALSE
