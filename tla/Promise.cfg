\* Three entries, two buckets, a connection that mirrors another.
CONSTANTS
    Conns <- MCConns
    HashIndex <- MCHashIndex
    TblSize = 3
    MaxStreams = 5
SPECIFICATION Spec
INVARIANTS WithinCapacity StaleOnlyAbandoned OwnSessionFound
CHECK_DEADLOCK FALSE
