\* Three entries, two buckets, a connection that mirrors another.
CONSTANTS
    Conns <- MCConns
    HashIndex <- MCHashIndex
    TblSize = 3
    MaxStreams = 4
SPECIFICATION Spec
INVARIANTS TypeOK PoolPartitioned LinksConsistent NewestFirst
PROPERTY Implements
CHECK_DEADLOCK FALSE
