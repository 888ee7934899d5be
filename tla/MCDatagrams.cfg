\* Two connections, at one address or at two, whose hashes collide.
SPECIFICATION Spec
CONSTANTS
    Addr <- MCAddr
    Hash <- MCHash
    InitCap = 2
    Hdr = 1
    MaxRecord = 1
    TxCap = 2
    LowWater = 1
    Plans <- MCPlans
INVARIANTS
    TypeOK
    RingRefs
    TableFindsAll
    ParkedWriterArmed
    NoOrphanConnection
PROPERTIES
    RecordsStayHome
    RecordsLeave
    ReleasedRingFreed
CHECK_DEADLOCK FALSE
