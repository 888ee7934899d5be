\* A writer that waits for room.  Liveness under the fairness of Spec.
SPECIFICATION Spec
CONSTANTS
    Addr <- MCAddr
    Hash <- MCHash
    InitCap = 2
    Hdr = 1
    MaxRecord = 1
    TxCap = 2
    LowWater = 1
    Plans <- FullRingPlans
PROPERTY
    WaitersNeverPark
CHECK_DEADLOCK FALSE
