\* Credit pushes may meet a full TX event ring.
SPECIFICATION Spec
CONSTANTS
    Cap = 3
    InitialWindow = 3
    Hysteresis = 1
    Total = 7
    Environments <- MCFullTxRing
PROPERTY
    CreditCatchesUp
CHECK_DEADLOCK FALSE
