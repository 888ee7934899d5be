\* A ring of four bytes, an initial window of two, credit every two bytes, and
\* a stream two rings long.  With faults a stream may stop before its end;
\* StreamCompletes says that without them it does not.
SPECIFICATION Spec
CONSTANTS
    Cap = 4
    InitialWindow = 2
    Hysteresis = 2
    Total = 9
    Environments <- MCEnvironments
INVARIANTS
    TypeOK
    NoStrandedBytes
    FinIsLast
    WindowWithinRing
PROPERTY
    StreamCompletes
CHECK_DEADLOCK FALSE
