\* What the release of the transport leaves behind.
SPECIFICATION Spec
CONSTANTS
    MaxSc = 2
    TxCap = 2
    MaxInputs = 3
INVARIANT StopReleasesAll
CHECK_DEADLOCK FALSE
