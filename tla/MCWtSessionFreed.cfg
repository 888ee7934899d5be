SPECIFICATION Spec
CONSTANTS
    Streams <- MCStreams
    TxCap = 2
    Plans <- NeverOpened
    FirstCode = 96
    MaxCode = 90
    LastCode = 189
    SessionGone = 50
INVARIANT
    FreedSessionUnnamed
CHECK_DEADLOCK FALSE
