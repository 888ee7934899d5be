SPECIFICATION FairSpec
CONSTANTS
    Streams <- MCStreams
    TxCap = 1
    Plans <- FullRing
    FirstCode = 96
    MaxCode = 90
    LastCode = 189
    SessionGone = 50
PROPERTY
    PostsArrive
CHECK_DEADLOCK FALSE
