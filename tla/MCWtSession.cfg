SPECIFICATION FairSpec
CONSTANTS
    Streams <- MCStreams
    TxCap = 2
    Plans <- MCPlans
    FirstCode = 96
    MaxCode = 90
    LastCode = 189
    SessionGone = 50
INVARIANTS
    TypeOK
    NoDanglingSession
    BorrowedScLive
    RepliesPair
    CodesRoundTrip
PROPERTIES
    EndIsReported
    CloseCompletes
CHECK_DEADLOCK FALSE
