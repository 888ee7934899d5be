\* Two contexts, a TX ring of two.  A stopped transport has nothing to do.
SPECIFICATION Spec
CONSTANTS
    MaxSc = 2
    TxCap = 2
    MaxInputs = 3
INVARIANTS
    TypeOK
    RefsMatchHolders
    HeldStayLive
PROPERTIES
    ContextsFreed
CHECK_DEADLOCK FALSE
