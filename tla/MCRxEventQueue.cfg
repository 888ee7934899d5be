\* A ring of two slots, drain cycles of two turns, five events: the ring
\* fills, spills, refills and spills again within one behaviour.
SPECIFICATION Spec
CONSTANTS
    Capacity = 2
    MaxEvents = 2
    MaxPush = 5
INVARIANTS
    TypeOK
    InOrderDelivery
    SingleRingWriter
    RefillFindsNode
    NoLostWake
PROPERTY
    ImplementsFifo
