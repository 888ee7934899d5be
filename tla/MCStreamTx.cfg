\* A ring of two bytes, three bytes to send, two resets: writes park, resets
\* are held and ignored.  A stream nobody writes to any more just stops.
SPECIFICATION Spec
CONSTANTS
    Cap = 2
    Total = 3
    MaxWant = 2
    MaxResets = 2
    ResetSizes = {0, 2}
    Negotiated = TRUE
INVARIANTS
    TypeOK
    FinSendsAll
    ResetKeepsReliable
    QueuedIsRing
    ParkedWriterIsServed
PROPERTIES
    FinReachesWire
CHECK_DEADLOCK FALSE
