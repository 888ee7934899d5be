\* Two slots and four writers: the ring fills and writers park while the
\* worker is anywhere between draining and sleeping.
SPECIFICATION Spec
CONSTANTS
    Capacity = 2
    LowWater = 1
    Writers = 4
INVARIANTS
    TypeOK
    SleeperIsWoken
    ParkedWriterIsServed
PROPERTIES
    WritersResume
