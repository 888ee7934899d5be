--------------------------- MODULE RxEventQueue ---------------------------
(***************************************************************************)
(* The RX event queue between picoquic's network thread (the worker, its   *)
(* only producer) and the asyncio thread (its only consumer):              *)
(*                                                                         *)
(*   - the bounded SPSC ring of spsc_ring.h;                               *)
(*   - its order-preserving overflow list: spsc_ring_push_or_overflow and  *)
(*     spsc_ring_refill_from_overflow;                                     *)
(*   - the coalesced wake: aiopquic_notify_rx and aiopquic_clear_rx of     *)
(*     callback.h around the eventfd;                                      *)
(*   - the drain cycle of TransportContext.drain_rx in _transport.pyx.     *)
(*                                                                         *)
(* One action is one access to state the other thread can see.  Both       *)
(* threads order their accesses with read-modify-writes on                 *)
(* rx_notify_pending and overflow depth, or with a release store of an     *)
(* index read with acquire, so the interleaving is sequentially            *)
(* consistent.  An event's data is its serial number n (the order in which *)
(* the worker committed it) and whether it owns a malloc'd payload.        *)
(***************************************************************************)
EXTENDS Integers, Sequences, FiniteSets

CONSTANTS
    Capacity,    \* entries in the ring (rx_event_ring->capacity)
    MaxEvents,   \* drain_rx's max_events: loop iterations of one drain cycle
    MaxPush      \* bound: how many events the worker ever commits

ASSUME CapacityAssumption == Capacity \in Nat \ {0}
ASSUME MaxEventsAssumption == MaxEvents \in Nat \ {0}
ASSUME MaxPushAssumption == MaxPush \in Nat

VARIABLES
    slots,         \* ring->entries
    head, tail,    \* ring->head (consumer's), ring->tail
    bytesPending,  \* ring->bytes_pending, in payloads
    ovf,           \* rx_overflow's linked list
    depth,         \* rx_overflow.depth
    pending,       \* rx_notify_pending
    fd,            \* the eventfd's counter
    wpc, went,     \* the worker: program point, entry being pushed
    cpc,           \* the consumer's program point
    cret, moved,   \* refill's caller, and whether it moved anything
    budget,        \* iterations left in this drain cycle
    accepted,      \* history: how many events were committed
    out            \* history: the entries handed to Python, in order

ringVars   == <<slots, head, tail, bytesPending>>
ovfVars    == <<ovf, depth>>
wakeVars   == <<pending, fd>>
workerVars == <<wpc, went>>
readerVars == <<cpc, cret, moved, budget>>
vars == <<ringVars, ovfVars, wakeVars, workerVars, readerVars, accepted, out>>

Entry == [n : Nat, owned : BOOLEAN]

\* Every slot starts zeroed (calloc).
NoEntry == [n |-> 0, owned |-> FALSE]

WorkerPoints == {"idle", "ring", "publish", "node", "count", "notify", "write"}
ReaderPoints == {"idle", "refill", "place", "uncount", "read", "pop",
                 "clearRead", "clearXchg", "rearm", "rearmOvf"}
RefillCallers == {"loop", "miss", "clear"}

\* The slot an index names (index & mask; the capacity is a power of two).
Slot(i) == i % Capacity

RingFull == tail - head >= Capacity

TypeOK ==
    /\ slots \in [0 .. Capacity - 1 -> Entry]
    /\ head \in Nat /\ tail \in Nat
    /\ bytesPending \in Int
    /\ ovf \in Seq(Entry)
    /\ depth \in Nat
    /\ pending \in {0, 1}
    /\ fd \in Nat
    /\ wpc \in WorkerPoints
    /\ went \in Entry
    /\ cpc \in ReaderPoints
    /\ cret \in RefillCallers
    /\ moved \in BOOLEAN
    /\ budget \in 0 .. MaxEvents
    /\ accepted \in Nat
    /\ out \in Seq(Entry)

Init ==
    /\ slots = [i \in 0 .. Capacity - 1 |-> NoEntry]
    /\ head = 0 /\ tail = 0
    /\ bytesPending = 0
    /\ ovf = << >>
    /\ depth = 0
    /\ pending = 0
    /\ fd = 0
    /\ wpc = "idle" /\ went = NoEntry
    /\ cpc = "idle" /\ cret = "loop" /\ moved = FALSE /\ budget = 0
    /\ accepted = 0
    /\ out = << >>

-----------------------------------------------------------------------------
(* The worker: aiopquic_rx_push.                                           *)

\* Mutant of PushStart: the depth is not consulted.
PushStartIgnoresOverflow ==
    /\ wpc = "idle"
    /\ accepted < MaxPush
    /\ \E o \in BOOLEAN : went' = [n |-> accepted, owned |-> o]
    /\ wpc' = "ring"
    /\ UNCHANGED <<ringVars, ovfVars, wakeVars, readerVars, accepted, out>>

\* A picoquic callback has an event to report.  spsc_ring_push_or_overflow
\* reads the depth: only an empty overflow lets the worker use the ring.
PushStart ==
    /\ wpc = "idle"
    /\ accepted < MaxPush
    /\ \E o \in BOOLEAN : went' = [n |-> accepted, owned |-> o]
    /\ wpc' = IF depth = 0 THEN "ring" ELSE "node"
    /\ UNCHANGED <<ringVars, ovfVars, wakeVars, readerVars, accepted, out>>

\* spsc_ring_push / spsc_ring_push_borrowed on a full ring: -1.
RingPushFull ==
    /\ wpc = "ring"
    /\ RingFull
    /\ wpc' = "node"
    /\ UNCHANGED <<ringVars, ovfVars, wakeVars, went, readerVars, accepted, out>>

\* ... with room: the slot and the byte count are written first.
RingWrite ==
    /\ wpc = "ring"
    /\ ~RingFull
    /\ slots' = [slots EXCEPT ![Slot(tail)] = went]
    /\ bytesPending' = bytesPending + (IF went.owned THEN 1 ELSE 0)
    /\ wpc' = "publish"
    /\ UNCHANGED <<head, tail, ovfVars, wakeVars, went, readerVars,
                   accepted, out>>

\* ... then the release store of tail commits the entry.
RingPublish ==
    /\ wpc = "publish"
    /\ tail' = tail + 1
    /\ accepted' = accepted + 1
    /\ wpc' = "notify"
    /\ UNCHANGED <<slots, head, bytesPending, ovfVars, wakeVars, went,
                   readerVars, out>>

\* malloc fails: for the copied payload before the slot is written, or for
\* the overflow node.  The event is dropped and counted, nobody is woken.
PushOutOfMemory ==
    /\ \/ wpc = "ring" /\ ~RingFull /\ went.owned
       \/ wpc = "node"
    /\ wpc' = "idle"
    /\ UNCHANGED <<ringVars, ovfVars, wakeVars, went, readerVars, accepted, out>>

\* Mutant of OverflowAppend: the node is linked at the wrong end.
OverflowPrepend ==
    /\ wpc = "node"
    /\ ovf' = <<went>> \o ovf
    /\ accepted' = accepted + 1
    /\ wpc' = "count"
    /\ UNCHANGED <<ringVars, depth, wakeVars, went, readerVars, out>>

\* The node joins the list under the lock.
OverflowAppend ==
    /\ wpc = "node"
    /\ ovf' = Append(ovf, went)
    /\ accepted' = accepted + 1
    /\ wpc' = "count"
    /\ UNCHANGED <<ringVars, depth, wakeVars, went, readerVars, out>>

\* ... and only then counts.
OverflowCount ==
    /\ wpc = "count"
    /\ depth' = depth + 1
    /\ wpc' = "notify"
    /\ UNCHANGED <<ringVars, ovf, wakeVars, went, readerVars, accepted, out>>

\* aiopquic_notify_rx: exchange the flag; only the 0 -> 1 flip writes the fd.
NotifyExchange ==
    /\ wpc = "notify"
    /\ pending' = 1
    /\ wpc' = IF pending = 0 THEN "write" ELSE "idle"
    /\ UNCHANGED <<ringVars, ovfVars, fd, went, readerVars, accepted, out>>

NotifyWrite ==
    /\ wpc = "write"
    /\ fd' = fd + 1
    /\ wpc' = "idle"
    /\ UNCHANGED <<ringVars, ovfVars, pending, went, readerVars, accepted, out>>

-----------------------------------------------------------------------------
(* The consumer: TransportContext.drain_rx.                                *)

CallRefill(caller) ==
    /\ cpc' = "refill"
    /\ cret' = caller
    /\ moved' = FALSE

\* A drain cycle: the loop's reader callback, or a direct call (next_event,
\* the _rxwatch timer).  It refills the ring before anything else.
StartDrain ==
    /\ cpc = "idle"
    /\ budget' = MaxEvents
    /\ CallRefill("loop")
    /\ UNCHANGED <<ringVars, ovfVars, wakeVars, workerVars, accepted, out>>

\* The reader callback asyncio's level-triggered poller runs.
ReaderCallback == fd > 0 /\ StartDrain

\* spsc_ring_refill_from_overflow, one turn: while depth > 0 and the ring
\* has room, unlink the first node under the lock and copy it to the slot at
\* tail ...
RefillTake ==
    /\ cpc = "refill"
    /\ depth > 0
    /\ ~RingFull
    /\ slots' = [slots EXCEPT ![Slot(tail)] = Head(ovf)]
    /\ bytesPending' = bytesPending + (IF Head(ovf).owned THEN 1 ELSE 0)
    /\ ovf' = Tail(ovf)
    /\ cpc' = "place"
    /\ UNCHANGED <<head, tail, depth, wakeVars, workerVars, cret, moved, budget,
                   accepted, out>>

\* ... publish it ...
RefillPublish ==
    /\ cpc = "place"
    /\ tail' = tail + 1
    /\ cpc' = "uncount"
    /\ UNCHANGED <<slots, head, bytesPending, ovfVars, wakeVars, workerVars,
                   cret, moved, budget, accepted, out>>

\* Mutant of RefillUncount: the decrement is forgotten.
RefillKeepsCount ==
    /\ cpc = "uncount"
    /\ moved' = TRUE
    /\ cpc' = "refill"
    /\ UNCHANGED <<ringVars, ovfVars, wakeVars, workerVars, cret, budget,
                   accepted, out>>

\* ... and uncount it: the last decrement lets the worker back on the ring.
RefillUncount ==
    /\ cpc = "uncount"
    /\ depth' = depth - 1
    /\ moved' = TRUE
    /\ cpc' = "refill"
    /\ UNCHANGED <<ringVars, ovf, wakeVars, workerVars, cret, budget,
                   accepted, out>>

\* The refill ends; where to depends on its caller.  After a miss that moved
\* nothing the drain loop breaks.
RefillReturn ==
    /\ cpc = "refill"
    /\ depth = 0 \/ RingFull
    /\ \/ /\ cret = "loop" \/ (cret = "miss" /\ moved)
          /\ cpc' = "read"
          /\ UNCHANGED <<cret, moved>>
       \/ /\ cret = "miss" /\ ~moved
          /\ CallRefill("clear")
       \/ /\ cret = "clear"
          /\ cpc' = "clearRead"
          /\ UNCHANGED <<cret, moved>>
    /\ UNCHANGED <<ringVars, ovfVars, wakeVars, workerVars, budget,
                   accepted, out>>

\* The loop is out of iterations: on to aiopquic_clear_rx, which refills too.
DrainBudgetSpent ==
    /\ cpc = "read"
    /\ budget = 0
    /\ CallRefill("clear")
    /\ UNCHANGED <<ringVars, ovfVars, wakeVars, workerVars, budget,
                   accepted, out>>

\* spsc_ring_peek finds nothing: refill; the turn is spent either way.
DrainMiss ==
    /\ cpc = "read"
    /\ budget > 0
    /\ head >= tail
    /\ budget' = budget - 1
    /\ CallRefill("miss")
    /\ UNCHANGED <<ringVars, ovfVars, wakeVars, workerVars, accepted, out>>

\* Mutant of DrainHandle: the loop's bound is not tested.
DrainHandleUnbounded ==
    /\ cpc = "read"
    /\ head < tail
    /\ budget' = budget - 1
    /\ out' = Append(out, slots[Slot(head)])
    /\ slots' = [slots EXCEPT ![Slot(head)] = [n |-> @.n, owned |-> FALSE]]
    /\ cpc' = "pop"
    /\ UNCHANGED <<head, tail, bytesPending, ovfVars, wakeVars, workerVars,
                   cret, moved, accepted>>

\* spsc_ring_peek finds an entry: it is handed to Python, and an owned
\* payload is taken out of the slot (spsc_ring_take_data zeroes data_length).
DrainHandle ==
    /\ cpc = "read"
    /\ budget > 0
    /\ head < tail
    /\ budget' = budget - 1
    /\ out' = Append(out, slots[Slot(head)])
    /\ slots' = [slots EXCEPT ![Slot(head)] = [n |-> @.n, owned |-> FALSE]]
    /\ cpc' = "pop"
    /\ UNCHANGED <<head, tail, bytesPending, ovfVars, wakeVars, workerVars,
                   cret, moved, accepted>>

\* spsc_ring_pop: give back the bytes of a payload still owned, advance head.
DrainPop ==
    /\ cpc = "pop"
    /\ bytesPending' = bytesPending - (IF slots[Slot(head)].owned THEN 1 ELSE 0)
    /\ head' = head + 1
    /\ cpc' = "read"
    /\ UNCHANGED <<slots, tail, ovfVars, wakeVars, workerVars, cret, moved,
                   budget, accepted, out>>

\* aiopquic_clear_rx: 1. read the fd down to zero ...
ClearRead ==
    /\ cpc = "clearRead"
    /\ fd' = 0
    /\ cpc' = "clearXchg"
    /\ UNCHANGED <<ringVars, ovfVars, pending, workerVars, cret, moved, budget,
                   accepted, out>>

\* ... 2. exchange the flag to 0 ...
ClearExchange ==
    /\ cpc = "clearXchg"
    /\ pending' = 0
    /\ cpc' = "rearm"
    /\ UNCHANGED <<ringVars, ovfVars, fd, workerVars, cret, moved, budget,
                   accepted, out>>

\* Mutant of ClearRearm: no re-check of the ring.
ClearNoRearm ==
    /\ cpc = "rearm"
    /\ cpc' = "rearmOvf"
    /\ UNCHANGED <<ringVars, ovfVars, wakeVars, workerVars, cret, moved, budget,
                   accepted, out>>

\* ... 3. write the fd again if the ring is not empty ...
ClearRearm ==
    /\ cpc = "rearm"
    /\ IF tail - head > 0
       THEN fd' = fd + 1 /\ cpc' = "idle"
       ELSE fd' = fd /\ cpc' = "rearmOvf"
    /\ UNCHANGED <<ringVars, ovfVars, pending, workerVars, cret, moved, budget,
                   accepted, out>>

\* Mutant of ClearRearmOverflow: no re-check of the overflow.
ClearNoRearmOverflow ==
    /\ cpc = "rearmOvf"
    /\ cpc' = "idle"
    /\ UNCHANGED <<ringVars, ovfVars, wakeVars, workerVars, cret, moved, budget,
                   accepted, out>>

\* ... or, that being so, if the overflow is not.
ClearRearmOverflow ==
    /\ cpc = "rearmOvf"
    /\ fd' = IF depth > 0 THEN fd + 1 ELSE fd
    /\ cpc' = "idle"
    /\ UNCHANGED <<ringVars, ovfVars, pending, workerVars, cret, moved, budget,
                   accepted, out>>

-----------------------------------------------------------------------------

\* The steps of a push already begun: the worker runs them to the end.
WorkerStep ==
    \/ RingPushFull \/ RingWrite \/ RingPublish \/ PushOutOfMemory
    \/ OverflowAppend \/ OverflowCount
    \/ NotifyExchange \/ NotifyWrite

\* The steps of a drain cycle already begun.
ReaderStep ==
    \/ RefillTake \/ RefillPublish \/ RefillUncount \/ RefillReturn
    \/ DrainBudgetSpent \/ DrainMiss \/ DrainHandle \/ DrainPop
    \/ ClearRead \/ ClearExchange \/ ClearRearm \/ ClearRearmOverflow

Next == PushStart \/ WorkerStep \/ StartDrain \/ ReaderStep

\* Both threads run code they have entered, and asyncio's poller reports an
\* fd that stays readable.  Nothing obliges picoquic to produce an event, nor
\* Python to drain without a wake.
Fairness ==
    /\ WF_vars(WorkerStep)
    /\ WF_vars(ReaderStep)
    /\ WF_vars(ReaderCallback)

Spec == Init /\ [][Next]_vars /\ Fairness

-----------------------------------------------------------------------------
(* Properties.                                                             *)

\* Events reach Python in the order the worker committed them, with none
\* missing and none twice, however the ring and the overflow alternate.
InOrderDelivery == \A i \in 1 .. Len(out) : out[i].n = i - 1

\* "The ring keeps its single producer during a refill" (spsc_ring.h, the
\* overflow's comment): the worker is never between its depth check and its
\* tail store while the refill is filling a slot it has not uncounted.
SingleRingWriter ==
    ~(wpc \in {"ring", "publish"} /\ cpc \in {"place", "uncount"})

\* spsc_ring_refill_from_overflow dereferences ovf->head without a NULL
\* check: a nonzero depth must imply a linked node whenever it looks.
RefillFindsNode == (cpc = "refill" /\ depth > 0) => ovf # << >>

\* No lost wake: while the consumer is not draining, an undelivered event
\* implies a readable fd, or a worker still on its way to write it.
NoLostWake ==
    (cpc = "idle" /\ head < accepted) =>
        (fd > 0 \/ wpc \in {"count", "notify", "write"})

-----------------------------------------------------------------------------
(* What the queue promises: a FIFO that delivers all it accepts.           *)

\* The events between the two ends: the ring, the node a refill holds in the
\* slot at tail, the overflow list.  The one Python has been handed but that
\* is not popped yet is no longer in it.
InFlight ==
    LET first == IF cpc = "pop" THEN head + 1 ELSE head
        last  == IF cpc = "place" THEN tail ELSE tail - 1
    IN  [k \in 1 .. last - first + 1 |-> slots[Slot(first + k - 1)].n]
            \o [j \in 1 .. Len(ovf) |-> ovf[j].n]

Fifo == INSTANCE EventFifo WITH
            queue <- InFlight,
            received <- [i \in 1 .. Len(out) |-> out[i].n]

\* The ring, the overflow and the coalesced wake implement that FIFO, its
\* liveness included: every committed event is delivered.
ImplementsFifo == Fifo!Spec
=============================================================================
