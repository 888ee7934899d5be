----------------------------- MODULE StreamRx -----------------------------
(***************************************************************************)
(* The receiving half of one raw QUIC stream:                              *)
(*                                                                         *)
(*   - the worker's stream_data and stream_fin callbacks, which push bytes *)
(*     into the per-stream ring sc->rx and queue at most one STREAM_DATA   *)
(*     notification at a time (aiopquic_stream_cb, rx_event_pending);      *)
(*   - the drain on the asyncio thread, which pops every byte the ring     *)
(*     holds per notification and, once per drain cycle, asks for credit   *)
(*     (TransportContext.drain_rx, _push_fc_credit);                       *)
(*   - the worker's OPEN_FLOW_CONTROL command, which turns the free room   *)
(*     into the peer's MAX_STREAM_DATA limit (aiopquic_loop_cb).           *)
(*                                                                         *)
(* Bytes are their stream offsets, so the ring is its two indices.  The    *)
(* RX event queue is the FIFO that RxEventQueue implements.  One action is *)
(* one access to state the other thread can see; every flag access is an   *)
(* exchange and every index a release store, read with acquire.            *)
(***************************************************************************)
EXTENDS Integers, Sequences

CONSTANTS
    Cap,            \* bytes in sc->rx: ctx->rx_data_ring_cap
    InitialWindow,  \* the stream's initial_max_stream_data parameter
    Hysteresis,     \* consumption between two credit pushes: Cap >> 4
    Total,          \* the stream's final size
    Environments    \* the sets of faults a behaviour may meet

ASSUME CapAssumption == Cap \in Nat \ {0}
\* The ring is sized at the advertised window, which is never smaller.
ASSUME WindowAssumption == InitialWindow \in 1 .. Cap
ASSUME HysteresisAssumption == Hysteresis \in 0 .. Cap
ASSUME TotalAssumption == Total \in Nat \ {0}

\* A full TX event ring refuses a credit push; malloc fails for a notification,
\* or for the bytes the drain pops.
Faults == {"txFull", "noNotice", "noBytes"}
ASSUME EnvironmentsAssumption ==
    Environments \subseteq SUBSET Faults /\ Environments # {}

VARIABLES
    head, tail,     \* sc->rx: bytes popped, bytes pushed
    touched,        \* sc->rx exists and the stream is app flow controlled
    finSet,         \* sc->rx->fin_pending
    flag,           \* sc->rx_event_pending
    events,         \* this stream's notifications in the RX event queue
    limit,          \* the offset picoquic lets the peer send up to
    unreleased,     \* sc->bytes_pending_release
    consumed,       \* sc->rx_consumed
    lastPush,       \* sc->last_fc_push_consumed
    fcQueue,        \* OPEN_FLOW_CONTROL commands in the TX event ring
    wpc, bufFree,   \* the worker: program point, free bytes it read
    cpc, event, avail, noted,
                    \* the drain: program point, event, bytes it saw used,
                    \* whether pending_fc holds this stream
    finArrived,     \* history: picoquic has reported the FIN
    got, finGot,    \* history: bytes and FIN handed to Python
    faults          \* environment: the faults this behaviour may meet

ringVars   == <<head, tail, touched, finSet>>
creditVars == <<limit, unreleased, consumed, lastPush, fcQueue>>
workerVars == <<wpc, bufFree, finArrived>>
drainVars  == <<cpc, event, avail, noted, got, finGot>>
vars == <<ringVars, flag, events, creditVars, workerVars, drainVars, faults>>

Events == {"DATA", "FIN"}
WorkerPoints == {"idle", "arm", "pushData", "pushFin", "grant"}
DrainPoints == {"idle", "cycle", "used", "pop", "wrap", "hand"}

Larger(a, b) == IF a >= b THEN a ELSE b

\* aiopquic_stream_buf_free
Free == Cap - (tail - head)

TypeOK ==
    /\ head \in 0 .. tail /\ tail \in 0 .. Total
    /\ touched \in BOOLEAN /\ finSet \in BOOLEAN
    /\ flag \in {0, 1}
    /\ events \in Seq(Events)
    /\ limit \in Nat
    /\ unreleased \in 0 .. Cap
    /\ consumed \in 0 .. head
    /\ lastPush \in 0 .. consumed
    /\ fcQueue \in Nat
    /\ wpc \in WorkerPoints /\ bufFree \in 0 .. Cap
    /\ cpc \in DrainPoints /\ event \in Events
    /\ avail \in 0 .. Cap
    /\ noted \in BOOLEAN /\ finArrived \in BOOLEAN
    /\ got \in 0 .. Total /\ finGot \in BOOLEAN
    /\ faults \in Environments

Init ==
    /\ head = 0 /\ tail = 0 /\ touched = FALSE /\ finSet = FALSE
    /\ flag = 0
    /\ events = << >>
    /\ limit = InitialWindow
    /\ unreleased = 0 /\ consumed = 0 /\ lastPush = 0 /\ fcQueue = 0
    /\ wpc = "idle" /\ bufFree = 0 /\ finArrived = FALSE
    /\ cpc = "idle" /\ event = "DATA" /\ avail = 0 /\ noted = FALSE
    /\ got = 0 /\ finGot = FALSE
    /\ faults \in Environments

-----------------------------------------------------------------------------
(* The worker.                                                             *)

\* stream_data, or stream_fin with a payload, of n more bytes.  picoquic
\* delivers in order and enforces the limit itself; a push that comes up
\* short (a connection error in the code) would need a limit beyond the
\* ring, which WindowWithinRing excludes.  The first touch opts into
\* application flow control and widens a window smaller than the ring.
Deliver(n, fin) ==
    /\ wpc = "idle"
    /\ ~finArrived
    /\ n <= limit - tail
    /\ tail + n <= Total
    /\ fin => tail + n = Total
    /\ tail' = tail + n
    /\ touched' = TRUE
    /\ finSet' = fin
    /\ finArrived' = fin
    /\ limit' = IF ~touched /\ ~fin /\ InitialWindow < Cap
                THEN Larger(limit, head + Cap) ELSE limit
    /\ wpc' = IF fin THEN "pushFin" ELSE "arm"
    /\ UNCHANGED <<head, flag, events, unreleased, consumed, lastPush,
                   fcQueue, bufFree, drainVars, faults>>

\* stream_fin without a payload: no ring is touched, no flag is set in it.
DeliverBareFin ==
    /\ wpc = "idle"
    /\ ~finArrived
    /\ tail = Total
    /\ finArrived' = TRUE
    /\ wpc' = "pushFin"
    /\ UNCHANGED <<ringVars, flag, events, creditVars, bufFree, drainVars,
                   faults>>

\* aiopquic_stream_ctx_rx_event_pending_arm: the loser coalesces.
ArmNotification ==
    /\ wpc = "arm"
    /\ flag' = 1
    /\ wpc' = IF flag = 0 THEN "pushData" ELSE "idle"
    /\ UNCHANGED <<ringVars, events, creditVars, bufFree, finArrived,
                   drainVars, faults>>

\* aiopquic_rx_push_sc
PushNotification ==
    /\ wpc \in {"pushData", "pushFin"}
    /\ events' = Append(events, IF wpc = "pushFin" THEN "FIN" ELSE "DATA")
    /\ wpc' = "idle"
    /\ UNCHANGED <<ringVars, flag, creditVars, bufFree, finArrived, drainVars,
                   faults>>

\* Out of memory: the notification is gone, and a DATA's flag is given back.
NotificationLost ==
    /\ "noNotice" \in faults
    /\ wpc \in {"pushData", "pushFin"}
    /\ flag' = IF wpc = "pushData" THEN 0 ELSE flag
    /\ wpc' = "idle"
    /\ UNCHANGED <<ringVars, events, creditVars, bufFree, finArrived,
                   drainVars, faults>>

\* SPSC_EVT_TX_OPEN_FLOW_CONTROL: nothing once the ring has its FIN, else
\* read the free room ...
OpenFlowControl ==
    /\ wpc = "idle"
    /\ fcQueue > 0
    /\ fcQueue' = fcQueue - 1
    /\ IF touched /\ ~finSet
       THEN bufFree' = Free /\ wpc' = "grant"
       ELSE UNCHANGED <<bufFree, wpc>>
    /\ UNCHANGED <<ringVars, flag, events, limit, unreleased, consumed,
                   lastPush, finArrived, drainVars, faults>>

\* Mutant of OpenGrant: the whole capacity is granted.
OpenGrantWhole ==
    /\ wpc = "grant"
    /\ limit' = Larger(limit, tail + Cap)
    /\ wpc' = "idle"
    /\ UNCHANGED <<ringVars, flag, events, unreleased, consumed, lastPush,
                   fcQueue, bufFree, finArrived, drainVars, faults>>

\* ... then what Python has not released, and grant the difference.
\* picoquic_open_flow_control (external) raises the limit to what has been
\* delivered plus the grant, and never lowers it.
OpenGrant ==
    /\ wpc = "grant"
    /\ limit' = IF unreleased >= bufFree THEN limit
                ELSE Larger(limit, tail + bufFree - unreleased)
    /\ wpc' = "idle"
    /\ UNCHANGED <<ringVars, flag, events, unreleased, consumed, lastPush,
                   fcQueue, bufFree, finArrived, drainVars, faults>>

-----------------------------------------------------------------------------
(* The drain.                                                              *)

\* Mutant of DrainEvent: the flag is not cleared.
DrainEventKeepsFlag ==
    /\ cpc \in {"idle", "cycle"}
    /\ events # << >>
    /\ event' = Head(events)
    /\ events' = Tail(events)
    /\ cpc' = "used"
    /\ UNCHANGED <<ringVars, flag, creditVars, workerVars, avail, noted, got,
                   finGot, faults>>

\* An event of this stream, in a new drain cycle or in the running one: the
\* flag is cleared before the ring is looked at.
DrainEvent ==
    /\ cpc \in {"idle", "cycle"}
    /\ events # << >>
    /\ event' = Head(events)
    /\ events' = Tail(events)
    /\ flag' = 0
    /\ cpc' = "used"
    /\ UNCHANGED <<ringVars, creditVars, workerVars, avail, noted, got,
                   finGot, faults>>

\* What an event that brings no bytes does: a DATA is skipped, a FIN is
\* handed on.
HandBare ==
    /\ finGot' = (finGot \/ event = "FIN")
    /\ cpc' = "cycle"

\* Mutant of DrainUsed: a FIN does not look into the ring.
DrainUsedSkipsFin ==
    /\ cpc = "used"
    /\ avail' = tail - head
    /\ IF tail = head \/ event = "FIN"
       THEN HandBare ELSE cpc' = "pop" /\ UNCHANGED finGot
    /\ UNCHANGED <<ringVars, flag, events, creditVars, workerVars, event,
                   noted, got, faults>>

DrainUsed ==
    /\ cpc = "used"
    /\ avail' = tail - head
    /\ IF tail = head THEN HandBare ELSE cpc' = "pop" /\ UNCHANGED finGot
    /\ UNCHANGED <<ringVars, flag, events, creditVars, workerVars, event,
                   noted, got, faults>>

\* malloc fails for the bytes: they stay in the ring.
DrainOutOfMemory ==
    /\ "noBytes" \in faults
    /\ cpc = "pop"
    /\ HandBare
    /\ UNCHANGED <<ringVars, flag, events, creditVars, workerVars, event,
                   avail, noted, got, faults>>

DrainPop ==
    /\ cpc = "pop"
    /\ head' = head + avail
    /\ cpc' = "wrap"
    /\ UNCHANGED <<tail, touched, finSet, flag, events, creditVars,
                   workerVars, event, avail, noted, got, finGot, faults>>

\* StreamChunk._wrap
DrainWrap ==
    /\ cpc = "wrap"
    /\ unreleased' = unreleased + avail
    /\ cpc' = "hand"
    /\ UNCHANGED <<ringVars, flag, events, limit, consumed, lastPush, fcQueue,
                   workerVars, event, avail, noted, got, finGot, faults>>

\* Mutant of DrainHand: the bytes are released twice, by __getbuffer__ and by
\* the chunk's deallocation.
DrainHandReleasesTwice ==
    /\ cpc = "hand"
    /\ unreleased' = unreleased - 2 * avail
    /\ consumed' = consumed + avail
    /\ got' = got + avail
    /\ finGot' = (finGot \/ event = "FIN")
    /\ noted' = TRUE
    /\ cpc' = "cycle"
    /\ UNCHANGED <<ringVars, flag, events, limit, lastPush, fcQueue,
                   workerVars, event, avail, faults>>

\* memoryview(chunk) releases the bytes (__getbuffer__), rx_consumed counts
\* them, the stream is noted for credit, the event goes to Python.
DrainHand ==
    /\ cpc = "hand"
    /\ unreleased' = unreleased - avail
    /\ consumed' = consumed + avail
    /\ got' = got + avail
    /\ finGot' = (finGot \/ event = "FIN")
    /\ noted' = TRUE
    /\ cpc' = "cycle"
    /\ UNCHANGED <<ringVars, flag, events, limit, lastPush, fcQueue,
                   workerVars, event, avail, faults>>

\* Mutant of CreditDue: more than a whole window must be consumed first.
CreditDueLate == noted /\ consumed - lastPush > Cap

CreditDue == noted /\ consumed - lastPush >= Hysteresis

\* The end of the cycle, _flush_pending_fc: too little consumed since the
\* last push, and nothing is asked for ...
EndCycleQuiet ==
    /\ cpc = "cycle"
    /\ ~CreditDue
    /\ noted' = FALSE
    /\ cpc' = "idle"
    /\ UNCHANGED <<ringVars, flag, events, creditVars, workerVars, event,
                   avail, got, finGot, faults>>

\* ... else the mark moves up and the command is queued ...
EndCyclePush ==
    /\ cpc = "cycle"
    /\ CreditDue
    /\ lastPush' = consumed
    /\ fcQueue' = fcQueue + 1
    /\ noted' = FALSE
    /\ cpc' = "idle"
    /\ UNCHANGED <<ringVars, flag, events, limit, unreleased, consumed,
                   workerVars, event, avail, got, finGot, faults>>

\* ... or, on a full TX event ring, the mark moves up all the same and the
\* command is dropped (aiopquic_push_fc_credit).
EndCycleDropped ==
    /\ "txFull" \in faults
    /\ cpc = "cycle"
    /\ CreditDue
    /\ lastPush' = consumed
    /\ noted' = FALSE
    /\ cpc' = "idle"
    /\ UNCHANGED <<ringVars, flag, events, limit, unreleased, consumed,
                   fcQueue, workerVars, event, avail, got, finGot, faults>>

-----------------------------------------------------------------------------

PeerSends == DeliverBareFin \/ \E n \in 1 .. Total, fin \in BOOLEAN : Deliver(n, fin)

WorkerStep ==
    \/ ArmNotification \/ PushNotification \/ NotificationLost
    \/ OpenFlowControl \/ OpenGrant

DrainStep ==
    \/ DrainEvent \/ DrainUsed \/ DrainOutOfMemory
    \/ DrainPop \/ DrainWrap \/ DrainHand
    \/ EndCycleQuiet \/ EndCyclePush \/ EndCycleDropped

Next == PeerSends \/ WorkerStep \/ DrainStep

\* Both threads run on, and the peer sends what it is allowed to.
Fairness ==
    /\ WF_vars(PeerSends)
    /\ WF_vars(WorkerStep)
    /\ WF_vars(DrainStep)

Spec == Init /\ [][Next]_vars /\ Fairness

-----------------------------------------------------------------------------
(* Properties.                                                             *)

\* The comment in aiopquic_stream_cb on the size of the RX ring: one window
\* is enough.  The peer is never entitled to more than the ring can hold,
\* though its limit is computed from room and releases read at different
\* times while the drain goes on.
WindowWithinRing == limit - head <= Cap

\* Coalescing strands no bytes: with both threads between operations, bytes
\* left in the ring have a notification queued, unless memory ran out for it
\* or for the bytes.
NoStrandedBytes ==
    (/\ faults \subseteq {"txFull"}
     /\ wpc = "idle" /\ cpc \in {"idle", "cycle"}
     /\ head < tail) => events # << >>

\* Python is told of the end of the stream only with, or after, its last
\* byte, even if notifications were lost for want of memory.  (Without memory
\* for the bytes themselves the code hands the FIN on alone.)
FinIsLast == (finGot /\ "noBytes" \notin faults) => got = Total

\* "A missed push just defers credit by one event - the next event will catch
\* up" (stream_ctx.h, last_fc_push_consumed): a peer with data left to send is
\* never left at its limit for good.
CreditCatchesUp == (limit = tail /\ tail < Total) ~> (limit > tail)

\* Without faults everything the peer sends, and the end of the stream, reach
\* Python: credit is given again each time the peer uses it up.
StreamCompletes == (faults = {}) ~> (finGot /\ got = Total)
=============================================================================
