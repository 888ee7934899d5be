---------------------------- MODULE TxEventRing ----------------------------
(***************************************************************************)
(* The TX event ring from the asyncio thread (its only producer) to        *)
(* picoquic's network thread (the worker, its only consumer), with the two *)
(* wake protocols that ride on it:                                         *)
(*                                                                         *)
(*   - tx_worker_idle: a producer writes the network thread's wake only    *)
(*     when the worker has declared itself idle (aiopquic_tx_wake_needed,  *)
(*     aiopquic_tx_worker_idle_arm, the time check of aiopquic_loop_cb);   *)
(*   - tx_event_ring_drain_pending: a writer that found the ring full      *)
(*     parks until the worker reports it at or below the low-water mark    *)
(*     (aiopquic_arm_tx_event_ring_drain_pending,                          *)
(*     aiopquic_maybe_fire_tx_event_ring_drained and its _final).          *)
(*                                                                         *)
(* Both are store-then-load handshakes whose correctness rests on the      *)
(* seq_cst fences in the code, so plain stores here go through a per-      *)
(* thread FIFO store buffer and reach memory later (FlushProducer,         *)
(* FlushWorker).  A fence, an exchange or a compare-exchange waits for its *)
(* thread's buffer to be empty.  This is the reordering that release and   *)
(* acquire leave open on the machines the code is built for.               *)
(*                                                                         *)
(* An entry's content is immaterial: entries are counted.  The RX queue    *)
(* that carries TX_EVENT_RING_DRAINED back is the FIFO RxEventQueue        *)
(* implements.                                                             *)
(***************************************************************************)
EXTENDS Integers, Sequences

CONSTANTS
    Capacity,    \* entries in the ring (tx_event_ring->capacity)
    LowWater,    \* ctx->tx_event_ring_low_water
    Writers      \* bound: how many entries the Python writers push in all

ASSUME CapacityAssumption == Capacity \in Nat \ {0}
\* aiopquic_ctx_create: a percentage outside 1..99 becomes the default 50.
ASSUME LowWaterAssumption == LowWater \in 0 .. Capacity - 1
ASSUME WritersAssumption == Writers \in Nat

VARIABLES
    head, tail,     \* the ring's indices as memory holds them
    idle,           \* tx_worker_idle in memory
    drainPending,   \* tx_event_ring_drain_pending in memory
    netWake,        \* a wake written to the network thread, not yet read
    drainedQ,       \* TX_EVENT_RING_DRAINED events on their way to asyncio
    pbuf, wbuf,     \* stores each thread has made and memory has not seen
    ppc, wpc,       \* program points
    wret,           \* where maybe_fire returns to
    todo, parked,   \* writers with an entry to push; writers waiting
    wakeLost,       \* whether cnt_tx_wake_lost has counted anything
    shortMem        \* environment: malloc may fail when DRAINED is pushed

memVars    == <<head, tail, idle, drainPending, netWake, drainedQ>>
writerVars == <<ppc, todo, parked>>
workerVars == <<wpc, wret, wakeLost, shortMem>>
vars == <<memVars, pbuf, wbuf, writerVars, workerVars>>

ProducerPoints == {"idle", "armFence", "armCount", "write",
                   "wakeFence", "wakeLoad", "wakeXchg", "wakeSys"}
WorkerPoints == {"top", "armFence", "armPeek", "asleep", "drain",
                 "fireLoad", "fireCount", "fireCas", "finalFence"}

Stores(names) == [to : names, val : Nat]
Store(name, v) == [to |-> name, val |-> v]

\* What a thread reads of a location it writes itself: its youngest buffered
\* store, else memory.
View(buf, name, mem) ==
    LET mine == {i \in 1 .. Len(buf) : buf[i].to = name}
    IN  IF mine = {} THEN mem
        ELSE buf[CHOOSE i \in mine : \A j \in mine : j <= i].val

MyTail == View(pbuf, "tail", tail)
MyHead == View(wbuf, "head", head)
MyIdle == View(wbuf, "idle", idle)

TypeOK ==
    /\ head \in 0 .. Writers /\ tail \in 0 .. Writers
    /\ MyTail - head \in 0 .. Capacity
    /\ MyHead <= tail
    /\ idle \in {0, 1} /\ drainPending \in {0, 1}
    /\ netWake \in BOOLEAN
    /\ drainedQ \in Nat
    /\ pbuf \in Seq(Stores({"tail", "drainPending"}))
    /\ wbuf \in Seq(Stores({"head", "idle", "drainPending"}))
    /\ ppc \in ProducerPoints /\ wpc \in WorkerPoints
    /\ wret \in {"drain", "top"}
    /\ todo \in 0 .. Writers /\ parked \in 0 .. Writers
    /\ wakeLost \in BOOLEAN /\ shortMem \in BOOLEAN

Init ==
    /\ head = 0 /\ tail = 0
    /\ idle = 0 /\ drainPending = 0
    /\ netWake = FALSE
    /\ drainedQ = 0
    /\ pbuf = << >> /\ wbuf = << >>
    /\ ppc = "idle" /\ wpc = "top" /\ wret = "top"
    /\ todo = Writers /\ parked = 0
    /\ wakeLost = FALSE
    /\ shortMem \in BOOLEAN

-----------------------------------------------------------------------------
(* Memory.                                                                 *)

\* A buffered store reaches memory.
Commit(s) ==
    /\ head' = IF s.to = "head" THEN s.val ELSE head
    /\ tail' = IF s.to = "tail" THEN s.val ELSE tail
    /\ idle' = IF s.to = "idle" THEN s.val ELSE idle
    /\ drainPending' = IF s.to = "drainPending" THEN s.val ELSE drainPending
    /\ UNCHANGED <<netWake, drainedQ>>

FlushProducer ==
    /\ pbuf # << >>
    /\ Commit(Head(pbuf))
    /\ pbuf' = Tail(pbuf)
    /\ UNCHANGED <<wbuf, writerVars, workerVars>>

FlushWorker ==
    /\ wbuf # << >>
    /\ Commit(Head(wbuf))
    /\ wbuf' = Tail(wbuf)
    /\ UNCHANGED <<pbuf, writerVars, workerVars>>

-----------------------------------------------------------------------------
(* The asyncio thread: one writer's push at a time.                        *)

\* Mutant of WriterStart: off by one, the last slot taken for free.
WriterStartOffByOne ==
    /\ ppc = "idle"
    /\ todo > 0
    /\ IF MyTail - head > Capacity
       THEN /\ pbuf' = Append(pbuf, Store("drainPending", 1))
            /\ ppc' = "armFence"
       ELSE ppc' = "write" /\ UNCHANGED pbuf
    /\ UNCHANGED <<memVars, wbuf, todo, parked, workerVars>>

\* A writer checks for room.  A full ring arms the drain signal.
WriterStart ==
    /\ ppc = "idle"
    /\ todo > 0
    /\ IF MyTail - head >= Capacity
       THEN /\ pbuf' = Append(pbuf, Store("drainPending", 1))
            /\ ppc' = "armFence"
       ELSE ppc' = "write" /\ UNCHANGED pbuf
    /\ UNCHANGED <<memVars, wbuf, todo, parked, workerVars>>

\* Mutant of ArmFence: the fence is left out.
ArmWithoutFence ==
    /\ ppc = "armFence"
    /\ ppc' = "armCount"
    /\ UNCHANGED <<memVars, pbuf, wbuf, todo, parked, workerVars>>

\* aiopquic_arm_tx_event_ring_drain_pending's fence ...
ArmFence ==
    /\ ppc = "armFence"
    /\ pbuf = << >>
    /\ ppc' = "armCount"
    /\ UNCHANGED <<memVars, pbuf, wbuf, todo, parked, workerVars>>

\* ... and re-check: still above low water, the writer waits for the drain
\* event; otherwise it goes on, the arm staying behind.
ArmCount ==
    /\ ppc = "armCount"
    /\ IF MyTail - head > LowWater
       THEN /\ todo' = todo - 1
            /\ parked' = parked + 1
            /\ ppc' = "idle"
       ELSE ppc' = "write" /\ UNCHANGED <<todo, parked>>
    /\ UNCHANGED <<memVars, pbuf, wbuf, workerVars>>

\* spsc_ring_push: the slot, then the release store of tail.
Write ==
    /\ ppc = "write"
    /\ pbuf' = Append(pbuf, Store("tail", MyTail + 1))
    /\ todo' = todo - 1
    /\ ppc' = "wakeFence"
    /\ UNCHANGED <<memVars, wbuf, parked, workerVars>>

\* aiopquic_tx_wake_needed: fence ...
WakeFence ==
    /\ ppc = "wakeFence"
    /\ pbuf = << >>
    /\ ppc' = "wakeLoad"
    /\ UNCHANGED <<memVars, pbuf, wbuf, todo, parked, workerVars>>

\* ... load tx_worker_idle: a running worker needs no wake ...
WakeLoad ==
    /\ ppc = "wakeLoad"
    /\ ppc' = IF idle = 0 THEN "idle" ELSE "wakeXchg"
    /\ UNCHANGED <<memVars, pbuf, wbuf, todo, parked, workerVars>>

\* ... exchange it to 0: whoever takes the 1 owes the wake ...
WakeExchange ==
    /\ ppc = "wakeXchg"
    /\ idle' = 0
    /\ ppc' = IF idle = 0 THEN "idle" ELSE "wakeSys"
    /\ UNCHANGED <<head, tail, drainPending, netWake, drainedQ, pbuf, wbuf,
                   todo, parked, workerVars>>

\* ... picoquic_wake_up_network_thread.
WakeNetworkThread ==
    /\ ppc = "wakeSys"
    /\ netWake' = TRUE
    /\ ppc' = "idle"
    /\ UNCHANGED <<head, tail, idle, drainPending, drainedQ, pbuf, wbuf,
                   todo, parked, workerVars>>

\* drain_rx meets TX_EVENT_RING_DRAINED: tx_event_ring_drain_event.set()
\* wakes every parked writer, and each tries again.
HandleDrained ==
    /\ ppc = "idle"
    /\ drainedQ > 0
    /\ drainedQ' = drainedQ - 1
    /\ todo' = todo + parked
    /\ parked' = 0
    /\ UNCHANGED <<head, tail, idle, drainPending, netWake, pbuf, wbuf, ppc,
                   workerVars>>

-----------------------------------------------------------------------------
(* The worker: picoquic's packet loop calling aiopquic_loop_cb.            *)

\* Every loop callback first withdraws a standing idle mark.
ClearIdle == IF MyIdle # 0 THEN <<Store("idle", 0)>> ELSE << >>

\* time_check before a wait that may block: mark idle ...
TimeCheckArm ==
    /\ wpc = "top"
    /\ wbuf' = wbuf \o ClearIdle \o <<Store("idle", 1)>>
    /\ wpc' = "armFence"
    /\ UNCHANGED <<memVars, pbuf, writerVars, wret, wakeLost, shortMem>>

\* Mutant of IdleFence: the fence is left out.
IdleWithoutFence ==
    /\ wpc = "armFence"
    /\ wpc' = "armPeek"
    /\ UNCHANGED <<memVars, pbuf, wbuf, writerVars, wret, wakeLost, shortMem>>

\* ... aiopquic_tx_worker_idle_arm's fence ...
IdleFence ==
    /\ wpc = "armFence"
    /\ wbuf = << >>
    /\ wpc' = "armPeek"
    /\ UNCHANGED <<memVars, pbuf, wbuf, writerVars, wret, wakeLost, shortMem>>

\* ... and re-check: sleep on an empty ring, else drain it now.
IdlePeek ==
    /\ wpc = "armPeek"
    /\ IF MyHead >= tail
       THEN wpc' = "asleep" /\ UNCHANGED wbuf
       ELSE /\ wbuf' = Append(wbuf, Store("idle", 0))
            /\ wpc' = "drain"
    /\ UNCHANGED <<memVars, pbuf, writerVars, wret, wakeLost, shortMem>>

\* time_check with a wait of zero: only peek.
TimeCheckNow ==
    /\ wpc = "top"
    /\ wbuf' = wbuf \o ClearIdle
    /\ wpc' = IF MyHead >= tail THEN "top" ELSE "drain"
    /\ UNCHANGED <<memVars, pbuf, writerVars, wret, wakeLost, shortMem>>

\* The first callback after a wait withdraws the mark: with a plain store, or
\* after a long wait with an exchange that, having taken a 1 with entries
\* queued, counts a lost wake.
WithdrawIdle ==
    \/ /\ wbuf' = wbuf \o ClearIdle
       /\ UNCHANGED <<idle, wakeLost>>
    \/ /\ wbuf = << >>
       /\ wakeLost' = (wakeLost \/ (idle = 1 /\ head < tail))
       /\ idle' = 0
       /\ UNCHANGED wbuf

\* The wait ends on the wake: the wake_up callback drains.
WokenByWake ==
    /\ wpc = "asleep"
    /\ netWake
    /\ netWake' = FALSE
    /\ WithdrawIdle
    /\ wpc' = "drain"
    /\ UNCHANGED <<head, tail, drainPending, drainedQ, pbuf, writerVars, wret,
                   shortMem>>

\* The wait ends on a timer or a packet: the loop comes round to time_check.
WokenByItself ==
    /\ wpc = "asleep"
    /\ WithdrawIdle
    /\ wpc' = "top"
    /\ UNCHANGED <<head, tail, drainPending, netWake, drainedQ, pbuf,
                   writerVars, wret, shortMem>>

\* The drain loop: handle and pop one entry ...
DrainPop ==
    /\ wpc = "drain"
    /\ MyHead < tail
    /\ wbuf' = Append(wbuf, Store("head", MyHead + 1))
    /\ wpc' = "fireLoad"
    /\ wret' = "drain"
    /\ UNCHANGED <<memVars, pbuf, writerVars, wakeLost, shortMem>>

\* ... or, the ring empty, the final check behind a fence.
DrainEmpty ==
    /\ wpc = "drain"
    /\ MyHead >= tail
    /\ wpc' = "finalFence"
    /\ UNCHANGED <<memVars, pbuf, wbuf, writerVars, wret, wakeLost, shortMem>>

\* Mutant of FinalFence: the final check runs without its fence.
FinalWithoutFence ==
    /\ wpc = "finalFence"
    /\ wpc' = "fireLoad"
    /\ wret' = "top"
    /\ UNCHANGED <<memVars, pbuf, wbuf, writerVars, wakeLost, shortMem>>

FinalFence ==
    /\ wpc = "finalFence"
    /\ wbuf = << >>
    /\ wpc' = "fireLoad"
    /\ wret' = "top"
    /\ UNCHANGED <<memVars, pbuf, wbuf, writerVars, wakeLost, shortMem>>

\* aiopquic_maybe_fire_tx_event_ring_drained: armed? ...
FireLoad ==
    /\ wpc = "fireLoad"
    /\ wpc' = IF View(wbuf, "drainPending", drainPending) = 1
              THEN "fireCount" ELSE wret
    /\ UNCHANGED <<memVars, pbuf, wbuf, writerVars, wret, wakeLost, shortMem>>

\* ... at or below low water? ...
FireCount ==
    /\ wpc = "fireCount"
    /\ wpc' = IF tail - MyHead > LowWater THEN wret ELSE "fireCas"
    /\ UNCHANGED <<memVars, pbuf, wbuf, writerVars, wret, wakeLost, shortMem>>

\* ... then one compare-exchange per arm, and the event for Python.
FireCas ==
    /\ wpc = "fireCas"
    /\ wbuf = << >>
    /\ drainPending' = 0
    /\ drainedQ' = IF drainPending = 1 THEN drainedQ + 1 ELSE drainedQ
    /\ wpc' = wret
    /\ UNCHANGED <<head, tail, idle, netWake, pbuf, wbuf, writerVars, wret,
                   wakeLost, shortMem>>

\* The event cannot be queued for want of memory: re-arm.
FireOutOfMemory ==
    /\ wpc = "fireCas"
    /\ shortMem
    /\ wbuf = << >>
    /\ drainPending = 1
    /\ drainPending' = 0
    /\ wbuf' = <<Store("drainPending", 1)>>
    /\ wpc' = wret
    /\ UNCHANGED <<head, tail, idle, netWake, drainedQ, pbuf, writerVars, wret,
                   wakeLost, shortMem>>

-----------------------------------------------------------------------------

ProducerStep ==
    \/ ArmFence \/ ArmCount \/ Write
    \/ WakeFence \/ WakeLoad \/ WakeExchange \/ WakeNetworkThread

\* What the worker does without help from a timer or the network.
WorkerStep ==
    \/ TimeCheckArm \/ IdleFence \/ IdlePeek \/ WokenByWake
    \/ DrainPop \/ DrainEmpty \/ FinalFence
    \/ FireLoad \/ FireCount \/ FireCas \/ FireOutOfMemory

Next ==
    \/ WriterStart \/ ProducerStep \/ HandleDrained
    \/ WorkerStep \/ TimeCheckNow \/ WokenByItself
    \/ FlushProducer \/ FlushWorker

\* Stores reach memory, both threads run on, asyncio handles what is queued
\* for it and runs a coroutine that is ready.  No fairness for WokenByItself:
\* a wake must not depend on a timer or a packet that happens to come.
Fairness ==
    /\ WF_vars(FlushProducer)
    /\ WF_vars(FlushWorker)
    /\ WF_vars(WriterStart)
    /\ WF_vars(ProducerStep)
    /\ WF_vars(HandleDrained)
    /\ WF_vars(WorkerStep)

Spec == Init /\ [][Next]_vars /\ Fairness

-----------------------------------------------------------------------------
(* Properties.                                                             *)

\* aiopquic_tx_wake_needed / aiopquic_tx_worker_idle_arm: "the worker sees the
\* entry or this sees idle".  A worker asleep over a non-empty ring has a wake
\* waiting for it, or a producer that is still deciding on one.
SleeperIsWoken ==
    (wpc = "asleep" /\ MyHead < MyTail) =>
        netWake \/ ppc \in {"wakeFence", "wakeLoad", "wakeXchg", "wakeSys"}

\* aiopquic_tx_event_ring_drained_final: "an arm whose re-check read the ring
\* before the last pops is seen here".  A writer parked while the worker
\* sleeps has its drain event under way, or the worker has a wake waiting,
\* as long as there was memory for the event.
Served ==
    (wpc = "asleep" /\ parked > 0 /\ ~shortMem) =>
        \/ drainedQ > 0
        \/ netWake
        \/ ppc \in {"wakeFence", "wakeLoad", "wakeXchg", "wakeSys"}

\* A parked writer never waits on nothing, even when malloc fails for its
\* drain event: its arm stands, in memory or in a store buffer, or the event
\* is on its way.
KeepsArm ==
    parked > 0 =>
        \/ drainedQ > 0
        \/ View(wbuf, "drainPending", drainPending) = 1
        \/ View(pbuf, "drainPending", drainPending) = 1

\* A parked writer is answered while there is memory for its drain event, and
\* keeps its arm when there is none.
ParkedWriterIsServed == Served /\ KeepsArm

\* Every parked writer eventually runs again, as long as there is memory for
\* the drain event.
WritersResume == (parked > 0 /\ ~shortMem) ~> (parked = 0)
=============================================================================
