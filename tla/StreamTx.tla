----------------------------- MODULE StreamTx -----------------------------
(***************************************************************************)
(* The sending half of one raw QUIC stream, from a writer coroutine on the *)
(* asyncio thread to the bytes picoquic puts on the wire:                  *)
(*                                                                         *)
(*   - aiopquic_stream_ctx_send_data and tx_send_atomic, which commit a    *)
(*     whole write to the per-stream ring sc->tx or nothing, and arm       *)
(*     tx_drain_pending when it does not fit;                              *)
(*   - picoquic's prepare_to_send callback, which pulls from the ring and  *)
(*     answers the arm with one STREAM_TX_DRAINED;                         *)
(*   - reset_stream with a reliable size: the TX_STREAM_RESET command, the *)
(*     resets held until their reliable bytes are out                      *)
(*     (aiopquic_defer_reset, aiopquic_run_deferred_resets) and the bytes  *)
(*     a reset abandons;                                                   *)
(*   - the process-wide counters of queued bytes.                          *)
(*                                                                         *)
(* Bytes are their stream offsets.  The TX event ring is the FIFO of       *)
(* commands whose wake TxEventRing is about, the RX event queue the FIFO   *)
(* RxEventQueue implements.  The stream is unidirectional, its connection  *)
(* alive.  One action is one access to state the other thread can see.     *)
(***************************************************************************)
EXTENDS Integers, Sequences

CONSTANTS
    Cap,          \* bytes in sc->tx
    Total,        \* bound: bytes the writer ever has to send
    MaxWant,      \* bound: bytes picoquic asks for in one prepare_to_send
    MaxResets,    \* bound: how often the application resets the stream
    ResetSizes,   \* bound: the reliable sizes it asks for
    Negotiated    \* whether both ends advertised reset_stream_at

ASSUME CapAssumption == Cap \in Nat \ {0}
ASSUME BoundsAssumption ==
    /\ Total \in Nat
    /\ MaxWant \in Nat \ {0}
    /\ MaxResets \in Nat
    /\ ResetSizes \subseteq 0 .. Total
ASSUME NegotiatedAssumption == Negotiated \in BOOLEAN

NoReset == -1

VARIABLES
    head, tail, fin,              \* sc->tx: indices and fin_pending
    armed,                        \* sc->tx_drain_pending
    resetPending, reliableSize,   \* sc->tx_reset_pending, tx_reliable_size
    txQueue,                      \* this stream's commands in the TX ring
    drainedQ, destroyQ,           \* STREAM_TX_DRAINED, STREAM_DESTROY queued
    pushed, pulled, discarded,    \* the process-wide byte counters
    ppc, plen, pfin,              \* the writer: point, its write and FIN
    resets,                       \* resets the application still makes
    wpc, want, sawFin, sawUsed,   \* the worker: point and locals
    active,                       \* picoquic polls the stream
    sent, sentFin, sentReset,     \* what went to picoquic: bytes, FIN, the
                                  \* reset's reliable size
    shortMem                      \* environment: malloc may fail in the worker

ringVars   == <<head, tail, fin>>
resetVars  == <<resetPending, reliableSize>>
countVars  == <<pushed, pulled, discarded>>
writerVars == <<ppc, plen, pfin, resets>>
workerVars == <<wpc, want, sawFin, sawUsed>>
wireVars   == <<active, sent, sentFin, sentReset>>
eventVars  == <<drainedQ, destroyQ>>
vars == <<ringVars, armed, resetVars, txQueue, eventVars, countVars,
          writerVars, workerVars, wireVars, shortMem>>

WriterPoints == {"idle", "check", "arm", "recheck", "push", "fin", "mark",
                 "parked", "done"}
WorkerPoints == {"idle", "used", "provide", "take"}
Commands == [kind : {"MARK"}] \cup [kind : {"RESET"}, size : ResetSizes]

Smaller(a, b) == IF a <= b THEN a ELSE b

Ended == sentFin \/ sentReset # NoReset

TypeOK ==
    /\ head \in 0 .. tail /\ tail \in 0 .. Total /\ tail - head <= Cap
    /\ fin \in BOOLEAN /\ armed \in {0, 1}
    /\ resetPending \in BOOLEAN /\ reliableSize \in 0 .. Total
    /\ txQueue \in Seq(Commands)
    /\ drainedQ \in Nat /\ destroyQ \in BOOLEAN
    /\ pushed \in Nat /\ pulled \in Nat /\ discarded \in Nat
    /\ ppc \in WriterPoints /\ plen \in 0 .. Cap /\ pfin \in BOOLEAN
    /\ resets \in 0 .. MaxResets
    /\ wpc \in WorkerPoints /\ want \in 0 .. MaxWant
    /\ sawFin \in BOOLEAN /\ sawUsed \in 0 .. Cap
    /\ active \in BOOLEAN /\ sent \in 0 .. Total
    /\ sentFin \in BOOLEAN /\ sentReset \in {NoReset} \cup 0 .. Total
    /\ shortMem \in BOOLEAN

Init ==
    /\ head = 0 /\ tail = 0 /\ fin = FALSE
    /\ armed = 0
    /\ resetPending = FALSE /\ reliableSize = 0
    /\ txQueue = << >>
    /\ drainedQ = 0 /\ destroyQ = FALSE
    /\ pushed = 0 /\ pulled = 0 /\ discarded = 0
    /\ ppc = "idle" /\ plen = 0 /\ pfin = FALSE
    /\ resets = MaxResets
    /\ wpc = "idle" /\ want = 0 /\ sawFin = FALSE /\ sawUsed = 0
    /\ active = FALSE /\ sent = 0 /\ sentFin = FALSE /\ sentReset = NoReset
    /\ shortMem \in BOOLEAN

-----------------------------------------------------------------------------
(* The asyncio thread.                                                     *)

Room == Cap - (tail - head)

\* The writer's locals go with its call.
NoWrite == plen' = 0 /\ pfin' = FALSE

\* The application writes n bytes, the last of them with FIN (n may be 0
\* then).  A write larger than the ring is refused with ValueError.
NewSend(n, last) ==
    /\ ppc = "idle"
    /\ ~fin
    /\ n <= Total - tail
    /\ n > 0 \/ last
    /\ plen' = n
    /\ pfin' = last
    /\ ppc' = "check"
    /\ UNCHANGED <<ringVars, armed, resetVars, txQueue, eventVars, countVars,
                   resets, workerVars, wireVars, shortMem>>

\* Mutant of SendCheck: off by one at a ring that is exactly one byte short.
SendCheckOffByOne ==
    /\ ppc = "check"
    /\ ppc' = IF Room + 1 < plen THEN "arm" ELSE "push"
    /\ UNCHANGED <<ringVars, armed, resetVars, txQueue, eventVars, countVars,
                   plen, pfin, resets, workerVars, wireVars, shortMem>>

\* aiopquic_stream_ctx_send_data: does it all fit?
SendCheck ==
    /\ ppc = "check"
    /\ ppc' = IF Room < plen THEN "arm" ELSE "push"
    /\ UNCHANGED <<ringVars, armed, resetVars, txQueue, eventVars, countVars,
                   plen, pfin, resets, workerVars, wireVars, shortMem>>

\* No: exchange the arm in ...
SendArm ==
    /\ ppc = "arm"
    /\ armed' = 1
    /\ ppc' = "recheck"
    /\ UNCHANGED <<ringVars, resetVars, txQueue, eventVars, countVars, plen,
                   pfin, resets, workerVars, wireVars, shortMem>>

\* Mutant of SendRecheck: the writer waits without looking again.
SendNoRecheck ==
    /\ ppc = "recheck"
    /\ ppc' = "parked"
    /\ UNCHANGED <<ringVars, armed, resetVars, txQueue, eventVars, countVars,
                   plen, pfin, resets, workerVars, wireVars, shortMem>>

\* ... and look again: a pull that finished before the arm took nothing.
SendRecheck ==
    /\ ppc = "recheck"
    /\ ppc' = IF Room < plen THEN "parked" ELSE "push"
    /\ UNCHANGED <<ringVars, armed, resetVars, txQueue, eventVars, countVars,
                   plen, pfin, resets, workerVars, wireVars, shortMem>>

\* aiopquic_stream_buf_push: the bytes, then the release store of tail.
SendPush ==
    /\ ppc = "push"
    /\ tail' = tail + plen
    /\ ppc' = IF pfin THEN "fin" ELSE "mark"
    /\ UNCHANGED <<head, fin, armed, resetVars, txQueue, eventVars, countVars,
                   plen, pfin, resets, workerVars, wireVars, shortMem>>

\* aiopquic_stream_buf_set_fin
SendFin ==
    /\ ppc = "fin"
    /\ fin' = TRUE
    /\ ppc' = "mark"
    /\ UNCHANGED <<head, tail, armed, resetVars, txQueue, eventVars,
                   countVars, plen, pfin, resets, workerVars, wireVars,
                   shortMem>>

\* tx_send_atomic counts the bytes and queues MARK_ACTIVE, for which it had
\* made sure of room in the TX event ring.
SendMark ==
    /\ ppc = "mark"
    /\ pushed' = pushed + plen
    /\ txQueue' = Append(txQueue, [kind |-> "MARK"])
    /\ NoWrite
    /\ ppc' = "idle"
    /\ UNCHANGED <<ringVars, armed, resetVars, eventVars, pulled, discarded,
                   resets, workerVars, wireVars, shortMem>>

\* _EVT_STREAM_TX_DRAINED sets the stream's event: a parked writer retries
\* the same write.
HandleDrained ==
    /\ ppc \in {"idle", "parked", "done"}
    /\ drainedQ > 0
    /\ drainedQ' = drainedQ - 1
    /\ ppc' = IF ppc = "parked" THEN "check" ELSE ppc
    /\ UNCHANGED <<ringVars, armed, resetVars, txQueue, destroyQ, countVars,
                   plen, pfin, resets, workerVars, wireVars, shortMem>>

\* _EVT_STREAM_DESTROY retires the stream; a parked writer wakes and returns.
HandleDestroy ==
    /\ ppc \in {"idle", "parked"}
    /\ destroyQ
    /\ destroyQ' = FALSE
    /\ NoWrite
    /\ ppc' = "done"
    /\ UNCHANGED <<ringVars, armed, resetVars, txQueue, drainedQ, countVars,
                   resets, workerVars, wireVars, shortMem>>

\* QuicConnection.reset_stream, from any coroutine.
ResetStream(size) ==
    /\ ppc \in {"idle", "parked"}
    /\ resets > 0
    /\ resets' = resets - 1
    /\ txQueue' = Append(txQueue, [kind |-> "RESET", size |-> size])
    /\ UNCHANGED <<ringVars, armed, resetVars, eventVars, countVars, ppc,
                   plen, pfin, workerVars, wireVars, shortMem>>

-----------------------------------------------------------------------------
(* The worker: commands.                                                   *)

Command(kind) == wpc = "idle" /\ txQueue # << >> /\ Head(txQueue).kind = kind

\* picoquic_mark_active_stream, which does nothing for an ended stream.
HandleMark ==
    /\ Command("MARK")
    /\ txQueue' = Tail(txQueue)
    /\ active' = (active \/ ~Ended)
    /\ UNCHANGED <<ringVars, armed, resetVars, eventVars, countVars,
                   writerVars, workerVars, sent, sentFin, sentReset,
                   shortMem>>

\* aiopquic_reset_reliable_size
ReliableSize(requested) ==
    IF Negotiated THEN Smaller(requested, tail) ELSE 0

\* Mutant of SendReset: the abandoned bytes are not given back to the budget.
SendResetUncounted(reliable) ==
    /\ sentReset' = IF Ended THEN sentReset ELSE reliable
    /\ active' = FALSE
    /\ head' = tail
    /\ UNCHANGED <<tail, fin, sent, sentFin, discarded>>

\* The reset goes to picoquic, which refuses it on an ended stream, and the
\* bytes left in the ring are abandoned (aiopquic_stream_ctx_tx_abandon).
SendReset(reliable) ==
    /\ sentReset' = IF Ended THEN sentReset ELSE reliable
    /\ active' = FALSE
    /\ discarded' = discarded + (tail - head)
    /\ head' = tail
    /\ UNCHANGED <<tail, fin, sent, sentFin>>

\* TX_STREAM_RESET, ignored while a reset is held ...
HandleResetHeld ==
    /\ Command("RESET")
    /\ resetPending
    /\ txQueue' = Tail(txQueue)
    /\ UNCHANGED <<ringVars, armed, resetVars, eventVars, countVars,
                   writerVars, workerVars, wireVars, shortMem>>

\* ... held itself while its reliable bytes are not out ...
HandleResetDefer ==
    /\ Command("RESET")
    /\ ~resetPending
    /\ ReliableSize(Head(txQueue).size) > head
    /\ txQueue' = Tail(txQueue)
    /\ resetPending' = TRUE
    /\ reliableSize' = ReliableSize(Head(txQueue).size)
    /\ active' = (active \/ ~Ended)
    /\ UNCHANGED <<ringVars, armed, eventVars, countVars, writerVars,
                   workerVars, sent, sentFin, sentReset, shortMem>>

\* Mutant of HandleResetNow: a reset is never held.
HandleResetAlwaysNow ==
    /\ Command("RESET")
    /\ ~resetPending
    /\ SendReset(ReliableSize(Head(txQueue).size))
    /\ txQueue' = Tail(txQueue)
    /\ UNCHANGED <<armed, resetVars, eventVars, pushed, pulled, writerVars,
                   workerVars, shortMem>>

\* ... and sent at once otherwise.
HandleResetNow ==
    /\ Command("RESET")
    /\ ~resetPending
    /\ ReliableSize(Head(txQueue).size) <= head
    /\ SendReset(ReliableSize(Head(txQueue).size))
    /\ txQueue' = Tail(txQueue)
    /\ UNCHANGED <<armed, resetVars, eventVars, pushed, pulled, writerVars,
                   workerVars, shortMem>>

\* No memory to hold it: picoquic refuses a reliable size it has not been
\* given the bytes for, and a plain RESET_STREAM goes out.
HandleResetNoMemory ==
    /\ shortMem
    /\ Command("RESET")
    /\ ~resetPending
    /\ ReliableSize(Head(txQueue).size) > head
    /\ SendReset(0)
    /\ txQueue' = Tail(txQueue)
    /\ UNCHANGED <<armed, resetVars, eventVars, pushed, pulled, writerVars,
                   workerVars, shortMem>>

\* aiopquic_run_deferred_resets after a send pass.
RunDeferredReset ==
    /\ wpc = "idle"
    /\ resetPending
    /\ head >= reliableSize
    /\ resetPending' = FALSE
    /\ SendReset(reliableSize)
    /\ UNCHANGED <<armed, reliableSize, txQueue, eventVars, pushed, pulled,
                   writerVars, workerVars, shortMem>>

-----------------------------------------------------------------------------
(* The worker: prepare_to_send.                                            *)

\* picoquic has room for up to n bytes of an active stream.  The FIN flag is
\* read first ...
PrepareFin(n) ==
    /\ wpc = "idle"
    /\ active /\ ~Ended
    /\ want' = n
    /\ sawFin' = fin
    /\ wpc' = "used"
    /\ UNCHANGED <<ringVars, armed, resetVars, txQueue, eventVars, countVars,
                   writerVars, sawUsed, wireVars, shortMem>>

\* Mutant of PrepareUsed: an empty ring ends the callback, FIN or not.
PrepareUsedSkipsBareFin ==
    /\ wpc = "used"
    /\ sawUsed' = tail - head
    /\ wpc' = IF tail = head THEN "take" ELSE "provide"
    /\ active' = (active /\ tail # head)
    /\ UNCHANGED <<ringVars, armed, resetVars, txQueue, eventVars, countVars,
                   writerVars, want, sawFin, sent, sentFin, sentReset,
                   shortMem>>

\* ... then the bytes in the ring ...
PrepareUsed ==
    /\ wpc = "used"
    /\ sawUsed' = tail - head
    /\ wpc' = "provide"
    /\ UNCHANGED <<ringVars, armed, resetVars, txQueue, eventVars, countVars,
                   writerVars, want, sawFin, wireVars, shortMem>>

\* The callback's locals are not used any more.
NoPull == want' = 0 /\ sawFin' = FALSE /\ sawUsed' = 0

\* aiopquic_stream_ctx_tx_sendable
Sendable == IF resetPending THEN Smaller(sawUsed, reliableSize - head)
            ELSE sawUsed

\* Mutant of PrepareProvide: the FIN flag is read after the ring.
PrepareProvideLateFin ==
    LET toSend == Smaller(Sendable, want)
    IN  /\ wpc = "provide"
        /\ head' = head + toSend
        /\ sent' = sent + toSend
        /\ pulled' = pulled + toSend
        /\ sentFin' = (fin /\ ~resetPending /\ toSend = sawUsed)
        /\ active' = (Sendable > toSend)
        /\ NoPull
        /\ wpc' = "take"
        /\ UNCHANGED <<tail, fin, armed, resetVars, txQueue, eventVars, pushed,
                       discarded, writerVars, sentReset, shortMem>>

\* ... and as many as fit go out, with FIN if they are the last.
PrepareProvide ==
    LET toSend == Smaller(Sendable, want)
    IN  /\ wpc = "provide"
        /\ head' = head + toSend
        /\ sent' = sent + toSend
        /\ pulled' = pulled + toSend
        /\ sentFin' = (sawFin /\ ~resetPending /\ toSend = sawUsed)
        /\ active' = (Sendable > toSend)
        /\ NoPull
        /\ wpc' = "take"
        /\ UNCHANGED <<tail, fin, armed, resetVars, txQueue, eventVars, pushed,
                       discarded, writerVars, sentReset, shortMem>>

\* aiopquic_stream_ctx_tx_drain_take: answer a standing arm, bytes or not.
PrepareTake ==
    /\ wpc = "take"
    /\ armed' = 0
    /\ drainedQ' = drainedQ + armed
    /\ wpc' = "idle"
    /\ UNCHANGED <<ringVars, resetVars, txQueue, destroyQ, countVars,
                   writerVars, want, sawFin, sawUsed, wireVars, shortMem>>

\* The event cannot be queued for want of memory: the arm is put back.
PrepareTakeNoMemory ==
    /\ shortMem
    /\ wpc = "take"
    /\ armed = 1
    /\ wpc' = "idle"
    /\ UNCHANGED <<ringVars, armed, resetVars, txQueue, eventVars, countVars,
                   writerVars, want, sawFin, sawUsed, wireVars, shortMem>>

\* The peer has acknowledged the end: picoquic releases the stream.
StreamReleased ==
    /\ wpc = "idle"
    /\ Ended
    /\ ~destroyQ /\ ppc # "done"
    /\ destroyQ' = TRUE
    /\ UNCHANGED <<ringVars, armed, resetVars, txQueue, drainedQ, countVars,
                   writerVars, workerVars, wireVars, shortMem>>

-----------------------------------------------------------------------------

SendStep ==
    \/ SendCheck \/ SendArm \/ SendRecheck \/ SendPush \/ SendFin \/ SendMark

CommandStep ==
    \/ HandleMark
    \/ HandleResetHeld \/ HandleResetDefer \/ HandleResetNow
    \/ HandleResetNoMemory

PrepareStep ==
    \/ PrepareUsed \/ PrepareProvide \/ PrepareTake \/ PrepareTakeNoMemory

Next ==
    \/ \E n \in 0 .. Cap, last \in BOOLEAN : NewSend(n, last)
    \/ SendStep
    \/ HandleDrained \/ HandleDestroy
    \/ \E size \in ResetSizes : ResetStream(size)
    \/ CommandStep \/ RunDeferredReset
    \/ \E n \in 0 .. MaxWant : PrepareFin(n)
    \/ PrepareStep
    \/ StreamReleased

\* Both threads run on; asyncio handles the events queued for it; the loop
\* serves its commands and its held resets; a stream that stays active is
\* given room again and again; an ended stream is acknowledged.  Nobody is
\* obliged to write or to reset.
Fairness ==
    /\ WF_vars(SendStep)
    /\ WF_vars(HandleDrained)
    /\ WF_vars(HandleDestroy)
    /\ WF_vars(CommandStep)
    /\ WF_vars(RunDeferredReset)
    /\ SF_vars(\E n \in 1 .. MaxWant : PrepareFin(n))
    /\ WF_vars(PrepareStep)
    /\ WF_vars(StreamReleased)

Spec == Init /\ [][Next]_vars /\ Fairness

-----------------------------------------------------------------------------
(* Properties.                                                             *)

\* The comment in prepare_to_send: the wrong order "can FIN at an old tail and
\* drop the rest".  A FIN on the wire stands behind every byte written.
FinSendsAll == sentFin => (fin /\ sent = tail)

\* A RESET_STREAM_AT never promises the peer bytes that were not handed to
\* picoquic ("the reset waits until they are sent", QuicConnection.reset_stream).
KeepsReliable == sentReset # NoReset => sent >= sentReset

\* "Sends stop at them": while a reset is held nothing beyond its reliable
\* bytes is sent, and no FIN that would make picoquic refuse it.
HoldsBack == resetPending => (sent <= reliableSize /\ ~sentFin)

\* A reliable reset keeps its bytes, those and no more.
ResetKeepsReliable == KeepsReliable /\ HoldsBack

\* The queued total, pushed - pulled - discarded, is what the ring holds
\* whenever both threads are between operations: the TX gate neither leaks
\* budget on a reset nor frees it twice.
QueuedIsRing ==
    (ppc \in {"idle", "parked", "done"} /\ wpc = "idle") =>
        pushed - pulled - discarded = tail - head

\* A parked writer is never forgotten: its DRAINED is on its way; or its arm
\* stands and picoquic will ask for bytes again; or the stream has ended or
\* is about to, and STREAM_DESTROY wakes it.  (Given memory for the event.)
Served ==
    (ppc = "parked" /\ wpc = "idle" /\ ~shortMem) =>
        \/ drainedQ > 0
        \/ armed = 1 /\ (active \/ \E i \in 1 .. Len(txQueue) :
                                        txQueue[i].kind = "MARK")
        \/ Ended
        \/ resetPending

\* Without memory for the event, too, a parked writer keeps its arm until it is
\* answered or the stream has ended.
KeepsArm == ppc = "parked" => (drainedQ > 0 \/ armed = 1 \/ Ended)

\* A parked writer is answered while there is memory for its drain event, and
\* keeps its arm when there is none.
ParkedWriterIsServed == Served /\ KeepsArm

\* A FIN written reaches the wire, unless a reset does.
FinReachesWire == fin ~> Ended
=============================================================================
