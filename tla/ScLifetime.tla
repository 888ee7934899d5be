---------------------------- MODULE ScLifetime ----------------------------
(***************************************************************************)
(* Who keeps a stream context (aiopquic_stream_ctx_t) alive.  A context    *)
(* starts with one reference, the stream's.  Further ones belong to the    *)
(* events queued in either ring, to the batch being routed, to the         *)
(* StreamChunks Python holds, to the flow-control notes of a drain cycle   *)
(* and to held resets.  Two pointers are borrowed: the one picoquic keeps  *)
(* as the stream's app ctx, and the one in Python's _stream_ctxs.          *)
(*                                                                         *)
(* One connection with one bidirectional stream, opened by either end, for *)
(* a client (drain_rx_callback, which handles each entry as it goes) or an *)
(* engine (drain_rx, which returns a batch that is then routed), up to     *)
(* stop() and the release of the transport.  The rings are FIFOs:          *)
(* TxEventRing and RxEventQueue are about them.  A count is one atomic     *)
(* word, so an action is one callback, one command, one API call or one    *)
(* drained entry.                                                          *)
(***************************************************************************)
EXTENDS Integers, Sequences, FiniteSets

CONSTANTS
    MaxSc,        \* bound: contexts created for the stream
    TxCap,        \* entries in the TX event ring
    MaxInputs     \* bound: stream frames of the peer and API calls in all

ASSUME BoundsAssumption ==
    /\ MaxSc \in Nat \ {0} /\ TxCap \in Nat \ {0}
    /\ MaxInputs \in Nat

Sc == 1 .. MaxSc
NoSc == 0

VARIABLES
    refs, made,              \* sc->refcount; contexts created so far
    cnx, final,              \* picoquic's connection; its close callback ran
    strm, att,               \* picoquic's stream and its app ctx
    notified, filled,        \* contexts with rx_event_pending; with bytes
    rxQ, txQ,                \* the RX event queue, the TX event ring
    held,                    \* ctx->deferred_resets
    py, notes,               \* the loop: where it is; pending_fc
    batch, batchRefs,        \* events to route; _batch_refs of queued events
    retired,                 \* _batch_refs of STREAM_DESTROY events
    map, owned, dropped,     \* _stream_ctxs, _sc_owned, _stream_ctxs_dropped
    closed,                  \* QuicConnection._closed
    chunks,                  \* live StreamChunks of each context
    phase,                   \* "run", "joined", "stopped", "freed"
    left,                    \* inputs the bound leaves
    engine, local, blind     \* fixed: server engine; stream opened here; the
                             \* application resets a peer's stream unseen

cnxVars  == <<cnx, final, strm, att>>
rxVars   == <<notified, filled>>
loopVars == <<py, notes, batch, batchRefs, retired>>
connVars == <<map, owned, dropped, closed>>
fixed    == <<engine, local, blind>>
vars == <<refs, made, cnxVars, rxVars, rxQ, txQ, held, loopVars, connVars,
          chunks, phase, left, fixed>>

\* aiopquic_rx_event_owns_sc, aiopquic_tx_event_owns_sc.  "SIGNAL" stands
\* for STREAM_RESET and STOP_SENDING, which are handled alike here.
RxOwners == {"DATA", "FIN", "SIGNAL"}
TxOwners == {"MARK", "RESET", "STOP", "CREDIT"}
RxKinds  == RxOwners \cup {"DESTROY", "CLOSE", "APP_CLOSE"}
TxKinds  == TxOwners \cup {"CLOSE"}

Event(k, c) == [kind |-> k, sc |-> c]

TypeOK ==
    /\ refs \in [Sc -> Nat] /\ made \in 0 .. MaxSc
    /\ cnx \in {"up", "closing", "gone"} /\ final \in BOOLEAN
    /\ strm \in {"none", "open", "released"} /\ att \in Sc \cup {NoSc}
    /\ notified \subseteq Sc /\ filled \subseteq Sc
    /\ rxQ \in Seq([kind : RxKinds, sc : Sc \cup {NoSc}])
    /\ txQ \in Seq([kind : TxKinds, sc : Sc \cup {NoSc}]) /\ Len(txQ) <= TxCap
    /\ held \subseteq Sc /\ notes \subseteq Sc /\ retired \subseteq Sc
    /\ py \in {"idle", "drain", "flush", "route", "stopping"}
    /\ batch \in Seq([kind : RxKinds, sc : Sc \cup {NoSc}])
    /\ batchRefs \in [Sc -> Nat] /\ chunks \in [Sc -> Nat]
    /\ map \in Sc \cup {NoSc} /\ owned \subseteq Sc
    /\ dropped \in BOOLEAN /\ closed \in BOOLEAN
    /\ phase \in {"run", "joined", "stopped", "freed"}
    /\ left \in 0 .. MaxInputs
    /\ engine \in BOOLEAN /\ local \in BOOLEAN /\ blind \in BOOLEAN

NoRefs == [c \in Sc |-> 0]

Init ==
    /\ refs = NoRefs /\ made = 0
    /\ cnx = "up" /\ final = FALSE /\ strm = "none" /\ att = NoSc
    /\ notified = {} /\ filled = {} /\ rxQ = <<>> /\ txQ = <<>> /\ held = {}
    /\ py = "idle" /\ notes = {} /\ batch = <<>> /\ batchRefs = NoRefs
    /\ retired = {}
    /\ map = NoSc /\ owned = {} /\ dropped = FALSE /\ closed = FALSE
    /\ chunks = NoRefs /\ phase = "run"
    /\ left = MaxInputs
    /\ engine \in BOOLEAN /\ local \in BOOLEAN
    /\ blind \in IF local THEN {FALSE} ELSE BOOLEAN

-----------------------------------------------------------------------------
(* References.                                                             *)

\* aiopquic_stream_ctx_ref and, with a negative n, aiopquic_stream_ctx_destroy;
\* both ignore NULL.
Add(r, c, n) == [x \in Sc |-> IF x = c THEN r[x] + n ELSE r[x]]
DropEach(r, S) == [x \in Sc |-> IF x \in S THEN r[x] - 1 ELSE r[x]]

\* The entries of a queue of kinds K that name c.
Named(q, K, c) == {i \in 1 .. Len(q) : q[i].kind \in K /\ q[i].sc = c}

\* aiopquic_tx_sc_release_undrained, _release_undrained_rx and
\* _release_batch_refs: what a sweep of q, or of the batch, gives back.
Sweep(r, q, K) == [c \in Sc |-> r[c] - Cardinality(Named(q, K, c))]
ReleaseBatchRefs(r) ==
    [c \in Sc |-> r[c] - batchRefs[c] - (IF c \in retired THEN 1 ELSE 0)]

\* aiopquic_rx_push_sc of kind k for context c, which r counts.
RxPushSc(k, c, r) ==
    /\ rxQ' = Append(rxQ, Event(k, c))
    /\ refs' = Add(r, c, 1)

-----------------------------------------------------------------------------
(* The worker: picoquic's stream callbacks.  All of them return at once    *)
(* when the connection is closing.                                         *)

\* aiopquic_cnx_closing.
Closing == cnx # "up"

Running == phase = "run"

\* External: the peer may send on a stream it opened, or once we opened it.
PeerMaySend ==
    /\ Running /\ ~Closing /\ left > 0
    /\ strm = "open" \/ (strm = "none" /\ ~local)

\* The context of a stream_data or stream_fin callback with a payload.
PayloadSc == IF att = NoSc THEN made + 1 ELSE att
CountPayloadSc == IF att = NoSc THEN Add(refs, made + 1, 1) ELSE refs

ReceiveInto(c) ==
    /\ c \in Sc
    /\ att' = c /\ made' = (IF att = NoSc THEN made + 1 ELSE made)
    /\ filled' = filled \cup {c}

\* picoquic_callback_stream_data: one notification per context.
StreamData ==
    /\ PeerMaySend
    /\ ReceiveInto(PayloadSc)
    /\ IF PayloadSc \in notified
       THEN UNCHANGED <<rxQ, refs, notified>>
       ELSE /\ RxPushSc("DATA", PayloadSc, CountPayloadSc)
            /\ notified' = notified \cup {PayloadSc}
    /\ strm' = "open" /\ left' = left - 1
    /\ UNCHANGED <<cnx, final, txQ, held, loopVars, connVars, chunks, phase,
                   fixed>>

\* picoquic_callback_stream_fin, with bytes.
StreamFin ==
    /\ PeerMaySend
    /\ ReceiveInto(PayloadSc)
    /\ RxPushSc("FIN", PayloadSc, CountPayloadSc)
    /\ strm' = "open" /\ left' = left - 1
    /\ UNCHANGED <<cnx, final, notified, txQ, held, loopVars, connVars,
                   chunks, phase, fixed>>

\* A callback without payload: a bare FIN, stream_reset, stop_sending.  Its
\* event carries the stream's context, if any.
StreamSignal(k) ==
    /\ PeerMaySend
    /\ RxPushSc(k, att, refs)
    /\ strm' = "open" /\ left' = left - 1
    /\ UNCHANGED <<made, cnx, final, att, rxVars, txQ, held, loopVars,
                   connVars, chunks, phase, fixed>>

\* Mutant: without the guard of a closing connection.
StreamReleasedLate ==
    /\ Running /\ cnx # "gone" /\ strm = "open" /\ att \notin held
    /\ strm' = "released" /\ att' = NoSc
    /\ rxQ' = IF att = NoSc THEN rxQ ELSE Append(rxQ, Event("DESTROY", att))
    /\ UNCHANGED <<refs, made, cnx, final, rxVars, txQ, held, loopVars,
                   connVars, chunks, phase, left, fixed>>

\* picoquic_callback_stream_released: the stream's own reference travels with
\* the event.  External: picoquic retires no stream whose reset is held, for
\* neither its FIN nor its reset has gone out.
StreamReleased ==
    /\ Running /\ ~Closing /\ strm = "open" /\ att \notin held
    /\ strm' = "released" /\ att' = NoSc
    /\ rxQ' = IF att = NoSc THEN rxQ ELSE Append(rxQ, Event("DESTROY", att))
    /\ UNCHANGED <<refs, made, cnx, final, rxVars, txQ, held, loopVars,
                   connVars, chunks, phase, left, fixed>>

-----------------------------------------------------------------------------
(* The worker: closing.                                                    *)

\* aiopquic_deferred_resets_drop_cnx and the event of a close callback.
CloseEvent(k) ==
    /\ refs' = DropEach(refs, held) /\ held' = {}
    /\ rxQ' = Append(rxQ, Event(k, NoSc))

\* picoquic_callback_application_close: the peer closed; picoquic's own close
\* follows.
ApplicationClose ==
    /\ Running /\ cnx = "up"
    /\ cnx' = "closing"
    /\ CloseEvent("APP_CLOSE")
    /\ UNCHANGED <<made, final, strm, att, rxVars, txQ, loopVars, connVars,
                   chunks, phase, left, fixed>>

\* picoquic_callback_close: after a close of either end, or a timeout.
CloseCallback ==
    /\ Running /\ ~final
    /\ cnx' = "closing" /\ final' = TRUE
    /\ CloseEvent("CLOSE")
    /\ UNCHANGED <<made, strm, att, rxVars, txQ, loopVars, connVars, chunks,
                   phase, left, fixed>>

\* External: picoquic deletes the connection.
DeleteCnx ==
    /\ Running /\ final /\ cnx = "closing"
    /\ cnx' = "gone"
    /\ UNCHANGED <<refs, made, final, strm, att, rxVars, rxQ, txQ, held,
                   loopVars, connVars, chunks, phase, left,
                   fixed>>

-----------------------------------------------------------------------------
(* The worker: commands of the TX event ring and held resets.              *)

Command(k) == /\ Running /\ txQ # <<>> /\ Head(txQ).kind = k
              /\ txQ' = Tail(txQ)

TxSc == Head(txQ).sc

\* External: picoquic_mark_active_stream creates a stream of ours and sets
\* the app ctx; it refuses a stream that was retired.
MarkActive(c) ==
    IF strm = "open" \/ (strm = "none" /\ local)
    THEN strm' = "open" /\ att' = c
    ELSE UNCHANGED <<strm, att>>

\* Mutant: the context is not put back.
DetachOnly(c) ==
    /\ att' = IF strm # "open" THEN att ELSE NoSc
    /\ UNCHANGED strm

\* picoquic_reset_stream and picoquic_stop_sending detach the app ctx;
\* aiopquic_stream_reattach_sc puts c back unless the connection is closing.
\* A stream picoquic does not have is an error and left alone.
DetachReattach(c) ==
    /\ att' = IF strm # "open" THEN att ELSE IF Closing THEN NoSc ELSE c
    /\ UNCHANGED strm

\* TX_MARK_ACTIVE.
HandleMark ==
    /\ Command("MARK") /\ cnx # "gone"
    /\ IF Closing THEN UNCHANGED <<strm, att>> ELSE MarkActive(TxSc)
    /\ refs' = Add(refs, TxSc, -1)
    /\ UNCHANGED <<made, cnx, final, rxVars, rxQ, held, loopVars, connVars,
                   chunks, phase, left, fixed>>

\* TX_STREAM_RESET of a stream whose reset is held already.
HandleResetAgain ==
    /\ Command("RESET") /\ cnx # "gone" /\ TxSc \in held
    /\ refs' = Add(refs, TxSc, -1)
    /\ UNCHANGED <<made, cnxVars, rxVars, rxQ, held, loopVars, connVars,
                   chunks, phase, left, fixed>>

\* TX_STREAM_RESET with reliable bytes still in the ring: aiopquic_defer_reset
\* takes a reference, the command's goes.  The stream is marked active even
\* on a closing connection.
HandleResetHold ==
    /\ Command("RESET") /\ cnx # "gone"
    /\ TxSc # NoSc /\ TxSc \notin held
    /\ held' = held \cup {TxSc}
    /\ refs' = Add(Add(refs, TxSc, 1), TxSc, -1)
    /\ MarkActive(TxSc)
    /\ UNCHANGED <<made, cnx, final, rxVars, rxQ, loopVars, connVars, chunks,
                   phase, left, fixed>>

\* TX_STREAM_RESET sent at once.
HandleResetNow ==
    /\ Command("RESET") /\ cnx # "gone" /\ TxSc \notin held
    /\ DetachReattach(TxSc)
    /\ refs' = Add(refs, TxSc, -1)
    /\ UNCHANGED <<made, cnx, final, rxVars, rxQ, held, loopVars, connVars,
                   chunks, phase, left, fixed>>

\* TX_STOP_SENDING.
HandleStop ==
    /\ Command("STOP") /\ cnx # "gone"
    /\ DetachReattach(TxSc)
    /\ refs' = Add(refs, TxSc, -1)
    /\ UNCHANGED <<made, cnx, final, rxVars, rxQ, held, loopVars, connVars,
                   chunks, phase, left, fixed>>

\* TX_OPEN_FLOW_CONTROL; what it grants is in StreamRx.
HandleCredit ==
    /\ Command("CREDIT") /\ cnx # "gone"
    /\ refs' = Add(refs, TxSc, -1)
    /\ UNCHANGED <<made, cnxVars, rxVars, rxQ, held, loopVars, connVars,
                   chunks, phase, left, fixed>>

\* TX_CLOSE: picoquic starts to close.
HandleClose ==
    /\ Command("CLOSE") /\ cnx # "gone"
    /\ cnx' = "closing"
    /\ UNCHANGED <<refs, made, final, strm, att, rxVars, rxQ, held, loopVars,
                   connVars, chunks, phase, left, fixed>>

\* The stale-cnx guard: aiopquic_cnx_is_alive found no connection.
DropStale ==
    /\ \E k \in TxKinds : Command(k)
    /\ cnx = "gone"
    /\ refs' = IF Head(txQ).kind \in TxOwners THEN Add(refs, TxSc, -1)
               ELSE refs
    /\ UNCHANGED <<made, cnxVars, rxVars, rxQ, held, loopVars, connVars,
                   chunks, phase, left, fixed>>

\* aiopquic_run_deferred_resets: the reliable bytes of c are out.
RunDeferredReady(c) ==
    /\ Running /\ cnx # "gone" /\ c \in held
    /\ IF Closing THEN UNCHANGED <<strm, att>> ELSE DetachReattach(c)
    /\ held' = held \ {c} /\ refs' = Add(refs, c, -1)
    /\ UNCHANGED <<made, cnx, final, rxVars, rxQ, txQ, loopVars, connVars,
                   chunks, phase, left, fixed>>

\* The same, once a second: its connection went away.
RunDeferredSweep(c) ==
    /\ Running /\ cnx = "gone" /\ c \in held
    /\ held' = held \ {c} /\ refs' = Add(refs, c, -1)
    /\ UNCHANGED <<made, cnxVars, rxVars, rxQ, txQ, loopVars, connVars,
                   chunks, phase, left, fixed>>

-----------------------------------------------------------------------------
(* The asyncio thread: API calls, made between two drains or, on an        *)
(* engine, by a protocol while a batch is routed.                          *)

Room == Len(txQ) < TxCap

AppTurn == Running /\ py \in {"idle", "route"} /\ left > 0

\* Mutants: the ring's capacity is not checked; a full ring keeps the
\* reference.
TxPushScUnchecked(k, c, r) ==
    txQ' = Append(txQ, Event(k, c)) /\ refs' = Add(r, c, 1)
TxPushScKeepsRef(k, c, r) ==
    /\ txQ' = IF Room THEN Append(txQ, Event(k, c)) ELSE txQ
    /\ refs' = Add(r, c, 1)

\* aiopquic_tx_push_sc of kind k for context c, which r counts: a full ring
\* gives the reference back.
TxPushSc(k, c, r) ==
    IF Room THEN txQ' = Append(txQ, Event(k, c)) /\ refs' = Add(r, c, 1)
    ELSE txQ' = txQ /\ refs' = r

\* External: the application writes on its own streams, or on one it has
\* seen.
MayWrite == local \/ map # NoSc

\* send_stream_data, with _get_or_create_stream_ctx: a new context stays
\* although the ring is full.
Send ==
    /\ AppTurn /\ ~closed /\ MayWrite
    /\ IF map = NoSc
       THEN /\ made < MaxSc
            /\ made' = made + 1 /\ map' = made + 1
            /\ owned' = owned \cup {made + 1}
            /\ TxPushSc("MARK", made + 1, Add(refs, made + 1, 1))
       ELSE /\ UNCHANGED <<made, map, owned>>
            /\ TxPushSc("MARK", map, refs)
    /\ left' = left - 1
    /\ UNCHANGED <<cnxVars, rxVars, rxQ, held, loopVars, dropped, closed,
                   chunks, phase, fixed>>

\* reset_stream and stop_stream name the context of the map, if any.  After
\* the close event cnx_ptr is 0 and the map empty: such a command is nothing.
Abort(k) ==
    /\ AppTurn /\ ~dropped /\ (blind \/ map # NoSc)
    /\ TxPushSc(k, map, refs)
    /\ left' = left - 1
    /\ UNCHANGED <<made, cnxVars, rxVars, rxQ, held, loopVars, connVars,
                   chunks, phase, fixed>>

\* close: the contexts stay, picoquic may still hold them.
Close ==
    /\ AppTurn /\ ~closed /\ Room
    /\ txQ' = Append(txQ, Event("CLOSE", NoSc))
    /\ closed' = TRUE /\ left' = left - 1
    /\ UNCHANGED <<refs, made, cnxVars, rxVars, rxQ, held, loopVars, map,
                   owned, dropped, chunks, phase, fixed>>

\* StreamChunk.__dealloc__: Python forgot a chunk, at any time.
ReleaseChunk(c) ==
    /\ py \in {"idle", "route"} /\ chunks[c] > 0
    /\ chunks' = Add(chunks, c, -1) /\ refs' = Add(refs, c, -1)
    /\ UNCHANGED <<made, cnxVars, rxVars, rxQ, txQ, held, loopVars, connVars,
                   phase, left, fixed>>

-----------------------------------------------------------------------------
(* The asyncio thread: handling an event (_handle_raw_event on a client,   *)
(* _enqueue_raw on an engine).  r counts what the caller already did.      *)

\* _adopt_stream_ctx.
Adopt(c, r) ==
    /\ refs' = r
    /\ IF c # NoSc /\ ~dropped
       THEN /\ owned' = owned \cup {c}
            /\ map' = IF map = NoSc THEN c ELSE map
       ELSE UNCHANGED <<owned, map>>
    /\ UNCHANGED <<dropped, closed>>

\* _destroy_stream_ctxs, with _closed.
DestroyStreamCtxs(r) ==
    /\ refs' = DropEach(r, owned)
    /\ owned' = {} /\ map' = NoSc /\ dropped' = TRUE /\ closed' = TRUE

\* STREAM_DESTROY: the caller drops the stream's reference.
Forget(c, r) ==
    /\ refs' = r
    /\ owned' = owned \ {c} /\ map' = NoSc
    /\ UNCHANGED <<dropped, closed>>

HandleEvent(e, r) ==
    \/ e.kind \in RxOwners /\ Adopt(e.sc, r)
    \/ e.kind \in {"CLOSE", "APP_CLOSE"} /\ DestroyStreamCtxs(r)
    \/ e.kind = "DESTROY" /\ Forget(e.sc, r)

-----------------------------------------------------------------------------
(* The asyncio thread: a drain cycle.                                      *)

\* A chunk of c with its reference, and the first note of c with its own.
Popped(r, c) == Add(r, c, IF c \in notes THEN 1 ELSE 2)

HasBytes(e) == e.kind \in {"DATA", "FIN"} /\ e.sc \in filled

\* What taking e out of the queue does to bytes, chunks, notes and flags.
TakeBytes(e) ==
    /\ notified' = IF e.kind \in {"DATA", "FIN"} THEN notified \ {e.sc}
                   ELSE notified
    /\ IF HasBytes(e)
       THEN /\ filled' = filled \ {e.sc} /\ notes' = notes \cup {e.sc}
            /\ chunks' = Add(chunks, e.sc, 1)
       ELSE UNCHANGED <<filled, notes, chunks>>

Counted(e) == IF HasBytes(e) THEN Popped(refs, e.sc) ELSE refs

DrainTurn == Running /\ py \in {"idle", "drain"} /\ rxQ # <<>>

\* A DATA event whose bytes an earlier one took is not delivered.
DrainEmpty ==
    /\ DrainTurn /\ Head(rxQ).kind = "DATA" /\ ~HasBytes(Head(rxQ))
    /\ rxQ' = Tail(rxQ) /\ py' = "drain"
    /\ TakeBytes(Head(rxQ))
    /\ refs' = Add(refs, Head(rxQ).sc, -1)
    /\ UNCHANGED <<made, cnxVars, txQ, held, batch, batchRefs, retired,
                   connVars, phase, left, fixed>>

Deliverable == DrainTurn /\ (Head(rxQ).kind = "DATA" => HasBytes(Head(rxQ)))

\* drain_rx_callback: the handler runs, then the entry's reference goes, or
\* the stream's for STREAM_DESTROY.
DrainClient ==
    /\ Deliverable /\ ~engine
    /\ LET e == Head(rxQ)
       IN  /\ TakeBytes(e)
           /\ HandleEvent(e, Add(Counted(e), e.sc, -1))
    /\ rxQ' = Tail(rxQ) /\ py' = "drain"
    /\ UNCHANGED <<made, cnxVars, txQ, held, batch, batchRefs, retired,
                   phase, left, fixed>>

\* drain_rx: the batch keeps the entry's reference, or the stream's.
DrainEngine ==
    /\ Deliverable /\ engine
    /\ LET e == Head(rxQ)
       IN  /\ TakeBytes(e)
           /\ refs' = Counted(e)
           /\ batch' = Append(batch, e)
           /\ batchRefs' = IF e.kind \in RxOwners THEN Add(batchRefs, e.sc, 1)
                           ELSE batchRefs
           /\ retired' = IF e.kind = "DESTROY" THEN retired \cup {e.sc}
                         ELSE retired
    /\ rxQ' = Tail(rxQ) /\ py' = "drain"
    /\ UNCHANGED <<made, cnxVars, txQ, held, connVars, phase, left, fixed>>

\* _flush_pending_fc: a credit push if the hysteresis says so, then the
\* note's reference.
FlushNote(c) ==
    /\ py \in {"drain", "flush"} /\ c \in notes
    /\ \/ TxPushSc("CREDIT", c, Add(refs, c, -1))
       \/ txQ' = txQ /\ refs' = Add(refs, c, -1)
    /\ notes' = notes \ {c} /\ py' = "flush"
    /\ UNCHANGED <<made, cnxVars, rxVars, rxQ, held, batch, batchRefs,
                   retired, connVars, chunks, phase, left,
                   fixed>>

\* The drain returns: its queue is empty or max_events is reached.
DrainReturn ==
    /\ py \in {"drain", "flush"} /\ notes = {}
    /\ py' = IF engine THEN "route" ELSE "idle"
    /\ UNCHANGED <<refs, made, cnxVars, rxVars, rxQ, txQ, held, notes, batch,
                   batchRefs, retired, connVars, chunks, phase, left, fixed>>

\* QuicEngine.route_event; a second close finds no connection any more.
RouteEvent ==
    /\ py = "route" /\ batch # <<>>
    /\ HandleEvent(Head(batch), refs)
    /\ batch' = Tail(batch)
    /\ UNCHANGED <<made, cnxVars, rxVars, rxQ, txQ, held, py, notes,
                   batchRefs, retired, chunks, phase, left,
                   fixed>>

\* drain_and_route: release_batch once every event is routed.
ReleaseBatch ==
    /\ py = "route" /\ batch = <<>>
    /\ refs' = ReleaseBatchRefs(refs)
    /\ batchRefs' = NoRefs /\ retired' = {} /\ py' = "idle"
    /\ UNCHANGED <<made, cnxVars, rxVars, rxQ, txQ, held, notes, batch,
                   connVars, chunks, phase, left, fixed>>

-----------------------------------------------------------------------------
(* The asyncio thread: the end.                                            *)

\* QuicConnection.stop and QuicEngine.close begin; the engine closes the
\* connections it has, ignoring a full ring.  TransportContext.stop then
\* gives the worker time to drain.
BeginStop ==
    /\ Running /\ py = "idle"
    /\ py' = "stopping"
    /\ IF engine /\ ~closed /\ Room
       THEN txQ' = Append(txQ, Event("CLOSE", NoSc)) /\ closed' = TRUE
       ELSE UNCHANGED <<txQ, closed>>
    /\ UNCHANGED <<refs, made, cnxVars, rxVars, rxQ, held, notes, batch,
                   batchRefs, retired, map, owned, dropped, chunks, phase,
                   left, fixed>>

\* TransportContext._shutdown: the worker is joined, the TX ring swept,
\* picoquic freed with a last close callback.
StopTransport ==
    /\ Running /\ py = "stopping"
    /\ phase' = "joined" /\ py' = "idle"
    /\ LET swept == ReleaseBatchRefs(Sweep(refs, txQ, TxOwners))
       IN  IF final
           THEN refs' = swept /\ UNCHANGED <<held, rxQ>>
           ELSE /\ refs' = DropEach(swept, held) /\ held' = {}
                /\ rxQ' = Append(rxQ, Event("CLOSE", NoSc))
    /\ txQ' = <<>> /\ cnx' = "gone" /\ final' = TRUE
    /\ UNCHANGED <<made, strm, att, rxVars, notes, batch, batchRefs, retired,
                   connVars, chunks, left, fixed>>

\* The rest of QuicConnection.stop.
StopClient ==
    /\ phase = "joined" /\ ~engine
    /\ phase' = "stopped"
    /\ DestroyStreamCtxs(refs)
    /\ UNCHANGED <<made, cnxVars, rxVars, rxQ, txQ, held, loopVars, chunks,
                   left, fixed>>

\* The rest of QuicEngine.close: its connections are forgotten.
StopEngine ==
    /\ phase = "joined" /\ engine
    /\ phase' = "stopped"
    /\ UNCHANGED <<refs, made, cnxVars, rxVars, rxQ, txQ, held, loopVars,
                   connVars, chunks, left, fixed>>

\* TransportContext.__dealloc__ and aiopquic_ctx_destroy: the undrained RX
\* events and the held resets.
FreeTransport ==
    /\ phase = "stopped"
    /\ phase' = "freed"
    /\ refs' = DropEach(Sweep(refs, rxQ, RxOwners), held)
    /\ rxQ' = <<>> /\ held' = {}
    /\ UNCHANGED <<made, cnxVars, rxVars, txQ, loopVars, connVars, chunks,
                   left, fixed>>

-----------------------------------------------------------------------------
StreamCallback ==
    \/ StreamData \/ StreamFin \/ StreamReleased
    \/ \E k \in {"FIN", "SIGNAL"} : StreamSignal(k)

HandleTx ==
    \/ HandleMark \/ HandleResetAgain \/ HandleResetHold \/ HandleResetNow
    \/ HandleStop \/ HandleCredit \/ HandleClose \/ DropStale

Closed == ApplicationClose \/ CloseCallback \/ DeleteCnx

Call == Send \/ Close \/ \E k \in {"RESET", "STOP"} : Abort(k)

Drain == DrainEmpty \/ DrainClient \/ DrainEngine

Flush == \E c \in Sc : FlushNote(c)

Stop == BeginStop \/ StopTransport \/ StopClient \/ StopEngine \/ FreeTransport

Next ==
    \/ StreamCallback \/ HandleTx \/ Closed \/ Call \/ Drain \/ Flush
    \/ DrainReturn \/ RouteEvent \/ ReleaseBatch \/ Stop
    \/ \E c \in Sc : RunDeferredReady(c) \/ RunDeferredSweep(c)
    \/ \E c \in Sc : ReleaseChunk(c)

\* The worker drains its ring and sweeps, the loop drains, routes and
\* returns, a stop that began ends, picoquic deletes what it closed, and
\* Python forgets chunks.
Fairness ==
    /\ WF_vars(HandleTx) /\ WF_vars(DeleteCnx)
    /\ WF_vars(Drain) /\ WF_vars(Flush) /\ WF_vars(DrainReturn)
    /\ WF_vars(RouteEvent) /\ WF_vars(ReleaseBatch) /\ WF_vars(StopTransport)
    /\ WF_vars(\E c \in Sc : RunDeferredSweep(c))
    /\ WF_vars(\E c \in Sc : ReleaseChunk(c))

Spec == Init /\ [][Next]_vars /\ Fairness

-----------------------------------------------------------------------------
(* Properties.                                                             *)

\* The references of c other than the stream's own.
Holders(c) ==
    Cardinality(Named(rxQ, RxOwners, c)) + Cardinality(Named(txQ, TxOwners, c))
    + batchRefs[c] + chunks[c]
    + Cardinality({c} \cap held) + Cardinality({c} \cap notes)

\* Somebody will drop the stream's reference of c: Python's set, an event
\* that makes Python adopt c, or a STREAM_DESTROY on its way.
StreamRefKept(c) ==
    \/ c \in owned \/ c \in retired
    \/ Named(rxQ, RxOwners \cup {"DESTROY"}, c) # {}
    \/ Named(batch, RxOwners, c) # {}

\* While the transport runs, a context's count is exactly the number of its
\* holders, and the stream's own reference always has one who will drop it:
\* no callback, command, drain, close or reset in any order releases twice
\* or forgets (aiopquic_stream_ctx_ref and _destroy at every site).
RefsMatchHolders ==
    Running => \A c \in 1 .. made :
        refs[c] = Holders(c) + (IF StreamRefKept(c) THEN 1 ELSE 0)

\* stop() and the release of the transport leave every context its remaining
\* holders: a StreamChunk may outlive the transport.
StopKeepsHeld ==
    ~Running => \A c \in Sc : refs[c] >= Holders(c)

\* The borrowed pointers: picoquic's app ctx while stream callbacks still use
\* it, Python's map, and the context a STREAM_DESTROY names are not freed.
BorrowedLive ==
    /\ att # NoSc /\ ~Closing => refs[att] > 0
    /\ map # NoSc => refs[map] > 0
    /\ Running => \A c \in Sc : Named(rxQ, {"DESTROY"}, c) # {} => refs[c] > 0

\* No context is freed under a holder or a borrowed pointer, through stop()
\* and the release of the transport.
HeldStayLive == StopKeepsHeld /\ BorrowedLive

\* A context the stream had all along goes with the stream, while the
\* connection lives on, in spite of resets and stop-sendings that detached
\* it: the application named only streams it knew and never wrote on a
\* retired one.
ReleasedStreamFreed ==
    (strm = "released" /\ made = 1 /\ ~blind) ~>
        (refs[1] = 0 \/ made > 1 \/ held # {} \/ ~Running)

\* A connection that is gone leaves no context behind.
ClosedConnectionFreed ==
    (cnx = "gone" /\ Running) ~> ((\A c \in Sc : refs[c] = 0) \/ ~Running)

\* A retired stream and a closed connection give their contexts back.
ContextsFreed == ReleasedStreamFreed /\ ClosedConnectionFreed

\* Once the transport is released, only chunks Python still holds keep a
\* context: nothing the application can no longer reach is left.
StopReleasesAll ==
    phase = "freed" => \A c \in Sc : refs[c] = chunks[c]
=============================================================================
