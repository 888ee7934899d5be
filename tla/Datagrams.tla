----------------------------- MODULE Datagrams -----------------------------
(***************************************************************************)
(* Sending datagrams from a server engine.  A connection's records wait in *)
(* a ring of its own (datagram_buf.h) that asyncio fills and the worker    *)
(* empties when picoquic asks for a datagram.  MARK commands register the  *)
(* ring in the worker's table and make picoquic ask; RELEASE commands give *)
(* a ring back; both travel in the TX event ring, which may be full.  The  *)
(* engine routes events to connections by address, and the allocator may   *)
(* put a new connection where a freed one was.                             *)
(*                                                                         *)
(* An action is one callback, one command, one routed event or one atomic  *)
(* access of a ring shared by the two threads.  The two event queues are   *)
(* FIFOs (TxEventRing and RxEventQueue are about them).  A record is its   *)
(* length; wrap-around of the ring's bytes is as in EventFifo's rings.     *)
(***************************************************************************)
EXTENDS DgramTable

CONSTANTS
    Hdr, MaxRecord,  \* AIOPQUIC_DGRAM_REC_HDR; datagram_max_payload
    TxCap, LowWater, \* entries of the TX event ring; tx_event_ring_low_water
    Plans            \* bounds: the budgets of inputs a behaviour may start with

ASSUME BoundsAssumption ==
    /\ Hdr \in Nat \ {0} /\ MaxRecord \in Nat \ {0}
    /\ TxCap \in Nat \ {0} /\ LowWater \in 0 .. TxCap - 1
    /\ Plans \subseteq [cnx : Nat, sends : Nat, cmds : Nat, dgrams : Nat,
                        ends : Nat, closes : Nat, resets : Nat, fails : Nat]

\* aiopquic_dgram_buf_create: room for two records of the largest size.
Capacity == 2 * (Hdr + MaxRecord)

VARIABLES
    cnx, gen,        \* per address: picoquic's connection, and which it is
    active,          \* connections whose datagram scheduler is armed
    table,           \* ctx->dgram_table
    rings,           \* rings in order of creation, freed ones too
    txQ, txArmed,    \* the TX event ring; tx_event_ring_drain_pending
    rxQ,             \* the RX event queue
    py, batch,       \* the loop: "idle", "drain", "route"; events to route
    owed,            \* ctx->dgram_release_owed
    conn,            \* the engine's _connections
    w, p,            \* where a prepare_datagram and a send have got to
    toClose,         \* connections QuicEngine.close() has still to close
    phase,           \* "run", "stopping", "stopped", "freed"
    leaked, failed,  \* history: rings lost, and whether an allocation failed
    reset,           \* history: connections a stateless reset ended
    left             \* the inputs still to come

vars == <<cnx, gen, active, table, rings, txQ, txArmed, rxQ, py, batch, owed,
          conn, w, p, toClose, phase, leaked, failed, reset, left>>

Ring == DOMAIN rings
Born == Max({gen[a] : a \in Addr})      \* connections accepted so far
Spend(f) == left[f] > 0 /\ left' = [left EXCEPT ![f] = @ - 1]

NoConn == [gen |-> 0]
NewConn(g) == [gen |-> g, ring |-> NoRing, markOwed |-> FALSE,
               parked |-> FALSE, closed |-> FALSE]
Known(a) == conn[a] # NoConn
Idle == [at |-> "idle"]

TxKinds == {"MARK", "RELEASE", "CLOSE", "OTHER"}
RxKinds == {"READY", "DGRAM", "DRAINED", "APP_CLOSE", "CLOSE", "RING_DRAINED"}
Closes == {"APP_CLOSE", "CLOSE"}
Cmd(k, a, r) == [kind |-> k, cnx |-> a, db |-> r]
Event(k, a) == [kind |-> k, cnx |-> a, gen |-> IF a = Null THEN 0 ELSE gen[a]]

TypeOK ==
    /\ cnx \in [Addr -> {"none", "up", "closing", "final"}]
    /\ gen \in [Addr -> Nat] /\ active \subseteq Addr
    /\ table \in Seq(Slot(Ring))
    /\ rings \in Seq([cnx : Addr, owner : Nat, refs : Nat, armed : BOOLEAN,
                      recs : Seq(1 .. MaxRecord)])
    /\ txQ \in Seq([kind : TxKinds, cnx : Addr \cup {Null},
                    db : Ring \cup {NoRing}])
    /\ Len(txQ) <= TxCap /\ txArmed \in BOOLEAN
    /\ rxQ \in Seq([kind : RxKinds, cnx : Addr \cup {Null}, gen : Nat])
    /\ py \in {"idle", "drain", "route"}
    /\ batch \in Seq([kind : RxKinds, cnx : Addr, gen : Nat])
    /\ owed \in Seq([cnx : Addr, db : Ring])
    /\ conn \in [Addr -> {NoConn} \cup
                 [gen : Nat \ {0}, ring : Ring \cup {NoRing},
                  markOwed : BOOLEAN, parked : BOOLEAN, closed : BOOLEAN]]
    /\ w \in {Idle} \cup [at : {"pop", "take"}, cnx : Addr, db : Ring]
    /\ p \in {Idle} \cup [at : {"push", "arm", "recheck", "mark"}, cnx : Addr,
                          len : 1 .. MaxRecord + 1]
    /\ toClose \subseteq Addr
    /\ phase \in {"run", "stopping", "stopped", "freed"}
    /\ leaked \subseteq Ring /\ failed \in BOOLEAN
    /\ reset \subseteq Nat
    /\ left \in [{"cnx", "sends", "cmds", "dgrams", "ends", "closes", "resets",
                  "fails"} -> Nat]

Init ==
    /\ cnx = [a \in Addr |-> "none"] /\ gen = [a \in Addr |-> 0]
    /\ active = {} /\ table = EmptyTable(0) /\ rings = <<>>
    /\ txQ = <<>> /\ txArmed = FALSE /\ rxQ = <<>> /\ owed = <<>>
    /\ py = "idle" /\ batch = <<>>
    /\ conn = [a \in Addr |-> NoConn] /\ w = Idle /\ p = Idle
    /\ toClose = {} /\ phase = "run" /\ leaked = {} /\ failed = FALSE /\ reset = {}
    /\ left \in Plans

-----------------------------------------------------------------------------
(* Record rings and references.                                            *)

\* aiopquic_dgram_buf_addref, and with a negative n _unref, which ignores
\* NULL.  A ring whose last reference goes is freed.
AddRef(rs, r, n) ==
    IF r = NoRing THEN rs ELSE [rs EXCEPT ![r].refs = @ + n]

RingBytes(ring) ==
    LET bytes[i \in 0 .. Len(ring.recs)] ==
            IF i = 0 THEN 0 ELSE bytes[i - 1] + Hdr + ring.recs[i]
    IN  bytes[Len(ring.recs)]
HasRoom(ring, len) == Capacity - RingBytes(ring) >= Hdr + len

\* aiopquic_dgram_buf_peek_len: 0 for an empty ring, as for an empty record.
PeekLen(r) == IF r = NoRing \/ rings[r].recs = <<>> THEN 0 ELSE rings[r].recs[1]

\* The references of a put into t.  Mutant: an entry that is there takes one.
PutRefsAgain(rs, t, a, db) == AddRef(rs, db, 1)
PutRefs(rs, t, a, db) == IF IsIn(t, a) THEN rs ELSE AddRef(rs, db, 1)

\* aiopquic_dgram_ring_drop: the table entry, while it holds db, and the
\* reference that was released.
DropTable(t, a, db) == TableRemove(t, a, db)
DropRefs(rs, t, a, db) == AddRef(AddRef(rs, Removed(t, a, db), -1), db, -1)

-----------------------------------------------------------------------------
(* The worker: picoquic's callbacks.                                       *)

WorkerIdle == phase \in {"run", "stopping"} /\ w = Idle

loopState == <<txQ, txArmed, py, batch, owed, conn, p, toClose, phase, leaked>>

\* External: picoquic accepts a connection, at any free address (bound: the
\* first one at the first).
Accept(a) ==
    /\ WorkerIdle /\ phase = "run" /\ cnx[a] = "none" /\ Spend("cnx")
    /\ Born = 0 => a = Min(Addr)
    /\ cnx' = [cnx EXCEPT ![a] = "up"] /\ gen' = [gen EXCEPT ![a] = Born + 1]
    /\ rxQ' = Append(rxQ, [kind |-> "READY", cnx |-> a, gen |-> Born + 1])
    /\ UNCHANGED <<active, table, rings, w, failed, reset, loopState>>

\* A datagram arrives.  External: it may follow the peer's CONNECTION_CLOSE
\* in the same packet.
RecvDatagram(a) ==
    /\ WorkerIdle /\ cnx[a] \in {"up", "closing"} /\ Spend("dgrams")
    /\ rxQ' = Append(rxQ, Event("DGRAM", a))
    /\ UNCHANGED <<cnx, gen, active, table, rings, w, failed, reset, loopState>>

\* A close callback: the event, and the connection's table entry.
CloseCallback(a, kind, next) ==
    /\ cnx' = [cnx EXCEPT ![a] = next] /\ active' = active \ {a}
    /\ rxQ' = Append(rxQ, Event(kind, a))
    /\ table' = TableRemove(table, a, NoRing)
    /\ rings' = AddRef(rings, Removed(table, a, NoRing), -1)
    /\ UNCHANGED <<gen, w, failed, reset, loopState>>

\* picoquic_callback_application_close: the peer closes.
PeerClose(a) ==
    /\ WorkerIdle /\ cnx[a] = "up" /\ Spend("ends")
    /\ CloseCallback(a, "APP_CLOSE", "closing")

\* picoquic_callback_close, the last callback: a timeout or a transport
\* error, or the end of the closing period.
FinalClose(a) ==
    /\ WorkerIdle /\ cnx[a] \in {"up", "closing"} /\ UNCHANGED left
    /\ CloseCallback(a, "CLOSE", "final")

\* picoquic_callback_stateless_reset, a last callback too (callback.h:566):
\* aiopquic_map_event has no event for it, and the table keeps its entry.
StatelessReset(a) ==
    /\ WorkerIdle /\ cnx[a] \in {"up", "closing"} /\ Spend("resets")
    /\ cnx' = [cnx EXCEPT ![a] = "final"] /\ active' = active \ {a}
    /\ reset' = reset \cup {gen[a]}
    /\ UNCHANGED <<gen, table, rings, rxQ, w, failed, loopState>>

\* External: picoquic frees a connection after its last callback.
FreeCnx(a) ==
    /\ WorkerIdle /\ cnx[a] = "final"
    /\ cnx' = [cnx EXCEPT ![a] = "none"]
    /\ UNCHANGED <<gen, active, table, rings, rxQ, w, failed, reset, left,
                   loopState>>

-----------------------------------------------------------------------------
(* The worker: picoquic_callback_prepare_datagram, in three steps.         *)

prepareIdle == <<cnx, gen, table, reset, loopState>>
stillFed == <<failed, left>>

\* An allocation fails.
Fail == Spend("fails") /\ failed' = TRUE

\* Whether more records are behind the head, of length len.  Mutant: the
\* connection sleeps after each.
StillNever(db, len) == FALSE
Still(db, len) == RingBytes(rings[db]) > Hdr + len

\* The head record, if it fits the packet, is asked for, and the connection
\* stays active only with more behind it.  (With a record larger than the
\* packet nothing changes and picoquic asks again.)
PrepareRead(a) ==
    LET db == TableGet(table, a)
        len == PeekLen(db)
    IN  /\ WorkerIdle /\ cnx[a] = "up" /\ a \in active
        /\ active' = IF len # 0 /\ Still(db, len) THEN active ELSE active \ {a}
        /\ w' = IF len = 0 THEN Idle ELSE [at |-> "pop", cnx |-> a, db |-> db]
        /\ UNCHANGED <<rings, rxQ, stillFed, prepareIdle>>

\* aiopquic_dgram_buf_pop_into.
PreparePop ==
    /\ w.at = "pop"
    /\ rings' = [rings EXCEPT ![w.db].recs = Tail(@)]
    /\ w' = [w EXCEPT !.at = "take"]
    /\ UNCHANGED <<active, rxQ, stillFed, prepareIdle>>

\* aiopquic_dgram_buf_drain_take and the event; without memory for it the
\* arm is put back.
PrepareTake ==
    /\ w.at = "take" /\ w' = Idle
    /\ \/ /\ rings[w.db].armed
          /\ rings' = [rings EXCEPT ![w.db].armed = FALSE]
          /\ rxQ' = Append(rxQ, Event("DRAINED", w.cnx)) /\ UNCHANGED stillFed
       \/ rings[w.db].armed /\ Fail /\ UNCHANGED <<rings, rxQ>>
       \/ ~rings[w.db].armed /\ UNCHANGED <<rings, rxQ, stillFed>>
    /\ UNCHANGED <<active, prepareIdle>>

-----------------------------------------------------------------------------
(* The worker: commands.                                                   *)

Cur == txQ[1]
Commanded(kind) == WorkerIdle /\ txQ # <<>> /\ Cur.kind = kind
Alive(a) == cnx[a] # "none"     \* aiopquic_cnx_is_alive

\* spsc_ring_pop and aiopquic_maybe_fire_tx_event_ring_drained.
PopCmd ==
    LET fire == txArmed /\ Len(txQ) - 1 <= LowWater
    IN  /\ txQ' = Tail(txQ) /\ txArmed' = (txArmed /\ ~fire)
        /\ rxQ' = IF fire THEN Append(rxQ, Event("RING_DRAINED", Null)) ELSE rxQ
        /\ UNCHANGED <<gen, py, batch, owed, conn, w, p, toClose, phase, leaked, reset>>

\* TX_MARK_DATAGRAM_READY behind the stale-connection guard.  The ring is
\* not registered when the table cannot grow.
Mark ==
    LET t == Ready(table)
    IN  /\ Commanded("MARK") /\ PopCmd /\ UNCHANGED cnx
        /\ IF Alive(Cur.cnx)
           THEN /\ active' = active \cup {Cur.cnx}
                /\ \/ /\ table' = TablePut(t, Cur.cnx, Cur.db)
                      /\ rings' = PutRefs(rings, t, Cur.cnx, Cur.db)
                      /\ UNCHANGED stillFed
                   \/ MustGrow(table) /\ Fail /\ UNCHANGED <<table, rings>>
           ELSE UNCHANGED <<active, table, rings, stillFed>>

\* TX_DGRAM_RING_RELEASE, ahead of that guard.  Mutant: behind it.
ReleaseIfAlive ==
    /\ Commanded("RELEASE") /\ PopCmd /\ UNCHANGED <<cnx, active, stillFed>>
    /\ table' = IF Alive(Cur.cnx) THEN DropTable(table, Cur.cnx, Cur.db) ELSE table
    /\ rings' = IF Alive(Cur.cnx) THEN DropRefs(rings, table, Cur.cnx, Cur.db)
                ELSE rings

Release ==
    /\ Commanded("RELEASE") /\ PopCmd /\ UNCHANGED <<cnx, active, stillFed>>
    /\ table' = DropTable(table, Cur.cnx, Cur.db)
    /\ rings' = DropRefs(rings, table, Cur.cnx, Cur.db)

\* TX_CLOSE: the closing period starts.
CloseCnx ==
    /\ Commanded("CLOSE") /\ PopCmd /\ UNCHANGED <<table, rings, stillFed>>
    /\ IF cnx[Cur.cnx] = "up"
       THEN /\ cnx' = [cnx EXCEPT ![Cur.cnx] = "closing"]
            /\ active' = active \ {Cur.cnx}
       ELSE UNCHANGED <<cnx, active>>

OtherCmd ==
    Commanded("OTHER") /\ PopCmd
    /\ UNCHANGED <<cnx, active, table, rings, stillFed>>

-----------------------------------------------------------------------------
(* Asyncio: send_datagram_frame.                                           *)

LoopIdle == phase = "run" /\ p = Idle
workerState == <<cnx, gen, active, table, rxQ, w, reset>>

TxFull == Len(txQ) = TxCap

\* dgram_mark_ready of ring r; a refused mark arms the ring-drained event.
PushMark(a, r) ==
    IF TxFull THEN txArmed' = TRUE /\ txQ' = txQ
    ELSE txQ' = Append(txQ, Cmd("MARK", a, r)) /\ txArmed' = txArmed

\* The ring of a's first send, owned from now on by its connection.
RingFor(a) == IF conn[a].ring = NoRing THEN Len(rings) + 1 ELSE conn[a].ring
RingsFor(a) ==
    IF conn[a].ring # NoRing THEN rings
    ELSE Append(rings, [cnx |-> a, owner |-> conn[a].gen, refs |-> 1,
                        armed |-> FALSE, recs |-> <<>>])

\* send_datagram_frame takes no empty payload.  The application waits while a
\* send found the ring full.
MaySend(a, len) ==
    /\ LoopIdle /\ Known(a) /\ ~conn[a].closed /\ ~conn[a].parked /\ len # 0

pushIdle == <<workerState, py, batch, owed, toClose, phase, leaked, failed>>

\* A payload no record may hold.  Mutant: one byte more passes.
OversizeByTwo(len) == len > MaxRecord + 1
Oversize(len) == len > MaxRecord

\* aiopquic_dgram_buf_push_record looks for room in ring r of rs: the record
\* is written and its tail published, or the drain signal must be armed.  An
\* oversize one ends the call, which has made the ring and posted by then.
Push(rs, r, a, len) ==
    \/ Oversize(len) /\ rings' = rs /\ p' = Idle
    \/ /\ ~Oversize(len) /\ HasRoom(rs[r], len)
       /\ rings' = [rs EXCEPT ![r].recs = Append(@, len)]
       /\ p' = [at |-> "mark", cnx |-> a, len |-> len]
    \/ /\ ~Oversize(len) /\ ~HasRoom(rs[r], len)
       /\ rings' = rs /\ p' = [at |-> "arm", cnx |-> a, len |-> len]

\* A send, which makes the ring when it is the first.
SendBegin(a, len) ==
    /\ MaySend(a, len) /\ ~conn[a].markOwed /\ Spend("sends")
    /\ Push(RingsFor(a), RingFor(a), a, len)
    /\ conn' = [conn EXCEPT ![a].ring = RingFor(a)]
    /\ UNCHANGED <<txQ, txArmed, pushIdle>>

\* A send that owes a mark posts it first.
SendRepost(a, len) ==
    /\ MaySend(a, len) /\ conn[a].markOwed /\ Spend("sends")
    /\ PushMark(a, conn[a].ring)
    /\ conn' = [conn EXCEPT ![a].markOwed = TxFull]
    /\ p' = [at |-> "push", cnx |-> a, len |-> len]
    /\ UNCHANGED <<rings, pushIdle>>

SendPush ==
    /\ p.at = "push" /\ Push(rings, conn[p.cnx].ring, p.cnx, p.len)
    /\ UNCHANGED <<conn, txQ, txArmed, left, pushIdle>>

PushArm ==
    /\ p.at = "arm"
    /\ rings' = [rings EXCEPT ![conn[p.cnx].ring].armed = TRUE]
    /\ p' = [p EXCEPT !.at = "recheck"]
    /\ UNCHANGED <<conn, txQ, txArmed, left, pushIdle>>

\* Mutant: the room is not looked at again.
PushNoRecheck ==
    /\ p.at = "recheck" /\ p' = Idle
    /\ conn' = [conn EXCEPT ![p.cnx].parked = TRUE]
    /\ UNCHANGED <<rings, txQ, txArmed, left, pushIdle>>

\* Full even so: the call returns 0, the drain event is cleared and the
\* application waits for it.
PushRecheck ==
    /\ p.at = "recheck"
    /\ IF HasRoom(rings[conn[p.cnx].ring], p.len)
       THEN Push(rings, conn[p.cnx].ring, p.cnx, p.len) /\ UNCHANGED conn
       ELSE /\ p' = Idle /\ conn' = [conn EXCEPT ![p.cnx].parked = TRUE]
            /\ UNCHANGED rings
    /\ UNCHANGED <<txQ, txArmed, left, pushIdle>>

\* The end of dgram_send: the mark, or the debt of one.
SendMark ==
    /\ p.at = "mark" /\ p' = Idle
    /\ PushMark(p.cnx, conn[p.cnx].ring)
    /\ conn' = [conn EXCEPT ![p.cnx].markOwed = @ \/ TxFull]
    /\ UNCHANGED <<rings, left, pushIdle>>

-----------------------------------------------------------------------------
(* Asyncio: other commands, the drain of the RX queue, routing.            *)

\* Any command of another kind.
PostOther ==
    /\ LoopIdle /\ ~TxFull /\ Spend("cmds")
    /\ txQ' = Append(txQ, Cmd("OTHER", Null, NoRing))
    /\ UNCHANGED <<workerState, rings, txArmed, py, batch, owed, conn, p, toClose,
                   phase, leaked, failed>>

\* QuicConnection.close(); a full ring raises BufferError.
LocalClose(a) ==
    /\ LoopIdle /\ Known(a) /\ ~conn[a].closed /\ ~TxFull /\ Spend("closes")
    /\ txQ' = Append(txQ, Cmd("CLOSE", a, NoRing))
    /\ conn' = [conn EXCEPT ![a].closed = TRUE]
    /\ UNCHANGED <<workerState, rings, txArmed, py, batch, owed, p, toClose,
                   phase, leaked, failed>>

\* aiopquic_dgram_ring_release_post
ReleasePost(a, r) == txQ' = Append(txQ, Cmd("RELEASE", a, r))

\* aiopquic_dgram_ring_release_flush of the debts o into queue q: as many as
\* fit, in order; the ring-drained event is armed for the rest.
Releases(o) == [i \in DOMAIN o |-> Cmd("RELEASE", o[i].cnx, o[i].db)]
Fits(q, o) == IF Len(o) <= TxCap - Len(q) THEN Len(o) ELSE TxCap - Len(q)
Flush(q, o) ==
    /\ txQ' = q \o Releases(SubSeq(o, 1, Fits(q, o)))
    /\ owed' = SubSeq(o, Fits(q, o) + 1, Len(o))
    /\ txArmed' = (txArmed \/ owed' # <<>>)

\* drain_rx: _begin_drain_cycle posts the releases that are owed,
BeginDrain ==
    /\ LoopIdle /\ py = "idle" /\ rxQ # <<>>
    /\ py' = "drain" /\ Flush(txQ, owed)
    /\ UNCHANGED <<workerState, rings, conn, batch, p, toClose, phase, leaked,
                   stillFed>>

\* then the events are taken one by one.  SPSC_EVT_TX_EVENT_RING_DRAINED,
\* which wakes stream writers, is handled at once.
Collected(e) == IF e.kind = "RING_DRAINED" THEN batch ELSE Append(batch, e)
DrainPop ==
    /\ LoopIdle /\ py = "drain" /\ rxQ # <<>>
    /\ rxQ' = Tail(rxQ) /\ batch' = Collected(rxQ[1])
    /\ UNCHANGED <<cnx, gen, active, table, rings, txQ, txArmed, py, owed, conn,
                   w, p, toClose, phase, leaked, reset, stillFed>>

\* The drain ends at the end of the queue or after max_events of them (bound:
\* any number from 1).
DrainEnd ==
    /\ LoopIdle /\ py = "drain" /\ (rxQ = <<>> \/ batch # <<>>)
    /\ py' = IF batch = <<>> THEN "idle" ELSE "route"
    /\ UNCHANGED <<workerState, rings, txQ, txArmed, batch, owed, conn, p,
                   toClose, phase, leaked, stillFed>>

\* route_batch: one event of the batch.
Ev == batch[1]
Routes(kinds) ==
    /\ LoopIdle /\ py = "route" /\ Ev.kind \in kinds
    /\ batch' = Tail(batch) /\ py' = IF Len(batch) = 1 THEN "idle" ELSE "route"
    /\ UNCHANGED <<workerState, rings, p, toClose, phase>>

\* route_event makes a connection for an address it does not know.
Routed(a) == IF Known(a) THEN conn[a] ELSE NewConn(Ev.gen)

RouteData ==
    /\ Routes({"READY", "DGRAM"})
    /\ conn' = [conn EXCEPT ![Ev.cnx] = Routed(Ev.cnx)]
    /\ UNCHANGED <<txQ, txArmed, owed, leaked, stillFed>>

\* SPSC_EVT_DATAGRAM_TX_DRAINED wakes the writer and posts an owed mark.
RouteDrained ==
    LET c == Routed(Ev.cnx)
        repost == c.markOwed /\ c.ring # NoRing
    IN  /\ Routes({"DRAINED"})
        /\ IF repost THEN PushMark(Ev.cnx, c.ring) ELSE UNCHANGED <<txQ, txArmed>>
        /\ conn' = [conn EXCEPT ![Ev.cnx] =
               [c EXCEPT !.parked = FALSE,
                         !.markOwed = @ /\ (TxFull \/ ~repost)]]
        /\ UNCHANGED <<owed, leaked, stillFed>>

\* dgram_ring_release with the worker running: the RELEASE is posted, or
\* owed, or lost when the list of debts cannot grow.
ReleaseRing(a, r) ==
    \/ /\ r = NoRing /\ UNCHANGED <<txQ, txArmed, owed, leaked, stillFed>>
    \/ /\ r # NoRing /\ ~TxFull
       /\ ReleasePost(a, r)
       /\ UNCHANGED <<txArmed, owed, leaked, stillFed>>
    \/ /\ r # NoRing /\ TxFull
       /\ Flush(txQ, Append(owed, [cnx |-> a, db |-> r]))
       /\ UNCHANGED <<leaked, stillFed>>
    \/ /\ r # NoRing /\ TxFull /\ Fail
       /\ leaked' = leaked \cup {r} /\ UNCHANGED <<txQ, txArmed, owed>>

\* Mutant: the engine keeps the connection.
RouteCloseKeeps ==
    /\ Routes(Closes)
    /\ conn' = [conn EXCEPT ![Ev.cnx] =
           IF Known(Ev.cnx) THEN [NewConn(conn[Ev.cnx].gen) EXCEPT !.closed = TRUE]
           ELSE NoConn]
    /\ ReleaseRing(Ev.cnx, IF Known(Ev.cnx) THEN conn[Ev.cnx].ring ELSE NoRing)

\* A close event wakes the writer, releases the ring and forgets the
\* connection; a second one finds none.
RouteClose ==
    /\ Routes(Closes)
    /\ conn' = [conn EXCEPT ![Ev.cnx] = NoConn]
    /\ ReleaseRing(Ev.cnx, IF Known(Ev.cnx) THEN conn[Ev.cnx].ring ELSE NoRing)

-----------------------------------------------------------------------------
(* QuicEngine.close() and the release of the transport.                    *)

EngineClose ==
    /\ LoopIdle /\ Spend("closes")
    /\ phase' = "stopping" /\ toClose' = {a \in Addr : Known(a)}
    /\ UNCHANGED <<workerState, rings, txQ, txArmed, py, batch, owed, conn, p,
                   leaked, failed>>

\* Every connection is closed; one that is closed already, or that finds the
\* ring full, is passed over.
CloseNext(a) ==
    /\ phase = "stopping" /\ a \in toClose /\ toClose' = toClose \ {a}
    /\ IF conn[a].closed \/ TxFull THEN UNCHANGED <<txQ, conn>>
       ELSE /\ txQ' = Append(txQ, Cmd("CLOSE", a, NoRing))
            /\ conn' = [conn EXCEPT ![a].closed = TRUE]
    /\ UNCHANGED <<workerState, rings, txArmed, py, batch, owed, p, phase,
                   leaked, stillFed>>

\* picoquic_delete_network_thread: the worker ends.
Join ==
    /\ phase = "stopping" /\ toClose = {} /\ w = Idle /\ phase' = "stopped"
    /\ UNCHANGED <<workerState, rings, txQ, txArmed, py, batch, owed, conn, p,
                   toClose, leaked, stillFed>>

stopIdle == <<gen, w, reset, txArmed, py, batch, p, toClose, phase, leaked, stillFed>>

\* aiopquic_dgram_ring_release_undrained: the rings of queued releases are
\* dropped in turn, and the entries cleared; then those of owed ones.
Undrained == {i \in DOMAIN txQ : txQ[i].kind = "RELEASE" /\ txQ[i].db # NoRing}
SweepQueued ==
    /\ phase = "stopped" /\ Undrained # {}
    /\ LET i == Min(Undrained)
       IN  /\ table' = DropTable(table, txQ[i].cnx, txQ[i].db)
           /\ rings' = DropRefs(rings, table, txQ[i].cnx, txQ[i].db)
           /\ txQ' = [txQ EXCEPT ![i].db = NoRing]
    /\ UNCHANGED <<cnx, active, rxQ, owed, conn, stopIdle>>

SweepOwed ==
    /\ phase = "stopped" /\ Undrained = {} /\ owed # <<>>
    /\ table' = DropTable(table, owed[1].cnx, owed[1].db)
    /\ rings' = DropRefs(rings, table, owed[1].cnx, owed[1].db)
    /\ owed' = Tail(owed)
    /\ UNCHANGED <<cnx, active, rxQ, txQ, conn, stopIdle>>

Swept == phase = "stopped" /\ Undrained = {} /\ owed = <<>>

\* picoquic_free runs the close callback of each connection that has not had
\* its last one.
Free(a) ==
    /\ Swept /\ cnx[a] # "none"
    /\ cnx' = [cnx EXCEPT ![a] = "none"] /\ active' = active \ {a}
    /\ IF cnx[a] = "final" THEN UNCHANGED <<rxQ, table, rings>>
       ELSE /\ rxQ' = Append(rxQ, Event("CLOSE", a))
            /\ table' = TableRemove(table, a, NoRing)
            /\ rings' = AddRef(rings, Removed(table, a, NoRing), -1)
    /\ UNCHANGED <<txQ, owed, conn, stopIdle>>

\* Then the engine gives up the rings of the connections it knows, without a
\* RELEASE, as no worker runs.
Forget(a) ==
    /\ Swept /\ (\A b \in Addr : cnx[b] = "none") /\ Known(a)
    /\ rings' = AddRef(rings, conn[a].ring, -1)
    /\ conn' = [conn EXCEPT ![a] = NoConn]
    /\ UNCHANGED <<cnx, active, table, rxQ, txQ, owed, stopIdle>>

\* aiopquic_ctx_destroy: the table's references.
Destroy ==
    /\ Swept /\ (\A a \in Addr : cnx[a] = "none" /\ ~Known(a)) /\ phase' = "freed"
    /\ rings' = [r \in DOMAIN rings |->
                   [rings[r] EXCEPT !.refs = @ - TableRefs(table, r)]]
    /\ table' = EmptyTable(0)
    /\ UNCHANGED <<cnx, gen, active, rxQ, w, reset, txQ, txArmed, py, batch, owed,
                   conn, p, toClose, leaked, stillFed>>

-----------------------------------------------------------------------------

Callback == \E a \in Addr : \/ Accept(a) \/ RecvDatagram(a) \/ PeerClose(a)
                            \/ FinalClose(a) \/ StatelessReset(a)
                            \/ FreeCnx(a)
Prepare == (\E a \in Addr : PrepareRead(a)) \/ PreparePop \/ PrepareTake
Command == Mark \/ Release \/ CloseCnx \/ OtherCmd
Send == SendPush \/ PushArm \/ PushRecheck \/ SendMark
Drain == BeginDrain \/ DrainPop \/ DrainEnd \/ RouteData \/ RouteDrained \/ RouteClose
Api == \/ \E a \in Addr : LocalClose(a) \/ \E len \in 0 .. MaxRecord + 1 :
                                     SendBegin(a, len) \/ SendRepost(a, len)
       \/ PostOther \/ EngineClose

Stop == \/ \E a \in Addr : CloseNext(a) \/ Free(a) \/ Forget(a)
        \/ Join \/ SweepQueued \/ SweepOwed \/ Destroy

Next == Callback \/ Prepare \/ Command \/ Send \/ Drain \/ Api \/ Stop

\* The two threads keep running: the worker takes commands, and picoquic
\* asks an active connection for datagrams sooner or later; asyncio ends the
\* calls it began and drains the queue.
Fairness == WF_vars(Prepare \/ Command) /\ WF_vars(Send \/ Drain)

Spec == Init /\ [][Next]_vars /\ Fairness

-----------------------------------------------------------------------------
(* Properties.                                                             *)

Holders(r) ==
    Cardinality({a \in Addr : Known(a) /\ conn[a].ring = r})
    + Cardinality({i \in DOMAIN txQ : txQ[i].kind = "RELEASE" /\ txQ[i].db = r})
    + Cardinality({i \in DOMAIN owed : owed[i].db = r})
    + TableRefs(table, r)
    + (IF r \in leaked THEN 1 ELSE 0)

\* A ring's count is its connection, its RELEASE, posted or owed, and its
\* table entries, through every order of marks, closes, releases and the
\* shutdown; so it is freed once, and with the transport at the latest.
CountIsHolders == \A r \in DOMAIN rings : rings[r].refs = Holders(r)

\* A MARK carries its ring without a reference, on the strength of the
\* RELEASE behind it (aiopquic_dgram_ring_release): no MARK still queued, no
\* callback and no table entry names a ring that was freed.
NoFreedRing ==
    \A r \in DOMAIN rings : rings[r].refs = 0 =>
        /\ phase \in {"run", "stopping"} =>
             \A i \in DOMAIN txQ : ~(txQ[i].kind = "MARK" /\ txQ[i].db = r)
        /\ w # Idle => w.db # r
        /\ TableRefs(table, r) = 0

\* A ring lives exactly as long as somebody holds it or may be handed it.
RingRefs == CountIsHolders /\ NoFreedRing

\* Probing finds every entry of the table, which has one per connection,
\* whatever tombstones removals left and however often it grew; and it
\* always ends, at an empty slot.
TableFindsAll ==
    /\ \A i \in DOMAIN table : table[i].cnx \in Addr =>
         /\ TableGet(table, table[i].cnx) = table[i].db
         /\ \A j \in DOMAIN table : table[j].cnx = table[i].cnx => i = j
    /\ Cap(table) # 0 => \E i \in DOMAIN table : table[i].cnx = Null

\* Whether two connections so far had one address.
Reused == Cardinality({a \in Addr : gen[a] # 0}) # Born

\* A waiting writer's wake is on its way, or armed with a pop to come that
\* takes it: none slipped between the failed push and the arm.  (A failed
\* event puts the arm back, with or without another pop.)
Coming == batch \o rxQ
ParkedWriterArmed ==
    \A a \in Addr : Known(a) /\ conn[a].parked =>
        LET ring == rings[conn[a].ring]
        IN  \/ ring.armed /\ (ring.recs # <<>> \/ w # Idle \/ failed)
            \/ \E i \in DOMAIN Coming : /\ Coming[i].cnx = a
                                        /\ Coming[i].kind \in {"DRAINED"} \cup Closes

\* The engine's connections are picoquic's: one that picoquic no longer has,
\* or that an event behind the peer's close made anew (route_event), has its
\* close event still to come.
NoOrphanConnection ==
    phase = "run" => \A a \in Addr : Known(a) =>
        \/ cnx[a] \in {"up", "closing"} /\ gen[a] = conn[a].gen
        \/ conn[a].gen \in reset
        \/ \E i \in DOMAIN Coming :
             Coming[i] = [kind |-> "CLOSE", cnx |-> a, gen |-> conn[a].gen]

\* A record leaves on the connection it was sent on (prepare_datagram takes
\* it from the ring the table has for that connection's address), as long as
\* no address was given to a second connection.
RecordsStayHome ==
    [][~Reused => \A r \in DOMAIN rings :
         r \in DOMAIN rings' /\ Len(rings'[r].recs) < Len(rings[r].recs)
           => gen[w.cnx] = rings[r].owner]_vars

\* Committed records of connections that stay up are sent, unless their mark
\* is owed: once the application pauses, none is left.
HasRecords(a) == Known(a) /\ conn[a].ring # NoRing /\ rings[conn[a].ring].recs # <<>>
Excused(a) == conn[a].markOwed \/ cnx[a] # "up" \/ phase # "run" \/ failed \/ Reused
Unsent == \E a \in Addr : HasRecords(a) /\ ~Excused(a)
RecordsLeave == Unsent ~> ~Unsent

\* Rings their connections gave up are freed: the RELEASE behind a ring's
\* marks takes the table's reference too, unless it is still owed.
GivenUp(r) == \A a \in Addr : Known(a) => conn[a].ring # r
Owes(r) == r \in leaked \/ \E i \in DOMAIN owed : owed[i].db = r
Unfreed == phase = "run" /\ \E r \in DOMAIN rings :
                                GivenUp(r) /\ rings[r].refs # 0 /\ ~Owes(r)
ReleasedRingFreed == Unfreed ~> ~Unfreed

\* get_datagram_tx_drain_event: the event is set when the worker drains room
\* and on close, "so waiters never park forever".
WaitersNeverPark ==
    \A a \in Addr : (Known(a) /\ conn[a].parked /\ ~failed)
                      ~> (~Known(a) \/ ~conn[a].parked)
=============================================================================
