# aiopquic in TLA+

TLA+ modules, TLC configurations and TLAPS proofs for aiopquic, an asyncio
binding of the picoquic QUIC stack. Paths below are relative to
`src/src/aiopquic/`.

## 1. The system

A `TransportContext` joins two threads: **the asyncio thread** (Python, the
application) and **the worker** (picoquic's network thread). They meet only in
single-producer single-consumer rings, a few atomic flags, an overflow list with
a lock, and two wake mechanisms (an eventfd one way, picoquic's wake-up the
other).

| Component | State | Operations | Interacts with | Correct when |
|---|---|---|---|---|
| RX event queue (`spsc_ring.h`, `callback.h`, `drain_rx` in `_transport.pyx`) | ring slots, `head`, `tail`, overflow list, `depth`, `rx_notify_pending`, eventfd | `aiopquic_rx_push`, `spsc_ring_refill_from_overflow`, `aiopquic_notify_rx`, `aiopquic_clear_rx`, `drain_rx` | everything the worker reports | order kept, nothing lost, no lost wake |
| TX event ring (`spsc_ring.h`, `callback.h`, `_transport.pyx`) | `head`, `tail`, `tx_worker_idle`, `tx_event_ring_drain_pending` | push, `aiopquic_tx_wake_needed`, `aiopquic_tx_worker_idle_arm`, the drain loop, `maybe_fire` and `drained_final` | all commands; reports back through the RX queue | a sleeping worker is woken, a parked writer is served |
| Stream receive path (`stream_ctx.h`, `stream_buf.h`, `aiopquic_stream_cb`, `drain_rx`) | `sc->rx`, `rx_event_pending`, `bytes_pending_release`, `rx_consumed`, `last_fc_push_consumed` | stream_data/fin callbacks, drain, credit push, OPEN_FLOW_CONTROL | both event rings | no byte stranded, FIN last, window never beyond the ring, peer never starved |
| Stream send path (`stream_ctx.h`, `stream_buf.h`, `tx_send_atomic`, prepare_to_send) | `sc->tx`, `tx_drain_pending`, held reset, byte counters | send, prepare_to_send, reset, deferred resets, destroy | both event rings, asyncio events | FIN behind all bytes, reliable bytes before a reset, writers woken, accounting exact |
| Stream-context lifetime (`stream_ctx.h`, `callback.h`, `_transport.pyx`) | reference counts, per-connection hash sets, release queue | ref, destroy, release, close, shutdown | every ring entry that carries a context | freed once, never while referenced |
| Datagrams (`datagram_buf.h`, `callback.h`, `quic/connection.py`) | a record ring per connection, its drain signal, the worker's cnx table, `_dgram_mark_owed`, `dgram_release_owed` | send, MARK, prepare_datagram, RELEASE, close, shutdown | both event rings, the engine's routing | rings freed once and not under a reader, records sent, on their own connection, writers woken |
| Connection, engine (`quic/connection.py`) | per-stream asyncio events, closed flags, event deques | drained send, waits, close, routing | asyncio's ready queue | waiters wake on progress and on close |
| Dispatch, protocol, watchdog (`asyncio/dispatch.py`, `protocol.py`, `_rxwatch.py`) | connection map, timers | route batch, spawn, rescue drain | RX queue | each event reaches its connection in order |
| WebTransport (`h3wt_callback.h`, `asyncio/webtransport.py`) | sessions, CONNECT, stream links, pending creates, retried posts | open and retry, stream callbacks, create, close, cleanup, deregister | same rings, h3zero's prefixes and stream contexts | nothing names what is freed, links and contexts die together, an end reaches everyone |
| Codecs (`_buffer.pyx`, `_streamchain.pyx`) | buffers, chains | pull/push varints, chain reads | application | round trip |
| Configuration, statistics, logging, versions | - | - | - | - |

What is hard here: lock-free handshakes between the threads (flag, then
re-check), store-load reordering behind them, coalesced notifications, credit
computed from values read one after the other, resets that wait for bytes, objects
that two threads and a third-party stack name by address and free in turn, all queues
at their limit, and allocation failure in the middle of each.
`PROJECT.json` lists the hazards at their lines.

## 2. Modules

| Module | Models | State and actions |
|---|---|---|
| `RxEventQueue` | the RX event queue | one action per access to shared state: the worker's push (`PushStart`, `RingWrite`, `RingPublish`, `OverflowAppend`, `OverflowCount`, `NotifyExchange`, `NotifyWrite`, `PushOutOfMemory`), the refill (`RefillTake`, `RefillPublish`, `RefillUncount`), the drain loop (`DrainMiss`, `DrainHandle`, `DrainPop`), `aiopquic_clear_rx` (`ClearRead`, `ClearExchange`, `ClearRearm`, `ClearRearmOverflow`) |
| `EventFifo` | what the RX event queue promises | a queue with `Put` and `Take`, `Take` owed |
| `TxEventRing` | the TX event ring and its wakes | entries are counted; plain stores go through a store buffer per thread (`FlushProducer`, `FlushWorker`), fences and read-modify-writes wait for it to empty |
| `StreamRx` | receiving half of a raw QUIC stream | bytes are offsets, the ring its two indices; uses the RX queue as the FIFO `RxEventQueue` implements |
| `StreamTx` | sending half of a raw QUIC stream | one writer, picoquic's pulls, commands, held resets |
| `ScLifetime` | who keeps a stream context alive | reference counts, picoquic's app ctx, both queues, the batch being routed, `pending_fc` notes, live chunks, held resets, Python's `_stream_ctxs` and `_sc_owned`; one action per picoquic callback, command, API call, drained entry and step of `stop()` |
| `DgramTable` | the worker's cnx table | functions of a table: probing, tombstones, growth slot by slot (`Place`, `Rehash`), removal |
| `Datagrams` | sending datagrams from a server engine; extends `DgramTable` | picoquic's connections by address and generation, the rings with their counts, TX ring and RX queue as FIFOs, the engine's connections. Worker: callbacks, prepare_datagram in three steps (`PrepareRead`, `PreparePop`, `PrepareTake`), one action per command. Asyncio: a send in up to four steps (`SendBegin` or `SendRepost`, `SendPush`, `PushArm`, `PushRecheck`, `SendMark`), the drain cycle event by event (`BeginDrain`, `DrainPop`, `DrainEnd`), one action per routed event, `LocalClose`. `QuicEngine.close()` is `EngineClose`, `CloseNext` per connection, `Join`; then the release of the transport: `SweepQueued` and `SweepOwed` per RELEASE, `Free` per connection of picoquic, `Forget` per connection of the engine, `Destroy` |
| `WtCodes` | the mapping of WebTransport error codes | pure functions |
| `WtSession` | one WebTransport session, worker and Python together; extends `WtCodes` | `s` the session struct, `h3` what each h3zero stream names, `link` the stream links, `net` the connection, `py` the Python object. One action per h3zero or picoquic callback, per command of `aiopquic_wt_handle_tx`, per API call and per routed event; a call that posts several commands posts them one by one (`Post`), `open()` waits for an address between `Open` and `PushOpen`, and a post that meets a full ring is retried three times (`RetryPush`). `dropped` are the kinds of events that found no memory |
| `RxEventQueue_proofs`, `TxEventRing_proofs`, `StreamRx_proofs`, `StreamTx_proofs`, `ScLifetime_proofs`, `Datagrams_proofs`, `WtQueues_proofs`, `WtSession_proofs` | - | theorems |
| `MC...` | - | instances for TLC; constants are in the `.cfg` files |

Operators marked "Mutant" beside a definition state a plausible bug of it. They are
part of no specification; `PROJECT.json` pairs each with the property that
notices it.

The threads' orders: in every module but `TxEventRing` each
handshake goes through an exchange, a read-modify-write, or a release store read
with acquire on the same location, so steps interleave sequentially
consistently. In `TxEventRing` the handshakes are store-then-load with explicit
fences, so sequential consistency would hide what the fences are for; hence the
store buffers, which give the store-load reordering of x86. Reorderings a weaker
machine adds are all between accesses the code orders with acquire and release.

## 3. Runs

| Run | Instance | Shows |
|---|---|---|
| `rx_event_queue` | ring 2, cycle 2, 5 events | order, single ring writer, no NULL node, no lost wake, refinement of `EventFifo` with its liveness |
| `tx_event_ring` | ring 2, low water 1, 4 writers, with and without memory | sleeper woken, parked writer served and its arm kept without memory, writers resume |
| `stream_rx` | ring 4, window 2, credit every 2, 9 bytes, three fault sets | no stranded byte, FIN last, window within ring, the stream completes |
| `stream_rx_dropped_credit` (violated) | TX ring may be full | a dropped credit push starves the peer |
| `stream_tx` | ring 2, 3 bytes, 2 resets of reliable size 0 or 2, with and without memory | FIN, reliable resets, accounting, parked writer, FIN reaches the wire |
| `sc_lifetime` | 2 contexts, TX ring of 2, 3 inputs, client and engine, stream opened by either end | every reference has a holder and every holder a reference, borrowed pointers stay live, stop frees nothing held, contexts of ended streams and closed connections are freed |
| `sc_lifetime_stop` (violated) | same | a context can outlive the transport |
| `datagrams` | 2 addresses with one hash, table of 2 that grows, rings of 2 records, TX ring of 2, six plans | counts are holders and nobody reads a freed ring, the table finds all, waiting writers are armed, no orphan connection, records stay home and leave, rings are freed |
| `dgram_waiter_parks` (violated) | one connection, three sends, two other commands | a refused mark leaves a writer waiting for ever |
| `wt_session` | 2 streams, TX ring of 2, 91 codes, seventeen plans | nothing dangles between session, CONNECT and h3zero, borrowed contexts live, replies pair, codes come back, an end is reported, a close completes |
| `wt_freed_session` (violated) | a session closed before it is opened | its struct is freed under its queued commands |
| `wt_close_lost` (violated) | TX ring of 1, one reset in it | a session's cleanup or FIN is given up after three tries |

Faults are part of the initial state (`faults`, `shortMem`): a behaviour says which
failures its environment may produce, and a property that cannot survive one says so.
`Datagrams` and `WtSession` generalise this: `Plans` is a set of budgets, and a behaviour
starts with one of them (how many connections, sends, closes, resets, failing
allocations; how many streams, ends, losses, cancelled callers). A plan is a scenario in
which everything it allows happens in every order; together the plans pair the inputs
that interact, which one budget with all of them could not do in reasonable time.

**Bounds.** `MaxPush`, `Writers`, `Total`, `MaxWant`, `MaxResets` and `ResetSizes`
bound how much is ever put in. The RX run fills the ring of two, spills, refills and
spills again: five events are enough for a push to meet every phase of a second
refill. Four writers on two slots let two park while the ring drains. Nine bytes
through four make the stream ring wrap twice, from a window that starts smaller than
the ring. Two resets let one be held and one ignored; reliable size 2 of 3 bytes is
above, at and below what is out when it arrives. `ScLifetime` needs two contexts
because an application that resets a peer's stream it has not heard of creates a
second one (`blind`); three inputs (frames of the peer and API calls together) are
enough to meet a full TX ring of two at the third command and to have chunks, notes
and queued entries of one context at once. Indices are not reduced modulo 2^64;
the code's differences of 64-bit indices would need 2^64 events or bytes to differ.
In `Datagrams` three sends overfill a ring of two records and three commands a TX ring
of two; two connections meet at one address, in turn, or collide at two, and the table of
two slots (64 in the code) grows with its first tombstone. A drain stops at the end of the
queue or after any number of events, where the code's `max_events` is 256. In `WtSession` the TX ring of
two is full at the third post, which a close with its cleanup and the deregister reach;
two streams let a created and a peer's, or two created ones, overlap; 91 codes span three
runs of the reserved pattern, with the residue of the real range (codes above 32 bits,
which pass through, are not among them). Of its seventeen plans seven let memory run out:
then any push of an event may be lost, whoever pushes it, and any allocation of a stream,
a link or a CONNECT may fail, at any step and any number of times. LINK_RELEASE frees a
link when it is popped, where the code may keep it to the end of the batch: the model
frees no later than the code.

**What the WebTransport properties leave aside.** Three things the code does
have no line that says what should follow, so the model does them and the properties say
where they stop claiming; each is a hazard in `PROJECT.json`. The fourth is contradicted by a line, and is a run.

- A lost STREAM_CREATED: every later reply is one request off. `RepliesPair` claims the
  pairing until then.
- A lost SESSION_CLOSED: `session_closing` is set all the same, and no other callback
  reports the end, except a client's CNX_CLOSED. `EndIsReported` sets aside exactly the
  sessions whose reporting events were all lost (`EndLost`).
- A `close()` while `open()` waits for the address: CLOSE and CLEANUP find no connection,
  and OPEN then makes one that no later step of the session closes.
  `ConnectionCloses` sets these sessions aside (`py.late`). As long as memory lasts, every
  other session that is closed, a refused or a deregistered one too, must see its
  connection closed, by the deadline or by DEREGISTER.
- A post that was given up (`py.lost`): `CloseCompletes` shows that nothing else is lost,
  the fifth violated run that this can be.

**The five violated runs** are disagreements between the code and its own comments
and tests, quoted in `PROJECT.json`:

1. `_push_fc_credit` moves `last_fc_push_consumed` before a push that a full ring
   drops; a peer at its limit then causes no "next event" to catch up.
2. A context whose first event is still undrained when the client stops is freed by
   nobody: `stop()` drops the references of the entries, but the stream's own
   reference passes to Python only when an event of the stream is routed.
3. A datagram mark refused by a full TX event ring is posted again by the next send or
   by DATAGRAM_TX_DRAINED. If the unmarked records fill the ring, the next send waits
   and no record is ever popped: the waiter parks for ever.
4. A client session that is closed before `open()` and dropped frees its struct while
   TX_WT_CLOSE and TX_WT_SESSION_CLEANUP name it in the TX ring.
5. `_retry_push` gives a close, a cleanup or a FIN up when the TX event ring was full at
   three tries; `_push_or_retry` says that none is ever lost to backpressure. The worker
   is fair in this run: the ring drains, only not in time, or others fill it again.

Four more were met while reading and have no run here: `aiopquic_wt_code_to_h3` maps
WT_SESSION_GONE, which fits in 32 bits, into the application range, where
`h3wt_callback.h:67-68` and `webtransport.py:617-618` say it passes unchanged;
`spsc_ring_take_data` zeroes `data_length` before `spsc_ring_pop` subtracts it, so
`bytes_pending` only grows (`spsc_ring.h:478`); `cnt_tx_wake_lost` also counts a wake that
was merely late (`callback.h:1911`); a FIN without payload does not set `fin_pending`, so
a queued credit command still raises the stream's limit (`callback.h:1743`).

**Fairness.** Weak fairness of each thread's own steps: both threads are
scheduled and no code in them waits for the other. Weak fairness of the reader
callback: asyncio's poller is level triggered, so an fd that stays readable is
reported. `TxEventRing` gives none to `WokenByItself`: a wake may not rest on a
timer or a packet. `StreamRx` lets the peer send what it may. `StreamTx` has
strong fairness in one place: picoquic serves an active stream with room for at least
a byte again and again (it may also offer none). `ScLifetime` adds that the
application forgets the chunks it was given and that picoquic deletes a connection it
has closed. `Datagrams` adds that picoquic asks an active connection for datagrams
sooner or later. `WtSession` adds that picoquic's timer fires at the close deadline and
that a connection it is closing ends; nothing obliges a peer to answer, to send its FIN
or to close, and nothing obliges a host's address to be found. Nobody is obliged to write, to reset or to produce an event.

**Deadlock** is checked except where the system may really stop: a stream nobody
writes to (`StreamTx`), a stopped transport (`ScLifetime`), or a stream that has ended
or whose notification or credit was lost (`StreamRx`, where `StreamCompletes` says a
fault-free stream stops only at its end), a plan that is used up (`Datagrams`,
`WtSession`).

## 4. Proofs

A module `M_proofs` holds the theorems about `M`; `WtQueues_proofs` holds the lemmas on
queues that `WtSession_proofs` extends. They hold for every value of the constants that
the module's assumptions allow, which only ask that capacities be positive and marks lie
within them, and that connection addresses be finitely many and neither NULL nor the
tombstone, and that the table start with two slots or more. Each rests on an invariant
`IInv` that is inductive: `Invariance` says `Spec => []IInv`, with one lemma per part and
one step per action, and the other theorems follow from it.

| Module | Theorem | States |
|---|---|---|
| `RxEventQueue_proofs` | `TypeCorrect` | `TypeOK` |
| | `DeliveryInOrder` | `InOrderDelivery` |
| | `OneRingWriter` | `SingleRingWriter` |
| | `RefillSafe` | `RefillFindsNode` |
| | `WakeNeverLost` | `NoLostWake` |
| | `RefinesFifo` | `EventFifo` without its fairness |
| `TxEventRing_proofs` | `TypeCorrect` | `TypeOK` |
| | `NoLostWake` | `SleeperIsWoken` |
| | `WriterServed` | `ParkedWriterIsServed` |
| `StreamRx_proofs` | `TypeCorrect` | `TypeOK` |
| | `WindowSafe` | `WindowWithinRing` |
| | `BytesNotified` | `NoStrandedBytes` |
| | `FinComesLast` | `FinIsLast` |
| `StreamTx_proofs` | `TypeCorrect` | `TypeOK` |
| | `FinBehindAllBytes` | `FinSendsAll` |
| | `ReliableReset` | `ResetKeepsReliable` |
| | `BudgetExact` | `QueuedIsRing` |
| | `WriterServed` | `ParkedWriterIsServed` |
| `ScLifetime_proofs` | `TypeCorrect` | `TypeOK` |
| | `CountIsHolders` | `RefsMatchHolders` |
| | `NothingHeldIsFreed` | `HeldStayLive` |
| `Datagrams_proofs` | `TypeCorrect` | `TypeOK` |
| | `RefsExact` | `RingRefs` |
| | `TableSound` | `TableFindsAll` |
| | `WriterArmed` | `ParkedWriterArmed` |
| | `NoOrphans` | `NoOrphanConnection` |
| | `RecordsHome` | `RecordsStayHome` |
| `WtSession_proofs` | `ResetCodesRoundTrip` | `CodesRoundTrip` |
| | `TypeCorrect` | `TypeOK` |
| | `NothingDangles` | `NoDanglingSession` |
| | `BorrowedLive` | `BorrowedScLive` |
| | `RepliesPaired` | `RepliesPair` |

None of the safety properties is inductive; the parts of `IInv` say what makes them so.

**RX event queue.**

- `Counting` ties `depth` to the length of the overflow list plus the node being
  placed minus the node not yet counted, and the number of accepted events to `tail`
  and the list. It also says that a worker on the ring's path met an empty overflow
  (which only the worker can end), hence `SingleRingWriter` and `RefillFindsNode`.
- `Bounds`: `head`, `tail` and the ring's capacity, so that distinct live indices
  name distinct slots.
- `Content`: the slot of index i holds serial i, the overflow's j-th node the serial
  that follows; `Delivered`: so does the sequence handed out.
- `Wakeful`: for each point of the drain, what the flag and the fd owe. A set flag
  with the consumer past its fd read implies a readable fd or a worker about to write
  it; hence `NoLostWake`.

`RefillFindsNode` and `SingleRingWriter` hold each other up: the refill is the only
writer of the ring while `depth` is positive because the worker goes to the list, and
the list is not empty while `depth` is positive because only the refill unlinks.

`RefinesFifo` is the step simulation behind `ImplementsFifo`: under the mapping the
module's `INSTANCE EventFifo` gives, a push or a handed-out event is an abstract step and
everything else (publishing, spilling, refilling, arming, waking) a stutter. A step is
looked at with `IInv` in both states: `Content` says that a refill moves the same events
from the list to the ring.

**TX event ring.** The claims are about what two threads see of each other's stores, so
`IInv` speaks of the store buffers as much as of memory. The producer's holds at most the
one store its program point has just made (`Producer`); the worker's holds rising values of
`head`, and only inside the drain loop (`HeadStores`), marks and re-arms, and nothing from
the peek to the sleep (`OtherStores`). `Counted` keeps the three views of the indices
apart by at most the capacity. With these, `Marked` (the worker's idle mark is set, or
whoever took it is about to write the wake) gives `SleeperIsWoken`: of the two fences,
either the producer's load sees the mark or the worker's peek sees the entry. `Armed` and
`Answering` do the same for the drain arm of a parked writer and the worker's final check.
Reading a buffer's last store of a location needs a greatest index, hence the lemma `Least`
from the well-foundedness of the naturals.

**Receiving.** `Accounts` ties what was popped to what is consumed, in hand and
unreleased; `Window` adds that the room a grant goes by, read earlier, can only have grown:
the grant is stale on the safe side, hence `WindowWithinRing`. `Ending` follows a FIN from
the frame to the queue to the drain, with what the drain saw of the ring at each point.
`Notified` says how far the drain will get with the event at hand (`Reach`): bytes beyond
that have a notification queued, or the worker is about to see to it. It holds under
`txFull`, the one fault that does not lose notifications.

**Sending.** `Writing` and `Counts` keep the ring's indices and the counters together
across the writer's steps; `Wire` says what a running prepare_to_send knows: if it saw
the FIN flag, the bytes it then counted are all there will ever be, because the flag was
read first. `Reset` bounds a held reset's reliable size by the ring's indices. `Backed`:
bytes in the ring of a stream that may still send are polled for or have a MARK_ACTIVE
coming. `Parking`: a writer that waits has its arm or its event, and without either a pull
or the event coming the ring is as full as it found it.

**Lifetime.** A step that moves one reference moves one count, so the count matches its
holders easily (`Match`); what has to be known besides is who drops the stream's own
reference, and that nobody does it twice. This rests on order. `Order`: nothing of a
stream is queued behind its STREAM_DESTROY or a close, in the RX queue, in the engine's
batch, and from one to the other. `Retiring`: a STREAM_DESTROY names the stream's context
when it is no longer attached, and after it is handled nothing names that context again.
`Fetched` and `Adopted`: an event that finds no bytes and is therefore dropped names a
context Python has adopted or is about to; this is what keeps the reference of a stream
whose data was fetched by an earlier event. `Kept` concludes that the reference is let go
only by a STREAM_DESTROY or a close. After `stop()` the exact count is lost (a run shows
that a context can outlive the transport) and `Floor` takes its place: the count covers
its holders and Python's set. `TypeCorrect` says that no count goes below zero, so it
needs all of this. The proof speaks of each group of actions through one lemma on its
effect (`PayloadEffect` to `RouteEffect`), and of queues through what putting or taking an
entry changes (`Put`, `Take`).

**Datagrams.** First the table, as facts about functions of a table. `Sound` says that every
entry is on the walk of its connection before any empty slot (`Reached`), that a connection
has one (`OnePer`), that entries and only they hold rings (`Filled`), and that the load
leaves an empty slot (`Loaded`). A walk in a sound table ends where it should
(`WalkEnds`, `WalkFinds`); putting an entry (`Entered`) and leaving a tombstone (`Tombed`)
keep it sound. Growth is a recursive function of the number of slots placed; `RehashIs`
says that it satisfies its recursion and `Grown` is an induction over the slots. Both go by
the least counterexample (`LeastOf`, from the well-foundedness of the naturals), since the
library's induction rules take an operator.

`IInv` then says who may rely on whom.

- `Home` and `TableHome`: a connection, a command, a debt and a table entry name a ring only
  together with the address it was made for, although addresses are used again.
- `Claims`: the reference a connection made on its ring has one owner at a time: the
  connection, one RELEASE, posted or owed, or nobody any more. The table's entry is the only
  other one, hence `Counts` and `RingRefs`.
- `Marks`: a MARK carries its ring uncounted. As long as a worker may pop it, the ring's
  claim is held by its connection, by a RELEASE behind it, or by a debt, which is posted
  behind it. So the MARK finds its ring alive.
- `Parked`: the ring of a parked writer is armed with records in it, or the pop that emptied
  it has still to look at the arm; or the wake is queued. `Busy` says what the send and the
  prepare_datagram in progress have seen that stays true.
- `Ends`: every connection the engine knows, and every event that could make it one, is of a
  live connection or has that connection's CLOSE behind it; hence `NoOrphanConnection`.
- `Agree`: without a second connection at an address, address and connection are one, and
  the record `PreparePop` takes is the connection's own: `RecordsHome`, from the steps
  (`AnyStep`: no other one takes a record).

**WebTransport codes.** For any range of codes that satisfies `CodesAssumption`: it starts
at 3 modulo 31, is as long as the mapping needs, and lies above the application codes. The
arithmetic is in three lemmas: with q = code div 30 and r = code mod 30 the mapping is
FirstCode + 31q + r (`CodeRange`), so it meets no reserved codepoint (`CodeNotReserved`) and
dividing by 31 gives q back (`CodeInverse`). `CodesRoundTrip` speaks of what is on the
wire, so its invariant `CodesInv` also says that every queued reset carries an application
code and that the code on the wire is the mapping of the one asked for; of all steps only
the application's calls, a late stream's reset and `HandleStreamOp` touch these.

**WebTransport sessions.** Nobody counts references here: h3zero, the worker and Python
free in turn, and each relies on the order of the others' messages. `IInv` states that order.

- `Owner` says what the Python object has before, during and after `open()`, after
  `close()` and once it is gone. `Asked` says what it may ask for when: a `close()` may
  come before OPEN is posted, so OPEN need not be the first command, but only commands that
  a session without a connection ignores (`Idling`) are ahead of it, hence it finds the
  struct as it was made (`Fresh`); DEREGISTER is the last. `News`: a server's session is
  announced at most once (the event may be lost) and its struct freed only by its object.
- `Hooked` keeps the CONNECT stream and the prefix registered as long as a live session is
  attached: h3zero names the session exactly through the stream the session has cached, so
  DEREGISTER, which goes by the cached one, leaves no other. With `Owner` and `Asked` this
  carries `FreedIsUnnamed` through the free, hence `NoDanglingSession`.
- `Links`: nothing that borrows a stream's sc is queued behind its release, nothing that
  gives it to Python behind its STREAM_DESTROY, and whoever still has it in
  `_stream_tx_ctxs` when the release is queued is told to drop it first (`DroppedIn`).
  This is an invariant only while the object listens, or may still start to
  (`Listening`); hence `BorrowedScLive`.
- `Paired` is `RepliesPair` from before `open()` on, until a reply is lost. It counts entries with `Upto`, so the
  lemmas are about what an appended or taken entry does to a count.

The steps fall into four groups: callbacks, commands, calls and routed events. Each has a lemma
that it keeps `IInv` (`CallbackKept`, `CommandKept`, `CallKept`, `DispatchKept`), resting on
one for its effect: the worker only appends entries whose links are right (`Grew`), whichever of them find memory, a call only
withdraws what the object may use (`Calmer`), a routed event takes the first entry and does
with the map what it says (`Heard`). `WtQueues_proofs` has what appending, taking and listing
the streams in order mean.

**Only model-checked.** Every liveness property, and the fairness of `EventFifo` in
`ImplementsFifo` (the prover has neither fairness nor ENABLED). What
`RingBytes` computes is used in the proofs only where a ring is empty.

## 5. Not modelled

Listed in `PROJECT.json` under components. In short: the waiters of the Python connection,
the watchdog, the dispatch between protocols and the codecs are planned (below);
configuration, statistics, logging and version tables have no behaviour to check; the
litmus tests and hooks are test code; picoquic is third-party and appears as external
actions. Within the modelled parts:

- RX events: the `MemoryError` of `_hold_batch_ref` (`_transport.pyx:2051`) in the middle
  of a drain, which loses the events drained so far;
- streams: several writers on one stream, the split (non-atomic) commit, bidirectional
  streams, STOP_SENDING and a peer's reset on the receiving side;
- lifetime: entries lost for want of memory together with their reference, a new
  connection at the address of an old one (`Datagrams` has it for rings), and
  `engine.close()` in the middle of a batch. Three facts about picoquic are assumed: it
  refuses a stream it has retired, retires none whose reset is held, and deletes what it
  closed;
- datagrams: a client that stops with its ring unreleased, priorities, delivery counters,
  received payloads. A connection that ended by a stateless reset gets no event; the
  properties leave it aside and `PROJECT.json` lists it as a hazard;
- WebTransport: bytes and datagrams of its streams (provide_data and the datagram rings
  repeat the raw-QUIC code), DRAIN, priorities, the negotiated protocol, inboxes, several
  sessions on one connection, a second `open()` of a session, a failure to start the
  connection after CONNECT was hooked (it is one case with a failing `picowt_connect`).
  A stream whose peer has sent no byte when CONNECT is freed before the session keeps
  its pointer; the properties leave it aside. A command that uses a connection picoquic has freed ends
  the behaviour (`stale`), as what follows is undefined.

## 6. Plan

1. Done: `RxEventQueue` with `EventFifo`, `TxEventRing`, `StreamRx`, `StreamTx`,
   `ScLifetime`, `Datagrams`, `WtSession`; their safety properties as theorems.
2. `DrainedSend`: `send_stream_data_drained` over asyncio's ready queue, composed with
   the sending half; several writers, close, stop.
3. `Dispatch`: ALPN dispatch, several WebTransport sessions, watchdog.
4. Codecs as operators against reference definitions.
