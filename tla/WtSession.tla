------------------------------ MODULE WtSession ------------------------------
(***************************************************************************)
(* One WebTransport session: the aiopquic_wt_session_t and its stream      *)
(* links on the worker thread (h3wt_callback.h), the h3zero objects that   *)
(* name them, and the Python session object (webtransport.py) that drives  *)
(* them through the TX ring and learns of them through the RX queue.       *)
(*                                                                         *)
(* h3zero and picoquic are external: h3 says what each stream's            *)
(* path_callback_ctx names, net.prefix which CONNECT stream's prefix names *)
(* the session.  Bytes, flow control and resets of the data streams are in *)
(* StreamRx and StreamTx, whose code the WebTransport path shares; what is *)
(* here is who may still be called and who frees what, when.               *)
(***************************************************************************)
EXTENDS WtCodes, Sequences, FiniteSets, Functions

CONSTANTS Streams,   \* ids of the session's data streams
          TxCap,     \* entries of the TX event ring
          Plans      \* the scenarios: a role, and a bound on what others do

Scenarios == [role : {"client", "server"}, auto : Nat, creates : Nat,
              cancels : Nat, ops : Nat, peers : Nat, data : Nat, frees : Nat,
              ends : Nat, drops : Nat, refusals : Nat, fails : Nat, early : Nat]

ASSUME WtAssumption ==
    /\ Streams \subseteq Nat \ {0, 4} /\ IsFiniteSet(Streams)
    /\ TxCap \in Nat \ {0}
    /\ Plans \subseteq Scenarios

None == "none"
NoStream == -1
Connect == 0                 \* the CONNECT stream, by its stream id,
Retry == 4                   \* and that of its one retry
Connects == {Connect, Retry}

VARIABLES plan,   \* the role, and what others may still do
          s,      \* aiopquic_wt_session_t
          net,    \* the connection, the session's prefix, CONNECT's FINs
          h3,     \* what each h3zero stream's path_callback_ctx names
          link,   \* the aiopquic_wt_stream_link_t of each data stream
          ended,  \* data streams whose peer has sent its FIN or reset
          rxq,    \* events to Python, in order (RxEventQueue)
          dropped, \* kinds of the events lost for want of memory
          txq,    \* commands to the worker, in order (TxEventRing)
          py,     \* WebTransportSession and WebTransportSessionState
          stale   \* a command used a connection that is already freed

vars == <<plan, s, net, h3, link, ended, rxq, dropped, txq, py, stale>>

client == plan.role = "client"
Spend(f) == plan[f] > 0 /\ plan' = [plan EXCEPT ![f] = @ - 1]
Ev(t, d) == [t |-> t, d |-> d, k |-> 0]
Up == net.cnx \in {"up", "app"}      \* callbacks of its streams still come
\* Streams are opened in the order of their ids.
FirstUnused(d) == h3[d] = None /\ \A e \in Streams : e < d => h3[e] # None
Linked == {d \in Streams : h3[d] = "link"}

Owable == {"close", "cleanup", "fin", "op"}   \* posts a task may take over
MaxTries == 3                                 \* of such a task

SessionInit == [mem |-> "no", at |-> FALSE, ctl |-> NoStream, id |-> NoStream,
                ready |-> FALSE, closing |-> FALSE, finSent |-> FALSE,
                peerFin |-> FALSE, deadline |-> None, cleanup |-> FALSE,
                retry |-> FALSE]

Init ==
    /\ plan \in Plans
    /\ s = [SessionInit EXCEPT !.mem = IF client THEN "live" ELSE "no"]
    /\ net = [cnx |-> None, closing |-> FALSE, prefix |-> NoStream,
              answered |-> FALSE, fins |-> {}, code |-> NoStream,
              wire |-> NoStream]
    /\ h3 = [x \in Connects \cup Streams |-> None]
    /\ link = [d \in Streams |-> None]
    /\ ended = {} /\ rxq = <<>> /\ dropped = {} /\ txq = <<>> /\ stale = FALSE
    /\ py = [obj |-> IF client THEN "live" ELSE "no", opening |-> FALSE,
             opened |-> FALSE, late |-> FALSE,
             attached |-> FALSE, ready |-> FALSE, refused |-> FALSE,
             closed |-> FALSE, fin |-> FALSE, pend |-> <<>>, gone |-> {},
             ctxs |-> {}, todo |-> <<>>, owed |-> {},
             tries |-> [c \in Owable |-> 0], lost |-> FALSE, made |-> 0]

------------------------------------------------------------------------------
(* Worker: what the handlers share *)

\* What aiopquic_rx_push leaves of q, an event or none: without memory nothing,
\* and no caller looks.
Pushed(q) == {q} \cup (IF plan.fails > 0 THEN {<<>>} ELSE {})
TypesOf(q) == {q[i].t : i \in DOMAIN q}
Lost(q, r) == dropped' = dropped \cup (TypesOf(q) \ TypesOf(r))

\* The event of q, then that of r, is pushed.
Push(q, r) ==
    \E a \in Pushed(q), b \in Pushed(r) :
        rxq' = rxq \o a \o b /\ Lost(q \o r, a \o b)
Tell(e) == Push(<<e>>, <<>>)
About(t) == Ev(t, NoStream)

\* SESSION_CLOSED is pushed by whoever sees the end first.
EndEvent == IF s.closing THEN <<>> ELSE <<About("closed")>>

\* aiopquic_wt_maybe_close_cnx: the client's deadline to close the connection,
\* the short one once the peer's FIN is in.  x is the session as updated.
MaybeCloseCnx(x) ==
    IF client /\ x.at /\ x.finSent /\ x.cleanup
          /\ (x.deadline = None \/ (x.peerFin /\ x.deadline = "deadline"))
    THEN [x EXCEPT !.deadline = IF x.peerFin THEN "grace" ELSE "deadline"]
    ELSE x

\* aiopquic_wt_peer_fin, aiopquic_wt_fin_sent
PeerFin == MaybeCloseCnx([s EXCEPT !.closing = TRUE, !.peerFin = TRUE])
FinSent == MaybeCloseCnx([s EXCEPT !.finSent = TRUE, !.closing = TRUE])

\* Events that end the streams of D: a retired stream's (STREAM_DESTROY, then
\* LINK_RELEASE) and a cleanup's (LINK_RELEASE alone), in stream order.
InOrder(D) ==
    CHOOSE q \in [1 .. Cardinality(D) -> D] :
        \A i, j \in 1 .. Cardinality(D) : i < j => q[i] < q[j]
Releases(D) == [i \in 1 .. Cardinality(D) |-> Ev("release", InOrder(D)[i])]
Destroys(D) == [i \in 1 .. Cardinality(D) |-> Ev("destroy", InOrder(D)[i])]
\* LINK_RELEASE ahead of the stream's last event.
FreeEventsAhead(A, B) == Releases(B) \o Destroys(A)

FreeEvents(A, B) == Destroys(A) \o Releases(B)

Leaked(D) == [d \in Streams |-> IF d \in D THEN "leaked" ELSE link[d]]

\* The links of D given up by LINK_RELEASE alone.  One that finds no memory
\* leaves its link to nobody.
ReleaseLinks(D) ==
    \E B \in SUBSET D :
        /\ B = D \/ plan.fails > 0
        /\ rxq' = rxq \o Releases(B) /\ link' = Leaked(D \ B)

\* Those of streams that h3zero frees, after the event in q.  No memory for
\* STREAM_DESTROY skips LINK_RELEASE too.
FreeLinks(q, D) ==
    \E A \in SUBSET D : \E B \in SUBSET A :
        /\ B = D \/ plan.fails > 0
        /\ rxq' = rxq \o q \o FreeEvents(A, B) /\ link' = Leaked(D \ B)

------------------------------------------------------------------------------
(* Worker: callbacks of picoquic and h3zero *)

\* First contact on a server: aiopquic_wt_server_bootstrap_cb, or
\* aiopquic_dispatch_cb for ALPN h3, makes the H3 context.
ServerBootstrap ==
    /\ ~client /\ net.cnx = None
    /\ net' = [net EXCEPT !.cnx = "up"]
    /\ UNCHANGED <<plan, s, h3, link, ended, rxq, dropped, txq, py, stale>>

\* aiopquic_wt_server_path_callback, CONNECT with a mutual protocol.
ServerConnect ==
    /\ ~client /\ net.cnx = "up" /\ s.mem = "no"
    /\ s' = [s EXCEPT !.mem = "live", !.at = TRUE, !.ctl = Connect,
                      !.id = Connect, !.ready = TRUE]
    /\ net' = [net EXCEPT !.prefix = Connect, !.answered = TRUE]
    /\ h3' = [h3 EXCEPT ![Connect] = "session"]
    /\ Tell(About("new"))
    /\ UNCHANGED <<plan, link, ended, txq, py, stale>>

\* An event of CONNECT reaches the session: a client's through the stream's
\* path callback, a server's through the path table and then the prefix.
ControlCalled ==
    /\ Up /\ s.mem = "live" /\ s.id # NoStream /\ "peer" \notin net.fins
    /\ IF client THEN h3[s.id] = "session" ELSE net.prefix = s.id

\* picohttp_callback_connect_accepted
ConnectAccepted ==
    /\ client /\ ControlCalled /\ ~net.answered
    /\ s' = [s EXCEPT !.ready = TRUE]
    /\ net' = [net EXCEPT !.answered = TRUE]
    /\ Tell(About("ready"))
    /\ UNCHANGED <<plan, h3, link, ended, txq, py, stale>>

\* aiopquic_wt_retry_connect applies: the AUTO arguments are kept and the
\* server advertised WebTransport.
CanRetry == s.retry /\ ~s.ready /\ ~s.closing /\ s.at

\* The retry: the refused CONNECT is unhooked and its prefix dropped, then a
\* second CONNECT is sent on a new stream; without memory there is no such
\* stream, or no CONNECT on it.
RetryConnect(out) ==
    LET made == out # "none"
        sent == out = "sent"
    IN  /\ CanRetry /\ (sent \/ plan.fails > 0)
        /\ s' = [s EXCEPT !.retry = FALSE,
                          !.ctl = IF made THEN Retry ELSE NoStream,
                          !.id = IF made THEN Retry ELSE @]
        /\ net' = [net EXCEPT !.prefix = IF sent THEN Retry ELSE NoStream,
                              !.answered = ~sent, !.fins = {}]
        /\ h3' = [h3 EXCEPT ![s.id] = "null",
                            ![Retry] = IF sent THEN "session"
                                       ELSE IF made THEN "null" ELSE @]
        /\ IF sent THEN UNCHANGED <<rxq, dropped>> ELSE Tell(About("refused"))
Retries == \E out \in {"sent", "unsent", "none"} : RetryConnect(out)

\* picohttp_callback_connect_refused
ConnectRefused ==
    /\ Spend("refusals")
    /\ client /\ ControlCalled /\ ~net.answered
    /\ \/ Retries
       \/ /\ ~CanRetry
          /\ net' = [net EXCEPT !.answered = TRUE]
          /\ Tell(About("refused"))
          /\ UNCHANGED <<s, h3>>
    /\ UNCHANGED <<link, ended, txq, py, stale>>

\* picohttp_callback_stop_sending on CONNECT
ControlStopSending ==
    /\ Spend("refusals")
    /\ ControlCalled
    /\ \/ Retries
       \/ ~CanRetry /\ Tell(About("stop")) /\ UNCHANGED <<s, net, h3>>
    /\ UNCHANGED <<link, ended, txq, py, stale>>

\* picohttp_callback_post_data on CONNECT: a WT_CLOSE_SESSION capsule
ControlCapsule ==
    /\ Spend("ends")
    /\ ControlCalled /\ net.answered /\ ~s.closing
    /\ s' = [s EXCEPT !.closing = TRUE]
    /\ Push(EndEvent, <<>>)
    /\ UNCHANGED <<net, h3, link, ended, txq, py, stale>>

\* picohttp_callback_post_fin on CONNECT, with or without the capsule
ControlFin ==
    /\ Spend("ends")
    /\ ControlCalled /\ net.answered
    /\ s' = PeerFin
    /\ net' = [net EXCEPT !.fins = @ \cup {"peer"}]
    /\ Push(EndEvent, <<>>)
    /\ UNCHANGED <<h3, link, ended, txq, py, stale>>

\* picohttp_callback_reset on CONNECT
ControlReset ==
    /\ Spend("ends")
    /\ ControlCalled
    /\ \/ Retries
       \/ /\ ~CanRetry
          /\ s' = PeerFin
          /\ net' = [net EXCEPT !.fins = @ \cup {"peer"}, !.answered = TRUE]
          /\ Push(EndEvent, <<>>)
          /\ UNCHANGED h3
    /\ UNCHANGED <<link, ended, txq, py, stale>>

\* picohttp_callback_free on CONNECT, once both FINs are done
ControlFree ==
    /\ Up /\ s.id # NoStream /\ h3[s.id] \in {"session", "null"}
    /\ net.fins = {"us", "peer"}
    /\ h3' = [h3 EXCEPT ![s.id] = "freed"]
    /\ s' = IF h3[s.id] = "session" THEN [s EXCEPT !.ctl = NoStream] ELSE s
    /\ UNCHANGED <<plan, net, link, ended, rxq, dropped, txq, py, stale>>

\* h3zero: a peer's stream whose header names the session takes the context
\* of its prefix.
PeerStream(d) ==
    /\ Spend("peers")
    /\ Up /\ net.prefix # NoStream /\ FirstUnused(d)
    /\ h3' = [h3 EXCEPT ![d] = "session"]
    /\ UNCHANGED <<s, net, link, ended, rxq, dropped, txq, py, stale>>

\* aiopquic_wt_ensure_link and aiopquic_wt_push_new_stream: the first bytes
\* or the FIN of a peer's stream make its link.
EnsureLink(d) ==
    /\ h3' = [h3 EXCEPT ![d] = "link"]
    /\ link' = IF h3[d] = "session" THEN [link EXCEPT ![d] = "live"] ELSE link
NewStream(d) == IF h3[d] = "session" THEN <<Ev("newstream", d)>> ELSE <<>>

StreamCalled(d) ==
    /\ Up /\ s.mem = "live" /\ h3[d] \in {"session", "link"} /\ d \notin ended

\* picohttp_callback_post_data on a stream: one notification at a time
\* (aiopquic_wt_push_event_with_sc)
StreamData(d) ==
    /\ Spend("data")
    /\ StreamCalled(d)
    /\ EnsureLink(d)
    /\ LET queued == \E i \in 1 .. Len(rxq) : rxq[i] = Ev("data", d)
       IN  Push(NewStream(d), IF queued THEN <<>> ELSE <<Ev("data", d)>>)
    /\ UNCHANGED <<s, net, ended, txq, py, stale>>

\* picohttp_callback_post_fin on a stream
StreamFin(d) ==
    /\ Spend("data")
    /\ StreamCalled(d)
    /\ EnsureLink(d)
    /\ ended' = ended \cup {d}
    /\ Push(NewStream(d), <<Ev("fin", d)>>)
    /\ UNCHANGED <<s, net, txq, py, stale>>

\* picohttp_callback_reset and picohttp_callback_stop_sending on a stream:
\* neither makes a link.
StreamReset(d) ==
    /\ Spend("data")
    /\ StreamCalled(d)
    /\ \/ ended' = ended \cup {d} /\ Tell(Ev("reset", d))
       \/ ended' = ended /\ Tell(Ev("stop", d))
    /\ UNCHANGED <<s, net, h3, link, txq, py, stale>>

\* picohttp_callback_free on a stream that h3zero retires
StreamFree(d) ==
    /\ Spend("frees")
    /\ Up /\ h3[d] \in {"session", "link", "null"}
    /\ h3' = [h3 EXCEPT ![d] = "freed"]
    /\ FreeLinks(<<>>, {d} \cap Linked)
    /\ UNCHANGED <<s, net, ended, dropped, txq, py, stale>>

\* aiopquic_wt_cnx_cb, picoquic_callback_app_wakeup at the deadline
AppWakeup ==
    /\ client /\ Up /\ net.prefix # NoStream /\ s.deadline # None
    /\ s' = [s EXCEPT !.deadline = None]
    /\ net' = [net EXCEPT !.closing = TRUE]
    /\ UNCHANGED <<plan, h3, link, ended, rxq, dropped, txq, py, stale>>

\* What a close callback pushes: SESSION_CLOSED in told, then CNX_CLOSED on a
\* client; on a server h3zero deletes its context with every stream.
CnxEnds(told, named) ==
    IF client
    THEN /\ Push(told, IF named THEN <<About("cnxclosed")>> ELSE <<>>)
         /\ UNCHANGED <<h3, link>>
    ELSE /\ \E a \in Pushed(told) : FreeLinks(a, Linked) /\ Lost(told, a)
         /\ h3' = [x \in DOMAIN h3 |-> IF h3[x] = None THEN None ELSE "freed"]

\* A close that marks the session without telling Python.
CnxClosedSilently(kind) ==
    /\ Up /\ (kind = "app" => net.cnx = "up")
    /\ IF net.closing THEN UNCHANGED plan ELSE Spend("drops")
    /\ LET named == net.prefix # NoStream
       IN  /\ net' = [net EXCEPT
                        !.cnx = IF client /\ kind = "app" THEN "app" ELSE "down",
                        !.prefix = IF client THEN @ ELSE NoStream]
           /\ s' = IF ~named THEN s
                   ELSE IF client THEN [s EXCEPT !.closing = TRUE]
                   ELSE [s EXCEPT !.closing = TRUE, !.at = FALSE, !.ctl = NoStream]
           /\ CnxEnds(<<>>, FALSE)
    /\ UNCHANGED <<ended, txq, py, stale>>

\* aiopquic_wt_cnx_cb, the close callbacks: an application close, which a
\* final one follows, or the final one (a close, the idle timeout, a stateless
\* reset).
CnxClosed(kind) ==
    /\ Up /\ (kind = "app" => net.cnx = "up")
    /\ IF net.closing THEN UNCHANGED plan ELSE Spend("drops")
    /\ LET named == net.prefix # NoStream
       IN  /\ net' = [net EXCEPT
                        !.cnx = IF client /\ kind = "app" THEN "app" ELSE "down",
                        !.prefix = IF client THEN @ ELSE NoStream]
           /\ s' = IF ~named THEN s
                   ELSE IF client THEN [s EXCEPT !.closing = TRUE]
                   ELSE [s EXCEPT !.closing = TRUE, !.at = FALSE, !.ctl = NoStream]
           /\ CnxEnds(IF named THEN EndEvent ELSE <<>>, named)
    /\ UNCHANGED <<ended, txq, py, stale>>

\* picoquic frees a connection that is down.  A client's H3 context is only
\* flagged by h3zero, and its session keeps its pointers.
CnxFreed ==
    /\ net.cnx = "down"
    /\ net' = [net EXCEPT !.cnx = "gone"]
    /\ UNCHANGED <<plan, s, h3, link, ended, rxq, dropped, txq, py, stale>>
------------------------------------------------------------------------------
(* Worker: aiopquic_wt_handle_tx, one action per command *)

Cmd(t) == [t |-> t, k |-> 0]
Room == Len(txq) < TxCap

\* The head of the TX ring is command t and it is popped.
Pop(t) == txq # <<>> /\ Head(txq).t = t /\ txq' = Tail(txq)

\* The command goes on to picoquic with s->cnx.
UsesCnx(t) == s.at /\ (t \in {"close", "fin"} => s.ctl # NoStream)

\* It does so after picoquic has freed the connection: what follows is
\* undefined, and the behaviour ends here.
HandleStale ==
    /\ txq # <<>> /\ Head(txq).t \notin {"open", "deregister"}
    /\ UsesCnx(Head(txq).t) /\ net.cnx = "gone"
    /\ stale' = TRUE /\ txq' = Tail(txq)
    /\ UNCHANGED <<plan, s, net, h3, link, ended, rxq, dropped, py>>

Handle(t) == Pop(t) /\ ~(UsesCnx(t) /\ net.cnx = "gone")

\* TX_WT_OPEN: refused before a connection is made; or made, and CONNECT
\* sent or not (picowt_connect or the start of the connection failed: no
\* answer to it can come).  plan.auto: AUTO was asked for and the server
\* advertises WebTransport.
HandleOpen ==
    /\ Pop("open")
    /\ \/ /\ plan.fails > 0
          /\ Tell(About("refused"))
          /\ UNCHANGED <<s, net, h3>>
       \/ \E sent \in BOOLEAN :
             /\ sent \/ plan.fails > 0
             /\ s' = [s EXCEPT !.at = TRUE, !.ctl = Connect,
                               !.id = Connect, !.retry = plan.auto > 0]
             /\ net' = [net EXCEPT !.cnx = "up", !.answered = ~sent,
                                   !.prefix = IF sent THEN Connect ELSE NoStream]
             /\ h3' = [h3 EXCEPT ![Connect] =
                                    IF sent THEN "session" ELSE "null"]
             /\ IF sent THEN UNCHANGED <<rxq, dropped>>
                ELSE Tell(About("refused"))
    /\ UNCHANGED <<plan, link, ended, py, stale>>

\* STREAM_CREATED, the reply to the request at the head of the TX ring
Reply(t, d) == Tell([Ev(t, d) EXCEPT !.k = Head(txq).k])

\* TX_WT_CREATE_STREAM: one reply, with the new stream's sc, or a failure:
\* without a stream, or with one that has no link.
HandleCreate ==
    /\ Handle("create")
    /\ \/ /\ ~s.at \/ plan.fails > 0 \/ \A d \in Streams : h3[d] # None
          /\ Reply("failed", NoStream)
          /\ UNCHANGED <<h3, link>>
       \/ \E d \in Streams :
             /\ s.at /\ FirstUnused(d)
             /\ \/ /\ h3' = [h3 EXCEPT ![d] = "link"]
                   /\ link' = [link EXCEPT ![d] = "live"]
                   /\ Reply("created", d)
                \/ /\ plan.fails > 0
                   /\ h3' = [h3 EXCEPT ![d] = "null"]
                   /\ Reply("failed", d)
                   /\ UNCHANGED link
    /\ UNCHANGED <<plan, s, net, ended, py, stale>>

\* TX_WT_CLOSE (capsule and FIN, which may fail together) and TX_WT_FIN (FIN
\* alone)
HandleClose(t) ==
    /\ Handle(t)
    /\ \/ /\ s.at /\ s.ctl # NoStream
          /\ s' = FinSent
          /\ net' = [net EXCEPT !.fins = @ \cup {"us"}]
       \/ /\ s.at /\ s.ctl # NoStream /\ t = "close" /\ plan.fails > 0
          /\ s' = [s EXCEPT !.closing = TRUE]
          /\ UNCHANGED net
       \/ ~(s.at /\ s.ctl # NoStream) /\ UNCHANGED <<s, net>>
    /\ UNCHANGED <<plan, h3, link, ended, rxq, dropped, py, stale>>

\* TX_WT_RESET_STREAM, _STOP_SENDING: the live H3 context is looked up again,
\* the code sent is that of HTTP/3, and the stream stays attached.  A stream
\* h3zero no longer tracks, or without that side, is left alone; so is every
\* one that a cleanup has reset already.
HandleStreamOp ==
    /\ Handle("op")
    /\ \/ s.at /\ ~s.cleanup
          /\ net' = [net EXCEPT !.code = Head(txq).k,
                                 !.wire = CodeToH3(Head(txq).k)]
       \/ UNCHANGED net
    /\ UNCHANGED <<plan, s, h3, link, ended, rxq, dropped, py, stale>>

\* TX_WT_SESSION_CLEANUP: every linked stream is ended with WT_SESSION_GONE,
\* unhooked, and its link released behind the events that borrow its sc.
HandleCleanup ==
    /\ Handle("cleanup")
    /\ s' = MaybeCloseCnx([s EXCEPT !.cleanup = TRUE])
    /\ IF s.at
       THEN /\ h3' = [x \in DOMAIN h3 |-> IF h3[x] = "link" THEN "null" ELSE h3[x]]
            /\ ReleaseLinks(Linked)
       ELSE UNCHANGED <<h3, link, rxq>>
    /\ UNCHANGED <<plan, net, ended, dropped, py, stale>>

\* TX_WT_DEREGISTER on a connection that is alive: links released; CONNECT,
\* if h3zero still has it, unhooked and picowt_deregister run, which takes the
\* session's streams with it; a client that has sent its FIN closes the
\* connection; the prefix is deleted.  The struct is freed in any case.
Detached ==
    IF s.ctl = NoStream
    THEN [x \in DOMAIN h3 |-> IF h3[x] = "link" THEN "null" ELSE h3[x]]
    ELSE [x \in DOMAIN h3 |->
            IF x = s.ctl THEN "null"
            ELSE IF x \in Streams /\ h3[x] # None THEN "freed" ELSE h3[x]]

\* The same, with what is left of the prefix and of the connection.
Deregister(prefix, closing) ==
    /\ Pop("deregister")
    /\ IF s.at /\ net.cnx # "gone"
       THEN /\ h3' = Detached
            /\ ReleaseLinks(Linked)
            /\ net' = [net EXCEPT
                         !.prefix = prefix,
                         !.closing = closing,
                         !.fins = IF s.ctl = NoStream THEN @ ELSE @ \cup {"us"}]
       ELSE UNCHANGED <<h3, link, rxq, net>>
    /\ s' = [SessionInit EXCEPT !.mem = "freed", !.id = s.id]
    /\ UNCHANGED <<plan, ended, dropped, py, stale>>

\* The session freed with its prefix still declared, and with its connection
\* left open.
HandleDeregisterPrefix == Deregister(net.prefix, net.closing \/ (client /\ s.finSent))
HandleDeregisterOpen == Deregister(NoStream, net.closing)

HandleDeregister == Deregister(NoStream, net.closing \/ (client /\ s.finSent))

------------------------------------------------------------------------------
(* Python: the session object, on the event loop.  A call that posts several *)
(* commands posts them one by one (py.todo) while the worker runs.           *)

Idle == py.todo = <<>>
Alive == py.obj = "live"

\* WebTransportClient.open, up to its wait for the host's address
Open ==
    /\ client /\ Alive /\ Idle /\ ~py.opening /\ ~py.opened
    /\ py' = [py EXCEPT !.attached = TRUE, !.opening = TRUE]
    /\ UNCHANGED <<plan, s, net, h3, link, ended, rxq, dropped, txq, stale>>

\* The rest of it, whatever has become of the session meanwhile
PushOpen ==
    /\ py.opening /\ Idle /\ Room
    /\ py' = [py EXCEPT !.opening = FALSE, !.opened = TRUE, !.late = py.closed]
    /\ txq' = Append(txq, Cmd("open"))
    /\ UNCHANGED <<plan, s, net, h3, link, ended, rxq, dropped, stale>>

\* No address, a full ring, or its caller is cancelled: attached, not opened.
OpenFails ==
    /\ py.opening /\ Idle
    /\ py' = [py EXCEPT !.opening = FALSE]
    /\ UNCHANGED <<plan, s, net, h3, link, ended, rxq, dropped, txq, stale>>

\* Its wait for SESSION_READY times out or is cancelled: session_ready is that
\* the future is done, whatever with.
OpenTimesOut ==
    /\ client /\ Alive /\ Idle /\ py.opened /\ ~py.ready
    /\ py' = [py EXCEPT !.ready = TRUE]
    /\ UNCHANGED <<plan, s, net, h3, link, ended, rxq, dropped, txq, stale>>

\* create_stream, past its waits for the send budget, for abandoned streams
\* and for room: the request is posted and its future queued in one step.
CreateStream ==
    /\ Spend("creates")
    /\ Alive /\ Idle /\ py.ready /\ ~py.closed /\ Room
    /\ py' = [py EXCEPT !.made = @ + 1, !.pend = Append(@, py.made + 1)]
    /\ txq' = Append(txq, [t |-> "create", k |-> py.made + 1])
    /\ UNCHANGED <<s, net, h3, link, ended, rxq, dropped, stale>>

\* The future leaves the queue with its caller.
CreateCancelledLeaves ==
    /\ Spend("cancels")
    /\ Alive /\ Idle
    /\ \E k \in Range(py.pend) \ py.gone :
          py' = [py EXCEPT !.gone = @ \cup {k},
                           !.pend = SelectSeq(@, LAMBDA j : j # k)]
    /\ UNCHANGED <<s, net, h3, link, ended, rxq, dropped, txq, stale>>

\* Its caller times out or is cancelled: the future keeps its place.
CreateCancelled ==
    /\ Spend("cancels")
    /\ Alive /\ Idle
    /\ \E k \in Range(py.pend) \ py.gone :
          py' = [py EXCEPT !.gone = @ \cup {k}]
    /\ UNCHANGED <<s, net, h3, link, ended, rxq, dropped, txq, stale>>

\* reset_stream, which drops the stream's sc, and stop_stream, which does not,
\* with any application code
StreamOp ==
    /\ Spend("ops")
    /\ Alive /\ Idle /\ Room
    /\ \E code \in 0 .. MaxCode : txq' = Append(txq, [t |-> "op", k |-> code])
    /\ \E d \in Streams \cup {NoStream} : py' = [py EXCEPT !.ctxs = @ \ {d}]
    /\ UNCHANGED <<s, net, h3, link, ended, rxq, dropped, stale>>

\* _release_session_resources of session object p, in a call that posts cmds
Released(p, cmds) ==
    [p EXCEPT !.closed = TRUE, !.fin = TRUE, !.pend = <<>>, !.ctxs = {},
              !.owed = @ \ {"op"}, !.todo = cmds]

\* close()
Close ==
    /\ Alive /\ Idle /\ ~py.closed
    /\ py' = Released(py, <<"close", "cleanup">>)
    /\ UNCHANGED <<plan, s, net, h3, link, ended, rxq, dropped, txq, stale>>

\* A command forced into a full ring.
PostBlind ==
    /\ ~Idle
    /\ txq' = Append(txq, Cmd(Head(py.todo)))
    /\ py' = [py EXCEPT !.todo = Tail(@)]
    /\ UNCHANGED <<plan, s, net, h3, link, ended, rxq, dropped, stale>>

\* The next post of the running call.  A full ring leaves it to a retry task
\* (_push_or_retry), except for a late stream's reset, which is given up.
Post ==
    /\ ~Idle
    /\ LET c == Head(py.todo)
       IN  \/ /\ Room
              /\ txq' = Append(txq, IF c = "gone" THEN [t |-> "op", k |-> SessionGone]
                                                 ELSE Cmd(c))
              /\ py' = [py EXCEPT !.todo = Tail(@)]
           \/ /\ ~Room
              /\ py' = [py EXCEPT !.todo = Tail(@), !.owed = @ \cup ({c} \ {"gone"})]
              /\ UNCHANGED txq
    /\ UNCHANGED <<plan, s, net, h3, link, ended, rxq, dropped, stale>>

\* _retry_push; the orphan task's reset waits as long as it takes, the others
\* are given up when MaxTries tries have met a full ring.
RetryPush ==
    /\ Idle
    /\ \E c \in py.owed :
          \/ /\ Room
             /\ txq' = Append(txq, Cmd(c))
             /\ py' = [py EXCEPT !.owed = @ \ {c}, !.tries[c] = 0]
          \/ /\ ~Room /\ c # "op"
             /\ py' = IF py.tries[c] + 1 < MaxTries
                      THEN [py EXCEPT !.tries[c] = @ + 1]
                      ELSE [py EXCEPT !.owed = @ \ {c}, !.tries[c] = 0,
                                      !.lost = TRUE]
             /\ UNCHANGED txq
    /\ UNCHANGED <<plan, s, net, h3, link, ended, rxq, dropped, stale>>

\* detach(), or the dispatcher's release of a session
Detach ==
    /\ Alive /\ Idle /\ py.attached /\ (py.closed \/ plan.early > 0)
    /\ py' = [py EXCEPT !.attached = FALSE]
    /\ UNCHANGED <<plan, s, net, h3, link, ended, rxq, dropped, txq, stale>>

\* WebTransportSessionState.__dealloc__, once neither the dispatcher nor open()
\* nor a retry task holds the session.  A full ring leaks the struct.
Dealloc ==
    /\ Alive /\ Idle /\ ~py.attached /\ ~py.opening /\ py.owed = {}
    /\ py' = [py EXCEPT !.obj = "dropped"]
    /\ IF ~py.opened
       THEN /\ s' = [SessionInit EXCEPT !.mem = "freed"]
            /\ UNCHANGED txq
       ELSE /\ txq' = IF Room THEN Append(txq, Cmd("deregister")) ELSE txq
            /\ UNCHANGED s
    /\ UNCHANGED <<plan, net, h3, link, ended, rxq, dropped, stale>>

------------------------------------------------------------------------------
(* Python: the dispatcher routes one event *)

Event == Head(rxq)
Take == Idle /\ rxq # <<>> /\ rxq' = Tail(rxq)
PyStep == UNCHANGED <<plan, s, net, h3, ended, dropped, txq, stale>>

\* drain_rx frees the link of a LINK_RELEASE, whatever became of the session.
LinkRelease ==
    /\ Take /\ Event.t = "release"
    /\ link' = [link EXCEPT ![Event.d] = "freed"]
    /\ PyStep /\ UNCHANGED py

\* _spawn_server_session
SpawnSession ==
    /\ Take /\ Event.t = "new"
    /\ py' = [py EXCEPT !.obj = "live", !.opened = TRUE, !.attached = TRUE,
                        !.ready = TRUE]
    /\ PyStep /\ UNCHANGED link

\* route_event: no session in the table has that pointer.
Unrouted ==
    /\ Take /\ ~py.attached /\ Event.t \notin {"release", "new"}
    /\ PyStep /\ UNCHANGED <<link, py>>

Routed(t) == Take /\ py.attached /\ Event.t = t /\ PyStep /\ UNCHANGED link

\* _on_event, SESSION_READY and SESSION_REFUSED
OnAnswer ==
    \/ Routed("ready") /\ py' = [py EXCEPT !.ready = TRUE]
    \/ Routed("refused") /\ py' = [py EXCEPT !.ready = TRUE, !.refused = TRUE]

\* _on_session_closed: cleanup, our FIN unless close() sent it, and a server
\* session leaves the dispatcher's table.
SessionClosed ==
    [Released(py, IF py.fin THEN <<"cleanup">> ELSE <<"cleanup", "fin">>)
        EXCEPT !.attached = client]

OnClosed ==
    \/ Routed("closed") /\ py' = SessionClosed
    \/ /\ Routed("cnxclosed")
       /\ py' = IF py.closed THEN py ELSE SessionClosed

\* STREAM_CREATED: a reply consumes the oldest request.  A stream whose caller
\* is gone, or goes before it has seen the reply, or that nobody asked for, is
\* reset by the orphan task, one of a closed session at once; a failure's
\* stream is reset too, unless the session is closed.
Waiting == py.pend # <<>> /\ Head(py.pend) \notin py.gone
Served == IF py.pend = <<>> THEN <<>> ELSE Tail(py.pend)

OnCreated ==
    \/ /\ Routed("created") /\ py.closed
       /\ py' = [py EXCEPT !.todo = <<"gone">>]
    \/ /\ Routed("created") /\ ~py.closed /\ Waiting
       /\ py' = [py EXCEPT !.pend = Served, !.ctxs = @ \cup {Event.d}]
    \/ /\ Routed("created") /\ ~py.closed /\ (~Waiting \/ plan.cancels > 0)
       /\ py' = [py EXCEPT !.pend = Served, !.owed = @ \cup {"op"}]
    \/ Routed("failed") /\ py.closed /\ UNCHANGED py
    \/ /\ Routed("failed") /\ ~py.closed
       /\ py' = [py EXCEPT !.pend = Served,
                           !.owed = IF Event.d = NoStream THEN @
                                    ELSE @ \cup {"op"}]

\* NEW_STREAM: after the close, one more cleanup takes the late stream.
OnNewStream ==
    /\ Routed("newstream")
    /\ py' = IF py.closed THEN [py EXCEPT !.todo = <<"cleanup">>]
             ELSE [py EXCEPT !.ctxs = @ \cup {Event.d}]

\* STREAM_DATA and FIN fill an inbox; RESET, STOP_SENDING and STREAM_DESTROY
\* drop the sc (_drop_stream_tx).
OnStream ==
    \/ (Routed("data") \/ Routed("fin")) /\ UNCHANGED py
    \/ /\ Routed("reset") \/ Routed("stop") \/ Routed("destroy")
       /\ py' = [py EXCEPT !.ctxs = @ \ {Event.d}]

------------------------------------------------------------------------------
Callbacks ==
    \/ ServerBootstrap \/ ServerConnect \/ ConnectAccepted \/ ConnectRefused
    \/ ControlStopSending \/ ControlCapsule \/ ControlFin \/ ControlReset
    \/ ControlFree \/ CnxFreed
    \/ \E d \in Streams : \/ PeerStream(d) \/ StreamData(d) \/ StreamFin(d)
                          \/ StreamReset(d) \/ StreamFree(d)
    \/ \E kind \in {"app", "final"} : CnxClosed(kind)

Command ==
    \/ HandleStale \/ HandleOpen \/ HandleCreate \/ HandleStreamOp
    \/ HandleClose("close") \/ HandleClose("fin")
    \/ HandleCleanup \/ HandleDeregister

Dispatch ==
    \/ LinkRelease \/ SpawnSession \/ Unrouted \/ OnAnswer \/ OnClosed
    \/ OnCreated \/ OnNewStream \/ OnStream

Calls ==
    \/ Open \/ PushOpen \/ OpenFails \/ OpenTimesOut \/ CreateStream
    \/ CreateCancelled \/ StreamOp \/ Close \/ Detach \/ Dealloc

Next ==
    /\ ~stale
    /\ Callbacks \/ AppWakeup \/ Command \/ Dispatch \/ Calls \/ Post \/ RetryPush

\* The worker handles every command (TxEventRing), the loop every event
\* (RxEventQueue) and the rest of a call; picoquic's timer fires, and a
\* connection that is being closed ends.
Fairness ==
    /\ WF_vars(~stale /\ Command)
    /\ WF_vars(~stale /\ (Dispatch \/ Post))
    /\ WF_vars(~stale /\ RetryPush)
    /\ WF_vars(~stale /\ AppWakeup)
    /\ WF_vars(~stale /\ net.closing /\ CnxClosed("final"))

Spec == Init /\ [][Next]_vars
FairSpec == Spec /\ Fairness

------------------------------------------------------------------------------
TypeOK ==
    /\ stale \in BOOLEAN /\ ended \subseteq Streams
    /\ s.mem \in {"no", "live", "freed"}
    /\ {s.ctl, s.id, net.prefix} \subseteq Connects \cup {NoStream}
    /\ s.deadline \in {None, "deadline", "grace"}
    /\ net.cnx \in {None, "up", "app", "down", "gone"}
    /\ net.fins \subseteq {"us", "peer"} /\ net.code \in 0 .. MaxCode \cup {NoStream}
    /\ \A x \in DOMAIN h3 : h3[x] \in {None, "session", "link", "null", "freed"}
    /\ \A d \in Streams : link[d] \in {None, "live", "freed", "leaked"}
    /\ \A c \in Connects : h3[c] # "link"
    /\ Len(txq) <= TxCap
    /\ py.ctxs \subseteq Streams /\ py.owed \subseteq Owable
    /\ \A c \in Owable : py.tries[c] \in 0 .. MaxTries - 1
    /\ "release" \notin dropped

\* Something on the worker can still lead to the session struct.
NamedByH3 ==
    \/ net.prefix # NoStream
    \/ \E x \in DOMAIN h3 : h3[x] \in {"session", "link"}

\* Once the session struct is freed (TX_WT_DEREGISTER, or __dealloc__ of a
\* session that was never opened), no callback and no queued command can reach
\* it: not through the prefix, CONNECT, a data stream or a link, on a
\* connection that still gets callbacks.
FreedSessionUnnamed ==
    s.mem = "freed" => txq = <<>> /\ (Up => ~NamedByH3)

\* The same, for what the prefix, CONNECT, the links and the commands of an
\* opened session name: left aside are a stream whose peer has sent no byte
\* yet, in a session whose CONNECT h3zero freed first, and the commands of a
\* close() before open().
FreedIsUnnamed ==
    (s.mem = "freed" /\ py.opened) =>
        /\ txq = <<>>
        /\ Up => /\ net.prefix = NoStream
                 /\ \A x \in DOMAIN h3 : h3[x] # "link"
                 /\ \A c \in Connects : h3[c] # "session"

\* The cached CONNECT stream, through which TX_WT_CLOSE, _FIN and _DEREGISTER
\* go to h3zero, is never one that h3zero has freed.
ControlLive ==
    (s.mem = "live" /\ s.ctl # NoStream /\ net.cnx # "gone")
        => h3[s.ctl] # "freed"

\* Neither side of the session's links with h3zero dangles.
NoDanglingSession == FreedIsUnnamed /\ ControlLive

\* A link is released once, behind every event that carries its borrowed sc,
\* and freed only then.
Borrows(e, d) == e.d = d /\ e.t \in {"newstream", "data", "fin", "created",
                                     "destroy", "release"}
ReleaseIsLast ==
    \A d \in Streams : \A i \in 1 .. Len(rxq) : Borrows(rxq[i], d) =>
        /\ link[d] \in {"live", "leaked"}
        /\ rxq[i].t = "release" => \A j \in i + 1 .. Len(rxq) : ~Borrows(rxq[j], d)

\* A stream h3zero still routes to its link has a live one, with no release
\* under way.
HookedLinkLive ==
    \A d \in Linked : /\ link[d] = "live"
                      /\ \A i \in 1 .. Len(rxq) : rxq[i] # Ev("release", d)

\* While the dispatcher routes to the session, an sc pointer in its
\* _stream_tx_ctxs names a live context: the event or the close that drops it
\* always comes before the release.
CachedLive == py.attached => \A d \in py.ctxs : link[d] # "freed"

\* A borrowed sc, in the queue, behind h3zero or in Python's map, is live.
BorrowedScLive == ReleaseIsLast /\ HookedLinkLive /\ CachedLive

\* The replies, and how many of q's first i entries are of kinds T.
Replies == {"created", "failed"}
Upto(q, T, i) == Cardinality({j \in 1 .. i : q[j].t \in T})

\* create_stream pairs replies with requests by order alone: the futures
\* waiting are the replies queued and the requests queued, in that order,
\* whoever has been cancelled and whichever streams could not be made, as long
\* as no STREAM_CREATED was lost for want of memory: every later reply then
\* answers the request before its own.
RepliesPair ==
    (/\ py.obj = "live" /\ py.attached /\ ~py.closed /\ ~stale
     /\ dropped \cap Replies = {}) =>
        LET replies == Upto(rxq, Replies, Len(rxq))
        IN  /\ Len(py.pend) = replies + Upto(txq, {"create"}, Len(txq))
            /\ \A i \in 1 .. Len(rxq) : rxq[i].t \in Replies =>
                   py.pend[Upto(rxq, Replies, i)] = rxq[i].k
            /\ \A i \in 1 .. Len(txq) : txq[i].t = "create" =>
                   py.pend[replies + Upto(txq, {"create"}, i)] = txq[i].k

\* A reset's code is never put on a reserved codepoint, and a peer that runs
\* this code reports the one the application gave.
CodesRoundTrip ==
    net.wire # NoStream => ~Reserved(net.wire) /\ CodeFromH3(net.wire) = net.code

\* No memory for what would have told Python of the end: SESSION_CLOSED, and
\* with a client's connection CNX_CLOSED too, or an earlier refusal.
EndLost ==
    \/ "refused" \in dropped
    \/ /\ "closed" \in dropped
       /\ client /\ net.cnx \in {"down", "gone"} => "cnxclosed" \in dropped

\* The worker reports an end once and then falls silent (session_closing): a
\* session that ends, by itself or with its connection, is closed in Python,
\* unless it was refused or taken off the dispatcher, or the very events that
\* report it found no memory.
EndIsReported ==
    (py.obj = "live" /\ py.attached
       /\ (net.cnx \in {"down", "gone"} \/ (s.mem = "live" /\ s.closing)))
        ~> (py.closed \/ py.refused \/ ~py.attached \/ EndLost \/ stale)

\* A client that has closed its session gets its connection closed, by the
\* deadline or by TX_WT_DEREGISTER (aiopquic_wt_maybe_close_cnx,
\* picoquic_close), with or without the peer's FIN.  Left aside: memory that
\* runs out, a command _retry_push gave up (PostsArrive), and a session closed
\* while open() waited for an address, whose OPEN goes out behind its CLOSE.
ConnectionCloses ==
    (client /\ py.closed /\ net.cnx = "up" /\ plan.fails = 0)
        ~> (net.cnx # "up" \/ py.lost \/ py.late \/ stale)

\* Every link of a session that Python has closed is freed, late streams'
\* included, while the session is in the dispatcher's table, unless the
\* cleanup was given up, or memory ran out for the link's LINK_RELEASE
\* ("leaked") or for the NEW_STREAM that would have asked for one more.
LinksReleased ==
    \A d \in Streams :
        (py.closed /\ link[d] = "live")
            ~> (\/ link[d] # "live" \/ ~py.attached \/ py.lost
                \/ "newstream" \in dropped \/ stale)

\* A close runs to its end: the links are freed, the connection closed.
CloseCompletes == ConnectionCloses /\ LinksReleased

\* _push_or_retry: "a close, a cleanup or a FIN is never lost to
\* backpressure": one that met a full ring is posted in the end.
PostsArrive ==
    \A c \in Owable \ {"op"} :
        (c \in py.owed) ~> ((\E i \in 1 .. Len(txq) : txq[i].t = c) \/ stale)
==============================================================================
