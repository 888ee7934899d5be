-------------------------- MODULE WtSession_proofs --------------------------
(***************************************************************************)
(* Two inductive invariants of a WebTransport session: CodesInv, for the   *)
(* code a reset of a stream puts on the wire, for every range of codes of  *)
(* the shape CodesAssumption states; and IInv, for who still names whom    *)
(* and for the pairing of replies with requests, for every set of streams, *)
(* ring size and scenario.                                                 *)
(***************************************************************************)
EXTENDS WtQueues_proofs

\* The arithmetic of the mapping: after q runs of 30 codes the skips have
\* added q codepoints.
LEMMA CodeRange ==
    ASSUME NEW code \in 0 .. MaxCode
    PROVE  /\ CodeToH3(code) \in FirstCode .. LastCode
           /\ CodeToH3(code) = FirstCode + 31 * (code \div 30) + (code % 30)
           /\ code % 30 \in 0 .. 29 /\ code \div 30 \in Nat
           /\ code = 30 * (code \div 30) + (code % 30)
  BY CodesAssumption DEF CodesAssumption, CodeToH3

\* aiopquic_wt_code_to_h3 of an application code is no reserved codepoint.
LEMMA CodeNotReserved ==
    ASSUME NEW code \in 0 .. MaxCode
    PROVE  ~Reserved(CodeToH3(code))
<1> DEFINE q == code \div 30
           r == code % 30
           f == FirstCode \div 31
<1>1. q \in Nat /\ r \in 0 .. 29 /\ CodeToH3(code) = FirstCode + 31 * q + r
  BY CodeRange
<1>2. f \in Nat /\ FirstCode = 31 * f + 3
  BY CodesAssumption DEF CodesAssumption
<1>3. CodeToH3(code) - 33 = 31 * (f + q - 1) + (r + 1)
  BY <1>1, <1>2
<1>4. QED
  BY <1>1, <1>2, <1>3 DEF Reserved

\* aiopquic_wt_code_from_h3 undoes aiopquic_wt_code_to_h3.
LEMMA CodeInverse ==
    ASSUME NEW code \in 0 .. MaxCode
    PROVE  CodeFromH3(CodeToH3(code)) = code
<1> DEFINE q == code \div 30
           r == code % 30
           h == CodeToH3(code)
<1>1. q \in Nat /\ r \in 0 .. 29 /\ code = 30 * q + r
  BY CodeRange
<1>2. h - FirstCode = 31 * q + r
  BY CodeRange, CodesAssumption DEF CodesAssumption
<1>3. (h - FirstCode) \div 31 = q
  BY <1>1, <1>2
<1>4. CodeFromH3(h) = (h - FirstCode) - (h - FirstCode) \div 31
  BY CodeRange, CodeNotReserved, CodesAssumption DEF CodesAssumption, CodeFromH3
<1>5. QED
  BY <1>1, <1>2, <1>3, <1>4

-----------------------------------------------------------------------------

\* The commands that may be queued: a reset carries an application code.
SafeCmd(e) == e.t = "op" => e.k \in 0 .. MaxCode

\* The inductive invariant: every queued reset is safe, and the code on the
\* wire is the mapping of the one that was asked for.
QueuedCodes ==
    /\ \E T : txq \in Seq(T)
    /\ \A i \in 1 .. Len(txq) : SafeCmd(txq[i])
WireCode ==
    /\ {"code", "wire"} \subseteq DOMAIN net
    /\ net.wire # NoStream =>
         net.code \in 0 .. MaxCode /\ net.wire = CodeToH3(net.code)
CodesInv == QueuedCodes /\ WireCode

\* A step leaves the TX ring alone, pops it, or appends a safe command.
Pops == txq # <<>> /\ txq' = Tail(txq)
Appends == \E e : SafeCmd(e) /\ txq' = Append(txq, e)
TxStep == UNCHANGED txq \/ Pops \/ Appends

\* It leaves the code on the wire alone, but for TX_WT_RESET_STREAM and
\* TX_WT_STOP_SENDING.
SameWire ==
    {"code", "wire"} \subseteq DOMAIN net =>
        /\ {"code", "wire"} \subseteq DOMAIN net'
        /\ net'.code = net.code /\ net'.wire = net.wire

\* TX_WT commands, as the code queues them.
LEMMA CmdSafe == \A t : SafeCmd(Cmd(t))
  BY CodesAssumption DEF CodesAssumption, SafeCmd, Cmd

\* Callbacks of picoquic and h3zero post no command and no code.
LEMMA CallbackStep == Callbacks \/ AppWakeup => UNCHANGED txq /\ SameWire
<1> SUFFICES ASSUME Callbacks \/ AppWakeup PROVE UNCHANGED txq /\ SameWire
  OBVIOUS
<1>1. CASE ServerBootstrap BY <1>1 DEF ServerBootstrap, SameWire
<1>2. CASE ServerConnect BY <1>2 DEF ServerConnect, SameWire
<1>3. CASE ConnectAccepted BY <1>3 DEF ConnectAccepted, SameWire
<1>4. CASE ConnectRefused BY <1>4 DEF ConnectRefused, Retries, RetryConnect, SameWire
<1>5. CASE ControlStopSending
  BY <1>5 DEF ControlStopSending, Retries, RetryConnect, SameWire
<1>6. CASE ControlCapsule BY <1>6 DEF ControlCapsule, SameWire
<1>7. CASE ControlFin BY <1>7 DEF ControlFin, SameWire
<1>8. CASE ControlReset BY <1>8 DEF ControlReset, Retries, RetryConnect, SameWire
<1>9. CASE ControlFree BY <1>9 DEF ControlFree, SameWire
<1>10. CASE CnxFreed BY <1>10 DEF CnxFreed, SameWire
<1>11. ASSUME NEW d \in Streams,
              \/ PeerStream(d) \/ StreamData(d) \/ StreamFin(d)
              \/ StreamReset(d) \/ StreamFree(d)
       PROVE  UNCHANGED txq /\ SameWire
  BY <1>11 DEF PeerStream, StreamData, StreamFin, StreamReset, StreamFree, SameWire
<1>12. ASSUME NEW kind, CnxClosed(kind)
       PROVE  UNCHANGED txq /\ SameWire
  BY <1>12 DEF CnxClosed, SameWire
<1>13. CASE AppWakeup BY <1>13 DEF AppWakeup, SameWire
<1>14. QED
  BY <1>1, <1>2, <1>3, <1>4, <1>5, <1>6, <1>7, <1>8, <1>9, <1>10, <1>11, <1>12,
     <1>13 DEF Callbacks

\* A command is popped; all but a stream's reset leave the code alone.
LEMMA CommandStep == Command => Pops /\ (SameWire \/ HandleStreamOp)
<1> SUFFICES ASSUME Command PROVE Pops /\ (SameWire \/ HandleStreamOp)
  OBVIOUS
<1> USE DEF Pops, Pop, Handle, SameWire
<1>1. CASE HandleStale BY <1>1 DEF HandleStale
<1>2. CASE HandleOpen BY <1>2 DEF HandleOpen
<1>3. CASE HandleCreate BY <1>3 DEF HandleCreate
<1>4. CASE HandleStreamOp BY <1>4 DEF HandleStreamOp
<1>5. CASE HandleClose("close") \/ HandleClose("fin") BY <1>5 DEF HandleClose
<1>6. CASE HandleCleanup BY <1>6 DEF HandleCleanup
<1>7. CASE HandleDeregister BY <1>7 DEF HandleDeregister, Deregister
<1>8. QED
  BY <1>1, <1>2, <1>3, <1>4, <1>5, <1>6, <1>7 DEF Command

\* The event loop's steps queue safe commands only.
LEMMA LoopStep ==
    Dispatch \/ Calls \/ Post \/ RetryPush => (UNCHANGED txq \/ Appends) /\ UNCHANGED net
<1> SUFFICES ASSUME Dispatch \/ Calls \/ Post \/ RetryPush
             PROVE  (UNCHANGED txq \/ Appends) /\ UNCHANGED net
  OBVIOUS
<1>1. CASE Dispatch
  BY <1>1 DEF Dispatch, LinkRelease, SpawnSession, Unrouted, OnAnswer, OnClosed,
              OnCreated, OnNewStream, OnStream, Routed, PyStep
<1>2. CASE Open \/ PushOpen \/ OpenFails \/ OpenTimesOut
  BY <1>2, CmdSafe DEF Open, PushOpen, OpenFails, OpenTimesOut, Appends
<1>3. CASE CreateStream
  <2>1. SafeCmd([t |-> "create", k |-> py.made + 1]) BY DEF SafeCmd
  <2>2. QED BY <1>3, <2>1 DEF CreateStream, Appends
<1>4. CASE CreateCancelled BY <1>4 DEF CreateCancelled
<1>5. CASE StreamOp
  <2>1. PICK code \in 0 .. MaxCode : txq' = Append(txq, [t |-> "op", k |-> code])
    BY <1>5 DEF StreamOp
  <2>2. SafeCmd([t |-> "op", k |-> code]) BY DEF SafeCmd
  <2>3. QED BY <1>5, <2>1, <2>2 DEF StreamOp, Appends
<1>6. CASE Close BY <1>6 DEF Close
<1>7. CASE Detach BY <1>7 DEF Detach
<1>8. CASE Dealloc BY <1>8, CmdSafe DEF Dealloc, Appends
<1>9. CASE Post
  <2>1. SafeCmd([t |-> "op", k |-> SessionGone])
    BY CodesAssumption DEF CodesAssumption, SafeCmd
  <2>2. QED BY <1>9, <2>1, CmdSafe DEF Post, Appends
<1>10. CASE RetryPush BY <1>10, CmdSafe DEF RetryPush, Appends
<1>11. QED
  BY <1>1, <1>2, <1>3, <1>4, <1>5, <1>6, <1>7, <1>8, <1>9, <1>10 DEF Calls

-----------------------------------------------------------------------------

\* Popping or appending keeps the queue safe.
LEMMA QueueKept == QueuedCodes /\ TxStep => QueuedCodes'
<1> SUFFICES ASSUME QueuedCodes, TxStep PROVE QueuedCodes'
  OBVIOUS
<1>1. PICK T : txq \in Seq(T) BY DEF QueuedCodes
<1>2. CASE UNCHANGED txq BY <1>2 DEF QueuedCodes
<1>3. CASE Pops
  <2>1. txq' \in Seq(T) BY <1>1, <1>3 DEF Pops
  <2>2. Len(txq') = Len(txq) - 1 /\ \A i \in 1 .. Len(txq') : txq'[i] = txq[i + 1]
    BY <1>1, <1>3 DEF Pops
  <2>3. \A i \in 1 .. Len(txq') : i + 1 \in 1 .. Len(txq) BY <1>1, <2>1, <2>2
  <2>4. \A i \in 1 .. Len(txq') : SafeCmd(txq'[i]) BY <2>2, <2>3 DEF QueuedCodes
  <2>5. QED BY <2>1, <2>4 DEF QueuedCodes
<1>4. CASE Appends
  <2>1. PICK e : SafeCmd(e) /\ txq' = Append(txq, e) BY <1>4 DEF Appends
  <2>2. txq \in Seq(T \cup {e}) BY <1>1
  <2>3. txq' \in Seq(T \cup {e}) BY <2>1, <2>2
  <2>4. /\ Len(txq') = Len(txq) + 1 /\ txq'[Len(txq) + 1] = e
        /\ \A i \in 1 .. Len(txq) : txq'[i] = txq[i]
    BY <2>1, <2>2
  <2>5. \A i \in 1 .. Len(txq') : SafeCmd(txq'[i])
    BY <1>1, <2>1, <2>4 DEF QueuedCodes
  <2>6. QED BY <2>3, <2>5 DEF QueuedCodes
<1>5. QED BY <1>2, <1>3, <1>4 DEF TxStep

\* A reset puts the mapping of a queued code on the wire.
LEMMA WireKept == CodesInv /\ (SameWire \/ HandleStreamOp) => WireCode'
<1> SUFFICES ASSUME CodesInv, SameWire \/ HandleStreamOp PROVE WireCode'
  OBVIOUS
<1>1. CASE SameWire BY <1>1 DEF SameWire, CodesInv, WireCode
<1>2. CASE HandleStreamOp
  <2>1. Head(txq).k \in 0 .. MaxCode
    <3>1. txq # <<>> /\ Head(txq).t = "op"
      BY <1>2 DEF HandleStreamOp, Handle, Pop
    <3>2. 1 \in 1 .. Len(txq) /\ Head(txq) = txq[1]
      BY <3>1 DEF CodesInv, QueuedCodes
    <3>3. QED BY <3>1, <3>2 DEF CodesInv, QueuedCodes, SafeCmd
  <2>2. QED BY <1>2, <2>1 DEF HandleStreamOp, CodesInv, WireCode
<1>3. QED BY <1>1, <1>2

\* Every step keeps the invariant.
LEMMA CodesInvStep == CodesInv /\ [Next]_vars => CodesInv'
<1> SUFFICES ASSUME CodesInv, [Next]_vars PROVE CodesInv'
  OBVIOUS
<1>1. TxStep /\ (SameWire \/ HandleStreamOp)
  <2>1. CASE UNCHANGED vars BY <2>1 DEF vars, TxStep, SameWire
  <2>2. CASE Callbacks \/ AppWakeup BY <2>2, CallbackStep DEF TxStep
  <2>3. CASE Command BY <2>3, CommandStep DEF TxStep
  <2>4. CASE Dispatch \/ Calls \/ Post \/ RetryPush
    BY <2>4, LoopStep DEF TxStep, SameWire
  <2>5. QED BY <2>1, <2>2, <2>3, <2>4 DEF Next
<1>2. QED BY <1>1, QueueKept, WireKept DEF CodesInv

\* The code of a stream's reset never lands on a reserved HTTP/3 codepoint
\* and comes back, at a peer with this code, as the one the application gave
\* (aiopquic_wt_code_to_h3, aiopquic_wt_code_from_h3), whatever the length of
\* the range and wherever in it the code is.
THEOREM ResetCodesRoundTrip == Spec => []CodesRoundTrip
<1>1. Init => CodesInv
  <2> SUFFICES ASSUME Init PROVE CodesInv
    OBVIOUS
  <2>1. txq \in Seq({}) /\ Len(txq) = 0 BY DEF Init
  <2>2. {"code", "wire"} \subseteq DOMAIN net /\ net.wire = NoStream BY DEF Init
  <2>3. QED BY <2>1, <2>2 DEF CodesInv, QueuedCodes, WireCode
<1>2. CodesInv => CodesRoundTrip
  BY CodeNotReserved, CodeInverse DEF CodesInv, WireCode, CodesRoundTrip
<1>3. QED
  BY <1>1, <1>2, CodesInvStep, PTL DEF Spec

-----------------------------------------------------------------------------
(* The session: its inductive invariant.                                   *)

Posts == {"close", "cleanup", "fin", "gone"}
Named == Connects \cup {NoStream}

Session == [mem : {"no", "live", "freed"}, at : BOOLEAN, ctl : Named,
            id : Named, ready : BOOLEAN, closing : BOOLEAN, finSent : BOOLEAN,
            peerFin : BOOLEAN, deadline : {None, "deadline", "grace"},
            cleanup : BOOLEAN, retry : BOOLEAN]
Net == [cnx : {None, "up", "app", "down", "gone"}, closing : BOOLEAN,
        prefix : Named, answered : BOOLEAN, fins : SUBSET {"us", "peer"},
        code : (0 .. MaxCode) \cup {NoStream}, wire : Int]
Object == [obj : {"no", "live", "dropped"}, opening : BOOLEAN,
           opened : BOOLEAN, late : BOOLEAN,
           attached : BOOLEAN, ready : BOOLEAN, refused : BOOLEAN,
           closed : BOOLEAN, fin : BOOLEAN, pend : Seq(Nat),
           gone : SUBSET Nat, ctxs : SUBSET Streams, todo : Seq(Posts),
           owed : SUBSET Owable, tries : [Owable -> 0 .. MaxTries - 1],
           lost : BOOLEAN, made : Nat]
Hooks == {None, "session", "link", "null", "freed"}

Typed ==
    /\ plan \in Scenarios /\ s \in Session /\ net \in Net
    /\ h3 \in [Connects \cup Streams -> Hooks]
    /\ \A c \in Connects : h3[c] # "link"
    /\ link \in [Streams -> {None, "live", "freed", "leaked"}]
    /\ ended \subseteq Streams /\ stale \in BOOLEAN
    /\ rxq \in Seq(Events) /\ Formed(rxq)
    /\ dropped \subseteq Kinds \ {"release"}
    /\ txq \in Seq(Commands) /\ Len(txq) <= TxCap
    /\ py \in Object

\* Nothing has happened yet between the client's session and h3zero.
Fresh ==
    /\ net.cnx = None /\ net.prefix = NoStream /\ net.fins = {}
    /\ s.ctl = NoStream /\ ~s.at /\ s.mem # "no"
    /\ \A x \in DOMAIN h3 : h3[x] = None
    /\ rxq = << >>

\* The Python object: what it has before open() and during it, after close()
\* and when it is gone.
Owner ==
    /\ py.obj = "no" => ~client /\ ~py.opened /\ ~py.closed /\ txq = << >>
    /\ py.attached => py.obj = "live" /\ (client \/ py.opened)
    /\ py.opening => client /\ py.obj = "live" /\ ~py.opened
    /\ py.obj # "live" => py.todo = << >> /\ py.owed = {}
    /\ ~py.opened => ~py.ready /\ py.ctxs = {} /\ py.pend = << >>
    /\ py.closed => py.ctxs = {}
    /\ client /\ ~py.opened => Fresh
    /\ ~client => (py.opened <=> py.obj # "no")

\* What a session that was never opened may ask for, and a closed one only.
Idling == {"close", "cleanup", "op"}
MayAsk(c) ==
    /\ ~py.opened => c \in Idling
    /\ c = "cleanup" => py.closed

\* The commands: DEREGISTER is last; OPEN finds the session as it was made,
\* and ahead of it is nothing but what a session without a connection ignores.
Asked ==
    /\ \A i \in 1 .. Len(txq) :
           /\ MayAsk(txq[i].t)
           /\ txq[i].t = "open" =>
                /\ client /\ Fresh /\ s.mem = "live"
                /\ \A j \in 1 .. Len(txq) : j < i => txq[j].t \in Idling
           /\ txq[i].t = "deregister" => i = Len(txq) /\ py.obj = "dropped"
    /\ \A i \in 1 .. Len(py.todo) : MayAsk(py.todo[i])
    /\ \A c \in py.owed : MayAsk(c)

\* A server's session is announced once, and freed by its object only.
News ==
    /\ \A i \in 1 .. Len(rxq) : rxq[i].t = "new" =>
           /\ py.obj = "no" /\ s.mem = "live"
           /\ \A j \in 1 .. Len(rxq) : rxq[j].t = "new" => i = j
    /\ s.mem = "no" => ~client /\ py.obj = "no" /\ rxq = << >>
    /\ s.mem = "freed" => py.obj = "dropped"

\* The session's CONNECT stream and prefix, as long as there is a session.
Hooked ==
    /\ s.mem = "no" => /\ net.prefix = NoStream /\ s.ctl = NoStream /\ ~s.at
                       /\ \A x \in DOMAIN h3 : h3[x] = None
    /\ s.mem = "live" =>
         /\ Up => s.at
         /\ s.ctl # NoStream =>
              /\ s.ctl = s.id
              /\ \/ h3[s.id] = "session"
                 \/ h3[s.id] = "null" /\ client /\ "peer" \notin net.fins
         /\ ~client => /\ Up => net.prefix # NoStream
                       /\ s.ctl # NoStream => Up
         /\ Up => \A c \in Connects : h3[c] = "session" => s.ctl = c
    /\ ~client => /\ net.cnx # "app" /\ ~s.retry
                  /\ net.cnx = None => s.mem = "no"

\* The object's map of streams is in use, or will be.
Listening == (py.attached \/ ~py.opened) /\ ~py.closed

Links ==
    \A d \in Streams :
        /\ BorrowedIn(rxq, d) => link[d] \in {"live", "leaked"}
        /\ LastRelease(rxq, d) /\ LastDestroy(rxq, d)
        /\ h3[d] = "link" => link[d] = "live" /\ ~ReleasedIn(rxq, d)
        /\ h3[d] \in {None, "session"} => link[d] = None
        /\ Listening => DroppedIn(rxq, d, py.ctxs)
        /\ py.attached /\ d \in py.ctxs => link[d] # "freed"

\* The futures are the replies and the requests under way, until a reply is
\* lost.
Paired ==
    /\ (Listening /\ ~stale /\ dropped \cap Replies = {}) =>
        LET replies == Upto(rxq, Replies, Len(rxq))
        IN  /\ Len(py.pend) = replies + Upto(txq, {"create"}, Len(txq))
            /\ \A i \in 1 .. Len(rxq) : rxq[i].t \in Replies =>
                   py.pend[Upto(rxq, Replies, i)] = rxq[i].k
            /\ \A i \in 1 .. Len(txq) : txq[i].t = "create" =>
                   py.pend[replies + Upto(txq, {"create"}, i)] = txq[i].k

IInv == /\ CodesInv /\ Typed /\ Owner /\ Asked /\ News /\ Hooked
        /\ FreedIsUnnamed /\ Links /\ Paired

-----------------------------------------------------------------------------
(* What the worker does to the RX queue and to the links.                  *)

\* Entries r and the step say nothing wrong of stream d: what borrows its sc
\* has a live link, made just now or hooked; what gives the sc to Python
\* comes with the link; the last event of a stream comes before its release.
StreamStep(r, d) ==
    /\ BorrowedIn(r, d) => /\ link'[d] \in {"live", "leaked"}
                           /\ h3[d] \in {None, "session", "link"}
    /\ AddedIn(r, d) => h3[d] \in {None, "session"}
    /\ LastRelease(r, d) /\ LastDestroy(r, d) /\ (Listening => Led(r, d))
    /\ h3'[d] = "link" => /\ link'[d] = "live" /\ ~ReleasedIn(r, d)
                          /\ h3[d] \in {None, "session", "link"}
    /\ h3'[d] \in {None, "session"} =>
           h3[d] \in {None, "session"} /\ link'[d] = link[d]
    /\ \/ link'[d] = link[d]
       \/ h3[d] = "link" /\ link'[d] = "leaked"
       \/ h3[d] \in {None, "session"} /\ link'[d] = "live"

\* The worker appends r.
Grew(r) ==
    /\ r \in Seq(Events) /\ Formed(r) /\ rxq' = rxq \o r
    /\ \A d \in Streams : StreamStep(r, d)

\* None of its steps harms a borrowed sc.
LEMMA LinksGrow ==
    ASSUME Typed, Links, NEW r, Grew(r), UNCHANGED py
    PROVE  Links'
<1> SUFFICES ASSUME NEW d \in Streams
             PROVE  (/\ BorrowedIn(rxq, d) => link[d] \in {"live", "leaked"}
                     /\ LastRelease(rxq, d) /\ LastDestroy(rxq, d)
                     /\ h3[d] = "link" => link[d] = "live" /\ ~ReleasedIn(rxq, d)
                     /\ h3[d] \in {None, "session"} => link[d] = None
                     /\ Listening => DroppedIn(rxq, d, py.ctxs)
                     /\ py.attached /\ d \in py.ctxs => link[d] # "freed")'
  BY DEF Links
<1>1. /\ BorrowedIn(rxq, d) => link[d] \in {"live", "leaked"}
      /\ LastRelease(rxq, d) /\ LastDestroy(rxq, d)
      /\ h3[d] = "link" => link[d] = "live" /\ ~ReleasedIn(rxq, d)
      /\ h3[d] \in {None, "session"} => link[d] = None
      /\ Listening => DroppedIn(rxq, d, py.ctxs)
      /\ py.attached /\ d \in py.ctxs => link[d] # "freed"
  BY DEF Links
<1>2. rxq \in Seq(Events) /\ r \in Seq(Events) /\ rxq' = rxq \o r /\ StreamStep(r, d)
  BY DEF Typed, Grew
<1>3. /\ BorrowedIn(rxq', d) <=> BorrowedIn(rxq, d) \/ BorrowedIn(r, d)
      /\ ReleasedIn(rxq', d) <=> ReleasedIn(rxq, d) \/ ReleasedIn(r, d)
      /\ (/\ LastRelease(rxq, d) /\ LastRelease(r, d)
          /\ ~(ReleasedIn(rxq, d) /\ BorrowedIn(r, d))) => LastRelease(rxq', d)
      /\ (/\ LastDestroy(rxq, d) /\ LastDestroy(r, d)
          /\ ~(BorrowedIn(rxq, d) /\ AddedIn(r, d))) => LastDestroy(rxq', d)
      /\ DroppedIn(rxq, d, py.ctxs) /\ Led(r, d)
             => DroppedIn(rxq', d, py.ctxs)
  BY <1>2, StreamConcat
<1>4. ReleasedIn(rxq, d) => BorrowedIn(rxq, d)
  BY DEF ReleasedIn, BorrowedIn, Is, Borrows
<1>5. Listening' <=> Listening
  BY DEF Listening
<1>6. /\ BorrowedIn(rxq', d) => link'[d] \in {"live", "leaked"}
      /\ LastRelease(rxq', d) /\ LastDestroy(rxq', d)
  BY <1>1, <1>2, <1>3, <1>4 DEF StreamStep, None
<1>7. /\ h3'[d] = "link" => link'[d] = "live" /\ ~ReleasedIn(rxq', d)
      /\ h3'[d] \in {None, "session"} => link'[d] = None
  BY <1>1, <1>2, <1>3, <1>4 DEF StreamStep, None
<1>8. /\ Listening' => DroppedIn(rxq', d, py'.ctxs)
      /\ py'.attached /\ d \in py'.ctxs => link'[d] # "freed"
  BY <1>1, <1>2, <1>3, <1>5 DEF StreamStep, None
<1> QED
  BY <1>6, <1>7, <1>8

\* Entries that concern no link, and announce no session.
Calm(r) ==
    /\ r \in Seq(Events) /\ Formed(r)
    /\ \A i \in 1 .. Len(r) :
           r[i].t \in {"ready", "refused", "closed", "cnxclosed", "reset", "stop"}
\* The step adds such entries, and hooks no stream to a link.
CalmStep ==
    /\ \E r : Calm(r) /\ rxq' = rxq \o r
    /\ UNCHANGED link
    /\ \A d \in Streams : \/ h3'[d] = h3[d] \/ h3'[d] \in {"null", "freed"}
                          \/ h3[d] = None /\ h3'[d] = "session"

LEMMA CalmNone == Calm(<< >>)
  BY DEF Calm, Formed
LEMMA CalmOne ==
    ASSUME NEW t, NEW d,
           \/ t \in {"ready", "refused", "closed", "cnxclosed", "stop"} /\ d = NoStream
           \/ t \in {"reset", "stop"} /\ d \in Streams
    PROVE  Calm(<<Ev(t, d)>>)
<1> DEFINE e == Ev(t, d)
<1>1. e \in Events /\ e.t = t /\ e.d = d
  BY DEF Ev, Events, Kinds, Plain
<1>2. e.t \in {"ready", "refused", "closed", "cnxclosed", "reset", "stop"}
  BY <1>1
<1>3. e.t \notin Plain \cup {"failed", "stop"} => e.d \in Streams
  BY <1>1 DEF Plain
<1> HIDE DEF e
<1>4. <<e>> \in Seq(Events) /\ Len(<<e>>) = 1 /\ <<e>>[1] = e
  BY <1>1
<1>5. \A i \in 1 .. Len(<<e>>) : <<e>>[i] = e
  BY <1>4
<1> QED
  BY <1>2, <1>3, <1>4, <1>5 DEF Calm, Formed, e
LEMMA CalmTwo ==
    ASSUME NEW q, NEW r, Calm(q), Calm(r)
    PROVE  Calm(q \o r)
<1>1. q \in Seq(Events) /\ r \in Seq(Events) /\ Formed(q) /\ Formed(r)
  BY DEF Calm
<1>2. Formed(q \o r) /\ q \o r \in Seq(Events)
  BY <1>1, FormedConcat, Concat
<1>3. \A i \in 1 .. Len(q \o r) :
         (q \o r)[i].t \in {"ready", "refused", "closed", "cnxclosed", "reset", "stop"}
  BY <1>1, Concat DEF Calm
<1> QED
  BY <1>2, <1>3 DEF Calm
LEMMA EndCalm == Calm(EndEvent)
  BY CalmNone, CalmOne DEF EndEvent, About

\* A push adds its entries, or those of them there is memory for.
LEMMA PushIs ==
    ASSUME Typed, NEW q \in Seq(Events), NEW r \in Seq(Events), Push(q, r)
    PROVE  \E a, b : /\ a = q \/ a = << >>
                     /\ b = r \/ b = << >>
                     /\ a \in Seq(Events) /\ b \in Seq(Events)
                     /\ rxq' = rxq \o (a \o b) /\ Lost(q \o r, a \o b)
<1>1. PICK a \in Pushed(q), b \in Pushed(r) :
         rxq' = (rxq \o a) \o b /\ Lost(q \o r, a \o b)
  BY DEF Push
<1>2. (a = q \/ a = << >>) /\ (b = r \/ b = << >>)
  BY DEF Pushed
<1>3. a \in Seq(Events) /\ b \in Seq(Events) /\ rxq \in Seq(Events)
  <2>1. << >> \in Seq(Events)
    OBVIOUS
  <2> QED
    BY <1>2, <2>1, Zenon DEF Typed
<1>4. (rxq \o a) \o b = rxq \o (a \o b)
  BY <1>3
<1> QED
  BY <1>1, <1>2, <1>3, <1>4

LEMMA PushCalm ==
    ASSUME Typed, NEW q, NEW r, Calm(q), Calm(r), Push(q, r)
    PROVE  \E x : Calm(x) /\ rxq' = rxq \o x
<1>1. q \in Seq(Events) /\ r \in Seq(Events)
  BY DEF Calm
<1>2. PICK a, b : /\ a = q \/ a = << >>
                  /\ b = r \/ b = << >>
                  /\ a \in Seq(Events) /\ b \in Seq(Events)
                  /\ rxq' = rxq \o (a \o b) /\ Lost(q \o r, a \o b)
  BY <1>1, PushIs
<1>3. Calm(a) /\ Calm(b)
  BY <1>2, CalmNone
<1>4. Calm(a \o b)
  BY <1>3, CalmTwo
<1> QED
  BY <1>2, <1>4

LEMMA TellCalm ==
    ASSUME Typed, NEW e, Calm(<<e>>), Tell(e)
    PROVE  \E x : Calm(x) /\ rxq' = rxq \o x
  BY CalmNone, PushCalm DEF Tell

\* One entry arrives, or is lost.
LEMMA TellIs ==
    ASSUME Typed, NEW e \in Events, Tell(e)
    PROVE  \/ rxq' = rxq \o <<e>> /\ dropped' = dropped
           \/ rxq' = rxq /\ dropped' = dropped \cup {e.t}
<1> DEFINE q == <<e>>
           r == << >>
<1>1. q \in Seq(Events) /\ r \in Seq(Events) /\ rxq \in Seq(Events)
  BY DEF Typed
<1>2. TypesOf(q) = {e.t} /\ TypesOf(r) = {} /\ q \o r = q /\ r \o r = r
  BY DEF TypesOf
<1> HIDE DEF q, r
<1>3. PICK a, b : /\ a = q \/ a = << >>
                  /\ b = r \/ b = << >>
                  /\ rxq' = rxq \o (a \o b) /\ Lost(q \o r, a \o b)
  BY <1>1, PushIs DEF Tell, q, r
<1>4. b = r /\ (a = q \/ a = r)
  BY <1>3 DEF r
<1>5. CASE a = q
  BY <1>2, <1>3, <1>4, <1>5 DEF Lost, q
<1>6. CASE a = r
  <2>1. rxq \o r = rxq
    BY <1>1 DEF r
  <2> QED
    BY <1>2, <1>3, <1>4, <1>6, <2>1 DEF Lost
<1> QED
  BY <1>4, <1>5, <1>6

LEMMA CalmKept ==
    ASSUME Typed, NEW r, Calm(r), rxq' = rxq \o r, UNCHANGED link,
           \A d \in Streams : \/ h3'[d] = h3[d] \/ h3'[d] \in {"null", "freed"}
                              \/ h3[d] = None /\ h3'[d] = "session",
           Links
    PROVE  Grew(r)
<1>1. ASSUME NEW d \in Streams PROVE StreamStep(r, d)
  <2>1. ~BorrowedIn(r, d)
    BY DEF Calm, BorrowedIn, Borrows
  <2>2. /\ ~ReleasedIn(r, d) /\ ~AddedIn(r, d)
        /\ LastRelease(r, d) /\ LastDestroy(r, d) /\ Led(r, d)
    BY <2>1, Silent
  <2>3. /\ h3[d] = "link" => link[d] = "live"
        /\ link'[d] = link[d]
    BY DEF Links
  <2>4. \/ h3'[d] = h3[d] \/ h3'[d] \in {"null", "freed"}
        \/ h3[d] = None /\ h3'[d] = "session"
    OBVIOUS
  <2>5. h3'[d] = "link" => h3[d] = "link"
    BY <2>4
  <2>6. h3'[d] \in {None, "session"} => h3[d] \in {None, "session"}
    BY <2>4 DEF None
  <2> QED
    BY <2>1, <2>2, <2>3, <2>5, <2>6 DEF StreamStep
<1> QED
  BY <1>1 DEF Grew, Calm

\* An entry at the end, and no entry.
LEMMA Appended ==
    ASSUME Typed
    PROVE  /\ rxq = rxq \o << >>
           /\ \A e \in Events : Append(rxq, e) = rxq \o <<e>>
  BY DEF Typed

\* Most callbacks are of that kind.
LEMMA CalmCallbacks ==
    ASSUME Typed,
           \/ ServerBootstrap \/ ConnectAccepted \/ ConnectRefused
           \/ ControlStopSending \/ ControlCapsule \/ ControlFin \/ ControlReset
           \/ ControlFree \/ CnxFreed \/ AppWakeup
           \/ \E d \in Streams : PeerStream(d) \/ StreamReset(d)
    PROVE  CalmStep
<1>1. /\ \A t \in {"ready", "refused", "stop"} : Calm(<<About(t)>>)
      /\ \A t \in {"reset", "stop"} : \A d \in Streams : Calm(<<Ev(t, d)>>)
      /\ Calm(<< >>) /\ rxq = rxq \o << >> /\ Calm(EndEvent)
  BY Appended, CalmNone, CalmOne, EndCalm DEF About
<1>2. /\ h3 \in [Connects \cup Streams -> Hooks]
      /\ Connect \notin Streams /\ Retry \notin Streams
  BY WtAssumption DEF Typed, WtAssumption, Connect, Retry
<1>3. ASSUME \/ rxq' = rxq
             \/ \E e : Calm(<<e>>) /\ Tell(e)
             \/ Push(EndEvent, << >>)
      PROVE  \E r : Calm(r) /\ rxq' = rxq \o r
  BY <1>1, <1>3, PushCalm, TellCalm
<1>4. CASE ServerBootstrap \/ CnxFreed \/ AppWakeup
  BY <1>3, <1>4 DEF ServerBootstrap, CnxFreed, AppWakeup, CalmStep
<1>5. CASE ConnectAccepted
  <2>1. Tell(About("ready")) /\ Calm(<<About("ready")>>)
    BY <1>1, <1>5 DEF ConnectAccepted
  <2> QED
    BY <1>3, <1>5, <2>1 DEF ConnectAccepted, CalmStep
<1>6. ASSUME Retries, UNCHANGED link, ControlCalled
      PROVE  CalmStep
  <2>1. PICK out : RetryConnect(out)
    BY <1>6 DEF Retries
  <2>2. \E r : Calm(r) /\ rxq' = rxq \o r
    <3>1. rxq' = rxq \/ Tell(About("refused"))
      BY <2>1 DEF RetryConnect
    <3> QED
      BY <1>1, <1>3, <3>1
  <2>3. \A d \in Streams : h3'[d] = h3[d]
    <3>1. s.id \in Connects
      BY <1>6 DEF Typed, Session, Named, ControlCalled
    <3>2. \E v : h3' = [h3 EXCEPT ![s.id] = "null", ![Retry] = v]
      BY <2>1 DEF RetryConnect
    <3> QED
      BY <1>2, <3>1, <3>2 DEF Connects
  <2> QED
    BY <1>6, <2>2, <2>3 DEF CalmStep
<1>7. CASE ConnectRefused
  <2>1. CASE Retries
    BY <1>6, <1>7, <2>1 DEF ConnectRefused
  <2>2. CASE Tell(About("refused")) /\ UNCHANGED h3
    BY <1>1, <1>3, <1>7, <2>2 DEF ConnectRefused, CalmStep
  <2> QED
    BY <1>7, <2>1, <2>2 DEF ConnectRefused
<1>8. CASE ControlStopSending
  <2>1. CASE Retries
    BY <1>6, <1>8, <2>1 DEF ControlStopSending
  <2>2. CASE Tell(About("stop")) /\ UNCHANGED h3
    BY <1>1, <1>3, <1>8, <2>2 DEF ControlStopSending, CalmStep
  <2> QED
    BY <1>8, <2>1, <2>2 DEF ControlStopSending
<1>9. CASE ControlCapsule \/ ControlFin
  <2>1. \E r : Calm(r) /\ rxq' = rxq \o r
    BY <1>3, <1>9 DEF ControlCapsule, ControlFin
  <2> QED
    BY <1>9, <2>1 DEF ControlCapsule, ControlFin, CalmStep
<1>10. CASE ControlReset
  <2>1. CASE Retries
    BY <1>6, <1>10, <2>1 DEF ControlReset
  <2>2. CASE Push(EndEvent, << >>) /\ UNCHANGED h3
    <3>1. \E r : Calm(r) /\ rxq' = rxq \o r
      BY <1>3, <2>2
    <3> QED
      BY <1>10, <2>2, <3>1 DEF ControlReset, CalmStep
  <2> QED
    BY <1>10, <2>1, <2>2 DEF ControlReset
<1>11. CASE ControlFree
  BY <1>2, <1>3, <1>11 DEF ControlFree, CalmStep
<1>12. ASSUME NEW d \in Streams, PeerStream(d) PROVE CalmStep
  BY <1>2, <1>3, <1>12 DEF PeerStream, FirstUnused, CalmStep
<1>13. ASSUME NEW d \in Streams, StreamReset(d) PROVE CalmStep
  <2>1. Tell(Ev("reset", d)) \/ Tell(Ev("stop", d))
    BY <1>13 DEF StreamReset
  <2>2. \E r : Calm(r) /\ rxq' = rxq \o r
    BY <1>1, <1>3, <2>1
  <2> QED
    BY <1>13, <2>2 DEF StreamReset, CalmStep
<1> QED
  BY <1>4, <1>5, <1>7, <1>8, <1>9, <1>10, <1>11, <1>12, <1>13

\* An entry t of stream d: no last event and no release.
LEMMA OneAbout ==
    ASSUME NEW t \in {"newstream", "data", "fin"}, NEW d \in Streams
    PROVE  /\ <<Ev(t, d)>> \in Seq(Events) /\ Formed(<<Ev(t, d)>>)
           /\ Ev(t, d) \in Events
           /\ \A i \in 1 .. Len(<<Ev(t, d)>>) : <<Ev(t, d)>>[i] = Ev(t, d)
           /\ Ev(t, d).t = t /\ Ev(t, d).d = d
<1> DEFINE e == Ev(t, d)
<1>1. e \in Events /\ e.t = t /\ e.d = d
  BY DEF Ev, Events, Kinds
<1> HIDE DEF e
<1>2. <<e>> \in Seq(Events) /\ \A i \in 1 .. Len(<<e>>) : <<e>>[i] = e
  BY <1>1
<1>3. Formed(<<e>>)
  BY <1>1, <1>2 DEF Formed
<1> QED
  BY <1>1, <1>2, <1>3 DEF e

\* The bytes and the FIN of a stream, with the event that announces it.
LEMMA BytesGrew ==
    ASSUME Typed, Links, NEW d \in Streams, StreamData(d) \/ StreamFin(d)
    PROVE  \E r : /\ Grew(r)
                  /\ \A i \in 1 .. Len(r) : r[i].t \in {"newstream", "data", "fin"}
<1> DEFINE n == NewStream(d)
           Bytes(b) == /\ b \in Seq(Events) /\ Formed(b)
                       /\ \A i \in 1 .. Len(b) : b[i].t \in {"data", "fin"} /\ b[i].d = d
<1>1. /\ n \in Seq(Events) /\ Formed(n)
      /\ \A i \in 1 .. Len(n) : n[i] = Ev("newstream", d) /\ h3[d] = "session"
  BY OneAbout DEF NewStream, Formed
<1>2. Bytes(<< >>) /\ \A t \in {"data", "fin"} : Bytes(<<Ev(t, d)>>)
  <2>1. Bytes(<< >>)
    BY DEF Formed
  <2>2. ASSUME NEW t \in {"data", "fin"} PROVE Bytes(<<Ev(t, d)>>)
    <3>1. /\ <<Ev(t, d)>> \in Seq(Events) /\ Formed(<<Ev(t, d)>>)
          /\ Ev(t, d).t = t /\ Ev(t, d).d = d
          /\ \A i \in 1 .. Len(<<Ev(t, d)>>) : <<Ev(t, d)>>[i] = Ev(t, d)
      BY OneAbout
    <3>2. \A i \in 1 .. Len(<<Ev(t, d)>>) :
             <<Ev(t, d)>>[i].t \in {"data", "fin"} /\ <<Ev(t, d)>>[i].d = d
      BY <3>1
    <3> QED
      BY <3>1, <3>2
  <2> QED
    BY <2>1, <2>2
<1> HIDE DEF Bytes
<1>3. PICK a, b : (a = n \/ a = << >>) /\ Bytes(b) /\ rxq' = rxq \o (a \o b)
  <2>1. PICK y : Bytes(y) /\ Push(n, y)
    BY <1>2 DEF StreamData, StreamFin
  <2>2. y \in Seq(Events) /\ n \in Seq(Events)
    BY <1>1, <2>1 DEF Bytes
  <2> HIDE DEF n
  <2>3. PICK a, b : /\ a = n \/ a = << >>
                    /\ b = y \/ b = << >>
                    /\ a \in Seq(Events) /\ b \in Seq(Events)
                    /\ rxq' = rxq \o (a \o b) /\ Lost(n \o y, a \o b)
    BY <2>1, <2>2, PushIs
  <2>4. Bytes(b)
    BY <1>2, <2>1, <2>3
  <2> QED
    BY <2>3, <2>4, Zenon
<1> DEFINE r == a \o b
<1>4. /\ b \in Seq(Events) /\ Formed(b)
       /\ \A i \in 1 .. Len(b) : b[i].t \in {"data", "fin"} /\ b[i].d = d
  BY <1>3 DEF Bytes
<1> HIDE DEF n
<1>a. /\ a \in Seq(Events) /\ Formed(a)
      /\ \A i \in 1 .. Len(a) : a[i] = Ev("newstream", d) /\ h3[d] = "session"
  <2>1. CASE a = n
    BY <1>1, <2>1, Zenon
  <2>2. CASE a = << >>
    BY <2>2 DEF Formed
  <2> QED
    BY <1>3, <2>1, <2>2
<1>5. /\ r \in Seq(Events) /\ Formed(r)
      /\ \A i \in 1 .. Len(r) :
             \/ r[i] = Ev("newstream", d) /\ h3[d] = "session"
             \/ r[i].t \in {"data", "fin"} /\ r[i].d = d
  BY <1>a, <1>4, Concat, FormedConcat
<1>6. rxq' = rxq \o r
  BY <1>3
<1>7. Ev("newstream", d).t = "newstream" /\ Ev("newstream", d).d = d
  BY OneAbout
<1> HIDE DEF r
<1>8. \A i \in 1 .. Len(r) : r[i].t \in {"newstream", "data", "fin"} /\ r[i].d = d
  BY <1>5, <1>7
<1>9. /\ h3[d] \in {"session", "link"}
      /\ h3' = [h3 EXCEPT ![d] = "link"]
      /\ link' = IF h3[d] = "session" THEN [link EXCEPT ![d] = "live"] ELSE link
  BY DEF StreamData, StreamFin, StreamCalled, EnsureLink
<1>10. /\ h3 \in [Connects \cup Streams -> Hooks]
      /\ link \in [Streams -> {None, "live", "freed", "leaked"}]
  BY DEF Typed
<1>11. ASSUME NEW x \in Streams PROVE StreamStep(r, x)
  <2>1. /\ ~ReleasedIn(r, x) /\ LastRelease(r, x) /\ LastDestroy(r, x)
        /\ Led(r, x)
    <3>1. \A i \in 1 .. Len(r) : r[i].t \notin {"release", "destroy"}
      BY <1>8
    <3> QED
      BY <3>1, Endless
  <2>2. CASE x # d
    <3>1. ~BorrowedIn(r, x) /\ ~AddedIn(r, x)
      BY <1>8, <2>2 DEF BorrowedIn, AddedIn, Borrows, Adds
    <3>2. h3'[x] = h3[x] /\ link'[x] = link[x]
      BY <1>9, <1>10, <2>2
    <3>3. h3[x] = "link" => link[x] = "live"
      BY DEF Links
    <3> QED
      BY <2>1, <3>1, <3>2, <3>3 DEF StreamStep
  <2>3. CASE x = d
    <3>1. h3[d] = "link" => link[d] = "live"
      BY DEF Links
    <3>2. h3'[d] = "link" /\ link'[d] = "live"
      BY <1>9, <1>10, <3>1
    <3>3. AddedIn(r, d) => h3[d] = "session"
      BY <1>5 DEF AddedIn, Adds
    <3>4. link'[d] = link[d] \/ h3[d] = "session"
      BY <1>9
    <3> QED
      BY <1>9, <2>1, <2>3, <3>2, <3>3, <3>4 DEF StreamStep, None
  <2> QED
    BY <2>2, <2>3
<1>12. Grew(r)
  BY <1>5, <1>6, <1>11 DEF Grew
<1> QED
  BY <1>8, <1>12

\* Led of two queues in a row.
LEMMA LedConcat ==
    ASSUME NEW q \in Seq(Events), NEW r \in Seq(Events), NEW d, Led(q, d), Led(r, d)
    PROVE  Led(q \o r, d)
<1> DEFINE c == q \o r
           n == Len(q)
<1>1. /\ Len(c) = n + Len(r) /\ n \in Nat /\ Len(r) \in Nat
      /\ \A i \in 1 .. n : c[i] = q[i] /\ i \in 1 .. Len(c)
      /\ \A i \in 1 .. Len(r) : c[n + i] = r[i] /\ n + i \in 1 .. Len(c)
      /\ \A i \in 1 .. Len(c) :
             i \in 1 .. n \/ (i > n /\ i - n \in 1 .. Len(r) /\ c[i] = r[i - n])
  BY Concat
<1> HIDE DEF c, n
<1> SUFFICES ASSUME NEW i \in 1 .. Len(c), Is(c[i], "release", d)
             PROVE  \E j \in 1 .. Len(c) : j < i /\ Is(c[j], "destroy", d)
  BY DEF Led, c
<1>2. CASE i \in 1 .. n
  <2>1. Is(q[i], "release", d)
    BY <1>1, <1>2
  <2>2. PICK j \in 1 .. n : j < i /\ Is(q[j], "destroy", d)
    BY <1>2, <2>1 DEF Led, n
  <2> QED
    BY <1>1, <2>2
<1>3. CASE i \notin 1 .. n
  <2>1. i > n /\ i - n \in 1 .. Len(r) /\ Is(r[i - n], "release", d)
    BY <1>1, <1>3
  <2>2. PICK j \in 1 .. Len(r) : j < i - n /\ Is(r[j], "destroy", d)
    BY <2>1 DEF Led
  <2>3. n + j \in 1 .. Len(c) /\ n + j < i /\ Is(c[n + j], "destroy", d)
    BY <1>1, <2>1, <2>2
  <2> QED
    BY <2>3
<1> QED
  BY <1>2, <1>3

\* Streams that end: entries r about D alone, all of them hooked so far.
LEMMA EndsGrew ==
    ASSUME Typed, Links, NEW D \in SUBSET Streams, \A d \in D : h3[d] = "link",
           NEW r \in Seq(Events), Formed(r), rxq' = rxq \o r,
           \A d \in Streams :
               /\ d \notin D => ~BorrowedIn(r, d)
               /\ LastRelease(r, d) /\ LastDestroy(r, d) /\ ~AddedIn(r, d)
               /\ Listening => Led(r, d)
               /\ link'[d] = link[d] \/ (d \in D /\ link'[d] = "leaked")
               /\ h3'[d] = h3[d] \/ h3'[d] \in {"null", "freed"}
               /\ d \in D => h3'[d] \in {"null", "freed"}
    PROVE  Grew(r)
<1>1. ASSUME NEW d \in Streams PROVE StreamStep(r, d)
  <2>1. /\ d \notin D => ~BorrowedIn(r, d)
        /\ LastRelease(r, d) /\ LastDestroy(r, d) /\ ~AddedIn(r, d)
        /\ Listening => Led(r, d)
        /\ link'[d] = link[d] \/ (d \in D /\ link'[d] = "leaked")
        /\ h3'[d] = h3[d] \/ h3'[d] \in {"null", "freed"}
        /\ d \in D => h3'[d] \in {"null", "freed"}
        /\ d \in D => h3[d] = "link"
    OBVIOUS
  <2>2. h3[d] = "link" => link[d] = "live"
    BY DEF Links
  <2>3. d \notin D => ~ReleasedIn(r, d)
    BY <2>1, Silent
  <2>4. /\ BorrowedIn(r, d) => link'[d] \in {"live", "leaked"} /\ h3[d] = "link"
        /\ link'[d] = link[d] \/ (h3[d] = "link" /\ link'[d] = "leaked")
    BY <2>1, <2>2
  <2>5. /\ h3'[d] = "link" => d \notin D /\ h3[d] = "link" /\ link'[d] = "live"
        /\ h3'[d] \in {None, "session"} => d \notin D /\ h3[d] = h3'[d] /\ link'[d] = link[d]
    BY <2>1, <2>2 DEF None
  <2> QED
    BY <2>1, <2>3, <2>4, <2>5 DEF StreamStep
<1> QED
  BY <1>1 DEF Grew

\* The links of streams that h3zero frees, after calm entries.
LEMMA LinksEnd ==
    ASSUME Typed, Links, NEW q, Calm(q), NEW D \in SUBSET Streams,
           \A d \in D : h3[d] = "link", FreeLinks(q, D),
           \A d \in Streams : /\ h3'[d] = h3[d] \/ h3'[d] \in {"null", "freed"}
                              /\ d \in D => h3'[d] \in {"null", "freed"}
    PROVE  \E r : /\ Grew(r)
                  /\ \A i \in 1 .. Len(r) :
                         r[i].t \notin Replies \cup {"new"}
                  /\ q = << >> /\ D = {} => r = << >>
<1>1. PICK A \in SUBSET D : \E B \in SUBSET A :
         rxq' = (rxq \o q) \o FreeEvents(A, B) /\ link' = Leaked(D \ B)
  BY DEF FreeLinks
<1>a. PICK B \in SUBSET A :
         rxq' = (rxq \o q) \o FreeEvents(A, B) /\ link' = Leaked(D \ B)
  BY <1>1
<1> DEFINE c == FreeEvents(A, B)
           r == q \o c
<1>2. A \in SUBSET Streams /\ B \in SUBSET A
  OBVIOUS
<1>3. /\ c \in Seq(Events) /\ Formed(c)
      /\ \A i \in 1 .. Len(c) : c[i].t \in {"destroy", "release"}
      /\ \A d : /\ d \notin A => ~BorrowedIn(c, d)
                /\ LastRelease(c, d) /\ LastDestroy(c, d)
                /\ ~AddedIn(c, d) /\ Led(c, d)
  BY <1>2, FreeEventsAre
<1>4. D = {} => c = << >>
  <2>1. D = {} => A = {} /\ B = {}
    OBVIOUS
  <2>2. Destroys({}) = << >> /\ Releases({}) = << >>
    BY FS_EmptySet DEF Destroys, Releases
  <2>3. << >> \o << >> = << >>
    OBVIOUS
  <2> QED
    BY <2>1, <2>2, <2>3, Zenon DEF FreeEvents
<1>5. /\ q \in Seq(Events) /\ Formed(q) /\ rxq \in Seq(Events)
      /\ \A i \in 1 .. Len(q) :
            q[i].t \in {"ready", "refused", "closed", "cnxclosed", "reset", "stop"}
  BY DEF Calm, Typed
<1> HIDE DEF c
<1>6. rxq' = rxq \o r
  BY <1>a, <1>3, <1>5 DEF c
<1>7. q = << >> /\ D = {} => r = << >>
  BY <1>4
<1>8. /\ r \in Seq(Events) /\ Formed(r)
      /\ \A i \in 1 .. Len(r) : \/ r[i].t \in {"ready", "refused", "closed", "cnxclosed",
                                               "reset", "stop"}
                                \/ r[i].t \in {"destroy", "release"}
  BY <1>3, <1>5, Concat, FormedConcat
<1>9. ASSUME NEW d \in Streams
      PROVE  /\ d \notin D => ~BorrowedIn(r, d)
             /\ LastRelease(r, d) /\ LastDestroy(r, d)
             /\ ~AddedIn(r, d) /\ Led(r, d)
  <2>1. /\ d \notin D => ~BorrowedIn(c, d)
        /\ LastRelease(c, d) /\ LastDestroy(c, d) /\ ~AddedIn(c, d) /\ Led(c, d)
    BY <1>3
  <2>2. ~BorrowedIn(q, d)
    BY <1>5 DEF BorrowedIn, Borrows
  <2>3. /\ ~ReleasedIn(q, d) /\ LastRelease(q, d) /\ LastDestroy(q, d) /\ Led(q, d)
    BY <2>2, Silent
  <2>4. /\ d \notin D => ~BorrowedIn(r, d)
        /\ LastRelease(r, d) /\ LastDestroy(r, d)
    BY <1>3, <1>5, <2>1, <2>2, <2>3, StreamConcat
  <2>5. ~AddedIn(r, d)
    BY <1>8 DEF AddedIn, Adds
  <2>6. Led(r, d)
    BY <1>3, <1>5, <2>1, <2>3, LedConcat
  <2> QED
    BY <2>4, <2>5, <2>6
<1>10. \A d \in Streams : link'[d] = link[d] \/ (d \in D /\ link'[d] = "leaked")
  BY <1>a DEF Leaked
<1> HIDE DEF r
<1>11. Grew(r)
  BY <1>6, <1>8, <1>9, <1>10, EndsGrew
<1>12. \A i \in 1 .. Len(r) : r[i].t \notin Replies \cup {"new"}
  BY <1>8 DEF Replies
<1> QED
  BY <1>7, <1>11, <1>12

\* h3zero retires a stream.
LEMMA FreeGrew ==
    ASSUME Typed, Links, NEW d \in Streams, StreamFree(d)
    PROVE  \E r : Grew(r) /\ \A i \in 1 .. Len(r) : r[i].t \notin Replies \cup {"new"}
<1> DEFINE D == {d} \cap Linked
<1>1. D \in SUBSET Streams /\ \A x \in D : h3[x] = "link" /\ x = d
  BY DEF Linked
<1>2. h3 \in [Connects \cup Streams -> Hooks]
  BY DEF Typed
<1>3. /\ FreeLinks(<< >>, D) /\ h3' = [h3 EXCEPT ![d] = "freed"]
  BY DEF StreamFree
<1>4. \A x \in Streams : /\ h3'[x] = h3[x] \/ h3'[x] \in {"null", "freed"}
                         /\ x \in D => h3'[x] \in {"null", "freed"}
  BY <1>1, <1>2, <1>3
<1> HIDE DEF D
<1> QED
  BY <1>1, <1>3, <1>4, CalmNone, LinksEnd

\* The close of a connection.
LEMMA ClosedGrew ==
    ASSUME Typed, Links, NEW kind, CnxClosed(kind)
    PROVE  \E r : /\ Grew(r)
                  /\ \A i \in 1 .. Len(r) :
                         r[i].t \notin Replies \cup {"new"}
                  /\ (net.prefix = NoStream /\ \A d \in Streams : h3[d] = None)
                        => r = << >>
<1> DEFINE named == net.prefix # NoStream
           told == IF named THEN EndEvent ELSE << >>
           last == IF named THEN <<About("cnxclosed")>> ELSE << >>
<1>1. CnxEnds(told, named)
  BY DEF CnxClosed
<1>2. Calm(told) /\ Calm(last)
  BY CalmNone, CalmOne, EndCalm DEF About
<1>3. net.prefix = NoStream => told = << >> /\ last = << >>
  OBVIOUS
<1>4. CASE client
  <2>1. Push(told, last) /\ UNCHANGED <<h3, link>>
    BY <1>1, <1>4 DEF CnxEnds
  <2> HIDE DEF told, last
  <2>2. PICK a, b : /\ a = told \/ a = << >>
                    /\ b = last \/ b = << >>
                    /\ a \in Seq(Events) /\ b \in Seq(Events)
                    /\ rxq' = rxq \o (a \o b) /\ Lost(told \o last, a \o b)
    <3>1. told \in Seq(Events) /\ last \in Seq(Events)
      BY <1>2 DEF Calm
    <3> QED
      BY <2>1, <3>1, PushIs
  <2> DEFINE r == a \o b
  <2>3. Calm(r)
    BY <1>2, <2>2, CalmNone, CalmTwo
  <2>4. net.prefix = NoStream => r = << >>
    BY <1>3, <2>2
  <2> HIDE DEF r
  <2>5. Grew(r)
    BY <2>1, <2>2, <2>3, CalmKept DEF r
  <2>6. \A i \in 1 .. Len(r) : r[i].t \notin Replies \cup {"new"}
    BY <2>3 DEF Calm, Replies
  <2> QED
    BY <2>4, <2>5, <2>6
<1>5. CASE ~client
  <2>1. PICK a \in Pushed(told) : FreeLinks(a, Linked)
    BY <1>1, <1>5 DEF CnxEnds
  <2>2. h3' = [x \in DOMAIN h3 |-> IF h3[x] = None THEN None ELSE "freed"]
    BY <1>1, <1>5 DEF CnxEnds
  <2> HIDE DEF told, last
  <2>3. Calm(a) /\ (net.prefix = NoStream => a = << >>)
    BY <1>2, <1>3, CalmNone DEF Pushed
  <2>4. Linked \in SUBSET Streams /\ \A d \in Linked : h3[d] = "link"
    BY DEF Linked
  <2>5. \A d \in Streams : /\ h3'[d] = h3[d] \/ h3'[d] \in {"null", "freed"}
                           /\ d \in Linked => h3'[d] \in {"null", "freed"}
    BY <2>2, <2>4 DEF Typed, None
  <2>6. (\A d \in Streams : h3[d] = None) => Linked = {}
    BY DEF Linked, None
  <2> QED
    BY <2>1, <2>3, <2>4, <2>5, <2>6, LinksEnd
<1> QED
  BY <1>4, <1>5

\* A server's session is announced, or the announcement is lost.
LEMMA AnnounceGrew ==
    ASSUME Typed, Links, ServerConnect
    PROVE  Grew(<<About("new")>>) \/ Grew(<< >>)
<1> DEFINE e == About("new")
           r == <<e>>
<1>1. e \in Events /\ e.t = "new"
  BY DEF About, Ev, Events, Kinds, Plain
<1>2. /\ h3' = [h3 EXCEPT ![Connect] = "session"] /\ link' = link
      /\ rxq' = rxq \o r \/ rxq' = rxq \o << >>
  <2>1. Tell(e)
    BY DEF ServerConnect
  <2>2. rxq' = rxq \o <<e>> \/ rxq' = rxq
    BY <1>1, <2>1, TellIs
  <2> QED
    BY <2>2, Appended DEF ServerConnect
<1>a. CASE rxq' = rxq \o << >>
  <2>1. \A d \in Streams : h3'[d] = h3[d]
    BY <1>2, WtAssumption DEF Typed, Connect
  <2>2. Grew(<< >>)
    BY <1>2, <1>a, <2>1, CalmNone, CalmKept
  <2> QED
    BY <2>2
<1>b. CASE rxq' = rxq \o r
  <2> HIDE DEF e
  <2>3. r \in Seq(Events) /\ \A i \in 1 .. Len(r) : r[i] = e
    BY <1>1
  <2> HIDE DEF r
  <2>4. Formed(r)
    BY <1>1, <2>3 DEF Formed, Plain
  <2>5. ASSUME NEW d \in Streams PROVE StreamStep(r, d)
    <3>1. ~BorrowedIn(r, d)
      BY <1>1, <2>3 DEF BorrowedIn, Borrows
    <3>2. /\ ~ReleasedIn(r, d) /\ ~AddedIn(r, d)
          /\ LastRelease(r, d) /\ LastDestroy(r, d) /\ Led(r, d)
      BY <3>1, Silent
    <3>3. h3'[d] = h3[d] /\ link'[d] = link[d]
      BY <1>2, WtAssumption DEF Typed, Connect
    <3>4. h3[d] = "link" => link[d] = "live"
      BY DEF Links
    <3> QED
      BY <3>1, <3>2, <3>3, <3>4 DEF StreamStep
  <2> QED
    BY <1>2, <1>b, <2>3, <2>4, <2>5 DEF Grew, r, e
<1> QED
  BY <1>2, <1>a, <1>b

\* Commands without an event, or with one about no stream.
LEMMA CalmCommands ==
    ASSUME Typed,
           \/ HandleStale \/ HandleOpen \/ HandleStreamOp
           \/ HandleClose("close") \/ HandleClose("fin")
    PROVE  CalmStep
<1>1. Calm(<< >>) /\ rxq = rxq \o << >> /\ Calm(<<About("refused")>>)
  BY Appended, CalmNone, CalmOne DEF About
<1>2. CASE HandleStale \/ HandleStreamOp \/ HandleClose("close") \/ HandleClose("fin")
  BY <1>1, <1>2 DEF HandleStale, HandleStreamOp, HandleClose, CalmStep
<1>3. CASE HandleOpen
  <2>1. \E r : Calm(r) /\ rxq' = rxq \o r
    <3>1. rxq' = rxq \/ Tell(About("refused"))
      BY <1>3 DEF HandleOpen
    <3> QED
      BY <1>1, <3>1, TellCalm
  <2>2. link' = link /\ \A d \in Streams : h3'[d] = h3[d]
    <3>1. \A d \in Streams : d # Connect
      BY WtAssumption DEF Connect
    <3>2. h3 \in [Connects \cup Streams -> Hooks]
      BY DEF Typed
    <3>3. h3' = h3 \/ \E v : h3' = [h3 EXCEPT ![Connect] = v]
      BY <1>3 DEF HandleOpen
    <3>4. link' = link
      BY <1>3 DEF HandleOpen
    <3> QED
      BY <3>1, <3>2, <3>3, <3>4
  <2> QED
    BY <2>1, <2>2 DEF CalmStep
<1> QED
  BY <1>2, <1>3

\* TX_WT_SESSION_CLEANUP and TX_WT_DEREGISTER release the links.
LEMMA ReleasesGrew ==
    ASSUME Typed, Links, ~Listening, HandleCleanup \/ HandleDeregister
    PROVE  \E r : Grew(r) /\ \A i \in 1 .. Len(r) : r[i].t = "release"
<1>1. rxq \in Seq(Events) /\ h3 \in [Connects \cup Streams -> Hooks]
  BY DEF Typed
<1>2. \A c \in Connects : c \notin Streams
  BY WtAssumption DEF Connects, Connect, Retry
<1>3. CASE UNCHANGED <<h3, rxq, link>>
  <2>1. Calm(<< >>) /\ rxq' = rxq \o << >>
    BY <1>1, <1>3, CalmNone
  <2>2. Grew(<< >>)
    BY <1>3, <2>1, CalmKept
  <2> QED
    BY <2>2
<1>4. CASE ~UNCHANGED <<h3, rxq, link>>
  <2>1. /\ ReleaseLinks(Linked)
        /\ \A d \in Streams : \/ h3'[d] = h3[d] /\ h3[d] # "link"
                              \/ h3'[d] \in {"null", "freed"}
    <3>1. CASE HandleCleanup
      BY <1>1, <1>4, <3>1 DEF HandleCleanup
    <3>2. CASE HandleDeregister
      <4>1. ReleaseLinks(Linked) /\ h3' = Detached
        BY <1>4, <3>2 DEF HandleDeregister, Deregister
      <4>2. s.ctl \in Connects \cup {NoStream}
        BY DEF Typed, Session, Named
      <4>3. CASE s.ctl = NoStream
        BY <1>1, <4>1, <4>3 DEF Detached
      <4>4. CASE s.ctl # NoStream
        BY <1>1, <1>2, <4>1, <4>2, <4>4 DEF Detached, None
      <4> QED
        BY <4>1, <4>3, <4>4
    <3> QED
      BY <3>1, <3>2
  <2>2. PICK B \in SUBSET Linked : rxq' = rxq \o Releases(B) /\ link' = Leaked(Linked \ B)
    BY <2>1 DEF ReleaseLinks
  <2>3. PICK D : D = Linked
    OBVIOUS
  <2>4. D \in SUBSET Streams /\ (\A d \in D : h3[d] = "link") /\ B \in SUBSET Streams
    BY <2>3 DEF Linked
  <2> DEFINE r == Releases(B)
  <2>5. /\ r \in Seq(Events) /\ Formed(r)
        /\ \A i \in 1 .. Len(r) : r[i].t = "release"
        /\ \A d \in Streams : /\ d \notin B => ~BorrowedIn(r, d)
                              /\ LastRelease(r, d) /\ LastDestroy(r, d)
                              /\ ~AddedIn(r, d)
    BY <2>4, ReleasesAre
  <2>6. rxq' = rxq \o r
    BY <2>2
  <2> HIDE DEF r
  <2>7. \A d \in Streams : /\ link'[d] = link[d] \/ (d \in D /\ link'[d] = "leaked")
                           /\ h3'[d] = h3[d] \/ h3'[d] \in {"null", "freed"}
                           /\ d \in D => h3'[d] \in {"null", "freed"}
    BY <2>1, <2>2, <2>3, <2>4 DEF Leaked
  <2>8. \A d \in Streams : d \notin D => ~BorrowedIn(r, d)
    BY <2>3, <2>5
  <2>9. Grew(r)
    BY <2>4, <2>5, <2>6, <2>7, <2>8, EndsGrew
  <2> QED
    BY <2>5, <2>9
<1> QED
  BY <1>3, <1>4

\* TX_WT_CREATE_STREAM: one reply, with the number of its request, or its loss.
Answers(e, r) ==
    /\ e.t \in Replies /\ e.k = Head(txq).k
    /\ \/ r = <<e>> /\ rxq' = Append(rxq, e) /\ dropped' = dropped
       \/ r = << >> /\ rxq' = rxq /\ dropped' = dropped \cup {e.t}

LEMMA AnswerIs ==
    ASSUME Typed, NEW e \in Events, Tell(e), e.t \in {"created", "failed"},
           e.k = Head(txq).k
    PROVE  \E r : /\ Answers(e, r) /\ rxq' = rxq \o r
                  /\ r \in Seq(Events) /\ \A i \in 1 .. Len(r) : r[i] = e
<1>1. /\ rxq = rxq \o << >> /\ Append(rxq, e) = rxq \o <<e>>
      /\ <<e>> \in Seq(Events) /\ << >> \in Seq(Events)
  BY Appended
<1>2. CASE rxq' = rxq \o <<e>> /\ dropped' = dropped
  <2>1. Answers(e, <<e>>)
    BY <1>1, <1>2 DEF Answers, Replies
  <2>2. \A i \in 1 .. Len(<<e>>) : <<e>>[i] = e
    OBVIOUS
  <2> QED
    BY <1>1, <1>2, <2>1, <2>2
<1>3. CASE rxq' = rxq /\ dropped' = dropped \cup {e.t}
  <2>1. Answers(e, << >>)
    BY <1>3 DEF Answers, Replies
  <2>2. \A i \in 1 .. Len(<< >>) : << >>[i] = e
    OBVIOUS
  <2> QED
    BY <1>1, <1>3, <2>1, <2>2
<1> QED
  BY <1>2, <1>3, TellIs

LEMMA CreateGrew ==
    ASSUME Typed, Links, HandleCreate
    PROVE  \E e \in Events : \E r : Grew(r) /\ Answers(e, r)
<1>1. /\ rxq \in Seq(Events) /\ h3 \in [Connects \cup Streams -> Hooks]
      /\ link \in [Streams -> {None, "live", "freed", "leaked"}]
  BY DEF Typed
<1>2. Head(txq).k \in Nat
  <2>1. txq \in Seq(Commands) /\ txq # << >>
    BY DEF Typed, HandleCreate, Handle, Pop
  <2>2. Head(txq) \in Commands
    BY <2>1
  <2> QED
    BY <2>2 DEF Commands
<1> DEFINE Rep(t, d) == [t |-> t, d |-> d, k |-> Head(txq).k]
<1>3. \/ \E d \in Streams \cup {NoStream} :
             /\ Tell(Rep("failed", d)) /\ link' = link
             /\ \/ h3' = h3
                \/ d \in Streams /\ h3' = [h3 EXCEPT ![d] = "null"]
      \/ \E d \in Streams :
             /\ Tell(Rep("created", d)) /\ h3[d] = None
             /\ h3' = [h3 EXCEPT ![d] = "link"]
             /\ link' = [link EXCEPT ![d] = "live"]
  <2>1. \A t, d : Reply(t, d) = Tell(Rep(t, d))
    <3>1. \A t, d : [Ev(t, d) EXCEPT !.k = Head(txq).k] = Rep(t, d)
      BY DEF Ev
    <3> QED
      BY <3>1 DEF Reply
  <2> HIDE DEF Rep
  <2>2. CASE /\ Reply("failed", NoStream)
             /\ UNCHANGED <<h3, link>>
    BY <2>1, <2>2
  <2>3. ASSUME NEW d \in Streams, s.at /\ FirstUnused(d),
               h3' = [h3 EXCEPT ![d] = "link"], link' = [link EXCEPT ![d] = "live"],
               Reply("created", d)
        PROVE  \E x \in Streams :
                  /\ Tell(Rep("created", x)) /\ h3[x] = None
                  /\ h3' = [h3 EXCEPT ![x] = "link"]
                  /\ link' = [link EXCEPT ![x] = "live"]
    BY <2>1, <2>3 DEF FirstUnused
  <2>4. ASSUME NEW d \in Streams, h3' = [h3 EXCEPT ![d] = "null"], link' = link,
               Reply("failed", d)
        PROVE  \E x \in Streams \cup {NoStream} :
                  /\ Tell(Rep("failed", x)) /\ link' = link
                  /\ \/ h3' = h3
                     \/ x \in Streams /\ h3' = [h3 EXCEPT ![x] = "null"]
    BY <2>1, <2>4
  <2> QED
    BY <2>2, <2>3, <2>4 DEF HandleCreate
<1>4. CASE \E d \in Streams \cup {NoStream} :
             /\ Tell(Rep("failed", d)) /\ link' = link
             /\ \/ h3' = h3
                \/ d \in Streams /\ h3' = [h3 EXCEPT ![d] = "null"]
  <2>1. PICK d \in Streams \cup {NoStream} :
             /\ Tell(Rep("failed", d)) /\ link' = link
             /\ \/ h3' = h3
                \/ d \in Streams /\ h3' = [h3 EXCEPT ![d] = "null"]
    BY <1>4
  <2> DEFINE e == Rep("failed", d)
  <2>2. e \in Events /\ e.t = "failed" /\ e.k = Head(txq).k
    BY <1>2 DEF Events, Kinds
  <2>3. Tell(e)
    BY <2>1
  <2> HIDE DEF e, Rep
  <2>r. PICK r : /\ Answers(e, r) /\ rxq' = rxq \o r
                 /\ r \in Seq(Events) /\ \A i \in 1 .. Len(r) : r[i] = e
    BY <2>2, <2>3, AnswerIs
  <2>4. r \in Seq(Events) /\ rxq' = rxq \o r /\ \A i \in 1 .. Len(r) : r[i] = e
    BY <2>r
  <2>5. Formed(r)
    BY <2>2, <2>4 DEF Formed, Plain
  <2>6. ASSUME NEW x \in Streams PROVE StreamStep(r, x)
    <3>1. ~BorrowedIn(r, x)
      BY <2>2, <2>4 DEF BorrowedIn, Borrows
    <3>2. /\ ~ReleasedIn(r, x) /\ ~AddedIn(r, x)
          /\ LastRelease(r, x) /\ LastDestroy(r, x) /\ Led(r, x)
      BY <3>1, Silent
    <3>3. link'[x] = link[x] /\ (h3'[x] = h3[x] \/ h3'[x] = "null")
      BY <1>1, <2>1
    <3>4. h3[x] = "link" => link[x] = "live"
      BY DEF Links
    <3> QED
      BY <3>1, <3>2, <3>3, <3>4 DEF StreamStep, None
  <2>7. Grew(r)
    BY <2>4, <2>5, <2>6 DEF Grew
  <2> QED
    BY <2>2, <2>7, <2>r
<1>5. CASE \E d \in Streams :
             /\ Tell(Rep("created", d)) /\ h3[d] = None
             /\ h3' = [h3 EXCEPT ![d] = "link"]
             /\ link' = [link EXCEPT ![d] = "live"]
  <2>1. PICK d \in Streams :
             /\ Tell(Rep("created", d)) /\ h3[d] = None
             /\ h3' = [h3 EXCEPT ![d] = "link"]
             /\ link' = [link EXCEPT ![d] = "live"]
    BY <1>5
  <2> DEFINE e == Rep("created", d)
  <2>2. e \in Events /\ e.t = "created" /\ e.k = Head(txq).k /\ e.d = d
    BY <1>2 DEF Events, Kinds
  <2>3. Tell(e)
    BY <2>1
  <2> HIDE DEF e, Rep
  <2>r. PICK r : /\ Answers(e, r) /\ rxq' = rxq \o r
                 /\ r \in Seq(Events) /\ \A i \in 1 .. Len(r) : r[i] = e
    BY <2>2, <2>3, AnswerIs
  <2>4. r \in Seq(Events) /\ rxq' = rxq \o r /\ \A i \in 1 .. Len(r) : r[i] = e
    BY <2>r
  <2>5. Formed(r)
    BY <2>2, <2>4 DEF Formed, Plain
  <2>6. ASSUME NEW x \in Streams PROVE StreamStep(r, x)
    <3>1. /\ ~ReleasedIn(r, x) /\ LastRelease(r, x) /\ LastDestroy(r, x)
          /\ Led(r, x)
      <4>1. \A i \in 1 .. Len(r) : r[i].t \notin {"release", "destroy"}
        BY <2>2, <2>4
      <4> QED
        BY <4>1, Endless
    <3>2. h3[x] = "link" => link[x] = "live"
      BY DEF Links
    <3>3. CASE x # d
      <4>1. ~BorrowedIn(r, x) /\ ~AddedIn(r, x)
        BY <2>2, <2>4, <3>3 DEF BorrowedIn, Borrows, AddedIn, Adds
      <4>2. h3'[x] = h3[x] /\ link'[x] = link[x]
        BY <1>1, <2>1, <3>3
      <4> QED
        BY <3>1, <3>2, <4>1, <4>2 DEF StreamStep
    <3>4. CASE x = d
      <4>1. h3'[x] = "link" /\ link'[x] = "live" /\ h3[x] = None
        BY <1>1, <2>1, <3>4
      <4> QED
        BY <3>1, <4>1 DEF StreamStep, None
    <3> QED
      BY <3>3, <3>4
  <2>7. Grew(r)
    BY <2>4, <2>5, <2>6 DEF Grew
  <2> QED
    BY <2>2, <2>7, <2>r
<1> QED
  BY <1>3, <1>4, <1>5

-----------------------------------------------------------------------------
(* Types.                                                                  *)

\* What others may still do goes down, the role stays.
LEMMA Spent ==
    ASSUME plan \in Scenarios,
           NEW f \in {"creates", "cancels", "ops", "peers", "data", "frees",
                      "ends", "drops", "refusals"},
           Spend(f)
    PROVE  plan' \in Scenarios /\ plan'.role = plan.role
  BY DEF Spend, Scenarios

\* The deadline is all that aiopquic_wt_maybe_close_cnx sets.
LEMMA Deadline ==
    ASSUME NEW x \in Session
    PROVE  /\ MaybeCloseCnx(x) \in Session
           /\ MaybeCloseCnx(x).mem = x.mem /\ MaybeCloseCnx(x).at = x.at
           /\ MaybeCloseCnx(x).ctl = x.ctl /\ MaybeCloseCnx(x).id = x.id
<1>1. MaybeCloseCnx(x) = x \/ \E v \in {"deadline", "grace"} :
         MaybeCloseCnx(x) = [x EXCEPT !.deadline = v]
  BY DEF MaybeCloseCnx
<1> QED
  BY <1>1 DEF Session

\* Everything but the queues and the Python object.
Base ==
    /\ plan \in Scenarios /\ s \in Session /\ net \in Net
    /\ h3 \in [Connects \cup Streams -> Hooks]
    /\ \A c \in Connects : h3[c] # "link"
    /\ link \in [Streams -> {None, "live", "freed", "leaked"}]
    /\ ended \subseteq Streams /\ stale \in BOOLEAN

LEMMA Apart ==
    /\ \A d \in Streams : d \notin Connects
    /\ Connect \in Connects /\ Retry \in Connects /\ Connect # Retry
    /\ \A c \in Connects : c # NoStream
  BY WtAssumption DEF Connects, Connect, Retry, NoStream

LEMMA RetryTypes ==
    ASSUME Base, s.id \in Connects, Retries
    PROVE  /\ s' \in Session /\ net' \in Net
           /\ h3' \in [Connects \cup Streams -> Hooks]
           /\ \A c \in Connects : h3'[c] # "link"
<1>a. PICK out : RetryConnect(out)
  BY DEF Retries
<1>1. s' \in Session
  BY <1>a, Apart DEF Base, RetryConnect, Session, Named
<1>2. net' \in Net
  BY <1>a, Apart DEF Base, RetryConnect, Net, Named
<1>3. h3' \in [Connects \cup Streams -> Hooks] /\ \A c \in Connects : h3'[c] # "link"
  BY <1>a, Apart DEF Base, RetryConnect, Hooks
<1> QED
  BY <1>1, <1>2, <1>3

LEMMA FinTypes ==
    ASSUME s \in Session
    PROVE  PeerFin \in Session /\ FinSent \in Session
<1>1. /\ [s EXCEPT !.closing = TRUE, !.peerFin = TRUE] \in Session
      /\ [s EXCEPT !.finSent = TRUE, !.closing = TRUE] \in Session
  BY DEF Session
<1> QED
  BY <1>1, Deadline DEF PeerFin, FinSent

LEMMA CallbackTypes ==
    ASSUME Base, Callbacks \/ AppWakeup
    PROVE  Base' /\ plan'.role = plan.role
<1>1. CASE ServerBootstrap \/ CnxFreed
  BY <1>1 DEF ServerBootstrap, CnxFreed, Base, Net
<1>2. CASE ServerConnect
  <2>1. s' \in Session
    BY <1>2, Apart DEF ServerConnect, Base, Session, Named
  <2>2. net' \in Net
    BY <1>2, Apart DEF ServerConnect, Base, Net, Named
  <2> QED
    BY <1>2, <2>1, <2>2, Apart DEF ServerConnect, Base, Hooks
<1>3. CASE ConnectAccepted
  <2>1. s' \in Session /\ net' \in Net
    BY <1>3 DEF ConnectAccepted, Base, Session, Net
  <2> QED
    BY <1>3, <2>1 DEF ConnectAccepted, Base
<1>4. ControlCalled => s.id \in Connects
  BY DEF ControlCalled, Base, Session, Named
<1>5. Spend("refusals") \/ Spend("ends") \/ Spend("data") \/ Spend("peers")
        \/ Spend("frees") \/ Spend("drops") \/ UNCHANGED plan
        => plan' \in Scenarios /\ plan'.role = plan.role
  BY Spent DEF Base
<1>6. CASE ConnectRefused
  <2>1. CASE Retries
    BY <1>4, <1>5, <1>6, <2>1, RetryTypes DEF ConnectRefused, Base
  <2>2. CASE net' = [net EXCEPT !.answered = TRUE] /\ UNCHANGED <<s, h3>>
    <3>1. net' \in Net
      BY <2>2 DEF Base, Net
    <3> QED
      BY <1>5, <1>6, <2>2, <3>1 DEF ConnectRefused, Base
  <2> QED
    BY <1>6, <2>1, <2>2 DEF ConnectRefused
<1>7. CASE ControlStopSending
  <2>1. CASE Retries
    BY <1>4, <1>5, <1>7, <2>1, RetryTypes DEF ControlStopSending, Base
  <2>2. CASE UNCHANGED <<s, net, h3>>
    BY <1>5, <1>7, <2>2 DEF ControlStopSending, Base
  <2> QED
    BY <1>7, <2>1, <2>2 DEF ControlStopSending
<1>8. CASE ControlCapsule
  <2>1. s' \in Session
    BY <1>8 DEF ControlCapsule, Base, Session
  <2> QED
    BY <1>5, <1>8, <2>1 DEF ControlCapsule, Base
<1>9. CASE ControlFin
  <2>1. s' \in Session /\ net' \in Net
    BY <1>9, FinTypes DEF ControlFin, Base, Net
  <2> QED
    BY <1>5, <1>9, <2>1 DEF ControlFin, Base
<1>10. CASE ControlReset
  <2>1. CASE Retries
    BY <1>4, <1>5, <1>10, <2>1, RetryTypes DEF ControlReset, Base
  <2>2. CASE /\ s' = PeerFin /\ UNCHANGED h3
             /\ net' = [net EXCEPT !.fins = @ \cup {"peer"}, !.answered = TRUE]
    <3>1. s' \in Session /\ net' \in Net
      BY <2>2, FinTypes DEF Base, Net
    <3> QED
      BY <1>5, <1>10, <2>2, <3>1 DEF ControlReset, Base
  <2> QED
    BY <1>10, <2>1, <2>2 DEF ControlReset
<1>11. CASE ControlFree
  <2>1. s' \in Session /\ s.id \in Connects
    BY <1>11 DEF ControlFree, Base, Session, Named
  <2> QED
    BY <1>11, <2>1 DEF ControlFree, Base, Hooks
<1>12. ASSUME NEW d \in Streams, PeerStream(d) \/ StreamData(d) \/ StreamFin(d)
                                   \/ StreamReset(d) \/ StreamFree(d)
       PROVE  Base' /\ plan'.role = plan.role
  <2>1. CASE PeerStream(d)
    BY <1>5, <1>12, <2>1, Apart DEF PeerStream, Base, Hooks
  <2>2. CASE StreamData(d) \/ StreamFin(d)
    BY <1>5, <1>12, <2>2, Apart DEF StreamData, StreamFin, EnsureLink, Base, Hooks
  <2>3. CASE StreamReset(d)
    BY <1>5, <1>12, <2>3, Apart DEF StreamReset, Base
  <2>4. CASE StreamFree(d)
    <3>1. \E D : link' = Leaked(D)
      BY <2>4 DEF StreamFree, FreeLinks
    <3>2. link' \in [Streams -> {None, "live", "freed", "leaked"}]
      BY <3>1 DEF Base, Leaked
    <3> QED
      BY <1>5, <1>12, <2>4, <3>2, Apart DEF StreamFree, Base, Hooks
  <2> QED
    BY <1>12, <2>1, <2>2, <2>3, <2>4
<1>13. ASSUME NEW kind, CnxClosed(kind)
       PROVE  Base' /\ plan'.role = plan.role
  <2>1. s' \in Session
    BY <1>13 DEF CnxClosed, Base, Session, Named
  <2>2. net' \in Net
    BY <1>13 DEF CnxClosed, Base, Net, Named
  <2>3. /\ link' \in [Streams -> {None, "live", "freed", "leaked"}]
        /\ \/ h3' = h3
           \/ h3' = [x \in DOMAIN h3 |-> IF h3[x] = None THEN None ELSE "freed"]
    <3>1. PICK a, b : CnxEnds(a, b)
      BY <1>13 DEF CnxClosed
    <3>2. link' = link \/ \E D : link' = Leaked(D)
      BY <3>1 DEF CnxEnds, FreeLinks
    <3>3. link' \in [Streams -> {None, "live", "freed", "leaked"}]
      BY <3>2 DEF Base, Leaked
    <3> QED
      BY <3>1, <3>3 DEF CnxEnds
  <2>4. plan' \in Scenarios /\ plan'.role = plan.role /\ UNCHANGED <<ended, stale>>
    BY <1>5, <1>13 DEF CnxClosed
  <2> QED
    BY <2>1, <2>2, <2>3, <2>4, Apart DEF Base, Hooks, None
<1>14. CASE AppWakeup
  <2>1. s' \in Session /\ net' \in Net
    BY <1>14 DEF AppWakeup, Base, Session, Net
  <2> QED
    BY <1>14, <2>1 DEF AppWakeup, Base
<1> QED
  BY <1>1, <1>2, <1>3, <1>6, <1>7, <1>8, <1>9, <1>10, <1>11, <1>12, <1>13, <1>14
     DEF Callbacks

\* What is lost is never a LINK_RELEASE, and stays lost.
Losses == dropped' \subseteq Kinds \ {"release"} /\ dropped \subseteq dropped'

LEMMA LostKinds ==
    ASSUME Typed, NEW q \in Seq(Events), NEW r, Lost(q, r),
           \A i \in 1 .. Len(q) : q[i].t # "release"
    PROVE  Losses
<1>1. TypesOf(q) \subseteq Kinds \ {"release"}
  <2>1. \A i \in 1 .. Len(q) : q[i] \in Events
    OBVIOUS
  <2>2. \A i \in 1 .. Len(q) : q[i].t \in Kinds
    BY <2>1 DEF Events
  <2>3. DOMAIN q = 1 .. Len(q)
    OBVIOUS
  <2> QED
    BY <2>2, <2>3 DEF TypesOf
<1> QED
  BY <1>1 DEF Lost, Losses, Typed

LEMMA PushLosses ==
    ASSUME Typed, NEW q \in Seq(Events), NEW r \in Seq(Events), Push(q, r),
           \A i \in 1 .. Len(q) : q[i].t # "release",
           \A i \in 1 .. Len(r) : r[i].t # "release"
    PROVE  Losses
<1> DEFINE c == q \o r
<1>1. \E a, b : Lost(c, a \o b)
  BY DEF Push
<1>2. c \in Seq(Events) /\ \A i \in 1 .. Len(c) : c[i].t # "release"
  BY Concat
<1> HIDE DEF c
<1> QED
  BY <1>1, <1>2, LostKinds

LEMMA CalmLosses ==
    ASSUME Typed, NEW q, NEW r, Calm(q), Calm(r), Push(q, r)
    PROVE  Losses
<1>1. /\ q \in Seq(Events) /\ \A i \in 1 .. Len(q) : q[i].t # "release"
      /\ r \in Seq(Events) /\ \A i \in 1 .. Len(r) : r[i].t # "release"
  BY DEF Calm
<1> QED
  BY <1>1, PushLosses

LEMMA TellLosses ==
    ASSUME Typed, NEW e \in Events, Tell(e), e.t # "release"
    PROVE  Losses
<1>1. e.t \in Kinds
  BY DEF Events
<1> QED
  BY <1>1, TellIs DEF Losses, Typed

LEMMA CallbackLosses ==
    ASSUME Typed, Callbacks \/ AppWakeup
    PROVE  Losses
<1>1. /\ \A x \in {"new", "ready", "refused", "stop"} :
             About(x) \in Events /\ About(x).t # "release"
      /\ \A x \in {"reset", "stop"}, d \in Streams :
             Ev(x, d) \in Events /\ Ev(x, d).t # "release"
  BY DEF About, Ev, Events, Kinds, Plain
<1>2. dropped' = dropped => Losses
  BY DEF Losses, Typed
<1>3. Push(EndEvent, << >>) => Losses
  BY EndCalm, CalmNone, CalmLosses
<1>4. ASSUME NEW x \in {"new", "ready", "refused", "stop"}, Tell(About(x))
      PROVE  Losses
  BY <1>1, <1>4, TellLosses
<1>5. Retries => Losses
  BY <1>2, <1>4 DEF Retries, RetryConnect
<1>6. CASE \/ ServerBootstrap \/ CnxFreed \/ AppWakeup \/ ControlFree
           \/ ServerConnect \/ ConnectAccepted
  BY <1>2, <1>4, <1>6 DEF ServerBootstrap, CnxFreed, AppWakeup, ControlFree,
                          ServerConnect, ConnectAccepted
<1>7. CASE ConnectRefused \/ ControlStopSending \/ ControlReset
  BY <1>3, <1>4, <1>5, <1>7 DEF ConnectRefused, ControlStopSending, ControlReset
<1>8. CASE ControlCapsule \/ ControlFin
  BY <1>3, <1>8 DEF ControlCapsule, ControlFin
<1>9. ASSUME NEW d \in Streams, PeerStream(d) \/ StreamReset(d) \/ StreamFree(d)
      PROVE  Losses
  <2>1. CASE PeerStream(d) \/ StreamFree(d)
    BY <1>2, <2>1 DEF PeerStream, StreamFree
  <2>2. CASE StreamReset(d)
    <3>1. Tell(Ev("reset", d)) \/ Tell(Ev("stop", d))
      BY <2>2 DEF StreamReset
    <3> QED
      BY <1>1, <3>1, TellLosses
  <2> QED
    BY <1>9, <2>1, <2>2
<1>10. ASSUME NEW d \in Streams, StreamData(d) \/ StreamFin(d)
       PROVE  Losses
  <2> DEFINE Fine(q) == q \in Seq(Events) /\ \A i \in 1 .. Len(q) : q[i].t # "release"
  <2>1. \A x \in {"newstream", "data", "fin"} : Fine(<<Ev(x, d)>>)
    BY OneAbout
  <2>2. Fine(<< >>)
    OBVIOUS
  <2> HIDE DEF Fine
  <2>3. PICK q, r : Fine(q) /\ Fine(r) /\ Push(q, r)
    BY <1>10, <2>1, <2>2 DEF StreamData, StreamFin, NewStream
  <2> QED
    BY <2>3, PushLosses DEF Fine
<1>11. ASSUME NEW kind, CnxClosed(kind) PROVE Losses
  <2> DEFINE named == net.prefix # NoStream
             told == IF named THEN EndEvent ELSE << >>
             last == IF named THEN <<About("cnxclosed")>> ELSE << >>
  <2>1. CnxEnds(told, named)
    BY <1>11 DEF CnxClosed
  <2>2. Calm(told) /\ Calm(last)
    BY CalmNone, CalmOne, EndCalm DEF About
  <2>3. CASE client
    <3>1. Push(told, last)
      BY <2>1, <2>3 DEF CnxEnds
    <3> HIDE DEF told, last
    <3> QED
      BY <2>2, <3>1, CalmLosses
  <2>4. CASE ~client
    <3>1. \E a : Lost(told, a)
      BY <2>1, <2>4 DEF CnxEnds
    <3> HIDE DEF told, last
    <3>2. told \in Seq(Events) /\ \A i \in 1 .. Len(told) : told[i].t # "release"
      BY <2>2 DEF Calm
    <3> QED
      BY <3>1, <3>2, LostKinds
  <2> QED
    BY <2>3, <2>4
<1> QED
  BY <1>6, <1>7, <1>8, <1>9, <1>10, <1>11 DEF Callbacks

LEMMA CommandLosses ==
    ASSUME Typed, Command
    PROVE  Losses
<1>1. dropped' = dropped => Losses
  BY DEF Losses, Typed
<1>2. CASE HandleOpen
  <2>1. About("refused") \in Events /\ About("refused").t # "release"
    BY DEF About, Ev, Events, Kinds, Plain
  <2>2. Tell(About("refused")) => Losses
    BY <2>1, TellLosses
  <2> QED
    BY <1>1, <1>2, <2>2 DEF HandleOpen
<1>3. CASE HandleCreate
  <2>1. Head(txq).k \in Nat
    <3>1. txq \in Seq(Commands) /\ txq # << >>
      BY <1>3 DEF Typed, HandleCreate, Handle, Pop
    <3>2. Head(txq) \in Commands
      BY <3>1
    <3> QED
      BY <3>2 DEF Commands
  <2>2. \E x \in {"created", "failed"}, d \in Streams \cup {NoStream} : Reply(x, d)
    BY <1>3 DEF HandleCreate
  <2>3. PICK x \in {"created", "failed"}, d \in Streams \cup {NoStream} : Reply(x, d)
    BY <2>2
  <2> DEFINE e == [Ev(x, d) EXCEPT !.k = Head(txq).k]
  <2>4. e \in Events /\ e.t # "release" /\ Tell(e)
    BY <2>1, <2>3 DEF Reply, Ev, Events, Kinds
  <2> HIDE DEF e
  <2> QED
    BY <2>4, TellLosses
<1>4. CASE \/ HandleStale \/ HandleStreamOp \/ HandleClose("close")
           \/ HandleClose("fin") \/ HandleCleanup \/ HandleDeregister
  BY <1>1, <1>4 DEF HandleStale, HandleStreamOp, HandleClose, HandleCleanup,
                    HandleDeregister, Deregister
<1> QED
  BY <1>2, <1>3, <1>4 DEF Command

\* The head of the commands.
LEMMA FirstCommand ==
    ASSUME Typed, txq # << >>
    PROVE  /\ Head(txq) = txq[1] /\ Head(txq) \in Commands /\ 1 \in 1 .. Len(txq)
           /\ Tail(txq) \in Seq(Commands) /\ Len(Tail(txq)) <= TxCap
  BY Rest, WtAssumption DEF Typed

LEMMA CommandTypes ==
    ASSUME Base, Typed, CodesInv, Command
    PROVE  Base' /\ UNCHANGED <<plan, py>> /\ Pops
<1>1. Pops
  BY CommandStep
<1>2. CASE HandleStale
  BY <1>1, <1>2 DEF HandleStale, Base
<1>3. CASE HandleOpen
  <2>1. s' = s \/ \E v \in BOOLEAN :
           s' = [s EXCEPT !.at = TRUE, !.ctl = Connect, !.id = Connect, !.retry = v]
    <3>1. (plan.auto > 0) \in BOOLEAN
      OBVIOUS
    <3> QED
      BY <1>3, <3>1 DEF HandleOpen
  <2>2. s' \in Session
    BY <2>1, Apart DEF Base, Session, Named
  <2>3. net' \in Net
    <3>1. CASE net' = net
      BY <3>1 DEF Base
    <3>2. CASE net' # net
      <4>1. PICK a \in BOOLEAN, x \in Named :
                net' = [net EXCEPT !.cnx = "up", !.answered = a, !.prefix = x]
        BY <1>3, <3>2, Apart DEF HandleOpen, Named
      <4> QED
        BY <4>1 DEF Base, Net
    <3> QED
      BY <3>1, <3>2
  <2> QED
    BY <1>1, <1>3, <2>2, <2>3, Apart DEF HandleOpen, Base, Hooks
<1>4. CASE HandleCreate
  <2>1. /\ h3' \in [Connects \cup Streams -> Hooks]
        /\ \A c \in Connects : h3'[c] # "link"
        /\ link' \in [Streams -> {None, "live", "freed", "leaked"}]
    BY <1>4, Apart DEF HandleCreate, Base, Hooks
  <2> QED
    BY <1>1, <1>4, <2>1 DEF HandleCreate, Base
<1>5. CASE HandleStreamOp
  <2>1. txq # << >> /\ Head(txq).t = "op"
    BY <1>5 DEF HandleStreamOp, Handle, Pop
  <2>2. Head(txq).k \in 0 .. MaxCode
    BY <2>1, FirstCommand DEF CodesInv, QueuedCodes, SafeCmd
  <2>3. CodeToH3(Head(txq).k) \in Int
    BY <2>2, CodesAssumption, CodeRange DEF CodesAssumption
  <2>4. net' \in Net
    BY <1>5, <2>2, <2>3 DEF HandleStreamOp, Base, Net
  <2> QED
    BY <1>1, <1>5, <2>4 DEF HandleStreamOp, Base
<1>6. ASSUME NEW t, HandleClose(t) PROVE Base' /\ UNCHANGED <<plan, py>> /\ Pops
  <2>1. s' \in Session
    <3>1. s' = FinSent \/ s' = [s EXCEPT !.closing = TRUE] \/ s' = s
      BY <1>6 DEF HandleClose
    <3>2. [s EXCEPT !.closing = TRUE] \in Session
      BY DEF Base, Session
    <3> QED
      BY <3>1, <3>2, FinTypes DEF Base
  <2>2. net' \in Net
    BY <1>6 DEF HandleClose, Base, Net
  <2> QED
    BY <1>1, <1>6, <2>1, <2>2 DEF HandleClose, Base
<1>7. CASE HandleCleanup
  <2>1. [s EXCEPT !.cleanup = TRUE] \in Session
    BY DEF Base, Session
  <2>2. s' \in Session
    BY <1>7, <2>1, Deadline DEF HandleCleanup
  <2>3. /\ h3' \in [Connects \cup Streams -> Hooks]
        /\ \A c \in Connects : h3'[c] # "link"
    BY <1>7, Apart DEF HandleCleanup, Base, Hooks
  <2>4. link' \in [Streams -> {None, "live", "freed", "leaked"}]
    BY <1>7 DEF HandleCleanup, ReleaseLinks, Leaked, Base
  <2> QED
    BY <1>1, <1>7, <2>2, <2>3, <2>4 DEF HandleCleanup, Base
<1>8. CASE HandleDeregister
  <2>1. s' \in Session
    BY <1>8 DEF HandleDeregister, Deregister, Base, Session, SessionInit, Named
  <2>2. net' \in Net
    <3>1. net' = net \/ \E v \in BOOLEAN, f \in SUBSET {"us", "peer"} :
             net' = [net EXCEPT !.prefix = NoStream, !.closing = v, !.fins = f]
      <4>1. (net.closing \/ (client /\ s.finSent)) \in BOOLEAN
        OBVIOUS
      <4>2. /\ net.fins \in SUBSET {"us", "peer"}
            /\ net.fins \cup {"us"} \in SUBSET {"us", "peer"}
        BY DEF Base, Net
      <4> QED
        BY <1>8, <4>1, <4>2 DEF HandleDeregister, Deregister
    <3> QED
      BY <3>1 DEF Base, Net, Named
  <2>3. /\ h3' \in [Connects \cup Streams -> Hooks]
        /\ \A c \in Connects : h3'[c] # "link"
    BY <1>8, Apart DEF HandleDeregister, Deregister, Detached, Base, Hooks
  <2>4. link' \in [Streams -> {None, "live", "freed", "leaked"}]
    BY <1>8 DEF HandleDeregister, Deregister, ReleaseLinks, Leaked, Base
  <2> QED
    BY <1>1, <1>8, <2>1, <2>2, <2>3, <2>4 DEF HandleDeregister, Deregister, Base
<1> QED
  BY <1>2, <1>3, <1>4, <1>5, <1>6, <1>7, <1>8 DEF Command

\* What the event loop's calls leave alone; __dealloc__ may free the session.
LEMMA CallTypes ==
    ASSUME Base, Calls \/ Post \/ RetryPush
    PROVE  /\ Base' /\ plan'.role = plan.role
           /\ UNCHANGED <<net, h3, link, ended, rxq, dropped, stale>>
           /\ ~Dealloc => UNCHANGED s
<1>1. Spend("creates") \/ Spend("cancels") \/ Spend("ops") \/ UNCHANGED plan
        => plan' \in Scenarios /\ plan'.role = plan.role
  BY Spent DEF Base
<1>2. CASE Open \/ PushOpen \/ OpenFails \/ OpenTimesOut
  BY <1>2, <1>1 DEF Open, PushOpen, OpenFails, OpenTimesOut, Base
<1>3. CASE CreateStream BY <1>3, <1>1 DEF CreateStream, Base
<1>4. CASE CreateCancelled BY <1>4, <1>1 DEF CreateCancelled, Base
<1>5. CASE StreamOp BY <1>5, <1>1 DEF StreamOp, Base
<1>6. CASE Close BY <1>6, <1>1 DEF Close, Base
<1>7. CASE Detach BY <1>7, <1>1 DEF Detach, Base
<1>8. CASE Post BY <1>8, <1>1 DEF Post, Base
<1>9. CASE RetryPush BY <1>9, <1>1 DEF RetryPush, Base
<1>10. CASE Dealloc
  <2>1. s' \in Session
    <3>1. [SessionInit EXCEPT !.mem = "freed"] \in Session
      BY DEF Session, SessionInit, Named
    <3>2. s' = s \/ s' = [SessionInit EXCEPT !.mem = "freed"]
      BY <1>10 DEF Dealloc
    <3> QED
      BY <3>1, <3>2 DEF Base
  <2> QED
    BY <1>10, <2>1, <1>1 DEF Dealloc, Base
<1> QED
  BY <1>2, <1>3, <1>4, <1>5, <1>6, <1>7, <1>8, <1>9, <1>10 DEF Calls

\* A command at the end of the ring.
LEMMA Posted ==
    ASSUME Typed, NEW e \in Commands, Room
    PROVE  Append(txq, e) \in Seq(Commands) /\ Len(Append(txq, e)) <= TxCap
<1>1. txq \in Seq(Commands) /\ Len(txq) < TxCap /\ TxCap \in Nat
  BY WtAssumption DEF Typed, Room
<1> QED
  BY <1>1, Longer

\* The rest of a call.
LEMMA NextPost ==
    ASSUME Typed, ~Idle
    PROVE  /\ Head(py.todo) = py.todo[1] /\ 1 \in 1 .. Len(py.todo)
           /\ Head(py.todo) \in Posts /\ Tail(py.todo) \in Seq(Posts)
           /\ \A i \in 1 .. Len(Tail(py.todo)) :
                  i + 1 \in 1 .. Len(py.todo) /\ Tail(py.todo)[i] = py.todo[i + 1]
<1>1. py.todo \in Seq(Posts) /\ py.todo # << >>
  BY DEF Typed, Object, Idle
<1> QED
  BY <1>1, Rest

\* The Python object and the commands it posts.
LEMMA CallKinds ==
    ASSUME Typed, Calls \/ Post \/ RetryPush
    PROVE  py' \in Object /\ txq' \in Seq(Commands) /\ Len(txq') <= TxCap
<1>1. txq \in Seq(Commands) /\ Len(txq) <= TxCap /\ py \in Object
  BY DEF Typed
<1>2. \A t \in {"open", "close", "fin", "cleanup", "deregister", "op"} :
         Cmd(t) \in Commands
  BY DEF Cmd, Commands
<1>3. CASE Open \/ PushOpen \/ OpenFails \/ OpenTimesOut
  <2>1. CASE Open
    BY <1>1, <2>1 DEF Open, Object
  <2>2. CASE PushOpen
    <3>1. py' \in Object
      BY <1>1, <2>2 DEF PushOpen, Object
    <3> QED
      BY <1>2, <2>2, <3>1, Posted DEF PushOpen
  <2>3. CASE OpenFails
    BY <1>1, <2>3 DEF OpenFails, Object
  <2>4. CASE OpenTimesOut
    BY <1>1, <2>4 DEF OpenTimesOut, Object
  <2> QED
    BY <1>3, <2>1, <2>2, <2>3, <2>4
<1>4. CASE CreateStream
  <2>1. py.made + 1 \in Nat /\ Append(py.pend, py.made + 1) \in Seq(Nat)
    BY <1>1 DEF Object
  <2>2. py' \in Object
    BY <1>1, <1>4, <2>1 DEF CreateStream, Object
  <2>3. [t |-> "create", k |-> py.made + 1] \in Commands
    BY <2>1 DEF Commands
  <2> QED
    BY <1>4, <2>2, <2>3, Posted DEF CreateStream
<1>5. CASE CreateCancelled
  <2>1. PICK k \in Range(py.pend) : py' = [py EXCEPT !.gone = @ \cup {k}]
    BY <1>5 DEF CreateCancelled
  <2>2. k \in Nat
    <3>1. py.pend \in Seq(Nat)
      BY <1>1 DEF Object
    <3>2. \A i \in DOMAIN py.pend : py.pend[i] \in Nat
      BY <3>1
    <3> QED
      BY <2>1, <3>2 DEF Range
  <2>3. py' \in Object
    BY <1>1, <2>1, <2>2 DEF Object
  <2> QED
    BY <1>1, <1>5, <2>3 DEF CreateCancelled
<1>6. CASE StreamOp
  <2>1. PICK code \in 0 .. MaxCode : txq' = Append(txq, [t |-> "op", k |-> code])
    BY <1>6 DEF StreamOp
  <2>2. [t |-> "op", k |-> code] \in Commands
    BY CodesAssumption DEF CodesAssumption, Commands
  <2>3. PICK c \in SUBSET Streams : py' = [py EXCEPT !.ctxs = c]
    <3>1. \A d : py.ctxs \ {d} \in SUBSET Streams
      BY <1>1 DEF Object
    <3> QED
      BY <1>6, <3>1 DEF StreamOp
  <2>4. py' \in Object
    BY <1>1, <2>3 DEF Object
  <2> QED
    BY <1>6, <2>1, <2>2, <2>4, Posted DEF StreamOp
<1>7. CASE Close
  <2>1. <<"close", "cleanup">> \in Seq(Posts) /\ << >> \in Seq(Nat)
    BY DEF Posts
  <2>2. py' \in Object
    BY <1>1, <1>7, <2>1 DEF Close, Released, Object
  <2> QED
    BY <1>1, <1>7, <2>2 DEF Close
<1>8. CASE Detach
  BY <1>1, <1>8 DEF Detach, Object
<1>9. CASE Post
  <2>1. Head(py.todo) \in Posts /\ Tail(py.todo) \in Seq(Posts)
    BY <1>9, NextPost DEF Post
  <2>2. /\ Head(py.todo) # "gone" => Cmd(Head(py.todo)) \in Commands
        /\ [t |-> "op", k |-> SessionGone] \in Commands
    BY <1>2, <2>1, CodesAssumption DEF CodesAssumption, Posts, Commands
  <2>3. py' \in Object
    <3>1. py.owed \cup ({Head(py.todo)} \ {"gone"}) \in SUBSET Owable
      BY <1>1, <2>1 DEF Posts, Object, Owable
    <3>2. PICK o \in SUBSET Owable, q \in Seq(Posts) :
                \/ py' = [py EXCEPT !.todo = q, !.owed = o]
                \/ py' = [py EXCEPT !.todo = q]
      BY <1>9, <2>1, <3>1 DEF Post
    <3>3. [py EXCEPT !.todo = q, !.owed = o] \in Object
      BY <1>1 DEF Object
    <3>4. [py EXCEPT !.todo = q] \in Object
      BY <1>1 DEF Object
    <3> QED
      BY <3>2, <3>3, <3>4
  <2>4. txq' \in Seq(Commands) /\ Len(txq') <= TxCap
    BY <1>1, <1>9, <2>2, Posted DEF Post
  <2> QED
    BY <2>3, <2>4
<1>10. CASE RetryPush
  <2>1. PICK c \in py.owed :
             \/ /\ Room
                /\ txq' = Append(txq, Cmd(c))
                /\ py' = [py EXCEPT !.owed = @ \ {c}, !.tries[c] = 0]
             \/ /\ py' = IF py.tries[c] + 1 < MaxTries
                         THEN [py EXCEPT !.tries[c] = @ + 1]
                         ELSE [py EXCEPT !.owed = @ \ {c}, !.tries[c] = 0,
                                         !.lost = TRUE]
                /\ UNCHANGED txq
    BY <1>10 DEF RetryPush
  <2>2. c \in Owable
    BY <1>1, <2>1 DEF Object
  <2>3. py' \in Object
    <3> DEFINE n0 == [py.tries EXCEPT ![c] = 0]
               n1 == [py.tries EXCEPT ![c] = py.tries[c] + 1]
    <3>1. py.owed \ {c} \in SUBSET Owable
      BY <1>1 DEF Object
    <3>2. py.tries \in [Owable -> 0 .. MaxTries - 1]
      BY <1>1 DEF Object
    <3>3. n0 \in [Owable -> 0 .. MaxTries - 1]
      BY <2>2, <3>2 DEF MaxTries
    <3>4. py.tries[c] + 1 < MaxTries => n1 \in [Owable -> 0 .. MaxTries - 1]
      BY <2>2, <3>2 DEF MaxTries
    <3>5. \/ py' = [py EXCEPT !.owed = py.owed \ {c}, !.tries = n0]
          \/ py.tries[c] + 1 < MaxTries /\ py' = [py EXCEPT !.tries = n1]
          \/ py' = [py EXCEPT !.owed = py.owed \ {c}, !.tries = n0, !.lost = TRUE]
      BY <1>1, <2>1 DEF Object
    <3> HIDE DEF n0, n1
    <3>6. ASSUME NEW o \in SUBSET Owable, NEW n \in [Owable -> 0 .. MaxTries - 1]
          PROVE  /\ [py EXCEPT !.owed = o, !.tries = n] \in Object
                 /\ [py EXCEPT !.tries = n] \in Object
                 /\ [py EXCEPT !.owed = o, !.tries = n, !.lost = TRUE] \in Object
      BY <1>1 DEF Object
    <3> QED
      BY <3>1, <3>3, <3>4, <3>5, <3>6
  <2>4. Cmd(c) \in Commands
    BY <1>2, <2>2 DEF Owable
  <2> QED
    BY <1>1, <2>1, <2>3, <2>4, Posted
<1>11. CASE Dealloc
  <2>1. py' \in Object
    BY <1>1, <1>11 DEF Dealloc, Object
  <2> QED
    BY <1>1, <1>2, <1>11, <2>1, Posted DEF Dealloc
<1> QED
  BY <1>3, <1>4, <1>5, <1>6, <1>7, <1>8, <1>9, <1>10, <1>11 DEF Calls

\* The next event.
LEMMA NextEvent ==
    ASSUME Typed, Take
    PROVE  /\ Event \in Events /\ Event = rxq[1] /\ 1 \in 1 .. Len(rxq)
           /\ Event.t \notin Plain \cup {"failed", "stop"} => Event.d \in Streams
           /\ Event.t = "release" => Event.k = 0
           /\ rxq \in Seq(Events) /\ rxq # << >> /\ Idle /\ rxq' = Tail(rxq)
           /\ rxq' \in Seq(Events) /\ Formed(rxq')
<1>1. rxq \in Seq(Events) /\ Formed(rxq) /\ rxq # << >> /\ Idle /\ rxq' = Tail(rxq)
  BY DEF Typed, Take
<1>2. Event = rxq[1] /\ Event \in Events /\ 1 \in 1 .. Len(rxq) /\ Tail(rxq) \in Seq(Events)
  BY <1>1, Rest DEF Event
<1>3. /\ Event.t \notin Plain \cup {"failed", "stop"} => Event.d \in Streams
      /\ Event.t = "release" => Event.k = 0
  BY <1>1, <1>2 DEF Formed
<1>4. Formed(Tail(rxq))
  BY <1>1, FormedRest
<1> QED
  BY <1>1, <1>2, <1>3, <1>4

\* A reply finds its future.
LEMMA FutureWaits ==
    ASSUME Typed, Paired, ~stale, dropped \cap Replies = {}, Take, Listening,
           Event.t \in Replies
    PROVE  py.pend # << >>
<1>1. rxq \in Seq(Events) /\ 1 \in 1 .. Len(rxq) /\ rxq[1].t \in Replies
  BY NextEvent
<1> DEFINE R == {j \in 1 .. Len(rxq) : rxq[j].t \in Replies}
           C == {j \in 1 .. Len(txq) : txq[j].t \in {"create"}}
<1>2. Len(py.pend) = Cardinality(R) + Cardinality(C)
  BY DEF Paired, Upto
<1>3. Len(rxq) \in Nat /\ Len(txq) \in Nat
  BY <1>1 DEF Typed
<1>4. IsFiniteSet(1 .. Len(rxq)) /\ IsFiniteSet(1 .. Len(txq))
  BY <1>3, FS_Interval
<1>5. IsFiniteSet(R) /\ IsFiniteSet(C)
  BY <1>4, FS_Subset
<1>6. 1 \in R
  BY <1>1
<1> HIDE DEF R, C
<1>7. Cardinality(R) \in Nat /\ Cardinality(C) \in Nat /\ Cardinality(R) # 0
  BY <1>5, <1>6, FS_CardinalityType, FS_EmptySet
<1>8. Len(py.pend) # 0
  BY <1>2, <1>7
<1> QED
  BY <1>8

\* The Python object, as the dispatcher leaves it.
LEMMA DispatchTypes ==
    ASSUME Base, Typed, Dispatch
    PROVE  /\ Base' /\ py' \in Object /\ Take
           /\ UNCHANGED <<plan, s, net, h3, ended, dropped, txq, stale>>
<1>1. Take /\ PyStep
  BY DEF Dispatch, LinkRelease, SpawnSession, Unrouted, OnAnswer, OnClosed,
         OnCreated, OnNewStream, OnStream, Routed
<1>2. py \in Object /\ Event \in Events /\ Event.d \in Streams \cup {NoStream}
  BY <1>1, NextEvent DEF Typed, Events
<1>3. Event.t \in {"newstream", "created", "release"} => Event.d \in Streams
  BY <1>1, NextEvent DEF Plain
<1>4. Base'
  <2>1. link' \in [Streams -> {None, "live", "freed", "leaked"}]
    BY <1>3 DEF Base, Dispatch, LinkRelease, SpawnSession, Unrouted, OnAnswer,
           OnClosed, OnCreated, OnNewStream, OnStream, Routed
  <2> QED
    BY <1>1, <2>1 DEF Base, PyStep
<1>5. \A cmds \in Seq(Posts) : Released(py, cmds) \in Object
  <2>1. << >> \in Seq(Nat)
    OBVIOUS
  <2> QED
    BY <1>2, <2>1 DEF Released, Object
<1>6. SessionClosed \in Object
  <2>1. <<"cleanup">> \in Seq(Posts) /\ <<"cleanup", "fin">> \in Seq(Posts)
    BY DEF Posts
  <2>2. PICK cmds \in Seq(Posts) :
           SessionClosed = [Released(py, cmds) EXCEPT !.attached = client]
    BY <2>1 DEF SessionClosed
  <2>3. Released(py, cmds) \in Object /\ client \in BOOLEAN
    BY <1>5 DEF client
  <2> HIDE DEF Released
  <2> QED
    BY <2>2, <2>3 DEF Object
<1>7. /\ py.owed \cup {"op"} \in SUBSET Owable /\ py.owed \in SUBSET Owable
      /\ py.ctxs \ {Event.d} \in SUBSET Streams
      /\ Event.d \in Streams => py.ctxs \cup {Event.d} \in SUBSET Streams
      /\ Served \in Seq(Nat)
  <2>1. << >> \in Seq(Nat)
    OBVIOUS
  <2>2. py.pend \in Seq(Nat)
    BY <1>2 DEF Object
  <2>3. Served \in Seq(Nat)
    BY <2>1, <2>2 DEF Served
  <2> QED
    BY <1>2, <2>3 DEF Object, Owable
<1>8. py' \in Object
  <2>1. CASE LinkRelease \/ Unrouted
    BY <1>2, <2>1 DEF LinkRelease, Unrouted
  <2>2. CASE SpawnSession \/ OnAnswer
    <3>1. \/ py' = [py EXCEPT !.obj = "live", !.opened = TRUE, !.attached = TRUE,
                               !.ready = TRUE]
          \/ py' = [py EXCEPT !.ready = TRUE]
          \/ py' = [py EXCEPT !.ready = TRUE, !.refused = TRUE]
      BY <2>2 DEF SpawnSession, OnAnswer
    <3>2. [py EXCEPT !.obj = "live", !.opened = TRUE, !.attached = TRUE,
                     !.ready = TRUE] \in Object
      BY <1>2 DEF Object
    <3>3. [py EXCEPT !.ready = TRUE] \in Object
      BY <1>2 DEF Object
    <3>4. [py EXCEPT !.ready = TRUE, !.refused = TRUE] \in Object
      BY <1>2 DEF Object
    <3> QED
      BY <3>1, <3>2, <3>3, <3>4
  <2>3. CASE OnClosed
    BY <1>2, <1>6, <2>3 DEF OnClosed
  <2>4. CASE OnNewStream
    <3>1. <<"cleanup">> \in Seq(Posts)
      BY DEF Posts
    <3> QED
      BY <1>2, <1>3, <2>4, <3>1 DEF OnNewStream, Routed, Object
  <2>5. CASE OnStream
    <3>1. py' = py \/ \E c \in SUBSET Streams : py' = [py EXCEPT !.ctxs = c]
      BY <1>7, <2>5 DEF OnStream
    <3> QED
      BY <1>2, <3>1 DEF Object
  <2>6. CASE OnCreated
    <3>1. CASE Routed("created") /\ py.closed /\ py' = [py EXCEPT !.todo = <<"gone">>]
      <4>1. <<"gone">> \in Seq(Posts)
        BY DEF Posts
      <4> QED
        BY <1>2, <3>1, <4>1 DEF Object
    <3>2. CASE UNCHANGED py
      BY <1>2, <3>2
    <3>3. CASE Routed("created") \/ Routed("failed")
      <4>1. \/ UNCHANGED py
            \/ py' = [py EXCEPT !.todo = <<"gone">>] /\ Routed("created") /\ py.closed
            \/ \E c \in SUBSET Streams : py' = [py EXCEPT !.pend = Served, !.ctxs = c]
            \/ \E o \in SUBSET Owable : py' = [py EXCEPT !.pend = Served, !.owed = o]
        BY <1>3, <1>7, <2>6 DEF OnCreated, Routed
      <4>2. ASSUME NEW c \in SUBSET Streams
            PROVE  [py EXCEPT !.pend = Served, !.ctxs = c] \in Object
        BY <1>2, <1>7 DEF Object
      <4>3. ASSUME NEW o \in SUBSET Owable
            PROVE  [py EXCEPT !.pend = Served, !.owed = o] \in Object
        BY <1>2, <1>7 DEF Object
      <4> QED
        BY <3>1, <3>2, <4>1, <4>2, <4>3
    <3> QED
      BY <2>6, <3>1, <3>2, <3>3 DEF OnCreated
  <2> QED
    BY <2>1, <2>2, <2>3, <2>4, <2>5, <2>6 DEF Dispatch
<1> QED
  BY <1>1, <1>4, <1>8 DEF PyStep

-----------------------------------------------------------------------------
(* The session's callbacks.                                                *)

\* None comes before there is a connection.
LEMMA CallbackStarted ==
    ASSUME Callbacks \/ AppWakeup
    PROVE  client => net.cnx # None
  BY DEF Callbacks, AppWakeup, ServerBootstrap, ServerConnect, ConnectAccepted,
         ConnectRefused, ControlStopSending, ControlCapsule, ControlFin,
         ControlReset, ControlFree, CnxFreed, PeerStream, StreamData, StreamFin,
         StreamReset, StreamFree, CnxClosed, ControlCalled, StreamCalled, Up, None

\* They touch neither the Python object nor its commands.
LEMMA CallbackQuiet == Callbacks \/ AppWakeup => UNCHANGED <<txq, py, stale>>
<1> SUFFICES ASSUME Callbacks \/ AppWakeup PROVE UNCHANGED <<txq, py, stale>>
  OBVIOUS
<1>1. CASE AppWakeup
  BY <1>1, Zenon DEF AppWakeup
<1>2. CASE Callbacks
  BY <1>2, Zenon DEF Callbacks, ServerBootstrap, ServerConnect, ConnectAccepted,
         ConnectRefused, ControlStopSending, ControlCapsule, ControlFin,
         ControlReset, ControlFree, CnxFreed, PeerStream, StreamData, StreamFin,
         StreamReset, StreamFree, CnxClosed
<1> QED
  BY <1>1, <1>2

LEMMA CallbackOwner ==
    ASSUME Base, Owner, Asked, Callbacks \/ AppWakeup
    PROVE  Owner' /\ Asked'
<1>1. UNCHANGED <<txq, py>> /\ plan'.role = plan.role /\ (client => net.cnx # None)
  BY CallbackQuiet, CallbackTypes, CallbackStarted
<1>2. client' <=> client
  BY <1>1 DEF client
<1>3. ~(client /\ Fresh)
  BY <1>1 DEF Fresh
<1>4. Owner'
  BY <1>1, <1>2, <1>3 DEF Owner
<1>5. \A x : MayAsk(x)' <=> MayAsk(x)
  BY <1>1 DEF MayAsk
<1>6. Asked'
  BY <1>1, <1>2, <1>3, <1>5 DEF Asked
<1> QED
  BY <1>4, <1>6

\* A server without a session has nothing to call.
LEMMA NothingToCall ==
    ASSUME Typed, Links, Base, News, Hooked, s.mem = "no", Callbacks \/ AppWakeup
    PROVE  ServerConnect \/ (UNCHANGED <<s, rxq>> /\ ~client)
<1>1. /\ ~client /\ rxq = << >> /\ net.prefix = NoStream
      /\ \A x \in Connects \cup Streams : h3[x] = None
  BY DEF News, Hooked, Base
<1>2. ~ControlCalled /\ \A d \in Streams : ~StreamCalled(d)
  BY DEF ControlCalled, StreamCalled
<1>3. ~ControlFree /\ ~AppWakeup
  BY <1>1 DEF ControlFree, AppWakeup, Base, Session, Named, None
<1>4. \A d \in Streams : ~PeerStream(d) /\ ~StreamFree(d)
  BY <1>1 DEF PeerStream, StreamFree, None
<1>5. ASSUME NEW kind, CnxClosed(kind) PROVE UNCHANGED <<s, rxq>>
  <2>1. PICK r : Grew(r) /\ r = << >>
    BY <1>1, <1>5, ClosedGrew
  <2>2. rxq' = rxq
    BY <2>1, Appended DEF Grew
  <2>3. s' = s
    BY <1>1, <1>5 DEF CnxClosed
  <2> QED
    BY <2>2, <2>3
<1> QED
  BY <1>1, <1>2, <1>3, <1>4, <1>5 DEF Callbacks, ServerBootstrap, ConnectAccepted,
     ConnectRefused, ControlStopSending, ControlCapsule, ControlFin, ControlReset,
     CnxFreed, StreamData, StreamFin, StreamReset

\* Entries that answer no request and announce no session.
Unasked(r) == \A i \in 1 .. Len(r) : r[i].t \notin Replies \cup {"new"}

LEMMA CalmGrew ==
    ASSUME Typed, Links, CalmStep
    PROVE  \E r : Grew(r) /\ Unasked(r)
<1>1. PICK r : Calm(r) /\ rxq' = rxq \o r
  BY DEF CalmStep
<1>2. Grew(r)
  BY <1>1, CalmKept DEF CalmStep
<1>3. Unasked(r)
  BY <1>1 DEF Calm, Unasked, Replies
<1> QED
  BY <1>2, <1>3

\* What callbacks tell Python.
LEMMA CallbackGrew ==
    ASSUME Typed, Links, Callbacks \/ AppWakeup, ~ServerConnect
    PROVE  \E r : Grew(r) /\ Unasked(r)
<1>1. ASSUME NEW d \in Streams, StreamData(d) \/ StreamFin(d)
      PROVE  \E r : Grew(r) /\ Unasked(r)
  BY <1>1, BytesGrew DEF Unasked, Replies
<1>2. ASSUME NEW d \in Streams, StreamFree(d)
      PROVE  \E r : Grew(r) /\ Unasked(r)
  BY <1>2, FreeGrew DEF Unasked, Replies
<1>3. ASSUME NEW kind, CnxClosed(kind)
      PROVE  \E r : Grew(r) /\ Unasked(r)
  BY <1>3, ClosedGrew DEF Unasked
<1>4. ASSUME CalmStep
      PROVE  \E r : Grew(r) /\ Unasked(r)
  BY <1>4, CalmGrew
<1> QED
  BY <1>1, <1>2, <1>3, <1>4, CalmCallbacks DEF Callbacks

\* The RX queue keeps its type.
LEMMA GrewTypes ==
    ASSUME Typed, NEW r, Grew(r)
    PROVE  rxq' \in Seq(Events) /\ Formed(rxq')
<1>1. /\ rxq \in Seq(Events) /\ Formed(rxq) /\ r \in Seq(Events) /\ Formed(r)
      /\ rxq' = rxq \o r
  BY DEF Typed, Grew
<1> QED
  BY <1>1, FormedConcat

\* No news: the queue's announcement stays the only one.
LEMMA NewsKept ==
    ASSUME Typed, News, NEW r, Grew(r), UNCHANGED py,
           \A i \in 1 .. Len(r) : r[i].t # "new",
           plan'.role = plan.role, s'.mem = s.mem \/ s'.mem = "freed",
           s'.mem = "freed" => py.obj = "dropped",
           s.mem = "no" => rxq' = rxq
    PROVE  News'
<1>1. /\ rxq \in Seq(Events) /\ r \in Seq(Events) /\ rxq' = rxq \o r
  BY DEF Typed, Grew
<1>2. \A i \in 1 .. Len(rxq') : rxq'[i].t = "new" => i \in 1 .. Len(rxq) /\ rxq'[i] = rxq[i]
  BY <1>1, Concat
<1>3. client' <=> client
  BY DEF client
<1>4. s'.mem = "freed" => \A i \in 1 .. Len(rxq') : rxq'[i].t # "new"
  BY <1>2 DEF News
<1> QED
  BY <1>2, <1>3, <1>4 DEF News

LEMMA CallbackMem ==
    ASSUME Base, Callbacks \/ AppWakeup, ~ServerConnect
    PROVE  s'.mem = s.mem
<1>1. PeerFin.mem = s.mem
  <2>1. [s EXCEPT !.closing = TRUE, !.peerFin = TRUE] \in Session
    BY DEF Base, Session
  <2>2. [s EXCEPT !.closing = TRUE, !.peerFin = TRUE].mem = s.mem
    BY DEF Base, Session
  <2> QED
    BY <2>1, <2>2, Deadline DEF PeerFin
<1>2. s \in Session
  BY DEF Base
<1>3. Retries => s'.mem = s.mem
  BY <1>2 DEF Retries, RetryConnect, Session
<1>4. CASE ConnectRefused \/ ControlStopSending \/ ControlReset
  BY <1>1, <1>3, <1>4 DEF ConnectRefused, ControlStopSending, ControlReset
<1>5. CASE ServerBootstrap \/ ConnectAccepted \/ ControlCapsule \/ ControlFin
             \/ ControlFree \/ CnxFreed \/ AppWakeup
  BY <1>1, <1>2, <1>5 DEF ServerBootstrap, ConnectAccepted, ControlCapsule,
     ControlFin, ControlFree, CnxFreed, AppWakeup, Session
<1>6. ASSUME NEW d \in Streams, PeerStream(d) \/ StreamData(d) \/ StreamFin(d)
                                   \/ StreamReset(d) \/ StreamFree(d)
      PROVE  s'.mem = s.mem
  BY <1>6 DEF PeerStream, StreamData, StreamFin, StreamReset, StreamFree
<1>7. ASSUME NEW kind, CnxClosed(kind) PROVE s'.mem = s.mem
  BY <1>2, <1>7 DEF CnxClosed, Session
<1> QED
  BY <1>4, <1>5, <1>6, <1>7 DEF Callbacks

LEMMA CallbackNews ==
    ASSUME Typed, Base, Links, Hooked, News, Callbacks \/ AppWakeup
    PROVE  News'
<1>1. UNCHANGED py /\ plan'.role = plan.role
  BY CallbackQuiet, CallbackTypes
<1>2. CASE ServerConnect
  <2>1. s.mem = "no" /\ rxq = << >> /\ py.obj = "no" /\ ~client /\ s'.mem = "live"
    BY <1>2 DEF ServerConnect, News, Base, Session
  <2>2. PICK r : Grew(r) /\ (r = <<About("new")>> \/ r = << >>)
    BY <1>2, AnnounceGrew
  <2>3. rxq' \in Seq(Events) /\ Len(rxq') \in 0 .. 1
    <3>1. r \in Seq(Events) /\ rxq' = r
      BY <2>1, <2>2 DEF Grew
    <3> QED
      BY <2>2, <3>1
  <2> QED
    BY <1>1, <2>1, <2>3 DEF News
<1>3. CASE ~ServerConnect
  <2>1. s'.mem = s.mem
    BY <1>3, CallbackMem
  <2>2. s.mem = "no" => rxq' = rxq
    BY <1>3, NothingToCall
  <2>3. s.mem = "freed" => py.obj = "dropped"
    BY DEF News
  <2>4. PICK r : Grew(r) /\ Unasked(r)
    BY <1>3, CallbackGrew
  <2>5. \A i \in 1 .. Len(r) : r[i].t # "new"
    BY <2>4 DEF Unasked
  <2> QED
    BY <1>1, <2>1, <2>2, <2>3, <2>4, <2>5, NewsKept
<1> QED
  BY <1>2, <1>3

\* CONNECT's prefix and context name the session, and a freed one no more.
Naming == Hooked /\ FreedIsUnnamed

\* A step that leaves the session's names as they are.
LEMMA SameNames ==
    ASSUME Base, Naming, Base', UNCHANGED py, plan'.role = plan.role,
           txq = << >> => txq' = << >>,
           s'.mem = s.mem, s'.at = s.at, s'.ctl = s.ctl, s'.id = s.id,
           s'.retry = s.retry, net'.cnx = net.cnx, net'.prefix = net.prefix,
           \/ "peer" \in net'.fins => "peer" \in net.fins
           \/ ~client
           \/ s.ctl # NoStream => h3[s.id] = "session",
           \A c \in Connects : h3'[c] = h3[c],
           s.mem = "no" => h3' = h3,
           s.mem = "freed" => \A d \in Streams : h3'[d] = "link" => h3[d] = "link"
    PROVE  Naming'
<1>1. /\ DOMAIN h3 = Connects \cup Streams /\ DOMAIN h3' = Connects \cup Streams
      /\ s.ctl \in Connects \cup {NoStream} /\ s.id \in Connects \cup {NoStream}
      /\ \A c \in Connects : c # NoStream
  BY Apart DEF Base, Session, Named
<1>2. (client' <=> client) /\ (Up' <=> Up)
  BY DEF client, Up
<1>3. Hooked'
  <2>1. (s.mem = "no")' => (/\ net.prefix = NoStream /\ s.ctl = NoStream /\ ~s.at
                            /\ \A x \in DOMAIN h3 : h3[x] = None)'
    BY DEF Naming, Hooked
  <2>2. (s.mem = "live")' =>
         (/\ Up => s.at
          /\ s.ctl # NoStream =>
              /\ s.ctl = s.id
              /\ \/ h3[s.id] = "session"
                 \/ h3[s.id] = "null" /\ client /\ "peer" \notin net.fins
          /\ ~client => /\ Up => net.prefix # NoStream
                        /\ s.ctl # NoStream => Up
          /\ Up => \A c \in Connects : h3[c] = "session" => s.ctl = c)'
    BY <1>1, <1>2 DEF Naming, Hooked
  <2>3. (~client => /\ net.cnx # "app" /\ ~s.retry
                    /\ net.cnx = None => s.mem = "no")'
    BY <1>2 DEF Naming, Hooked
  <2> QED
    BY <2>1, <2>2, <2>3 DEF Hooked
<1>4. FreedIsUnnamed'
  BY <1>1, <1>2 DEF Naming, FreedIsUnnamed, Base
<1> QED
  BY <1>3, <1>4 DEF Naming

LEMMA RetryNaming ==
    ASSUME Base, Base', Naming, ControlCalled, Retries, UNCHANGED <<txq, py>>,
           plan'.role = plan.role
    PROVE  Naming'
<1>0. PICK out \in {"sent", "unsent", "none"} : RetryConnect(out)
  BY DEF Retries
<1>1. /\ DOMAIN h3 = Connects \cup Streams /\ DOMAIN h3' = Connects \cup Streams
      /\ s.ctl \in Connects \cup {NoStream} /\ s.id \in Connects
      /\ \A c \in Connects : c # NoStream
  BY Apart DEF Base, Session, Named, ControlCalled
<1>2. s.mem = "live" /\ s.at /\ Up /\ client
  <2>1. s.mem = "live" /\ Up /\ CanRetry
    BY <1>0 DEF ControlCalled, RetryConnect
  <2> QED
    BY <2>1 DEF CanRetry, Naming, Hooked
<1>3. /\ s'.mem = "live" /\ s'.at /\ net'.cnx = net.cnx /\ client'
      /\ s'.ctl = (IF out # "none" THEN Retry ELSE NoStream)
      /\ out # "none" => s'.id = Retry
      /\ net'.fins = {}
  BY <1>0, <1>2 DEF RetryConnect, Base, Session, Net, client
<1>4. \A c \in Connects :
         h3'[c] = IF c = Retry /\ out = "sent" THEN "session"
                  ELSE IF c = Retry /\ out = "unsent" THEN "null"
                  ELSE IF c = s.id THEN "null" ELSE h3[c]
  BY <1>0, <1>1, Apart DEF RetryConnect
<1>5. \A c \in Connects : h3[c] = "session" => c = s.id
  BY <1>1, <1>2 DEF Naming, Hooked
<1>6. Up' /\ \A c \in Connects : h3'[c] = "session" => s'.ctl = c
  BY <1>2, <1>3, <1>4, <1>5 DEF Up
<1>7. Retry \in Connects /\ Retry # NoStream
  BY <1>1 DEF Connects
<1>8. s'.ctl # NoStream =>
        s'.ctl = s'.id /\ h3'[s'.id] \in {"session", "null"}
  BY <1>3, <1>4, <1>7
<1> QED
  BY <1>3, <1>6, <1>8 DEF Naming, Hooked, FreedIsUnnamed

LEMMA CallbackNaming ==
    ASSUME Base, Naming, News, Callbacks \/ AppWakeup
    PROVE  Naming'
<1>1. Base' /\ plan'.role = plan.role /\ UNCHANGED <<txq, py>>
  BY CallbackTypes, CallbackQuiet
<1>2. /\ DOMAIN h3 = Connects \cup Streams /\ DOMAIN h3' = Connects \cup Streams
      /\ s.ctl \in Connects \cup {NoStream} /\ s.id \in Connects \cup {NoStream}
      /\ \A c \in Connects : c # NoStream
      /\ \A d \in Streams : d \notin Connects
  BY <1>1, Apart DEF Base, Session, Named
<1>3. s \in Session /\ net \in Net
  BY DEF Base
<1>4. client' <=> client
  BY <1>1 DEF client
<1>5. CASE ServerBootstrap
  <2>1. s.mem = "no" /\ ~client /\ UNCHANGED <<s, h3>> /\ net'.cnx = "up"
        /\ net'.prefix = net.prefix
    BY <1>3, <1>5 DEF ServerBootstrap, Naming, Hooked, Net
  <2> QED
    BY <1>4, <2>1 DEF Naming, Hooked, FreedIsUnnamed, None
<1>6. CASE ServerConnect
  <2>1. /\ ~client /\ net'.cnx = "up" /\ net'.prefix = Connect
        /\ s'.mem = "live" /\ s'.at /\ s'.ctl = Connect /\ s'.id = Connect
        /\ s'.retry = s.retry
    BY <1>3, <1>6 DEF ServerConnect, Session, Net
  <2>2. \A c \in Connects : h3'[c] = (IF c = Connect THEN "session" ELSE h3[c])
    BY <1>2, <1>6 DEF ServerConnect
  <2>3. \A c \in Connects : h3[c] = None
    BY <1>2, <1>6 DEF ServerConnect, Naming, Hooked
  <2>4. \A c \in Connects : h3'[c] = "session" <=> c = Connect
    BY <2>2, <2>3 DEF None
  <2> QED
    BY <1>4, <2>1, <2>4, Apart DEF Naming, Hooked, FreedIsUnnamed, Up, None
<1>7. CASE ConnectAccepted \/ ControlCapsule \/ AppWakeup
  <2>1. /\ s'.mem = s.mem /\ s'.at = s.at /\ s'.ctl = s.ctl /\ s'.id = s.id
        /\ s'.retry = s.retry /\ net'.cnx = net.cnx /\ net'.prefix = net.prefix
        /\ net'.fins = net.fins /\ h3' = h3
    BY <1>3, <1>7 DEF ConnectAccepted, ControlCapsule, AppWakeup, Session, Net
  <2> QED
    BY <1>1, <2>1, SameNames
<1>8. CASE ConnectRefused
  <2>1. CASE Retries
    BY <1>1, <1>8, <2>1, RetryNaming DEF ConnectRefused
  <2>2. CASE net' = [net EXCEPT !.answered = TRUE] /\ UNCHANGED <<s, h3>>
    <3>1. net'.cnx = net.cnx /\ net'.prefix = net.prefix /\ net'.fins = net.fins
      BY <1>3, <2>2 DEF Net
    <3> QED
      BY <1>1, <2>2, <3>1, SameNames
  <2> QED
    BY <1>8, <2>1, <2>2 DEF ConnectRefused
<1>9. CASE ControlStopSending
  <2>1. CASE Retries
    BY <1>1, <1>9, <2>1, RetryNaming DEF ControlStopSending
  <2>2. CASE UNCHANGED <<s, net, h3>>
    BY <1>1, <2>2, SameNames
  <2> QED
    BY <1>9, <2>1, <2>2 DEF ControlStopSending
<1>10. ASSUME ControlCalled, s' = PeerFin, h3' = h3,
             net'.cnx = net.cnx /\ net'.prefix = net.prefix
      PROVE  Naming'
  <2>1. [s EXCEPT !.closing = TRUE, !.peerFin = TRUE] \in Session
    BY <1>3 DEF Session
  <2>2. /\ s'.mem = s.mem /\ s'.at = s.at /\ s'.ctl = s.ctl /\ s'.id = s.id
    BY <1>3, <1>10, <2>1, Deadline DEF PeerFin, Session
  <2>3. s'.retry = s.retry
    BY <1>3, <1>10 DEF PeerFin, MaybeCloseCnx, Session
  <2>4. client => h3[s.id] = "session"
    BY <1>10 DEF ControlCalled
  <2> QED
    BY <1>1, <1>10, <2>2, <2>3, <2>4, SameNames
<1>11. CASE ControlFin
  <2>1. net'.cnx = net.cnx /\ net'.prefix = net.prefix
    BY <1>3, <1>11 DEF ControlFin, Net
  <2> QED
    BY <1>10, <1>11, <2>1 DEF ControlFin
<1>12. CASE ControlReset
  <2>1. CASE Retries
    BY <1>1, <1>12, <2>1, RetryNaming DEF ControlReset
  <2>2. CASE /\ s' = PeerFin /\ UNCHANGED h3
             /\ net' = [net EXCEPT !.fins = @ \cup {"peer"}, !.answered = TRUE]
    <3>1. net'.cnx = net.cnx /\ net'.prefix = net.prefix
      BY <1>3, <2>2 DEF Net
    <3> QED
      BY <1>10, <1>12, <2>2, <3>1 DEF ControlReset
  <2> QED
    BY <1>12, <2>1, <2>2 DEF ControlReset
<1>13. CASE ControlFree
  <2>1. /\ Up /\ net' = net /\ net.fins = {"us", "peer"}
        /\ s.id \in Connects /\ h3[s.id] \in {"session", "null"}
        /\ h3' = [h3 EXCEPT ![s.id] = "freed"]
        /\ s' = IF h3[s.id] = "session" THEN [s EXCEPT !.ctl = NoStream] ELSE s
    BY <1>2, <1>13 DEF ControlFree
  <2>2. /\ h3'[s.id] = "freed"
        /\ \A c \in Connects : c # s.id => h3'[c] = h3[c]
        /\ \A d \in Streams : h3'[d] = h3[d]
    BY <1>2, <2>1
  <2>3. /\ s'.mem = s.mem /\ s'.at = s.at /\ s'.id = s.id /\ s'.retry = s.retry
        /\ s'.ctl = IF h3[s.id] = "session" THEN NoStream ELSE s.ctl
    BY <1>3, <2>1 DEF Session
  <2>4. s.mem # "no"
    BY <1>2, <2>1 DEF Naming, Hooked, None
  <2>5. CASE s.mem = "live"
    <3>1. s'.ctl = NoStream
      BY <2>1, <2>3, <2>5 DEF Naming, Hooked
    <3>2. \A c \in Connects : h3'[c] # "session"
      <4>1. \A c \in Connects : h3[c] = "session" => s.ctl = c
        BY <2>1, <2>5 DEF Naming, Hooked
      <4>2. s.ctl # NoStream => s.ctl = s.id
        BY <2>5 DEF Naming, Hooked
      <4> QED
        BY <1>2, <2>2, <4>1, <4>2
    <3> QED
      BY <1>4, <2>1, <2>3, <2>5, <3>1, <3>2 DEF Naming, Hooked, FreedIsUnnamed, Up
  <2>6. CASE s.mem = "freed"
    <3>1. Hooked'
      BY <1>4, <2>1, <2>3, <2>6 DEF Naming, Hooked
    <3>2. FreedIsUnnamed'
      BY <1>1, <1>2, <2>1, <2>2, <2>6 DEF Naming, FreedIsUnnamed, Up
    <3> QED
      BY <3>1, <3>2 DEF Naming
  <2> QED
    BY <1>3, <2>4, <2>5, <2>6 DEF Session
<1>14. CASE CnxFreed
  <2>1. /\ net.cnx = "down" /\ net'.cnx = "gone" /\ net'.prefix = net.prefix
        /\ net'.fins = net.fins /\ UNCHANGED <<s, h3>>
    BY <1>3, <1>14 DEF CnxFreed, Net
  <2> QED
    BY <1>4, <2>1, <1>1 DEF Naming, Hooked, FreedIsUnnamed, Up, None
<1>15. ASSUME NEW d \in Streams, PeerStream(d) \/ StreamData(d) \/ StreamFin(d)
                                    \/ StreamReset(d) \/ StreamFree(d)
       PROVE  Naming'
  <2>1. UNCHANGED <<s, net>>
    BY <1>15 DEF PeerStream, StreamData, StreamFin, StreamReset, StreamFree
  <2>2. h3' = h3 \/ \E v : h3' = [h3 EXCEPT ![d] = v]
    BY <1>15 DEF PeerStream, StreamData, StreamFin, StreamReset, StreamFree, EnsureLink
  <2>3. s.mem = "no" => h3' = h3
    BY <1>2, <1>15 DEF PeerStream, StreamData, StreamFin, StreamReset, StreamFree,
       StreamCalled, Naming, Hooked, None
  <2>4. s.mem = "freed" => h3' = h3 \/ h3' = [h3 EXCEPT ![d] = "session"]
                             \/ h3' = [h3 EXCEPT ![d] = "freed"]
    BY <1>15 DEF PeerStream, StreamData, StreamFin, StreamReset, StreamFree,
       StreamCalled
  <2>5. /\ \A c \in Connects : h3'[c] = h3[c]
        /\ s.mem = "freed" => \A x \in Streams : h3'[x] = "link" => h3[x] = "link"
    BY <1>2, <2>2, <2>4
  <2> QED
    BY <1>1, <2>1, <2>3, <2>5, SameNames
<1>16. ASSUME NEW kind, CnxClosed(kind) PROVE Naming'
  <2>1. /\ Up /\ net'.fins = net.fins
        /\ net'.cnx = (IF client /\ kind = "app" THEN "app" ELSE "down")
        /\ net'.prefix = IF client THEN net.prefix ELSE NoStream
        /\ s'.mem = s.mem /\ s'.id = s.id /\ s'.retry = s.retry
    BY <1>3, <1>16 DEF CnxClosed, Session, Net
  <2>2. CASE client
    <3>1. s'.ctl = s.ctl /\ s'.at = s.at /\ h3' = h3 /\ s.mem # "no"
      BY <1>3, <1>16, <2>2 DEF CnxClosed, CnxEnds, Session, News
    <3> QED
      BY <1>1, <1>4, <2>1, <2>2, <3>1 DEF Naming, Hooked, FreedIsUnnamed, Up
  <2>3. CASE ~client
    <3>1. ~Up' /\ net'.cnx = "down" /\ net'.prefix = NoStream
      BY <2>1, <2>3 DEF Up
    <3>2. s.mem = "live" => s'.ctl = NoStream
      BY <1>3, <1>16, <2>1, <2>3 DEF CnxClosed, Session, Naming, Hooked
    <3>3. s.mem = "no" => s' = s /\ \A x \in DOMAIN h3' : h3'[x] = None
      BY <1>2, <1>16, <2>3 DEF CnxClosed, CnxEnds, Naming, Hooked
    <3>4. FreedIsUnnamed'
      BY <1>1, <2>1, <3>1 DEF Naming, FreedIsUnnamed
    <3>5. Hooked'
      BY <1>4, <2>1, <2>3, <3>1, <3>2, <3>3 DEF Naming, Hooked, None
    <3> QED
      BY <3>4, <3>5 DEF Naming
  <2> QED
    BY <2>2, <2>3
<1> QED
  BY <1>5, <1>6, <1>7, <1>8, <1>9, <1>11, <1>12, <1>13, <1>14, <1>15, <1>16
     DEF Callbacks

-----------------------------------------------------------------------------
(* The session's commands.                                                 *)

\* The command at the head is one the session may ask for, and there is a
\* session, freed only if it was never opened.
LEMMA HeadAsked ==
    ASSUME Typed, Owner, Asked, News, FreedIsUnnamed, txq # << >>
    PROVE  /\ MayAsk(Head(txq).t) /\ s.mem # "no" /\ py.obj # "no"
           /\ s.mem = "freed" => ~py.opened
           /\ Head(txq).t = "open" => client /\ Fresh /\ s.mem = "live"
           /\ Head(txq).t = "deregister" => Len(txq) = 1 /\ py.obj = "dropped"
           /\ \A i \in 2 .. Len(txq) :
                  txq[i].t = "open" =>
                      client /\ Fresh /\ s.mem = "live" /\ Head(txq).t \in Idling
<1>1. Head(txq) = txq[1] /\ 1 \in 1 .. Len(txq) /\ Len(txq) \in Nat
  BY FirstCommand DEF Typed
<1>2. py.obj # "no"
  BY DEF Owner
<1>3. s.mem # "no"
  BY <1>2 DEF News
<1>4. /\ MayAsk(txq[1].t)
      /\ txq[1].t = "open" => client /\ Fresh /\ s.mem = "live"
      /\ txq[1].t = "deregister" => 1 = Len(txq) /\ py.obj = "dropped"
  BY <1>1 DEF Asked
<1>5. s.mem = "freed" => ~py.opened
  BY DEF FreedIsUnnamed
<1>6. ASSUME NEW i \in 2 .. Len(txq), txq[i].t = "open"
      PROVE  client /\ Fresh /\ s.mem = "live" /\ Head(txq).t \in Idling
  <2>1. i \in 1 .. Len(txq) /\ 1 < i
    BY <1>1
  <2> QED
    BY <1>1, <1>6, <2>1 DEF Asked
<1> QED
  BY <1>1, <1>2, <1>3, <1>4, <1>5, <1>6

\* What is asked of a session that has no connection reaches nothing.
LEMMA FreshKept ==
    ASSUME Typed, Base, Fresh, Command, Head(txq).t \in Idling
    PROVE  Fresh' /\ s'.mem = s.mem
<1>1. ~s.at /\ s.mem # "no" /\ ~UsesCnx(Head(txq).t)
  BY DEF UsesCnx, Fresh
<1>2. CASE HandleClose("close") \/ HandleClose("fin")
  BY <1>1, <1>2 DEF HandleClose, Fresh
<1>3. CASE HandleStreamOp
  BY <1>1, <1>3 DEF HandleStreamOp, Fresh
<1>4. CASE HandleCleanup
  <2>1. [s EXCEPT !.cleanup = TRUE] \in Session
    BY DEF Base, Session
  <2>2. s'.mem = s.mem /\ s'.at = s.at /\ s'.ctl = s.ctl
    BY <1>4, <2>1, Deadline DEF HandleCleanup, Base, Session
  <2> QED
    BY <1>1, <1>4, <2>2 DEF HandleCleanup, Fresh
<1> QED
  BY <1>1, <1>2, <1>3, <1>4 DEF Command, HandleStale, HandleOpen, HandleCreate,
     HandleDeregister, Deregister, Handle, Pop, Idling

LEMMA CommandOwner ==
    ASSUME Typed, Base, Base', Owner, Asked, News, FreedIsUnnamed, Command,
           UNCHANGED <<plan, py>>, Pops
    PROVE  Owner' /\ Asked'
<1>1. client' <=> client
  BY DEF client
<1>2. /\ txq' \in Seq(Commands) /\ Len(txq) \in Nat /\ Len(txq') = Len(txq) - 1
      /\ \A i \in 1 .. Len(txq') : i + 1 \in 1 .. Len(txq) /\ txq'[i] = txq[i + 1]
  BY Rest DEF Pops, Typed
<1>3. /\ MayAsk(Head(txq).t) /\ py.obj # "no"
      /\ \A i \in 2 .. Len(txq) :
             txq[i].t = "open" =>
                 client /\ Fresh /\ s.mem = "live" /\ Head(txq).t \in Idling
  BY HeadAsked DEF Pops
<1>4. Owner'
  <2>1. client /\ ~py.opened => Fresh'
    BY <1>3, FreshKept DEF Owner, MayAsk
  <2> QED
    BY <1>1, <1>3, <2>1 DEF Owner
<1>5. \A x : MayAsk(x)' <=> MayAsk(x)
  BY DEF MayAsk
<1>6. ASSUME NEW i \in 1 .. Len(txq')
      PROVE  /\ MayAsk(txq'[i].t)
             /\ txq'[i].t = "open" =>
                  /\ client /\ Fresh' /\ s'.mem = "live"
                  /\ \A j \in 1 .. Len(txq') : j < i => txq'[j].t \in Idling
             /\ txq'[i].t = "deregister" => i = Len(txq') /\ py.obj = "dropped"
  <2>1. /\ i + 1 \in 1 .. Len(txq) /\ txq'[i] = txq[i + 1] /\ i \in Nat /\ i # 0
        /\ i + 1 \in 2 .. Len(txq)
    BY <1>2
  <2>2. /\ MayAsk(txq[i + 1].t)
        /\ txq[i + 1].t = "open" =>
             \A j \in 1 .. Len(txq) : j < i + 1 => txq[j].t \in Idling
        /\ txq[i + 1].t = "deregister" => i + 1 = Len(txq) /\ py.obj = "dropped"
    BY <2>1 DEF Asked
  <2>3. txq'[i].t = "open" => client /\ Fresh' /\ s'.mem = "live"
    BY <1>3, <2>1, FreshKept
  <2>4. ASSUME txq'[i].t = "open", NEW j \in 1 .. Len(txq'), j < i
        PROVE  txq'[j].t \in Idling
    <3>1. j + 1 \in 1 .. Len(txq) /\ txq'[j] = txq[j + 1] /\ j + 1 < i + 1
      BY <1>2, <2>1, <2>4
    <3> QED
      BY <2>1, <2>2, <2>4, <3>1
  <2> QED
    BY <1>2, <2>1, <2>2, <2>3, <2>4
<1>7. Asked'
  BY <1>1, <1>5, <1>6 DEF Asked
<1> QED
  BY <1>4, <1>7

\* What commands tell Python.
LEMMA CommandGrew ==
    ASSUME Typed, Owner, Asked, News, FreedIsUnnamed, Links, Command
    PROVE  \E r : /\ Grew(r) /\ \A i \in 1 .. Len(r) : r[i].t # "new"
                  /\ Unasked(r) \/ HandleCreate
<1>1. txq # << >>
  BY CommandStep DEF Pops
<1>2. CASE HandleCleanup \/ HandleDeregister
  <2>1. ~Listening
    <3>1. CASE HandleCleanup
      BY <1>1, <3>1, HeadAsked DEF HandleCleanup, Handle, Pop, MayAsk, Listening
    <3>2. CASE HandleDeregister
      BY <1>1, <3>2, HeadAsked DEF HandleDeregister, Deregister, Pop, MayAsk,
         Listening, Owner, Idling
    <3> QED
      BY <1>2, <3>1, <3>2
  <2> QED
    BY <1>2, <2>1, ReleasesGrew DEF Unasked, Replies
<1>3. CASE HandleCreate
  <2>1. PICK e \in Events : \E r : Grew(r) /\ Answers(e, r)
    BY <1>3, CreateGrew
  <2>2. PICK r : Grew(r) /\ Answers(e, r)
    BY <2>1
  <2>3. \A i \in 1 .. Len(r) : r[i].t # "new"
    <3>1. e.t # "new" /\ (r = <<e>> \/ r = << >>)
      BY <2>2 DEF Answers, Replies
    <3> QED
      BY <3>1
  <2> QED
    BY <1>3, <2>2, <2>3
<1>4. ASSUME CalmStep
      PROVE  \E r : Grew(r) /\ Unasked(r)
  BY <1>4, CalmGrew
<1> QED
  BY <1>2, <1>3, <1>4, CalmCommands DEF Command, Unasked

LEMMA CommandMem ==
    ASSUME Base, Command
    PROVE  s'.mem = s.mem \/ (HandleDeregister /\ s'.mem = "freed")
<1>1. s \in Session
  BY DEF Base
<1>2. /\ [s EXCEPT !.cleanup = TRUE] \in Session
      /\ [s EXCEPT !.finSent = TRUE, !.closing = TRUE] \in Session
      /\ [s EXCEPT !.cleanup = TRUE].mem = s.mem
      /\ [s EXCEPT !.finSent = TRUE, !.closing = TRUE].mem = s.mem
  BY <1>1 DEF Session
<1>3. FinSent.mem = s.mem /\ MaybeCloseCnx([s EXCEPT !.cleanup = TRUE]).mem = s.mem
  BY <1>2, Deadline DEF FinSent
<1>4. CASE HandleDeregister
  BY <1>4 DEF HandleDeregister, Deregister, SessionInit
<1>5. CASE HandleOpen
  BY <1>1, <1>5 DEF HandleOpen, Session
<1>6. CASE HandleClose("close") \/ HandleClose("fin")
  BY <1>1, <1>3, <1>6 DEF HandleClose, Session
<1>7. CASE HandleStale \/ HandleCreate \/ HandleStreamOp \/ HandleCleanup
  BY <1>3, <1>7 DEF HandleStale, HandleCreate, HandleStreamOp, HandleCleanup
<1> QED
  BY <1>4, <1>5, <1>6, <1>7 DEF Command

LEMMA CommandNews ==
    ASSUME Typed, Base, Owner, Asked, News, FreedIsUnnamed, Links, Command,
           UNCHANGED <<plan, py>>
    PROVE  News'
<1>1. PICK r : Grew(r) /\ \A i \in 1 .. Len(r) : r[i].t # "new"
  BY CommandGrew
<1>2. txq # << >>
  BY CommandStep DEF Pops
<1>3. s.mem # "no"
  BY <1>2, HeadAsked
<1>4. HandleDeregister => py.obj = "dropped"
  BY <1>2, HeadAsked DEF HandleDeregister, Deregister, Pop
<1>5. s'.mem = "freed" => py.obj = "dropped"
  BY <1>4, CommandMem DEF News
<1>6. s'.mem = s.mem \/ s'.mem = "freed"
  BY CommandMem
<1> QED
  BY <1>1, <1>3, <1>5, <1>6, NewsKept

LEMMA CommandNaming ==
    ASSUME Typed, Base, Base', Owner, Asked, News, Naming, Command,
           UNCHANGED <<plan, py>>, Pops
    PROVE  Naming'
<1>1. FreedIsUnnamed /\ txq # << >> /\ txq' = Tail(txq)
  BY DEF Naming, Pops
<1>2. /\ MayAsk(Head(txq).t) /\ s.mem # "no"
      /\ s.mem = "freed" => ~py.opened
      /\ Head(txq).t = "open" => client /\ Fresh /\ s.mem = "live"
      /\ Head(txq).t = "deregister" => Len(txq) = 1 /\ py.obj = "dropped"
  BY <1>1, HeadAsked
<1>3. /\ s \in Session /\ net \in Net
      /\ DOMAIN h3 = Connects \cup Streams /\ DOMAIN h3' = Connects \cup Streams
      /\ s.ctl \in Connects \cup {NoStream} /\ s.id \in Connects \cup {NoStream}
      /\ \A c \in Connects : c # NoStream
      /\ \A d \in Streams : d \notin Connects
      /\ \A c \in Connects : h3[c] # "link" /\ h3'[c] # "link"
  BY Apart DEF Base, Session, Named
<1>4. client' <=> client
  BY DEF client
<1>5. CASE HandleStale
  BY <1>1, <1>5, SameNames DEF HandleStale
<1>6. CASE HandleOpen
  <2>1. client /\ Fresh /\ s.mem = "live"
    BY <1>2, <1>6 DEF HandleOpen, Pop
  <2>2. CASE UNCHANGED <<s, net, h3>>
    BY <1>1, <2>2, SameNames
  <2>3. CASE ~UNCHANGED <<s, net, h3>>
    <3>1. /\ s'.mem = "live" /\ s'.at /\ s'.ctl = Connect /\ s'.id = Connect
          /\ net'.cnx = "up" /\ net'.fins = net.fins
          /\ \/ h3' = [h3 EXCEPT ![Connect] = "session"]
             \/ h3' = [h3 EXCEPT ![Connect] = "null"]
      BY <1>3, <1>6, <2>1, <2>3 DEF HandleOpen, Session, Net
    <3>2. /\ h3'[Connect] \in {"session", "null"} /\ net'.fins = {}
          /\ \A c \in Connects : c # Connect => h3'[c] = None
      BY <1>3, <2>1, <3>1, Apart DEF Fresh
    <3> QED
      BY <1>4, <2>1, <3>1, <3>2 DEF Naming, Hooked, FreedIsUnnamed, None
  <2> QED
    BY <2>2, <2>3
<1>7. CASE HandleCreate
  <2>1. Head(txq).t = "create" /\ UNCHANGED <<s, net>>
    BY <1>7 DEF HandleCreate, Handle, Pop
  <2>2. s.mem # "freed"
    BY <1>2, <2>1 DEF MayAsk, Idling
  <2>3. h3' = h3 \/ \E d \in Streams, v \in {"link", "null"} : h3' = [h3 EXCEPT ![d] = v]
    BY <1>7 DEF HandleCreate
  <2>4. \A c \in Connects : h3'[c] = h3[c]
    BY <1>3, <2>3
  <2> QED
    BY <1>1, <1>2, <2>1, <2>2, <2>4, SameNames
<1>8. CASE HandleStreamOp
  <2>1. /\ UNCHANGED <<s, h3>> /\ net'.cnx = net.cnx /\ net'.prefix = net.prefix
        /\ net'.fins = net.fins
    BY <1>3, <1>8 DEF HandleStreamOp, Net
  <2> QED
    BY <1>1, <2>1, SameNames
<1>9. ASSUME NEW t, HandleClose(t) PROVE Naming'
  <2>1. /\ [s EXCEPT !.finSent = TRUE, !.closing = TRUE] \in Session
        /\ [s EXCEPT !.closing = TRUE] \in Session
    BY <1>3 DEF Session
  <2>2. /\ FinSent.mem = s.mem /\ FinSent.at = s.at /\ FinSent.ctl = s.ctl
        /\ FinSent.id = s.id
    BY <1>3, <2>1, Deadline DEF FinSent, Session
  <2>3. FinSent.retry = s.retry
    BY <1>3 DEF FinSent, MaybeCloseCnx, Session
  <2>4. s' = FinSent \/ s' = [s EXCEPT !.closing = TRUE] \/ s' = s
    BY <1>9 DEF HandleClose
  <2>5. /\ s'.mem = s.mem /\ s'.at = s.at /\ s'.ctl = s.ctl /\ s'.id = s.id
        /\ s'.retry = s.retry
    BY <1>3, <2>2, <2>3, <2>4 DEF Session
  <2>6. /\ net'.cnx = net.cnx /\ net'.prefix = net.prefix /\ h3' = h3
        /\ "peer" \in net'.fins => "peer" \in net.fins
    BY <1>3, <1>9 DEF HandleClose, Net
  <2> QED
    BY <1>1, <2>5, <2>6, SameNames
<1>10. CASE HandleCleanup
  <2>1. [s EXCEPT !.cleanup = TRUE] \in Session
    BY <1>3 DEF Session
  <2>2. /\ s'.mem = s.mem /\ s'.at = s.at /\ s'.ctl = s.ctl /\ s'.id = s.id
    BY <1>3, <1>10, <2>1, Deadline DEF HandleCleanup, Session
  <2>3. s'.retry = s.retry
    BY <1>3, <1>10 DEF HandleCleanup, MaybeCloseCnx, Session
  <2>4. /\ net' = net
        /\ \A x \in Connects \cup Streams :
               h3'[x] = h3[x] \/ (h3[x] = "link" /\ h3'[x] = "null")
    BY <1>3, <1>10 DEF HandleCleanup
  <2>5. /\ \A c \in Connects : h3'[c] = h3[c]
        /\ \A d \in Streams : h3'[d] = "link" => h3[d] = "link"
    BY <1>3, <2>4
  <2> QED
    BY <1>1, <1>2, <2>2, <2>3, <2>4, <2>5, SameNames
<1>11. CASE HandleDeregister
  <2>1. Head(txq).t = "deregister" /\ Len(txq) = 1 /\ py.opened
    BY <1>2, <1>11 DEF HandleDeregister, Deregister, Pop, MayAsk, Idling
  <2>2. s.mem = "live"
    BY <1>2, <1>3, <2>1 DEF Session
  <2>3. txq' = << >>
    BY <1>1, <2>1 DEF Typed
  <2>4. /\ s'.mem = "freed" /\ ~s'.retry /\ net'.cnx = net.cnx
    BY <1>3, <1>11 DEF HandleDeregister, Deregister, SessionInit, Net
  <2>5. Hooked'
    BY <1>4, <2>2, <2>4 DEF Naming, Hooked
  <2>6. ASSUME Up'
        PROVE  /\ net'.prefix = NoStream
               /\ \A x \in DOMAIN h3' : h3'[x] # "link"
               /\ \A c \in Connects : h3'[c] # "session"
    <3>1. Up /\ s.at /\ net.cnx # "gone"
      BY <2>2, <2>4, <2>6 DEF Up, Naming, Hooked
    <3>2. h3' = Detached /\ net'.prefix = NoStream
      BY <1>3, <1>11, <3>1 DEF HandleDeregister, Deregister, Net
    <3>3. \A c \in Connects : h3[c] = "session" => s.ctl = c
      BY <2>2, <3>1 DEF Naming, Hooked
    <3>4. CASE s.ctl = NoStream
      BY <1>3, <3>2, <3>3, <3>4 DEF Detached
    <3>5. CASE s.ctl # NoStream
      <4>1. \A x \in Connects \cup Streams : h3'[x] # "link"
        BY <1>3, <3>2, <3>5 DEF Detached, None
      <4>2. \A c \in Connects : h3'[c] # "session"
        BY <1>3, <3>2, <3>3, <3>5 DEF Detached
      <4> QED
        BY <1>3, <3>2, <4>1, <4>2
    <3> QED
      BY <3>4, <3>5
  <2>7. FreedIsUnnamed'
    BY <2>3, <2>6 DEF FreedIsUnnamed
  <2> QED
    BY <2>5, <2>7 DEF Naming
<1> QED
  BY <1>5, <1>6, <1>7, <1>8, <1>9, <1>10, <1>11 DEF Command

-----------------------------------------------------------------------------
(* The calls of the application and of the retry tasks.                    *)

\* What a call does to the object: never unopened or reopened, no stream more.
Calmer ==
    /\ py.obj = "live" /\ py'.obj = (IF Dealloc THEN "dropped" ELSE "live")
    /\ py'.opened = (py.opened \/ PushOpen) /\ (py.closed => py'.closed)
    /\ py'.opening => client /\ ~py'.opened /\ ~Dealloc
    /\ py'.ctxs \subseteq py.ctxs /\ (py'.closed => py'.ctxs = {})
    /\ py'.attached => py.attached \/ (client /\ ~py.opened)
    /\ Listening' => Listening
    /\ py'.ready => py.ready \/ py.opened

\* A retry takes over one post that is owed and leaves the object alone.
LEMMA RetryLeaves ==
    ASSUME Typed, RetryPush
    PROVE  /\ \E c \in py.owed : c \in Owable /\ txq' \in {txq, Append(txq, Cmd(c))}
           /\ py'.obj = py.obj /\ py'.opening = py.opening /\ py'.opened = py.opened
           /\ py'.attached = py.attached /\ py'.ready = py.ready
           /\ py'.closed = py.closed /\ py'.pend = py.pend /\ py'.ctxs = py.ctxs
           /\ py'.todo = py.todo /\ py'.owed \subseteq py.owed
<1>1. py \in Object
  BY DEF Typed
<1>2. PICK c \in py.owed :
         /\ txq' \in {txq, Append(txq, Cmd(c))}
         /\ \/ py' = [py EXCEPT !.owed = @ \ {c}, !.tries[c] = 0]
            \/ py' = [py EXCEPT !.tries[c] = @ + 1]
            \/ py' = [py EXCEPT !.owed = @ \ {c}, !.tries[c] = 0, !.lost = TRUE]
  BY DEF RetryPush
<1> DEFINE n0 == [py.tries EXCEPT ![c] = 0]
           n1 == [py.tries EXCEPT ![c] = py.tries[c] + 1]
<1>3. \/ py' = [py EXCEPT !.owed = py.owed \ {c}, !.tries = n0]
      \/ py' = [py EXCEPT !.tries = n1]
      \/ py' = [py EXCEPT !.owed = py.owed \ {c}, !.tries = n0, !.lost = TRUE]
  BY <1>1, <1>2 DEF Object
<1> HIDE DEF n0, n1
<1>4. c \in Owable
  BY <1>1 DEF Object
<1>5. /\ py'.obj = py.obj /\ py'.opening = py.opening /\ py'.opened = py.opened
      /\ py'.attached = py.attached /\ py'.ready = py.ready
      /\ py'.closed = py.closed /\ py'.pend = py.pend /\ py'.ctxs = py.ctxs
      /\ py'.todo = py.todo
  BY <1>1, <1>3 DEF Object
<1>6. py'.owed \subseteq py.owed
  BY <1>1, <1>3 DEF Object
<1> QED
  BY <1>2, <1>4, <1>5, <1>6

LEMMA CallCalmer ==
    ASSUME Typed, Owner, Calls \/ Post \/ RetryPush
    PROVE  Calmer
<1>1. py \in Object
  BY DEF Typed
<1>2. CASE Open \/ PushOpen \/ OpenFails \/ OpenTimesOut
  <2>1. CASE Open
    BY <1>1, <2>1 DEF Open, Alive, Calmer, Object, Owner, Listening, Dealloc, PushOpen
  <2>2. CASE PushOpen
    BY <1>1, <2>2 DEF Calmer, Object, Owner, Listening, Dealloc, PushOpen
  <2>3. CASE OpenFails
    BY <1>1, <2>3 DEF OpenFails, Calmer, Object, Owner, Listening, Dealloc, PushOpen
  <2>4. CASE OpenTimesOut
    BY <1>1, <2>4 DEF OpenTimesOut, Alive, Calmer, Object, Owner, Listening,
       Dealloc, PushOpen
  <2> QED
    BY <1>2, <2>1, <2>2, <2>3, <2>4
<1>3. CASE CreateStream
  BY <1>1, <1>3 DEF CreateStream, Alive, Calmer, Object, Owner, Listening, Dealloc, PushOpen
<1>4. CASE CreateCancelled
  BY <1>1, <1>4 DEF CreateCancelled, Alive, Calmer, Object, Owner, Listening, Dealloc, PushOpen
<1>5. CASE StreamOp
  BY <1>1, <1>5 DEF StreamOp, Alive, Calmer, Object, Owner, Listening, Dealloc, PushOpen
<1>6. CASE Close
  BY <1>1, <1>6 DEF Close, Released, Alive, Calmer, Object, Owner, Listening, Dealloc, PushOpen
<1>7. CASE Detach
  BY <1>1, <1>7 DEF Detach, Alive, Calmer, Object, Owner, Listening, Dealloc, PushOpen
<1>8. CASE Dealloc
  BY <1>1, <1>8 DEF Dealloc, Alive, Calmer, Object, Owner, Listening, PushOpen
<1>9. CASE Post
  BY <1>1, <1>9 DEF Post, Idle, Calmer, Object, Owner, Listening, Dealloc, PushOpen
<1>10. CASE RetryPush
  <2>1. /\ py.owed # {} /\ py'.obj = py.obj /\ py'.opening = py.opening
        /\ py'.opened = py.opened /\ py'.attached = py.attached
        /\ py'.ready = py.ready /\ py'.closed = py.closed /\ py'.ctxs = py.ctxs
    BY <1>10, RetryLeaves
  <2>2. ~Dealloc
    BY <2>1 DEF Dealloc
  <2>3. ~PushOpen
    <3> SUFFICES ASSUME PushOpen PROVE FALSE
      OBVIOUS
    <3>1. py.opening /\ py'.opening = FALSE
      BY <1>1 DEF PushOpen, Object
    <3> QED
      BY <2>1, <3>1
  <2>4. py'.opened = (py.opened \/ PushOpen)
    <3>1. py.opened \in BOOLEAN
      BY <1>1 DEF Object
    <3> QED
      BY <2>1, <2>3, <3>1
  <2>5. py.obj = "live" /\ py'.obj = (IF Dealloc THEN "dropped" ELSE "live")
    BY <2>1, <2>2 DEF Owner
  <2> QED
    BY <2>1, <2>2, <2>4, <2>5 DEF Calmer, Owner, Listening
<1> QED
  BY <1>2, <1>3, <1>4, <1>5, <1>6, <1>7, <1>8, <1>9, <1>10 DEF Calls

\* A call posts nothing but what the session may ask for; __dealloc__ posts
\* the last command.
NowMay(x) ==
    /\ ~py'.opened => x \in Idling
    /\ x = "cleanup" => py'.closed
Asks(e) ==
    /\ txq' = Append(txq, e) /\ e \in Commands /\ NowMay(e.t)
    /\ e.t = "deregister" => Dealloc
    /\ e.t = "open" => PushOpen
CallAsks == UNCHANGED txq \/ \E e : Asks(e)

\* What is left of a call, and what is owed.
Rests == /\ \A i \in 1 .. Len(py'.todo) : NowMay(py'.todo[i])
         /\ \A c \in py'.owed : NowMay(c)
         /\ Dealloc => py'.todo = << >> /\ py'.owed = {}
         /\ ~py'.opened => py'.pend = << >>

\* What the session may ask for it still may.
LEMMA StillMay ==
    ASSUME Calmer, NEW x, MayAsk(x)
    PROVE  NowMay(x)
  BY DEF Calmer, MayAsk, NowMay

LEMMA CallRests ==
    ASSUME Typed, Owner, Asked, Calls \/ Post \/ RetryPush, Calmer
    PROVE  CallAsks /\ Rests
<1>1. py \in Object
  BY DEF Typed
<1>2. /\ \A i \in 1 .. Len(py.todo) : NowMay(py.todo[i])
      /\ \A c \in py.owed : NowMay(c)
  <2>1. \A x : MayAsk(x) => NowMay(x)
    BY StillMay
  <2> QED
    BY <2>1 DEF Asked
<1>3. \A t : Cmd(t).t = t
  BY DEF Cmd
<1>4. \A t \in {"open", "close", "fin", "cleanup", "deregister", "op"} :
         Cmd(t) \in Commands
  BY DEF Cmd, Commands
<1>5. CASE PushOpen
  <2>1. /\ py' = [py EXCEPT !.opening = FALSE, !.opened = TRUE, !.late = py.closed]
        /\ txq' = Append(txq, Cmd("open"))
    BY <1>5 DEF PushOpen
  <2>2. /\ py'.opened /\ py'.todo = py.todo /\ py'.owed = py.owed /\ ~Dealloc
    BY <1>1, <1>5, <2>1 DEF Object, PushOpen, Dealloc
  <2>3. NowMay("open")
    BY <2>2 DEF NowMay
  <2>4. Asks(Cmd("open"))
    BY <1>3, <1>4, <1>5, <2>1, <2>3 DEF Asks
  <2> QED
    BY <1>2, <2>2, <2>4 DEF Rests, CallAsks
<1>a. CASE Open \/ OpenFails \/ OpenTimesOut
  <2>1. /\ py'.todo = py.todo /\ py'.owed = py.owed /\ py'.pend = py.pend
        /\ txq' = txq /\ py'.opened = py.opened
    BY <1>1, <1>a DEF Open, OpenFails, OpenTimesOut, Object
  <2>2. ~Dealloc
    BY <1>1, <1>a DEF Open, OpenFails, OpenTimesOut, Object, Dealloc, Alive, Owner
  <2> QED
    BY <1>2, <2>1, <2>2 DEF Rests, CallAsks, Owner
<1>6. CASE CreateStream
  <2>1. /\ py' = [py EXCEPT !.made = @ + 1, !.pend = Append(@, py.made + 1)]
        /\ txq' = Append(txq, [t |-> "create", k |-> py.made + 1])
        /\ py.ready /\ py.made + 1 \in Nat
    BY <1>1, <1>6 DEF CreateStream, Object
  <2>2. py.opened
    BY <2>1 DEF Owner
  <2>3. /\ py'.opened /\ py'.todo = py.todo /\ py'.owed = py.owed /\ ~Dealloc
    BY <1>1, <1>6, <2>1, <2>2 DEF Object, CreateStream, Alive, Dealloc
  <2>4. NowMay("create")
    BY <2>3 DEF NowMay, MayAsk
  <2>5. Asks([t |-> "create", k |-> py.made + 1])
    BY <2>1, <2>4 DEF Asks, Commands
  <2> QED
    BY <1>2, <2>3, <2>5 DEF Rests, CallAsks
<1>7. CASE CreateCancelled
  <2>1. PICK k \in Range(py.pend) : py' = [py EXCEPT !.gone = @ \cup {k}]
    BY <1>7 DEF CreateCancelled
  <2>2. py.opened
    <3>1. py.pend # << >>
      BY <2>1 DEF Range
    <3> QED
      BY <3>1 DEF Owner
  <2>3. py'.opened /\ py'.todo = py.todo /\ py'.owed = py.owed /\ ~Dealloc /\ txq' = txq
    BY <1>1, <1>7, <2>1, <2>2 DEF Object, CreateCancelled, Dealloc
  <2> QED
    BY <1>2, <2>3 DEF Rests, CallAsks
<1>8. CASE StreamOp
  <2>1. PICK code \in 0 .. MaxCode : txq' = Append(txq, [t |-> "op", k |-> code])
    BY <1>8 DEF StreamOp
  <2>2. /\ py'.todo = py.todo /\ py'.owed = py.owed /\ py'.pend = py.pend
        /\ py'.opened = py.opened /\ ~Dealloc
    <3>1. py.obj = "live" /\ \E c : py' = [py EXCEPT !.ctxs = c]
      BY <1>8 DEF StreamOp, Alive
    <3> QED
      BY <1>1, <3>1 DEF Dealloc, Object
  <2>3. NowMay("op")
    BY DEF NowMay, Idling
  <2>4. [t |-> "op", k |-> code] \in Commands
    BY CodesAssumption DEF CodesAssumption, Commands
  <2>5. Asks([t |-> "op", k |-> code])
    BY <2>1, <2>3, <2>4 DEF Asks
  <2> QED
    BY <1>2, <2>2, <2>5 DEF Rests, CallAsks, Owner
<1>9. CASE Close
  <2>1. /\ py'.todo = <<"close", "cleanup">> /\ py'.owed = py.owed \ {"op"}
        /\ py'.closed /\ py'.pend = << >> /\ txq' = txq /\ ~Dealloc
    BY <1>1, <1>9 DEF Close, Released, Object, Dealloc
  <2>2. NowMay("close") /\ NowMay("cleanup")
    BY <2>1 DEF NowMay, Idling
  <2>3. \A i \in 1 .. Len(py'.todo) : py'.todo[i] \in {"close", "cleanup"}
    BY <2>1
  <2>4. \A i \in 1 .. Len(py'.todo) : NowMay(py'.todo[i])
    BY <2>2, <2>3
  <2> QED
    BY <1>2, <2>1, <2>4 DEF Rests, CallAsks
<1>10. CASE Detach
  <2>1. /\ py'.todo = py.todo /\ py'.owed = py.owed /\ py'.pend = py.pend
        /\ py'.opened = py.opened /\ txq' = txq /\ ~Dealloc
    BY <1>1, <1>10 DEF Detach, Object, Dealloc
  <2> QED
    BY <1>2, <2>1 DEF Rests, CallAsks, Owner
<1>11. CASE Dealloc
  <2>1. /\ py'.todo = << >> /\ py'.owed = {} /\ py'.opened = py.opened
        /\ py'.closed = py.closed /\ py'.pend = py.pend
    BY <1>1, <1>11 DEF Dealloc, Idle, Object
  <2>2. ~py.opened => txq' = txq /\ py.pend = << >>
    BY <1>11 DEF Dealloc, Owner
  <2>3. CASE txq' = txq
    BY <2>1, <2>2, <2>3 DEF Rests, CallAsks, Owner
  <2>4. CASE txq' # txq
    <3>1. py.opened /\ txq' = Append(txq, Cmd("deregister"))
      BY <1>11, <2>4 DEF Dealloc
    <3>2. NowMay("deregister")
      BY <2>1, <3>1 DEF NowMay, MayAsk
    <3>3. Asks(Cmd("deregister"))
      BY <1>3, <1>4, <1>11, <3>1, <3>2 DEF Asks
    <3> QED
      BY <2>1, <3>1, <3>3 DEF Rests, CallAsks
  <2> QED
    BY <2>3, <2>4
<1>12. CASE Post
  <2> DEFINE c == Head(py.todo)
  <2>1. /\ c \in Posts /\ c = py.todo[1] /\ 1 \in 1 .. Len(py.todo)
        /\ \A i \in 1 .. Len(Tail(py.todo)) :
               i + 1 \in 1 .. Len(py.todo) /\ Tail(py.todo)[i] = py.todo[i + 1]
    BY <1>12, NextPost DEF Post
  <2> HIDE DEF c
  <2>2. MayAsk(c) /\ NowMay(c)
    BY <1>2, <2>1 DEF Asked
  <2>3. \A i \in 1 .. Len(Tail(py.todo)) : NowMay(Tail(py.todo)[i])
    BY <1>2, <2>1
  <2>4. c = "gone" => NowMay("op")
    BY <2>2 DEF NowMay, Idling
  <2>5. /\ py'.todo = Tail(py.todo) /\ py'.opened = py.opened /\ py'.closed = py.closed
        /\ py'.pend = py.pend /\ ~Dealloc
        /\ py'.owed = py.owed \/ py'.owed = py.owed \cup ({c} \ {"gone"})
    BY <1>1, <1>12 DEF Post, Object, Dealloc, c
  <2>6. Rests
    BY <1>2, <2>2, <2>3, <2>5 DEF Rests, Owner
  <2>7. CASE txq' = txq
    BY <2>6, <2>7 DEF CallAsks
  <2>8. CASE txq' = Append(txq, [t |-> "op", k |-> SessionGone]) /\ c = "gone"
    <3>1. [t |-> "op", k |-> SessionGone] \in Commands
      BY CodesAssumption DEF CodesAssumption, Commands
    <3>2. Asks([t |-> "op", k |-> SessionGone])
      BY <2>4, <2>8, <3>1 DEF Asks
    <3> QED
      BY <2>6, <3>2 DEF CallAsks
  <2>9. CASE txq' = Append(txq, Cmd(c)) /\ c # "gone"
    <3>1. Asks(Cmd(c))
      BY <1>3, <1>4, <2>1, <2>2, <2>9 DEF Asks, Posts
    <3> QED
      BY <2>6, <3>1 DEF CallAsks
  <2> QED
    BY <1>12, <2>7, <2>8, <2>9 DEF Post, c
<1>13. CASE RetryPush
  <2>1. PICK c \in py.owed : c \in Owable /\ txq' \in {txq, Append(txq, Cmd(c))}
    BY <1>13, RetryLeaves
  <2>2. c \in {"close", "cleanup", "fin", "op"} /\ NowMay(c)
    BY <1>2, <2>1 DEF Owable
  <2>3. /\ py'.todo = py.todo /\ py'.opened = py.opened
        /\ py'.pend = py.pend /\ py'.owed \subseteq py.owed
    BY <1>13, RetryLeaves
  <2>4. ~Dealloc
    BY <2>1 DEF Dealloc
  <2>5. Rests
    BY <1>2, <2>3, <2>4 DEF Rests, Owner
  <2>6. CASE txq' = txq
    BY <2>5, <2>6 DEF CallAsks
  <2>7. CASE txq' = Append(txq, Cmd(c))
    <3>1. Asks(Cmd(c))
      BY <1>3, <1>4, <2>2, <2>7 DEF Asks
    <3> QED
      BY <2>5, <3>1 DEF CallAsks
  <2> QED
    BY <2>1, <2>6, <2>7
<1> QED
  BY <1>5, <1>a, <1>6, <1>7, <1>8, <1>9, <1>10, <1>11, <1>12, <1>13 DEF Calls

\* What __dealloc__ does: the struct of an unopened session is freed at once.
LEMMA Deallocated ==
    ASSUME Typed, Dealloc
    PROVE  /\ ~py.attached /\ ~py'.attached /\ py'.opened = py.opened
           /\ py.opened => UNCHANGED s
           /\ ~py.opened => /\ s'.mem = "freed" /\ ~s'.at /\ ~s'.retry
                            /\ s'.ctl = NoStream /\ txq' = txq
<1>1. py \in Object
  BY DEF Typed
<1>2. py' = [py EXCEPT !.obj = "dropped"] /\ ~py.attached
  BY DEF Dealloc
<1>3. py.opened => UNCHANGED s
  BY DEF Dealloc
<1>4. ~py.opened => s' = [SessionInit EXCEPT !.mem = "freed"] /\ txq' = txq
  BY DEF Dealloc
<1>5. ~py.opened => /\ s'.mem = "freed" /\ ~s'.at /\ ~s'.retry /\ s'.ctl = NoStream
  BY <1>4 DEF SessionInit
<1> QED
  BY <1>1, <1>2, <1>3, <1>4, <1>5 DEF Object

\* Nothing has happened to a session that is not opened, its calls included.
LEMMA CallFresh ==
    ASSUME Typed, Fresh, UNCHANGED <<net, h3, rxq>>, ~Dealloc => UNCHANGED s
    PROVE  Fresh'
<1>1. CASE UNCHANGED s
  BY <1>1 DEF Fresh
<1>2. CASE Dealloc /\ ~py.opened
  BY <1>2, Deallocated DEF Fresh
<1> QED
  BY <1>1, <1>2, Deallocated

LEMMA CallOwner ==
    ASSUME Typed, Owner, Calmer, Rests, UNCHANGED <<net, h3, rxq>>,
           ~Dealloc => UNCHANGED s, plan'.role = plan.role
    PROVE  Owner'
<1>1. client' <=> client
  BY DEF client
<1>2. py'.attached => py'.obj = "live" /\ (client \/ py'.opened)
  <2>1. ASSUME py'.attached PROVE ~Dealloc
    BY <2>1, Deallocated
  <2> QED
    BY <2>1 DEF Calmer, Owner
<1>3. py'.obj # "live" => py'.todo = << >> /\ py'.owed = {}
  BY DEF Calmer, Rests
<1>4. ~py'.opened => ~py'.ready /\ py'.ctxs = {} /\ py'.pend = << >>
  BY DEF Calmer, Rests, Owner
<1>5. py'.opening => client /\ py'.obj = "live" /\ ~py'.opened
  BY DEF Calmer
<1>6. client /\ ~py'.opened => Fresh'
  <2>1. ASSUME client, ~py'.opened PROVE Fresh
    BY <2>1 DEF Calmer, Owner
  <2> QED
    BY <2>1, CallFresh
<1>7. /\ py'.obj # "no" /\ (py'.closed => py'.ctxs = {})
      /\ ~client => py'.opened
  BY DEF Calmer, Owner
<1> QED
  BY <1>1, <1>2, <1>3, <1>4, <1>5, <1>6, <1>7 DEF Owner

LEMMA CallAsked ==
    ASSUME Typed, Owner, Asked, News, Calmer, Rests, CallAsks,
           UNCHANGED <<net, h3, rxq>>, ~Dealloc => UNCHANGED s,
           plan'.role = plan.role
    PROVE  Asked'
<1>1. client' <=> client
  BY DEF client
<1>2. \A x : MayAsk(x) => NowMay(x)
  BY StillMay
<1> DEFINE Ahead(q, i) == \A j \in 1 .. Len(q) : j < i => q[j].t \in Idling
<1>3. \A i \in 1 .. Len(txq) :
          /\ NowMay(txq[i].t) /\ txq[i].t # "deregister"
          /\ txq[i].t = "open" => /\ client /\ Fresh /\ s.mem = "live" /\ py.opened
                                  /\ Ahead(txq, i)
  BY <1>2 DEF Asked, Calmer, MayAsk, Idling
<1>4. \A i \in 1 .. Len(txq) :
          /\ NowMay(txq[i].t) /\ txq[i].t # "deregister"
          /\ txq[i].t = "open" => /\ client /\ Fresh' /\ s'.mem = "live"
                                  /\ Ahead(txq, i)
  <2>1. py.opened => UNCHANGED s
    BY Deallocated
  <2>2. Fresh => Fresh'
    BY CallFresh
  <2> QED
    BY <1>3, <2>1, <2>2
<1>5. \A i \in 1 .. Len(txq') :
          /\ NowMay(txq'[i].t)
          /\ txq'[i].t = "open" => /\ client /\ Fresh' /\ s'.mem = "live"
                                   /\ Ahead(txq', i)
          /\ txq'[i].t = "deregister" => i = Len(txq') /\ py'.obj = "dropped"
  <2>1. CASE UNCHANGED txq
    BY <1>4, <2>1
  <2>2. ASSUME NEW e, Asks(e)
        PROVE  \A i \in 1 .. Len(txq') :
                  /\ NowMay(txq'[i].t)
                  /\ txq'[i].t = "open" => /\ client /\ Fresh' /\ s'.mem = "live"
                                           /\ Ahead(txq', i)
                  /\ txq'[i].t = "deregister" => i = Len(txq') /\ py'.obj = "dropped"
    <3>1. /\ txq' = Append(txq, e) /\ e \in Commands /\ txq \in Seq(Commands)
          /\ NowMay(e.t) /\ (e.t = "deregister" => py'.obj = "dropped")
      BY <2>2 DEF Asks, Typed, Calmer
    <3>2. e.t = "open" => /\ client /\ Fresh' /\ s'.mem = "live"
                          /\ \A j \in 1 .. Len(txq) : txq[j].t \in Idling
      <4> SUFFICES ASSUME e.t = "open"
                   PROVE  /\ client /\ Fresh' /\ s'.mem = "live"
                          /\ \A j \in 1 .. Len(txq) : txq[j].t \in Idling
        OBVIOUS
      <4>1. client /\ ~py.opened /\ py'.opened /\ py.obj = "live"
        BY <2>2 DEF Asks, PushOpen, Calmer, Owner
      <4>2. ~Dealloc
        BY <4>1, Deallocated
      <4>3. Fresh /\ \A j \in 1 .. Len(txq) : txq[j].t \in Idling
        BY <4>1 DEF Owner, Asked, MayAsk
      <4>4. s.mem = "live"
        BY <4>1 DEF Typed, Session, News
      <4> QED
        BY <4>1, <4>2, <4>3, <4>4, CallFresh
    <3>3. /\ Len(txq') = Len(txq) + 1 /\ Len(txq) \in Nat /\ txq'[Len(txq) + 1] = e
          /\ \A i \in 1 .. Len(txq) : txq'[i] = txq[i]
      BY <3>1, Longer
    <3>4. \A i \in 1 .. Len(txq) : Ahead(txq, i) => Ahead(txq', i)
      BY <3>3
    <3>5. (\A j \in 1 .. Len(txq) : txq[j].t \in Idling) => Ahead(txq', Len(txq) + 1)
      BY <3>3
    <3>6. ASSUME NEW i \in 1 .. Len(txq')
          PROVE  i \in 1 .. Len(txq) \/ (i = Len(txq) + 1 /\ txq'[i] = e)
      BY <3>3
    <3> HIDE DEF Ahead
    <3> QED
      BY <1>4, <3>1, <3>2, <3>3, <3>4, <3>5, <3>6
  <2> QED
    BY <2>1, <2>2 DEF CallAsks
<1>6. /\ \A i \in 1 .. Len(py'.todo) : NowMay(py'.todo[i])
      /\ \A c \in py'.owed : NowMay(c)
  BY DEF Rests
<1> QED
  BY <1>1, <1>5, <1>6 DEF Asked, MayAsk, NowMay

\* The struct of a live object is live.
LEMMA LiveStruct ==
    ASSUME Typed, News, py.obj = "live"
    PROVE  s.mem = "live" /\ \A i \in 1 .. Len(rxq) : rxq[i].t # "new"
  BY DEF Typed, Session, News

LEMMA CallNews ==
    ASSUME Typed, Owner, News, Calmer, UNCHANGED rxq, ~Dealloc => UNCHANGED s,
           plan'.role = plan.role
    PROVE  News'
<1>1. s.mem = "live" /\ \A i \in 1 .. Len(rxq) : rxq[i].t # "new"
  BY LiveStruct DEF Calmer
<1>2. CASE UNCHANGED s
  BY <1>1, <1>2 DEF News
<1>3. CASE Dealloc /\ ~py.opened
  <2>1. s'.mem = "freed" /\ py'.obj = "dropped"
    BY <1>3, Deallocated DEF Calmer
  <2> QED
    BY <1>1, <2>1 DEF News
<1> QED
  BY <1>2, <1>3, Deallocated

LEMMA CallNaming ==
    ASSUME Typed, Owner, News, Naming, Calmer, UNCHANGED <<net, h3, rxq>>,
           ~Dealloc => UNCHANGED s, plan'.role = plan.role
    PROVE  Naming'
<1>1. (client' <=> client) /\ (Up' <=> Up)
  BY DEF client, Up
<1>2. s.mem = "live"
  BY LiveStruct DEF Calmer
<1>3. CASE UNCHANGED s
  <2>1. Hooked'
    BY <1>1, <1>3 DEF Naming, Hooked
  <2>2. FreedIsUnnamed'
    BY <1>2, <1>3 DEF FreedIsUnnamed
  <2> QED
    BY <2>1, <2>2 DEF Naming
<1>4. CASE Dealloc /\ ~py.opened
  <2>1. /\ s'.mem = "freed" /\ ~s'.retry /\ ~py'.opened /\ client
    BY <1>4, Deallocated DEF Owner, Calmer
  <2>2. Hooked'
    BY <1>1, <2>1 DEF Hooked
  <2>3. FreedIsUnnamed'
    BY <2>1 DEF FreedIsUnnamed
  <2> QED
    BY <2>2, <2>3 DEF Naming
<1> QED
  BY <1>3, <1>4, Deallocated

LEMMA CallLinks ==
    ASSUME Typed, Owner, Links, Calmer, UNCHANGED <<h3, link, rxq>>
    PROVE  Links'
<1> SUFFICES ASSUME NEW d \in Streams
             PROVE  (/\ BorrowedIn(rxq, d) => link[d] \in {"live", "leaked"}
                     /\ LastRelease(rxq, d) /\ LastDestroy(rxq, d)
                     /\ h3[d] = "link" => link[d] = "live" /\ ~ReleasedIn(rxq, d)
                     /\ h3[d] \in {None, "session"} => link[d] = None
                     /\ Listening => DroppedIn(rxq, d, py.ctxs)
                     /\ py.attached /\ d \in py.ctxs => link[d] # "freed")'
  BY DEF Links
<1>1. /\ BorrowedIn(rxq, d) => link[d] \in {"live", "leaked"}
      /\ LastRelease(rxq, d) /\ LastDestroy(rxq, d)
      /\ h3[d] = "link" => link[d] = "live" /\ ~ReleasedIn(rxq, d)
      /\ h3[d] \in {None, "session"} => link[d] = None
      /\ Listening => DroppedIn(rxq, d, py.ctxs)
      /\ py.attached /\ d \in py.ctxs => link[d] # "freed"
  BY DEF Links
<1>2. DroppedIn(rxq, d, py.ctxs) => DroppedIn(rxq, d, py'.ctxs)
  BY DEF DroppedIn, Calmer
<1>3. Listening' => DroppedIn(rxq, d, py'.ctxs)
  BY <1>1, <1>2 DEF Calmer
<1>4. py'.attached /\ d \in py'.ctxs => link[d] # "freed"
  <2> SUFFICES ASSUME py'.attached, d \in py'.ctxs PROVE link[d] # "freed"
    OBVIOUS
  <2>1. CASE ~py.opened
    BY <2>1 DEF Owner, Calmer
  <2>2. CASE py.attached
    BY <1>1, <2>2 DEF Calmer
  <2> QED
    BY <2>1, <2>2 DEF Calmer
<1>5. /\ BorrowedIn(rxq', d) => link'[d] \in {"live", "leaked"}
      /\ LastRelease(rxq', d) /\ LastDestroy(rxq', d)
      /\ h3'[d] = "link" => link'[d] = "live" /\ ~ReleasedIn(rxq', d)
      /\ h3'[d] \in {None, "session"} => link'[d] = None
  BY <1>1
<1>6. rxq' = rxq /\ link' = link
  OBVIOUS
<1> QED
  BY <1>3, <1>4, <1>5, <1>6

-----------------------------------------------------------------------------
(* The dispatcher.                                                         *)

\* What the next event does to the object that it is routed to.
Heard ==
    /\ py'.obj = "live" /\ py'.opened /\ (py.closed => py'.closed)
    /\ ~py'.opening /\ (py'.attached => py.attached)
    /\ py'.closed \/ py'.todo = << >>
    /\ py'.owed \subseteq py.owed \cup {"op"}
    /\ py'.closed => py'.ctxs = {}
    /\ \A d \in py'.ctxs : d \in py.ctxs \/ Adds(Event, d)
    /\ Event.t = "destroy" => Event.d \notin py'.ctxs

LEMMA RoutedHeard ==
    ASSUME Typed, Owner, py.attached, Idle, rxq # << >>,
           OnAnswer \/ OnClosed \/ OnCreated \/ OnNewStream \/ OnStream
    PROVE  Heard /\ link' = link /\ Event.t \notin {"release", "new"}
<1>1. /\ py \in Object /\ py.todo = << >> /\ py.obj = "live" /\ py.opened
      /\ ~py.opening
  BY DEF Typed, Owner, Idle, Fresh
<1>2. py.closed => py.ctxs = {}
  BY DEF Owner
<1>3. link' = link /\ Event.t \notin {"release", "new"}
  BY DEF OnAnswer, OnClosed, OnCreated, OnNewStream, OnStream, Routed
<1> SUFFICES Heard
  BY <1>3
<1>4. ASSUME UNCHANGED py, Event.t # "destroy" PROVE Heard
  BY <1>1, <1>2, <1>4 DEF Heard
<1>5. CASE OnAnswer
  <2>1. \/ py' = [py EXCEPT !.ready = TRUE]
        \/ py' = [py EXCEPT !.ready = TRUE, !.refused = TRUE]
    BY <1>5 DEF OnAnswer
  <2>2. Event.t # "destroy"
    BY <1>5 DEF OnAnswer, Routed
  <2> QED
    BY <1>1, <1>2, <2>1, <2>2 DEF Heard, Object
<1>6. CASE OnClosed
  <2>1. Event.t # "destroy" /\ (py' = py \/ py' = SessionClosed)
    BY <1>6 DEF OnClosed, Routed
  <2>2. CASE py' = SessionClosed
    <3>1. PICK cmds :
             SessionClosed = [Released(py, cmds) EXCEPT !.attached = client]
      BY DEF SessionClosed
    <3>2. /\ py'.obj = py.obj /\ py'.opened = py.opened /\ py'.closed
          /\ py'.opening = py.opening
          /\ py'.owed = py.owed \ {"op"} /\ py'.ctxs = {}
      BY <1>1, <2>2, <3>1 DEF Released, Object
    <3> QED
      BY <1>1, <2>1, <3>2 DEF Heard
  <2> QED
    BY <1>4, <2>1, <2>2
<1>7. CASE OnCreated
  <2>1. Event.t # "destroy"
    BY <1>7 DEF OnCreated, Routed
  <2>2. CASE Routed("created") /\ py.closed /\ py' = [py EXCEPT !.todo = <<"gone">>]
    BY <1>1, <1>2, <2>1, <2>2 DEF Heard, Object
  <2>3. CASE Routed("created") /\ ~py.closed
    <3>1. Event.t = "created"
      BY <2>3 DEF Routed
    <3>2. \/ py' = [py EXCEPT !.pend = Served, !.owed = @ \cup {"op"}]
          \/ py' = [py EXCEPT !.pend = Served, !.ctxs = @ \cup {Event.d}]
      BY <1>7, <2>3 DEF OnCreated, Routed
    <3>3. CASE py' = [py EXCEPT !.pend = Served, !.owed = @ \cup {"op"}]
      <4>1. /\ py'.obj = py.obj /\ py'.opened = py.opened /\ py'.closed = py.closed
            /\ py'.opening = py.opening
            /\ py'.attached = py.attached /\ py'.todo = py.todo
            /\ py'.owed = py.owed \cup {"op"} /\ py'.ctxs = py.ctxs
        BY <1>1, <3>3 DEF Object
      <4> QED
        BY <1>1, <1>2, <2>1, <4>1 DEF Heard
    <3>4. CASE py' = [py EXCEPT !.pend = Served, !.ctxs = @ \cup {Event.d}]
      <4>1. /\ py'.obj = py.obj /\ py'.opened = py.opened /\ py'.closed = py.closed
            /\ py'.opening = py.opening
            /\ py'.attached = py.attached /\ py'.todo = py.todo
            /\ py'.owed = py.owed /\ py'.ctxs = py.ctxs \cup {Event.d}
        BY <1>1, <3>4 DEF Object
      <4> QED
        BY <1>1, <2>1, <2>3, <3>1, <4>1 DEF Heard, Adds
    <3> QED
      BY <3>2, <3>3, <3>4
  <2>4. CASE Routed("failed") /\ ~py.closed
    <3>1. \E o \in {py.owed, py.owed \cup {"op"}} :
             py' = [py EXCEPT !.pend = Served, !.owed = o]
      BY <1>7, <2>4 DEF OnCreated, Routed
    <3>2. /\ py'.obj = py.obj /\ py'.opened = py.opened /\ py'.closed = py.closed
          /\ py'.opening = py.opening
          /\ py'.attached = py.attached /\ py'.todo = py.todo
          /\ py'.owed \in {py.owed, py.owed \cup {"op"}} /\ py'.ctxs = py.ctxs
      BY <1>1, <3>1 DEF Object
    <3> QED
      BY <1>1, <1>2, <2>1, <3>2 DEF Heard
  <2>5. CASE UNCHANGED py
    BY <1>4, <2>1, <2>5
  <2> QED
    BY <1>7, <2>2, <2>3, <2>4, <2>5 DEF OnCreated
<1>8. CASE OnNewStream
  <2>1. Event.t = "newstream"
    BY <1>8 DEF OnNewStream, Routed
  <2>2. CASE py.closed
    BY <1>1, <1>2, <1>8, <2>1, <2>2 DEF OnNewStream, Heard, Object
  <2>3. CASE ~py.closed
    <3>1. py' = [py EXCEPT !.ctxs = @ \cup {Event.d}]
      BY <1>8, <2>3 DEF OnNewStream
    <3>2. /\ py'.obj = py.obj /\ py'.opened = py.opened /\ py'.closed = py.closed
          /\ py'.opening = py.opening
          /\ py'.attached = py.attached /\ py'.todo = py.todo
          /\ py'.owed = py.owed /\ py'.ctxs = py.ctxs \cup {Event.d}
      BY <1>1, <3>1 DEF Object
    <3> QED
      BY <1>1, <2>1, <2>3, <3>2 DEF Heard, Adds
  <2> QED
    BY <2>2, <2>3
<1>9. CASE OnStream
  <2>1. CASE UNCHANGED py /\ Event.t # "destroy"
    BY <1>4, <2>1
  <2>2. CASE py' = [py EXCEPT !.ctxs = @ \ {Event.d}]
    <3>1. /\ py'.obj = py.obj /\ py'.opened = py.opened /\ py'.closed = py.closed
          /\ py'.opening = py.opening
          /\ py'.attached = py.attached /\ py'.todo = py.todo
          /\ py'.owed = py.owed /\ py'.ctxs = py.ctxs \ {Event.d}
      BY <1>1, <2>2 DEF Object
    <3> QED
      BY <1>1, <1>2, <3>1 DEF Heard
  <2> QED
    BY <1>9, <2>1, <2>2 DEF OnStream, Routed
<1> QED
  BY <1>5, <1>6, <1>7, <1>8, <1>9

\* A dispatch is one of these, a server's new session or an event for nobody.
LEMMA DispatchSteps ==
    ASSUME Typed, Owner, News, Dispatch
    PROVE  \/ py.attached /\ Heard /\ link' = link /\ Event.t \notin {"release", "new"}
           \/ /\ UNCHANGED py /\ Event.t = "release"
              /\ link' = [link EXCEPT ![Event.d] = "freed"]
           \/ UNCHANGED <<py, link>> /\ ~py.attached /\ Event.t \notin {"release", "new"}
           \/ /\ Event.t = "new" /\ link' = link /\ ~client /\ s.mem = "live"
              /\ py.obj = "no"
              /\ py' = [py EXCEPT !.obj = "live", !.opened = TRUE,
                                  !.attached = TRUE, !.ready = TRUE]
<1>1. CASE LinkRelease
  BY <1>1 DEF LinkRelease
<1>2. CASE Unrouted
  BY <1>2 DEF Unrouted
<1>3. CASE SpawnSession
  <2>1. Take /\ Event.t = "new"
    BY <1>3 DEF SpawnSession
  <2>2. py.obj = "no" /\ s.mem = "live"
    BY <2>1, NextEvent DEF News
  <2> QED
    BY <1>3, <2>1, <2>2 DEF SpawnSession, Owner
<1>4. CASE OnAnswer \/ OnClosed \/ OnCreated \/ OnNewStream \/ OnStream
  <2>1. py.attached /\ Idle /\ rxq # << >>
    BY <1>4 DEF OnAnswer, OnClosed, OnCreated, OnNewStream, OnStream, Routed, Take
  <2> QED
    BY <1>4, <2>1, RoutedHeard
<1> QED
  BY <1>1, <1>2, <1>3, <1>4 DEF Dispatch

\* The object that __spawn_server_session makes.
LEMMA Spawned ==
    ASSUME Typed, Owner, Idle, py.obj = "no",
           py' = [py EXCEPT !.obj = "live", !.opened = TRUE, !.attached = TRUE,
                            !.ready = TRUE]
    PROVE  /\ py'.obj = "live" /\ py'.opened /\ py'.attached /\ ~py'.closed
           /\ ~py'.opening
           /\ py'.todo = << >> /\ py'.owed = {} /\ py'.ctxs = {} /\ py'.pend = << >>
<1>1. py \in Object /\ py.todo = << >>
  BY DEF Typed, Idle
<1>2. /\ py.ctxs = {} /\ py.owed = {} /\ py.pend = << >> /\ ~py.closed
      /\ ~py.opening
  BY DEF Owner
<1> QED
  BY <1>1, <1>2 DEF Object

LEMMA DispatchOwner ==
    ASSUME Typed, Owner, Asked, News, Dispatch, Take,
           UNCHANGED <<plan, s, net, h3, ended, dropped, txq, stale>>
    PROVE  Owner' /\ Asked'
<1>1. (client' <=> client) /\ py.todo = << >> /\ rxq # << >>
  BY DEF client, Take, Idle
<1>2. client => py.opened
  BY <1>1 DEF Owner, Fresh
<1>3. CASE py.attached /\ Heard
  <2>1. py.opened /\ py.obj = "live"
    BY <1>2, <1>3 DEF Owner
  <2>2. py'.owed \subseteq py.owed \cup {"op"} /\ (py.closed => py'.closed)
    BY <1>3 DEF Heard
  <2>3. Owner'
    BY <1>1, <1>3, <2>1 DEF Owner, Heard
  <2>4. \A i \in 1 .. Len(txq) : NowMay(txq[i].t)
    BY <1>3 DEF Asked, MayAsk, NowMay, Heard
  <2>5. \A i \in 1 .. Len(txq) :
           txq[i].t # "open" /\ txq[i].t # "deregister"
    BY <1>1, <2>1 DEF Asked, Fresh
  <2>6. \A c \in py'.owed : NowMay(c)
    BY <1>3 DEF Asked, MayAsk, NowMay, Heard
  <2>7. \A i \in 1 .. Len(py'.todo) : NowMay(py'.todo[i])
    <3>1. CASE py'.closed
      BY <1>3, <3>1 DEF NowMay, Heard
    <3>2. CASE py'.todo = << >>
      BY <3>2
    <3> QED
      BY <1>3, <3>1, <3>2 DEF Heard
  <2>8. Asked'
    BY <2>4, <2>5, <2>6, <2>7 DEF Asked, MayAsk, NowMay
  <2> QED
    BY <2>3, <2>8
<1>4. CASE UNCHANGED py
  <2>1. \A i \in 1 .. Len(txq) : txq[i].t # "open"
    BY <1>1 DEF Asked, Fresh
  <2>2. Asked'
    BY <1>4, <2>1 DEF Asked, MayAsk
  <2>3. Owner'
    BY <1>1, <1>2, <1>4 DEF Owner
  <2> QED
    BY <2>2, <2>3
<1>5. CASE /\ ~client /\ py.obj = "no"
           /\ py' = [py EXCEPT !.obj = "live", !.opened = TRUE, !.attached = TRUE,
                               !.ready = TRUE]
  <2>1. /\ py'.obj = "live" /\ py'.opened /\ py'.attached /\ ~py'.closed
        /\ ~py'.opening
        /\ py'.todo = << >> /\ py'.owed = {} /\ py'.ctxs = {} /\ py'.pend = << >>
    BY <1>1, <1>5, Spawned DEF Idle
  <2>2. txq = << >>
    BY <1>5 DEF Owner
  <2>3. Owner'
    BY <1>1, <1>5, <2>1 DEF Owner
  <2>4. txq' = << >> /\ \A i \in 1 .. Len(txq') : FALSE
    BY <2>2
  <2>5. (\A i \in 1 .. Len(py'.todo) : FALSE) /\ \A c \in py'.owed : FALSE
    BY <2>1
  <2>6. Asked'
    BY <2>4, <2>5 DEF Asked
  <2> QED
    BY <2>3, <2>6
<1> QED
  BY <1>3, <1>4, <1>5, DispatchSteps

LEMMA DispatchNews ==
    ASSUME Typed, Owner, News, Naming, Dispatch, Take,
           UNCHANGED <<plan, s, net, h3, ended, dropped, txq, stale>>
    PROVE  News' /\ Naming'
<1>1. (client' <=> client) /\ (Up' <=> Up)
  BY DEF client, Up
<1>2. /\ rxq \in Seq(Events) /\ rxq # << >> /\ rxq' = Tail(rxq)
      /\ Event = rxq[1] /\ 1 \in 1 .. Len(rxq)
  BY NextEvent
<1>3. \A i \in 1 .. Len(rxq') : i + 1 \in 1 .. Len(rxq) /\ rxq'[i] = rxq[i + 1]
                                /\ i + 1 # 1
  BY <1>2, Rest
<1>4. s.mem # "no"
  BY <1>2 DEF News
<1>5. s.mem = "freed" => UNCHANGED py
  <2> SUFFICES ASSUME s.mem = "freed" PROVE UNCHANGED py
    OBVIOUS
  <2>1. py.obj = "dropped" /\ ~py.attached
    BY DEF News, Owner
  <2> QED
    BY <2>1, DispatchSteps
<1>6. Naming'
  <2>1. Hooked'
    BY <1>1 DEF Naming, Hooked
  <2>2. FreedIsUnnamed'
    BY <1>1, <1>5 DEF Naming, FreedIsUnnamed
  <2> QED
    BY <2>1, <2>2 DEF Naming
<1>7. CASE UNCHANGED py
  <2>1. \A i \in 1 .. Len(rxq') : rxq'[i].t = "new" =>
           /\ py.obj = "no" /\ s.mem = "live"
           /\ \A j \in 1 .. Len(rxq') : rxq'[j].t = "new" => i = j
    <3> SUFFICES ASSUME NEW i \in 1 .. Len(rxq'), rxq'[i].t = "new"
                 PROVE  /\ py.obj = "no" /\ s.mem = "live"
                        /\ \A j \in 1 .. Len(rxq') : rxq'[j].t = "new" => i = j
      OBVIOUS
    <3>1. py.obj = "no" /\ s.mem = "live"
      BY <1>3 DEF News
    <3>2. ASSUME NEW j \in 1 .. Len(rxq'), rxq'[j].t = "new" PROVE i = j
      <4>1. i + 1 = j + 1
        BY <1>3, <3>2 DEF News
      <4> QED
        BY <4>1
    <3> QED
      BY <3>1, <3>2
  <2>2. s.mem = "freed" => py.obj = "dropped"
    BY DEF News
  <2> QED
    BY <1>4, <1>6, <1>7, <2>1, <2>2 DEF News
<1>8. CASE Event.t = "new"
  <2>1. \A i \in 1 .. Len(rxq') : rxq'[i].t # "new"
    BY <1>2, <1>3, <1>8 DEF News
  <2>2. s.mem = "live"
    BY <1>2, <1>8 DEF News
  <2> QED
    BY <1>6, <2>1, <2>2 DEF News
<1>9. CASE py.attached
  <2>1. py.obj = "live"
    BY <1>9 DEF Owner
  <2>2. s.mem = "live" /\ \A i \in 1 .. Len(rxq) : rxq[i].t # "new"
    BY <2>1, LiveStruct
  <2>3. \A i \in 1 .. Len(rxq') : rxq'[i].t # "new"
    BY <1>3, <2>2
  <2> QED
    BY <1>6, <2>2, <2>3 DEF News
<1> QED
  BY <1>7, <1>8, <1>9, DispatchSteps

\* A link is freed by its release only, behind all that borrows it, and by
\* then Python has dropped the sc.
LEMMA DispatchLinks ==
    ASSUME Typed, Owner, News, Links, Dispatch, Take, UNCHANGED h3
    PROVE  Links'
<1> SUFFICES ASSUME NEW d \in Streams
             PROVE  (/\ BorrowedIn(rxq, d) => link[d] \in {"live", "leaked"}
                     /\ LastRelease(rxq, d) /\ LastDestroy(rxq, d)
                     /\ h3[d] = "link" => link[d] = "live" /\ ~ReleasedIn(rxq, d)
                     /\ h3[d] \in {None, "session"} => link[d] = None
                     /\ Listening => DroppedIn(rxq, d, py.ctxs)
                     /\ py.attached /\ d \in py.ctxs => link[d] # "freed")'
  BY DEF Links
<1>1. /\ BorrowedIn(rxq, d) => link[d] \in {"live", "leaked"}
      /\ LastRelease(rxq, d) /\ LastDestroy(rxq, d)
      /\ h3[d] = "link" => link[d] = "live" /\ ~ReleasedIn(rxq, d)
      /\ h3[d] \in {None, "session"} => link[d] = None
      /\ Listening => DroppedIn(rxq, d, py.ctxs)
      /\ py.attached /\ d \in py.ctxs => link[d] # "freed"
  BY DEF Links
<1>2. /\ rxq \in Seq(Events) /\ rxq # << >> /\ rxq' = Tail(rxq)
      /\ Event = Head(rxq) /\ Idle
      /\ link \in [Streams -> {None, "live", "freed", "leaked"}]
  BY NextEvent DEF Event, Typed
<1>3. /\ BorrowedIn(rxq', d) => BorrowedIn(rxq, d)
      /\ ReleasedIn(rxq', d) => ReleasedIn(rxq, d)
      /\ Borrows(Event, d) => BorrowedIn(rxq, d)
      /\ Is(Event, "release", d) => ReleasedIn(rxq, d)
      /\ LastRelease(rxq', d) /\ LastDestroy(rxq', d)
      /\ Is(Event, "release", d) => ~BorrowedIn(rxq', d)
      /\ Is(Event, "destroy", d) => ~AddedIn(rxq', d)
  BY <1>1, <1>2, StreamRest
<1>4. /\ \A S : DroppedIn(rxq, d, S) /\ Is(Event, "release", d) => d \notin S
      /\ \A S, U : (/\ DroppedIn(rxq, d, S)
                    /\ d \in U => d \in S \/ Adds(Event, d)
                    /\ ~Is(Event, "destroy", d)) => DroppedIn(rxq', d, U)
      /\ \A U : d \notin U /\ ~AddedIn(rxq', d) => DroppedIn(rxq', d, U)
  BY <1>2, StreamRest
<1>5. /\ Is(Event, "release", d) => Borrows(Event, d)
      /\ Adds(Event, d) => Borrows(Event, d)
  BY DEF Is, Borrows, Adds
<1>6. /\ ~Is(Event, "release", d) => link'[d] = link[d]
      /\ Is(Event, "release", d) => link'[d] = "freed" /\ py' = py
  <2>1. \/ link' = link /\ Event.t # "release"
        \/ /\ UNCHANGED py /\ Event.t = "release"
           /\ link' = [link EXCEPT ![Event.d] = "freed"]
    BY DispatchSteps
  <2> QED
    BY <1>2, <2>1 DEF Is
<1>7. /\ Listening' => Listening
      /\ d \in py'.ctxs => d \in py.ctxs \/ Adds(Event, d)
      /\ Is(Event, "destroy", d) /\ Listening' => d \notin py'.ctxs
      /\ py'.attached /\ d \in py'.ctxs => py.attached
  <2>1. CASE py.attached /\ Heard
    BY <2>1 DEF Heard, Listening, Is
  <2>2. CASE UNCHANGED py
    <3>1. Is(Event, "destroy", d) => ~py.attached \/ Heard
      BY DispatchSteps DEF Is
    <3>2. Listening' <=> Listening
      BY <2>2 DEF Listening
    <3>3. ~py.attached /\ Listening => py.ctxs = {}
      BY DEF Listening, Owner
    <3> QED
      BY <2>1, <2>2, <3>1, <3>2, <3>3
  <2>3. CASE /\ py.obj = "no"
             /\ py' = [py EXCEPT !.obj = "live", !.opened = TRUE, !.attached = TRUE,
                                 !.ready = TRUE]
    <3>1. py'.ctxs = {}
      BY <1>2, <2>3, Spawned
    <3> QED
      BY <2>3, <3>1 DEF Listening, Owner
  <2> QED
    BY <2>1, <2>2, <2>3, DispatchSteps
<1>8. /\ BorrowedIn(rxq', d) => link'[d] \in {"live", "leaked"}
      /\ h3[d] = "link" => link'[d] = "live" /\ ~ReleasedIn(rxq', d)
      /\ h3[d] \in {None, "session"} => link'[d] = None
  BY <1>1, <1>3, <1>5, <1>6 DEF None
<1>9. Listening' => DroppedIn(rxq', d, py'.ctxs)
  BY <1>1, <1>3, <1>4, <1>7
<1>10. py'.attached /\ d \in py'.ctxs => link'[d] # "freed"
  <2> SUFFICES ASSUME py'.attached, d \in py'.ctxs PROVE link'[d] # "freed"
    OBVIOUS
  <2>1. CASE Is(Event, "release", d)
    <3>1. py.attached /\ d \in py.ctxs
      BY <1>6, <2>1
    <3>2. Listening
      BY <3>1 DEF Owner, Listening
    <3> QED
      BY <1>1, <1>4, <2>1, <3>1, <3>2
  <2>2. CASE ~Is(Event, "release", d)
    BY <1>1, <1>3, <1>5, <1>6, <1>7, <2>2
  <2> QED
    BY <2>1, <2>2
<1> QED
  BY <1>3, <1>8, <1>9, <1>10

-----------------------------------------------------------------------------
(* The futures are paired, step by step.                                   *)

\* No reply was lost.
Whole == dropped \cap Replies = {}

LEMMA PairedIs ==
    Paired <=> (Listening /\ ~stale /\ Whole => Pairs(py.pend, rxq, txq))
  BY DEF Paired, Pairs, Creates, Whole

LEMMA PairedNext ==
    ASSUME Listening' /\ ~stale' /\ Whole' => Pairs(py'.pend, rxq', txq')
    PROVE  Paired'
  BY DEF Paired, Pairs, Creates, Whole

\* The worker pushes events that are no replies.
LEMMA CallbackPaired ==
    ASSUME Typed, Links, Paired, Callbacks \/ AppWakeup
    PROVE  Paired'
<1>1. UNCHANGED <<txq, py, stale>>
  BY CallbackQuiet
<1>2. Listening' <=> Listening
  BY <1>1 DEF Listening
<1>3. \E r \in Seq(Events) : /\ rxq' = rxq \o r
                             /\ \A i \in 1 .. Len(r) : r[i].t \notin Replies
  <2>1. CASE ServerConnect
    <3>1. PICK r : Grew(r) /\ (r = <<About("new")>> \/ r = << >>)
      BY <2>1, AnnounceGrew
    <3>2. r \in Seq(Events) /\ rxq' = rxq \o r
      BY <3>1 DEF Grew
    <3>3. About("new").t \notin Replies
      BY DEF About, Ev, Replies
    <3>4. \A i \in 1 .. Len(r) : r[i].t \notin Replies
      BY <3>1, <3>3
    <3> QED
      BY <3>2, <3>4
  <2>2. CASE ~ServerConnect
    BY <2>2, CallbackGrew DEF Grew, Unasked
  <2> QED
    BY <2>1, <2>2
<1>4. PICK r \in Seq(Events) : /\ rxq' = rxq \o r
                               /\ \A i \in 1 .. Len(r) : r[i].t \notin Replies
  BY <1>3
<1>5. py.pend \in Seq(Nat) /\ rxq \in Seq(Events) /\ txq \in Seq(Commands)
  BY DEF Typed, Object
<1>6. Pairs(py.pend, rxq, txq) => Pairs(py.pend, rxq', txq)
  BY <1>4, <1>5, PairsEvents
<1>7. Whole' => Whole
  BY CallbackLosses DEF Losses, Whole
<1>8. Listening' /\ ~stale' /\ Whole' => Pairs(py'.pend, rxq', txq')
  BY <1>1, <1>2, <1>6, <1>7, PairedIs
<1> QED
  BY <1>8, PairedNext

\* The worker answers a request, and pushes no other reply.
LEMMA CommandPaired ==
    ASSUME Typed, Owner, Asked, News, FreedIsUnnamed, Links, Paired, ~stale,
           Command, UNCHANGED <<plan, py>>, Pops
    PROVE  Paired'
<1>1. txq # << >> /\ txq' = Tail(txq)
  BY DEF Pops
<1>2. Listening' <=> Listening
  BY DEF Listening
<1>3. py.pend \in Seq(Nat) /\ rxq \in Seq(Events) /\ txq \in Seq(Commands)
  BY DEF Typed, Object
<1>4. Tail(txq) \in Seq(Commands) /\ Head(txq) \in Commands
  BY <1>1, FirstCommand
<1> SUFFICES ASSUME ~stale', Whole', Pairs(py.pend, rxq, txq)
             PROVE  Pairs(py.pend, rxq', txq')
  <2>1. Whole' => Whole
    BY CommandLosses DEF Losses, Whole
  <2> QED
    BY <1>2, <2>1, PairedIs, PairedNext
<1>5. CASE HandleCreate
  <2>1. Head(txq).t \in Creates
    BY <1>5 DEF HandleCreate, Handle, Pop, Creates
  <2>2. PICK e \in Events : \E r : Grew(r) /\ Answers(e, r)
    BY <1>5, CreateGrew
  <2>3. PICK r : Answers(e, r)
    BY <2>2
  <2>4. e.t \in Replies /\ e.k = Head(txq).k /\ rxq' = Append(rxq, e)
    BY <2>3 DEF Answers, Whole
  <2>5. Pairs(py.pend, Append(rxq, e), Tail(txq))
    BY <1>1, <1>3, <2>1, <2>4, PairsReply
  <2> QED
    BY <1>1, <2>4, <2>5
<1>6. CASE ~HandleCreate
  <2>1. PICK r : Grew(r) /\ Unasked(r)
    BY <1>6, CommandGrew
  <2>2. /\ r \in Seq(Events) /\ rxq' = rxq \o r
        /\ \A i \in 1 .. Len(r) : r[i].t \notin Replies
    BY <2>1 DEF Grew, Unasked
  <2>3. ~HandleStale
    BY DEF HandleStale
  <2>4. Head(txq).t \notin Creates
    BY <1>6, <2>3 DEF Command, Creates, HandleOpen, HandleStreamOp, HandleClose,
       HandleCleanup, HandleDeregister, Deregister, Handle, Pop
  <2>5. Pairs(py.pend, rxq, Tail(txq))
    BY <1>1, <1>3, <2>4, PairsPop
  <2>6. Pairs(py.pend, rxq \o r, Tail(txq))
    BY <1>3, <1>4, <2>2, <2>5, PairsEvents
  <2> QED
    BY <1>1, <2>2, <2>6
<1> QED
  BY <1>5, <1>6

\* What a call does to the futures.
LEMMA CallFutures ==
    ASSUME Typed, Owner, Calls \/ Post \/ RetryPush
    PROVE  \/ \E e \in Commands : /\ e.t \in Creates /\ txq' = Append(txq, e)
                                  /\ py'.pend = Append(py.pend, e.k)
           \/ /\ py'.pend = py.pend \/ ~Listening'
              /\ \/ txq' = txq
                 \/ \E e \in Commands : e.t \notin Creates /\ txq' = Append(txq, e)
<1>1. py \in Object
  BY DEF Typed
<1>2. \A t \in {"open", "close", "fin", "cleanup", "deregister", "op"} :
          Cmd(t) \in Commands /\ Cmd(t).t \notin Creates
  BY DEF Cmd, Commands, Creates
<1>3. \A k \in Nat : /\ [t |-> "op", k |-> k] \in Commands
                     /\ [t |-> "op", k |-> k].t \notin Creates
  BY DEF Commands, Creates
<1>4. SessionGone \in Nat /\ \A k \in 0 .. MaxCode : k \in Nat
  BY CodesAssumption DEF CodesAssumption
<1>5. CASE CreateStream
  <2> DEFINE e == [t |-> "create", k |-> py.made + 1]
  <2>1. e \in Commands /\ e.t \in Creates /\ e.k = py.made + 1
    BY <1>1 DEF Object, Commands, Creates
  <2>2. txq' = Append(txq, e)
    BY <1>5 DEF CreateStream
  <2>3. py' = [py EXCEPT !.made = @ + 1, !.pend = Append(@, py.made + 1)]
    BY <1>5 DEF CreateStream
  <2> HIDE DEF e
  <2>4. py'.pend = Append(py.pend, e.k)
    BY <1>1, <2>1, <2>3 DEF Object
  <2> QED
    BY <2>1, <2>2, <2>4
<1>6. CASE PushOpen
  <2>1. txq' = Append(txq, Cmd("open")) /\ py'.pend = py.pend
    BY <1>1, <1>6 DEF PushOpen, Object
  <2> QED
    BY <1>2, <2>1
<1>7. CASE CreateCancelled \/ Detach \/ Open \/ OpenFails \/ OpenTimesOut
  <2>1. txq' = txq /\ py'.pend = py.pend
    BY <1>1, <1>7 DEF CreateCancelled, Detach, Open, OpenFails, OpenTimesOut, Object
  <2> QED
    BY <2>1
<1>8. CASE StreamOp
  <2>1. PICK code \in 0 .. MaxCode : txq' = Append(txq, [t |-> "op", k |-> code])
    BY <1>8 DEF StreamOp
  <2>2. py'.pend = py.pend
    BY <1>1, <1>8 DEF StreamOp, Object
  <2> QED
    BY <1>3, <1>4, <2>1, <2>2
<1>9. CASE Close
  <2>1. txq' = txq /\ py'.closed
    BY <1>1, <1>9 DEF Close, Released, Object
  <2> QED
    BY <2>1 DEF Listening
<1>10. CASE Dealloc
  <2>1. py'.pend = py.pend
    BY <1>1, <1>10 DEF Dealloc, Object
  <2>2. txq' = txq \/ txq' = Append(txq, Cmd("deregister"))
    BY <1>10 DEF Dealloc
  <2> QED
    BY <1>2, <2>1, <2>2
<1>11. CASE Post
  <2> DEFINE c == Head(py.todo)
  <2>1. c \in Posts
    BY <1>11, NextPost DEF Post
  <2>2. \/ txq' = txq
        \/ c = "gone" /\ txq' = Append(txq, [t |-> "op", k |-> SessionGone])
        \/ c # "gone" /\ txq' = Append(txq, Cmd(c))
    BY <1>11 DEF Post
  <2>3. py'.pend = py.pend
    BY <1>1, <1>11 DEF Post, Object
  <2> HIDE DEF c
  <2> QED
    BY <1>2, <1>3, <1>4, <2>1, <2>2, <2>3 DEF Posts
<1>12. CASE RetryPush
  <2>1. PICK c \in py.owed : c \in Owable /\ txq' \in {txq, Append(txq, Cmd(c))}
    BY <1>12, RetryLeaves
  <2>2. c \in {"close", "cleanup", "fin", "op"} /\ py'.pend = py.pend
    BY <1>12, <2>1, RetryLeaves DEF Owable
  <2> QED
    BY <1>2, <2>1, <2>2
<1> QED
  BY <1>5, <1>6, <1>7, <1>8, <1>9, <1>10, <1>11, <1>12 DEF Calls

LEMMA CallPaired ==
    ASSUME Typed, Owner, Paired, Calmer, Calls \/ Post \/ RetryPush,
           UNCHANGED <<rxq, dropped, stale>>
    PROVE  Paired'
<1>1. py.pend \in Seq(Nat) /\ rxq \in Seq(Events) /\ txq \in Seq(Commands)
  BY DEF Typed, Object
<1> SUFFICES ASSUME Listening', Pairs(py.pend, rxq, txq)
             PROVE  Pairs(py'.pend, rxq, txq')
  <2>1. (Listening' => Listening) /\ (Whole' <=> Whole)
    BY DEF Calmer, Whole
  <2> QED
    BY <2>1, PairedIs, PairedNext
<1>2. CASE txq' = txq /\ py'.pend = py.pend
  BY <1>2
<1>3. ASSUME NEW e \in Commands, e.t \in Creates, txq' = Append(txq, e),
             py'.pend = Append(py.pend, e.k)
      PROVE  Pairs(py'.pend, rxq, txq')
  BY <1>1, <1>3, PairsRequest
<1>4. ASSUME NEW e \in Commands, e.t \notin Creates, txq' = Append(txq, e),
             py'.pend = py.pend
      PROVE  Pairs(py'.pend, rxq, txq')
  BY <1>1, <1>4, PairsPost
<1> QED
  BY <1>2, <1>3, <1>4, CallFutures

\* A reply takes the oldest future.
LEMMA DispatchPaired ==
    ASSUME Typed, Owner, News, Paired, ~stale, Dispatch, Take,
           UNCHANGED <<dropped, txq, stale>>
    PROVE  Paired'
<1>1. py.pend \in Seq(Nat) /\ rxq \in Seq(Events) /\ txq \in Seq(Commands)
  BY DEF Typed, Object
<1>2. py \in Object /\ rxq # << >> /\ rxq' = Tail(rxq) /\ Event = Head(rxq) /\ Idle
  BY NextEvent DEF Event, Typed
<1>3. Listening' => Listening
  <2>1. CASE py.attached /\ Heard
    BY <2>1 DEF Heard, Listening
  <2>2. CASE UNCHANGED py
    BY <2>2 DEF Listening
  <2>3. CASE py.obj = "no"
    BY <2>3 DEF Listening, Owner
  <2> QED
    BY <2>1, <2>2, <2>3, DispatchSteps
<1> SUFFICES ASSUME Listening', Listening, Whole, Pairs(py.pend, rxq, txq)
             PROVE  Pairs(py'.pend, rxq', txq)
  <2>1. Whole' <=> Whole
    BY DEF Whole
  <2> QED
    BY <1>3, <2>1, PairedIs, PairedNext
<1>4. Event.t \notin Replies => Pairs(py.pend, rxq', txq)
  BY <1>1, <1>2, PairsSkip
<1>5. Event.t \in Replies => py.pend # << >> /\ py.opened /\ py.attached /\ ~py.closed
  BY FutureWaits DEF Owner, Listening, Whole
<1>6. Event.t \in Replies => Pairs(Tail(py.pend), rxq', txq)
  BY <1>1, <1>2, <1>5, PairsTake
<1>7. /\ Event.t \in Replies => py'.pend = Tail(py.pend)
      /\ Event.t \notin Replies => py'.pend = py.pend
  <2>1. CASE LinkRelease \/ Unrouted
    <3>1. py' = py /\ Event.t \notin Replies
      BY <1>5, <2>1 DEF LinkRelease, Unrouted, Replies
    <3> QED
      BY <3>1
  <2>2. CASE SpawnSession \/ OnAnswer
    <3>1. Event.t \notin Replies
      BY <2>2 DEF SpawnSession, OnAnswer, Routed, Replies
    <3>2. py'.pend = py.pend
      BY <1>2, <2>2 DEF SpawnSession, OnAnswer, Object
    <3> QED
      BY <3>1, <3>2
  <2>3. CASE OnClosed
    <3>1. Event.t \notin Replies /\ py.attached /\ (py' = py \/ py' = SessionClosed)
      BY <2>3 DEF OnClosed, Routed, Replies
    <3>2. py' # SessionClosed
      <4>1. SessionClosed.closed
        BY <1>2 DEF SessionClosed, Released, Object
      <4> QED
        BY <4>1 DEF Listening
    <3> QED
      BY <3>1, <3>2
  <2>4. CASE OnCreated
    <3>1. Event.t \in Replies /\ ~py.closed
      BY <1>5, <2>4 DEF OnCreated, Routed, Replies
    <3>2. CASE Routed("created")
      <4>1. Event.t # "failed"
        BY <3>2 DEF Routed
      <4>2. \/ py' = [py EXCEPT !.pend = Served, !.owed = @ \cup {"op"}]
            \/ py' = [py EXCEPT !.pend = Served, !.ctxs = @ \cup {Event.d}]
        BY <2>4, <3>1, <4>1 DEF OnCreated, Routed
      <4>3. py'.pend = Served
        BY <1>2, <4>2 DEF Object
      <4> QED
        BY <1>5, <3>1, <4>3 DEF Served
    <3>3. CASE Routed("failed")
      <4>1. Event.t # "created"
        BY <3>3 DEF Routed
      <4>2. \E o \in {py.owed, py.owed \cup {"op"}} :
               py' = [py EXCEPT !.pend = Served, !.owed = o]
        BY <2>4, <3>1, <4>1 DEF OnCreated, Routed
      <4>3. py'.pend = Served
        BY <1>2, <4>2 DEF Object
      <4> QED
        BY <1>5, <3>1, <4>3 DEF Served
    <3> QED
      BY <2>4, <3>2, <3>3 DEF OnCreated
  <2>5. CASE OnNewStream
    <3>1. Event.t \notin Replies
      BY <2>5 DEF OnNewStream, Routed, Replies
    <3>2. py'.pend = py.pend
      BY <1>2, <2>5 DEF OnNewStream, Object
    <3> QED
      BY <3>1, <3>2
  <2>6. CASE OnStream
    <3>1. Event.t \notin Replies
      BY <2>6 DEF OnStream, Routed, Replies
    <3>2. py'.pend = py.pend
      BY <1>2, <2>6 DEF OnStream, Object
    <3> QED
      BY <3>1, <3>2
  <2> QED
    BY <2>1, <2>2, <2>3, <2>4, <2>5, <2>6 DEF Dispatch
<1> QED
  BY <1>4, <1>6, <1>7

-----------------------------------------------------------------------------
(* The theorems.                                                           *)

LEMMA TypedIs ==
    Typed <=> /\ Base /\ rxq \in Seq(Events) /\ Formed(rxq)
              /\ dropped \subseteq Kinds \ {"release"}
              /\ txq \in Seq(Commands) /\ Len(txq) <= TxCap /\ py \in Object
  BY DEF Typed, Base

LEMMA TypedNext ==
    ASSUME Base', rxq' \in Seq(Events), Formed(rxq'), txq' \in Seq(Commands),
           Len(txq') <= TxCap, py' \in Object,
           dropped' \subseteq Kinds \ {"release"}
    PROVE  Typed'
  BY DEF Typed, Base, Formed

LEMMA CallbackKept ==
    ASSUME IInv, Callbacks \/ AppWakeup
    PROVE  /\ Typed' /\ Owner' /\ Asked' /\ News' /\ Hooked'
           /\ FreedIsUnnamed' /\ Links' /\ Paired'
<1>1. /\ Typed /\ Owner /\ Asked /\ News /\ Hooked /\ FreedIsUnnamed /\ Links
      /\ Paired /\ Naming
  BY DEF IInv, Naming
<1>2. Base
  BY <1>1, TypedIs
<1>3. Base' /\ plan'.role = plan.role /\ UNCHANGED <<txq, py, stale>>
  BY <1>2, CallbackTypes, CallbackQuiet
<1>4. Owner' /\ Asked'
  BY <1>1, <1>2, CallbackOwner
<1>5. News'
  BY <1>1, <1>2, CallbackNews
<1>6. Naming'
  BY <1>1, <1>2, CallbackNaming
<1>7. Paired'
  BY <1>1, CallbackPaired
<1>8. \E r : Grew(r)
  <2>1. CASE ServerConnect
    BY <1>1, <2>1, AnnounceGrew
  <2>2. CASE ~ServerConnect
    BY <1>1, <2>2, CallbackGrew
  <2> QED
    BY <2>1, <2>2
<1>9. PICK r : Grew(r)
  BY <1>8
<1>10. Links'
  BY <1>1, <1>3, <1>9, LinksGrow
<1>11. rxq' \in Seq(Events) /\ Formed(rxq')
  BY <1>1, <1>9, GrewTypes
<1>12. Typed'
  <2>1. dropped' \subseteq Kinds \ {"release"}
    BY <1>1, CallbackLosses DEF Losses
  <2> QED
    BY <1>1, <1>3, <1>11, <2>1, TypedIs, TypedNext
<1> QED
  BY <1>4, <1>5, <1>6, <1>7, <1>10, <1>12 DEF Naming

LEMMA CommandKept ==
    ASSUME IInv, ~stale, Command
    PROVE  /\ Typed' /\ Owner' /\ Asked' /\ News' /\ Hooked'
           /\ FreedIsUnnamed' /\ Links' /\ Paired'
<1>1. /\ CodesInv /\ Typed /\ Owner /\ Asked /\ News /\ Hooked /\ FreedIsUnnamed
      /\ Links /\ Paired /\ Naming
  BY DEF IInv, Naming
<1>2. Base
  BY <1>1, TypedIs
<1>3. Base' /\ UNCHANGED <<plan, py>> /\ Pops
  BY <1>1, <1>2, CommandTypes
<1>4. Owner' /\ Asked'
  BY <1>1, <1>2, <1>3, CommandOwner
<1>5. News'
  BY <1>1, <1>2, <1>3, CommandNews
<1>6. Naming'
  BY <1>1, <1>2, <1>3, CommandNaming
<1>7. Paired'
  BY <1>1, <1>3, CommandPaired
<1>8. PICK r : Grew(r)
  BY <1>1, CommandGrew
<1>9. Links'
  BY <1>1, <1>3, <1>8, LinksGrow
<1>10. rxq' \in Seq(Events) /\ Formed(rxq')
  BY <1>1, <1>8, GrewTypes
<1>11. txq' \in Seq(Commands) /\ Len(txq') <= TxCap /\ py' \in Object
  BY <1>1, <1>3, FirstCommand DEF Pops, Typed
<1>12. Typed'
  <2>1. dropped' \subseteq Kinds \ {"release"}
    BY <1>1, CommandLosses DEF Losses
  <2> QED
    BY <1>3, <1>10, <1>11, <2>1, TypedNext
<1> QED
  BY <1>4, <1>5, <1>6, <1>7, <1>9, <1>12 DEF Naming

LEMMA CallKept ==
    ASSUME IInv, Calls \/ Post \/ RetryPush
    PROVE  /\ Typed' /\ Owner' /\ Asked' /\ News' /\ Hooked'
           /\ FreedIsUnnamed' /\ Links' /\ Paired'
<1>1. /\ Typed /\ Owner /\ Asked /\ News /\ Hooked /\ FreedIsUnnamed /\ Links
      /\ Paired /\ Naming
  BY DEF IInv, Naming
<1>2. Base
  BY <1>1, TypedIs
<1>3. /\ Base' /\ plan'.role = plan.role
      /\ UNCHANGED <<net, h3, link, ended, rxq, dropped, stale>>
      /\ ~Dealloc => UNCHANGED s
  BY <1>2, CallTypes
<1>4. Calmer
  BY <1>1, CallCalmer
<1>5. CallAsks /\ Rests
  BY <1>1, <1>4, CallRests
<1>6. Owner'
  BY <1>1, <1>3, <1>4, <1>5, CallOwner
<1>7. Asked'
  BY <1>1, <1>3, <1>4, <1>5, CallAsked
<1>8. News'
  BY <1>1, <1>3, <1>4, CallNews
<1>9. Naming'
  BY <1>1, <1>3, <1>4, CallNaming
<1>10. Links'
  BY <1>1, <1>3, <1>4, CallLinks
<1>11. Paired'
  BY <1>1, <1>3, <1>4, CallPaired
<1>12. py' \in Object /\ txq' \in Seq(Commands) /\ Len(txq') <= TxCap
  BY <1>1, CallKinds
<1>13. rxq' \in Seq(Events) /\ Formed(rxq')
  BY <1>1, <1>3 DEF Typed
<1>14. Typed'
  <2>1. dropped' \subseteq Kinds \ {"release"}
    BY <1>1, <1>3 DEF Typed
  <2> QED
    BY <1>3, <1>12, <1>13, <2>1, TypedNext
<1> QED
  BY <1>6, <1>7, <1>8, <1>9, <1>10, <1>11, <1>14 DEF Naming

LEMMA DispatchKept ==
    ASSUME IInv, ~stale, Dispatch
    PROVE  /\ Typed' /\ Owner' /\ Asked' /\ News' /\ Hooked'
           /\ FreedIsUnnamed' /\ Links' /\ Paired'
<1>1. /\ Typed /\ Owner /\ Asked /\ News /\ Hooked /\ FreedIsUnnamed /\ Links
      /\ Paired /\ Naming
  BY DEF IInv, Naming
<1>2. Base
  BY <1>1, TypedIs
<1>3. /\ Base' /\ py' \in Object /\ Take
      /\ UNCHANGED <<plan, s, net, h3, ended, dropped, txq, stale>>
  BY <1>1, <1>2, DispatchTypes
<1>4. Owner' /\ Asked'
  BY <1>1, <1>3, DispatchOwner
<1>5. News' /\ Naming'
  BY <1>1, <1>3, DispatchNews
<1>6. Links'
  BY <1>1, <1>3, DispatchLinks
<1>7. Paired'
  BY <1>1, <1>3, DispatchPaired
<1>8. rxq' \in Seq(Events) /\ Formed(rxq')
  BY <1>1, <1>3, NextEvent
<1>9. txq' \in Seq(Commands) /\ Len(txq') <= TxCap
  BY <1>1, <1>3 DEF Typed
<1>10. Typed'
  <2>1. dropped' \subseteq Kinds \ {"release"}
    BY <1>1, <1>3 DEF Typed
  <2> QED
    BY <1>3, <1>8, <1>9, <2>1, TypedNext
<1> QED
  BY <1>4, <1>5, <1>6, <1>7, <1>10 DEF Naming

\* The queues of the initial state are empty.
LEMMA NothingQueued ==
    ASSUME NEW T
    PROVE  /\ << >> \in Seq(T) /\ Len(<< >>) = 0 /\ Formed(<< >>)
           /\ Upto(<< >>, T, 0) = 0
           /\ \A d : /\ ~BorrowedIn(<< >>, d) /\ ~ReleasedIn(<< >>, d)
                     /\ LastRelease(<< >>, d) /\ LastDestroy(<< >>, d)
                     /\ \A S : DroppedIn(<< >>, d, S)
<1>1. << >> \in Seq(T) /\ Len(<< >>) = 0 /\ 1 .. 0 = {}
  OBVIOUS
<1> DEFINE q == << >>
<1>2. Len(q) = 0
  BY <1>1
<1> HIDE DEF q
<1>3. {j \in 1 .. 0 : q[j].t \in T} = {}
  BY <1>1
<1>4. Upto(q, T, 0) = 0
  BY <1>3, FS_EmptySet DEF Upto
<1>5. Formed(q)
  BY <1>1, <1>2 DEF Formed
<1>6. ASSUME NEW d
      PROVE  /\ ~BorrowedIn(q, d) /\ ~ReleasedIn(q, d)
             /\ LastRelease(q, d) /\ LastDestroy(q, d)
             /\ \A S : DroppedIn(q, d, S)
  BY <1>1, <1>2 DEF BorrowedIn, ReleasedIn, LastRelease, LastDestroy, DroppedIn
<1> QED
  BY <1>1, <1>4, <1>5, <1>6 DEF q

LEMMA InitIInv == Init => IInv
<1> SUFFICES ASSUME Init PROVE IInv
  OBVIOUS
<1>1. /\ plan \in Scenarios /\ ended = {} /\ stale = FALSE
      /\ rxq = << >> /\ txq = << >> /\ dropped = {}
      /\ h3 = [x \in Connects \cup Streams |-> None]
      /\ link = [d \in Streams |-> None]
  BY WtAssumption DEF Init
<1>2. /\ s = [SessionInit EXCEPT !.mem = IF client THEN "live" ELSE "no"]
      /\ net = [cnx |-> None, closing |-> FALSE, prefix |-> NoStream,
                answered |-> FALSE, fins |-> {}, code |-> NoStream, wire |-> NoStream]
  BY DEF Init
<1>3. py = [obj |-> IF client THEN "live" ELSE "no", opening |-> FALSE,
            opened |-> FALSE, late |-> FALSE,
            attached |-> FALSE, ready |-> FALSE, refused |-> FALSE,
            closed |-> FALSE, fin |-> FALSE, pend |-> << >>, gone |-> {},
            ctxs |-> {}, todo |-> << >>, owed |-> {},
            tries |-> [c \in Owable |-> 0], lost |-> FALSE, made |-> 0]
  BY DEF Init
<1>4. /\ s \in Session /\ s.mem = (IF client THEN "live" ELSE "no")
      /\ ~s.at /\ s.ctl = NoStream /\ ~s.retry
  BY <1>2 DEF SessionInit, Session, Named
<1>5. /\ net \in Net /\ net.cnx = None /\ net.prefix = NoStream /\ net.fins = {}
      /\ net.wire = NoStream /\ {"code", "wire"} \subseteq DOMAIN net
  BY <1>2 DEF Net, Named, NoStream
<1>6. << >> \in Seq(Nat) /\ << >> \in Seq(Posts)
  OBVIOUS
<1>7. py \in Object
  BY <1>3, <1>6 DEF Object, MaxTries
<1>8. /\ py.obj = (IF client THEN "live" ELSE "no") /\ ~py.opened /\ ~py.attached
      /\ ~py.ready /\ ~py.closed /\ ~py.opening
      /\ py.pend = << >> /\ py.ctxs = {}
      /\ py.todo = << >> /\ py.owed = {}
  BY <1>3
<1>9. \A x \in DOMAIN h3 : h3[x] = None
  BY <1>1
<1>10. CodesInv
  <2>1. txq \in Seq({}) /\ Len(txq) = 0
    BY <1>1
  <2> QED
    BY <1>5, <2>1 DEF CodesInv, QueuedCodes, WireCode
<1>11. /\ rxq \in Seq(Events) /\ Formed(rxq) /\ txq \in Seq(Commands)
       /\ Len(txq) = 0 /\ Len(rxq) = 0
  BY <1>1, NothingQueued
<1>12. Typed
  <2>1. h3 \in [Connects \cup Streams -> Hooks] /\ \A c \in Connects : h3[c] # "link"
    BY <1>1 DEF Hooks, None
  <2>2. link \in [Streams -> {None, "live", "freed", "leaked"}]
    BY <1>1
  <2>3. Len(txq) <= TxCap
    BY <1>11, WtAssumption
  <2> QED
    BY <1>1, <1>4, <1>5, <1>7, <1>11, <2>1, <2>2, <2>3 DEF Typed
<1>13. client => Fresh
  BY <1>1, <1>4, <1>5, <1>9 DEF Fresh
<1>14. Owner
  BY <1>1, <1>8, <1>13 DEF Owner
<1>15. Asked
  <2>1. (\A i \in 1 .. Len(txq) : FALSE) /\ (\A i \in 1 .. Len(py.todo) : FALSE)
        /\ \A c \in py.owed : FALSE
    BY <1>8, <1>11
  <2> QED
    BY <2>1 DEF Asked
<1>16. News
  <2>1. \A i \in 1 .. Len(rxq) : FALSE
    BY <1>11
  <2> QED
    BY <1>1, <1>4, <1>8, <2>1 DEF News
<1>17. Hooked
  BY <1>4, <1>5, <1>9 DEF Hooked, Up, None
<1>18. FreedIsUnnamed
  BY <1>8 DEF FreedIsUnnamed
<1>19. Links
  BY <1>1, <1>8, NothingQueued DEF Links, None
<1>20. Paired
  <2>1. /\ Upto(rxq, Replies, Len(rxq)) = 0 /\ Upto(txq, {"create"}, Len(txq)) = 0
        /\ Len(py.pend) = 0
    BY <1>1, <1>8, <1>11, NothingQueued
  <2>2. (\A i \in 1 .. Len(rxq) : FALSE) /\ (\A i \in 1 .. Len(txq) : FALSE)
    BY <1>11
  <2> QED
    BY <2>1, <2>2 DEF Paired
<1> QED
  BY <1>10, <1>12, <1>14, <1>15, <1>16, <1>17, <1>18, <1>19, <1>20 DEF IInv

\* Every state of the session satisfies the inductive invariant, whatever the
\* memory that runs out, the posts that meet a full ring and the close() that
\* comes before, during or after open(): in particular OPEN finds the session
\* as it was made, behind nothing but commands that it has ignored, DEREGISTER
\* is the last command, and a server's session is announced at most once.
THEOREM Invariance == Spec => []IInv
<1>1. IInv /\ [Next]_vars => IInv'
  <2> SUFFICES ASSUME IInv, [Next]_vars PROVE IInv'
    OBVIOUS
  <2>1. CodesInv'
    BY CodesInvStep DEF IInv
  <2>2. CASE UNCHANGED vars
    <3>1. (client' <=> client) /\ (Up' <=> Up) /\ (Listening' <=> Listening)
          /\ (Fresh' <=> Fresh)
      BY <2>2 DEF vars, client, Up, Listening, Fresh
    <3>2. Typed' /\ News' /\ Hooked' /\ FreedIsUnnamed'
      BY <2>2, <3>1 DEF IInv, vars, Typed, News, Hooked, FreedIsUnnamed
    <3>3. Owner' /\ Asked'
      BY <2>2, <3>1 DEF IInv, vars, Owner, Asked, MayAsk
    <3>4. Links' /\ Paired'
      BY <2>2, <3>1 DEF IInv, vars, Links, Paired
    <3> QED
      BY <2>1, <3>2, <3>3, <3>4 DEF IInv
  <2>3. CASE ~stale /\ (Callbacks \/ AppWakeup)
    BY <2>1, <2>3, CallbackKept DEF IInv
  <2>4. CASE ~stale /\ Command
    BY <2>1, <2>4, CommandKept DEF IInv
  <2>5. CASE ~stale /\ (Calls \/ Post \/ RetryPush)
    BY <2>1, <2>5, CallKept DEF IInv
  <2>6. CASE ~stale /\ Dispatch
    BY <2>1, <2>6, DispatchKept DEF IInv
  <2> QED
    BY <2>2, <2>3, <2>4, <2>5, <2>6 DEF Next
<1> QED
  BY <1>1, InitIInv, PTL DEF Spec

\* Type correctness: in particular the TX ring never holds more than its
\* capacity, and a CONNECT stream never gets a link.
THEOREM TypeCorrect == Spec => []TypeOK
<1>1. Typed => TypeOK
  BY DEF Typed, TypeOK, Session, Net, Named, Hooks, Object
<1> QED
  BY <1>1, Invariance, PTL DEF IInv

\* Neither side of the session's links with h3zero dangles: once Python has
\* the struct freed (TX_WT_DEREGISTER, __dealloc__), no prefix, CONNECT
\* stream, link or queued command of an opened session leads to it, and the
\* cached CONNECT stream is never one that h3zero has freed.
THEOREM NothingDangles == Spec => []NoDanglingSession
<1>1. Hooked => ControlLive
  BY DEF Hooked, ControlLive
<1> QED
  BY <1>1, Invariance, PTL DEF IInv, NoDanglingSession

\* A borrowed sc is live wherever it is: LINK_RELEASE comes once, behind all
\* that carries it, and after Python has dropped it.
THEOREM BorrowedLive == Spec => []BorrowedScLive
<1>1. Typed /\ Owner /\ Links => BorrowedScLive
  <2> SUFFICES ASSUME Typed, Owner, Links PROVE BorrowedScLive
    OBVIOUS
  <2>1. ReleaseIsLast
    <3> SUFFICES ASSUME NEW d \in Streams, NEW i \in 1 .. Len(rxq),
                        Borrows(rxq[i], d)
                 PROVE  /\ link[d] \in {"live", "leaked"}
                        /\ rxq[i].t = "release" =>
                               \A j \in i + 1 .. Len(rxq) : ~Borrows(rxq[j], d)
      BY DEF ReleaseIsLast
    <3>1. link[d] \in {"live", "leaked"}
      BY DEF Links, BorrowedIn
    <3>2. ASSUME rxq[i].t = "release", NEW j \in i + 1 .. Len(rxq)
          PROVE  ~Borrows(rxq[j], d)
      <4>1. Is(rxq[i], "release", d)
        BY <3>2 DEF Borrows, Is
      <4>2. j \in 1 .. Len(rxq) /\ i < j
        BY <3>2 DEF Typed
      <4>3. LastRelease(rxq, d)
        BY DEF Links
      <4> QED
        BY <4>1, <4>2, <4>3 DEF LastRelease
    <3> QED
      BY <3>1, <3>2
  <2>2. HookedLinkLive
    <3> SUFFICES ASSUME NEW d \in Streams, h3[d] = "link"
                 PROVE  /\ link[d] = "live"
                        /\ \A i \in 1 .. Len(rxq) : rxq[i] # Ev("release", d)
      BY DEF HookedLinkLive, Linked
    <3>1. link[d] = "live" /\ ~ReleasedIn(rxq, d)
      BY DEF Links
    <3> QED
      BY <3>1 DEF ReleasedIn, Is, Ev
  <2>3. CachedLive
    <3>1. py.ctxs \subseteq Streams
      BY DEF Typed, Object
    <3> QED
      BY <3>1 DEF CachedLive, Links
  <2> QED
    BY <2>1, <2>2, <2>3 DEF BorrowedScLive
<1> QED
  BY <1>1, Invariance, PTL DEF IInv

\* create_stream's futures are the replies and the requests under way, in
\* that order, so that a reply completes the request it answers, until a
\* STREAM_CREATED finds no memory in the RX queue.
THEOREM RepliesPaired == Spec => []RepliesPair
<1>1. Paired => RepliesPair
  BY DEF Paired, RepliesPair, Listening
<1> QED
  BY <1>1, Invariance, PTL DEF IInv
=============================================================================
