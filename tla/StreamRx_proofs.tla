-------------------------- MODULE StreamRx_proofs --------------------------
(***************************************************************************)
(* Proofs about StreamRx for every ring size, window, hysteresis and       *)
(* stream length, and every set of faults.  IInv is inductive; it is       *)
(* proved part by part, each part from those before it.                    *)
(***************************************************************************)
EXTENDS StreamRx, TLAPS

-----------------------------------------------------------------------------
(* The inductive invariant.                                                *)

\* The bytes the drain has popped and not yet handed to Python.
InHand == IF cpc \in {"wrap", "hand"} THEN avail ELSE 0

\* The drain's counters follow the ring's head: what was popped is consumed or
\* in hand, and only a wrapped chunk is unreleased.
Accounts ==
    /\ got = consumed /\ consumed + InHand = head
    /\ unreleased = (IF cpc = "hand" THEN avail ELSE 0)
    /\ cpc = "pop" => head + avail <= tail

\* The peer stays within its limit, and the limit within the ring.  The room
\* a grant goes by was read earlier: the drain can only have made more.
Window ==
    /\ tail <= limit
    /\ WindowWithinRing
    /\ wpc = "grant" => bufFree <= Free

\* A FIN that is queued or being drained has arrived, and so has every byte
\* before it; what the drain saw in the ring after that is all there is.
Ending ==
    /\ finArrived => tail = Total
    /\ wpc = "pushFin" => finArrived
    /\ \A i \in 1 .. Len(events) : events[i] = "FIN" => finArrived
    /\ event = "FIN" => finArrived
    /\ (event = "FIN" /\ cpc = "pop") => head + avail = Total
    /\ (event = "FIN" /\ cpc \in {"wrap", "hand"}) => head = Total
    /\ FinIsLast

\* How far the drain will get with the event it is at.
Reach == CASE cpc = "used" -> tail
           [] cpc = "pop"  -> head + avail
           [] OTHER        -> head

\* A standing flag has its notification, queued or about to be; bytes beyond
\* the drain's reach have one, or the worker is about to see to it.
Notified ==
    /\ flag = 1 => events # << >> \/ wpc = "pushData"
    /\ (faults \subseteq {"txFull"} /\ Reach < tail) =>
           events # << >> \/ wpc \in {"arm", "pushData", "pushFin"}

IInv == TypeOK /\ Accounts /\ Window /\ Ending /\ Notified

-----------------------------------------------------------------------------
(* Preservation.                                                           *)

\* Type correctness: the window keeps the free room a number, the accounts keep
\* every counter in its range.
LEMMA TypeStep ==
    TypeOK /\ Accounts /\ Window /\ [Next]_vars => TypeOK'
<1> SUFFICES ASSUME TypeOK, Accounts, Window, [Next]_vars
             PROVE  TypeOK'
  OBVIOUS
<1> USE CapAssumption, WindowAssumption, HysteresisAssumption,
        TotalAssumption DEF TypeOK, Accounts, InHand, Window,
        WindowWithinRing, Free, Events, WorkerPoints, DrainPoints, ringVars,
        creditVars, workerVars, drainVars
<1>1. CASE DeliverBareFin
  BY <1>1 DEF DeliverBareFin
<1>2. ASSUME NEW n \in 1 .. Total, NEW f \in BOOLEAN, Deliver(n, f)
      PROVE  TypeOK'
  BY <1>2 DEF Deliver, Larger
<1>3. CASE ArmNotification
  BY <1>3 DEF ArmNotification
<1>4. CASE PushNotification
  BY <1>4 DEF PushNotification
<1>5. CASE NotificationLost
  BY <1>5 DEF NotificationLost
<1>6. CASE OpenFlowControl
  BY <1>6 DEF OpenFlowControl, Free
<1>7. CASE OpenGrant
  BY <1>7 DEF OpenGrant, Larger
<1>8. CASE DrainEvent
  BY <1>8 DEF DrainEvent
<1>9. CASE DrainUsed
  <2>1. finGot' \in BOOLEAN
    BY <1>9 DEF DrainUsed, HandBare
  <2> QED
    BY <1>9, <2>1 DEF DrainUsed, HandBare
<1>10. CASE DrainOutOfMemory
  <2>1. finGot' \in BOOLEAN
    BY <1>10 DEF DrainOutOfMemory, HandBare
  <2> QED
    BY <1>10, <2>1 DEF DrainOutOfMemory, HandBare
<1>11. CASE DrainPop
  BY <1>11 DEF DrainPop
<1>12. CASE DrainWrap
  BY <1>12 DEF DrainWrap
<1>13. CASE DrainHand
  <2>1. finGot' \in BOOLEAN
    BY <1>13 DEF DrainHand
  <2> QED
    BY <1>13, <2>1 DEF DrainHand
<1>14. CASE EndCycleQuiet
  BY <1>14 DEF EndCycleQuiet
<1>15. CASE EndCyclePush
  <2>1. lastPush' \in 0 .. consumed' /\ fcQueue' \in Nat
    BY <1>15 DEF EndCyclePush
  <2> QED
    BY <1>15, <2>1 DEF EndCyclePush
<1>16. CASE EndCycleDropped
  <2>1. lastPush' \in 0 .. consumed' /\ fcQueue' \in Nat
    BY <1>16 DEF EndCycleDropped
  <2> QED
    BY <1>16, <2>1 DEF EndCycleDropped
<1>17. CASE UNCHANGED vars
  BY <1>17 DEF vars
<1> QED
  BY <1>1, <1>2, <1>3, <1>4, <1>5, <1>6, <1>7, <1>8, <1>9, <1>10, <1>11,
     <1>12, <1>13, <1>14, <1>15, <1>16, <1>17 DEF Next, PeerSends,
     WorkerStep, DrainStep

\* Only the drain moves the counters.
LEMMA AccountsStep ==
    TypeOK /\ Accounts /\ [Next]_vars => Accounts'
<1> SUFFICES ASSUME TypeOK, Accounts, [Next]_vars
             PROVE  Accounts'
  OBVIOUS
<1> USE DEF TypeOK, Accounts, InHand, ringVars, creditVars, workerVars,
        drainVars
<1>1. CASE DeliverBareFin
  BY <1>1 DEF DeliverBareFin
<1>2. ASSUME NEW n \in 1 .. Total, NEW f \in BOOLEAN, Deliver(n, f)
      PROVE  Accounts'
  BY <1>2 DEF Deliver, Larger
<1>3. CASE ArmNotification
  BY <1>3 DEF ArmNotification
<1>4. CASE PushNotification
  BY <1>4 DEF PushNotification
<1>5. CASE NotificationLost
  BY <1>5 DEF NotificationLost
<1>6. CASE OpenFlowControl
  BY <1>6 DEF OpenFlowControl, Free
<1>7. CASE OpenGrant
  BY <1>7 DEF OpenGrant, Larger
<1>8. CASE DrainEvent
  BY <1>8 DEF DrainEvent
<1>9. CASE DrainUsed
  BY <1>9 DEF DrainUsed, HandBare
<1>10. CASE DrainOutOfMemory
  BY <1>10 DEF DrainOutOfMemory, HandBare
<1>11. CASE DrainPop
  BY <1>11 DEF DrainPop
<1>12. CASE DrainWrap
  BY <1>12 DEF DrainWrap
<1>13. CASE DrainHand
  BY <1>13 DEF DrainHand
<1>14. CASE EndCycleQuiet
  BY <1>14 DEF EndCycleQuiet
<1>15. CASE EndCyclePush
  BY <1>15 DEF EndCyclePush
<1>16. CASE EndCycleDropped
  BY <1>16 DEF EndCycleDropped
<1>17. CASE UNCHANGED vars
  BY <1>17 DEF vars
<1> QED
  BY <1>1, <1>2, <1>3, <1>4, <1>5, <1>6, <1>7, <1>8, <1>9, <1>10, <1>11,
     <1>12, <1>13, <1>14, <1>15, <1>16, <1>17 DEF Next, PeerSends,
     WorkerStep, DrainStep

\* The peer sends within its limit; a grant never exceeds the room.
LEMMA WindowStep ==
    TypeOK /\ Window /\ [Next]_vars => Window'
<1> SUFFICES ASSUME TypeOK, Window, [Next]_vars
             PROVE  Window'
  OBVIOUS
<1> USE CapAssumption, WindowAssumption, HysteresisAssumption,
        TotalAssumption DEF TypeOK, Window, WindowWithinRing, Free, ringVars,
        creditVars, workerVars, drainVars
<1>1. CASE DeliverBareFin
  BY <1>1 DEF DeliverBareFin
<1>2. ASSUME NEW n \in 1 .. Total, NEW f \in BOOLEAN, Deliver(n, f)
      PROVE  Window'
  BY <1>2 DEF Deliver, Larger
<1>3. CASE ArmNotification
  BY <1>3 DEF ArmNotification
<1>4. CASE PushNotification
  BY <1>4 DEF PushNotification
<1>5. CASE NotificationLost
  BY <1>5 DEF NotificationLost
<1>6. CASE OpenFlowControl
  BY <1>6 DEF OpenFlowControl, Free
<1>7. CASE OpenGrant
  BY <1>7 DEF OpenGrant, Larger
<1>8. CASE DrainEvent
  BY <1>8 DEF DrainEvent
<1>9. CASE DrainUsed
  BY <1>9 DEF DrainUsed, HandBare
<1>10. CASE DrainOutOfMemory
  BY <1>10 DEF DrainOutOfMemory, HandBare
<1>11. CASE DrainPop
  BY <1>11 DEF DrainPop
<1>12. CASE DrainWrap
  BY <1>12 DEF DrainWrap
<1>13. CASE DrainHand
  BY <1>13 DEF DrainHand
<1>14. CASE EndCycleQuiet
  BY <1>14 DEF EndCycleQuiet
<1>15. CASE EndCyclePush
  BY <1>15 DEF EndCyclePush
<1>16. CASE EndCycleDropped
  BY <1>16 DEF EndCycleDropped
<1>17. CASE UNCHANGED vars
  BY <1>17 DEF vars
<1> QED
  BY <1>1, <1>2, <1>3, <1>4, <1>5, <1>6, <1>7, <1>8, <1>9, <1>10, <1>11,
     <1>12, <1>13, <1>14, <1>15, <1>16, <1>17 DEF Next, PeerSends,
     WorkerStep, DrainStep

\* The FIN is the last thing queued, drained and handed over.
LEMMA EndingStep ==
    TypeOK /\ Accounts /\ Ending /\ [Next]_vars => Ending'
<1> SUFFICES ASSUME TypeOK, Accounts, Ending, [Next]_vars
             PROVE  Ending'
  OBVIOUS
<1> USE TotalAssumption DEF TypeOK, Accounts, InHand, Ending, FinIsLast,
        Events, ringVars, creditVars, workerVars, drainVars
<1>1. CASE DeliverBareFin
  BY <1>1 DEF DeliverBareFin
<1>2. ASSUME NEW n \in 1 .. Total, NEW f \in BOOLEAN, Deliver(n, f)
      PROVE  Ending'
  BY <1>2 DEF Deliver, Larger
<1>3. CASE ArmNotification
  BY <1>3 DEF ArmNotification
<1>4. CASE PushNotification
  BY <1>4 DEF PushNotification
<1>5. CASE NotificationLost
  BY <1>5 DEF NotificationLost
<1>6. CASE OpenFlowControl
  BY <1>6 DEF OpenFlowControl, Free
<1>7. CASE OpenGrant
  BY <1>7 DEF OpenGrant, Larger
<1>8. CASE DrainEvent
  BY <1>8 DEF DrainEvent
<1>9. CASE DrainUsed
  BY <1>9 DEF DrainUsed, HandBare
<1>10. CASE DrainOutOfMemory
  BY <1>10 DEF DrainOutOfMemory, HandBare
<1>11. CASE DrainPop
  BY <1>11 DEF DrainPop
<1>12. CASE DrainWrap
  BY <1>12 DEF DrainWrap
<1>13. CASE DrainHand
  BY <1>13 DEF DrainHand
<1>14. CASE EndCycleQuiet
  BY <1>14 DEF EndCycleQuiet
<1>15. CASE EndCyclePush
  BY <1>15 DEF EndCyclePush
<1>16. CASE EndCycleDropped
  BY <1>16 DEF EndCycleDropped
<1>17. CASE UNCHANGED vars
  BY <1>17 DEF vars
<1> QED
  BY <1>1, <1>2, <1>3, <1>4, <1>5, <1>6, <1>7, <1>8, <1>9, <1>10, <1>11,
     <1>12, <1>13, <1>14, <1>15, <1>16, <1>17 DEF Next, PeerSends,
     WorkerStep, DrainStep

\* Bytes behind the drain's reach are notified.
LEMMA NotifiedStep ==
    TypeOK /\ Accounts /\ Notified /\ [Next]_vars => Notified'
<1> SUFFICES ASSUME TypeOK, Accounts, Notified, [Next]_vars
             PROVE  Notified'
  OBVIOUS
<1> USE DEF TypeOK, Accounts, Notified, Reach, Events, ringVars, creditVars,
        workerVars, drainVars
<1>1. CASE DeliverBareFin
  BY <1>1 DEF DeliverBareFin
<1>2. ASSUME NEW n \in 1 .. Total, NEW f \in BOOLEAN, Deliver(n, f)
      PROVE  Notified'
  BY <1>2 DEF Deliver, Larger
<1>3. CASE ArmNotification
  BY <1>3 DEF ArmNotification
<1>4. CASE PushNotification
  BY <1>4 DEF PushNotification
<1>5. CASE NotificationLost
  BY <1>5 DEF NotificationLost
<1>6. CASE OpenFlowControl
  BY <1>6 DEF OpenFlowControl, Free
<1>7. CASE OpenGrant
  BY <1>7 DEF OpenGrant, Larger
<1>8. CASE DrainEvent
  BY <1>8 DEF DrainEvent
<1>9. CASE DrainUsed
  BY <1>9 DEF DrainUsed, HandBare
<1>10. CASE DrainOutOfMemory
  BY <1>10 DEF DrainOutOfMemory, HandBare
<1>11. CASE DrainPop
  BY <1>11 DEF DrainPop
<1>12. CASE DrainWrap
  BY <1>12 DEF DrainWrap
<1>13. CASE DrainHand
  BY <1>13 DEF DrainHand
<1>14. CASE EndCycleQuiet
  BY <1>14 DEF EndCycleQuiet
<1>15. CASE EndCyclePush
  BY <1>15 DEF EndCyclePush
<1>16. CASE EndCycleDropped
  BY <1>16 DEF EndCycleDropped
<1>17. CASE UNCHANGED vars
  BY <1>17 DEF vars
<1> QED
  BY <1>1, <1>2, <1>3, <1>4, <1>5, <1>6, <1>7, <1>8, <1>9, <1>10, <1>11,
     <1>12, <1>13, <1>14, <1>15, <1>16, <1>17 DEF Next, PeerSends,
     WorkerStep, DrainStep

-----------------------------------------------------------------------------
(* The theorems.                                                           *)

LEMMA InitIInv == Init => IInv
<1> SUFFICES ASSUME Init PROVE IInv
  OBVIOUS
<1> USE CapAssumption, WindowAssumption, TotalAssumption DEF Init
<1>1. TypeOK
  <2>1. /\ head \in 0 .. tail /\ tail \in 0 .. Total /\ limit \in Nat
        /\ unreleased \in 0 .. Cap /\ consumed \in 0 .. head
        /\ lastPush \in 0 .. consumed /\ fcQueue \in Nat
        /\ bufFree \in 0 .. Cap /\ avail \in 0 .. Cap /\ got \in 0 .. Total
    OBVIOUS
  <2>2. flag \in {0, 1} /\ events \in Seq(Events) /\ event \in Events
    BY DEF Events
  <2>3. wpc \in WorkerPoints /\ cpc \in DrainPoints
    BY DEF WorkerPoints, DrainPoints
  <2> QED
    BY <2>1, <2>2, <2>3 DEF TypeOK
<1>2. Accounts /\ Window /\ Ending
  BY DEF Accounts, InHand, Window, WindowWithinRing, Ending, FinIsLast
<1>3. Notified
  BY DEF Notified, Reach
<1> QED
  BY <1>1, <1>2, <1>3 DEF IInv

\* IInv, which ties the ring, the peer's limit, the notifications and the
\* drain's counters to each other, holds in every reachable state.
THEOREM Invariance == Spec => []IInv
<1>1. IInv /\ [Next]_vars => IInv'
  BY TypeStep, AccountsStep, WindowStep, EndingStep, NotifiedStep DEF IInv
<1> QED
  BY InitIInv, <1>1, PTL DEF Spec

\* The state of the receive path stays within its types: no counter of the
\* stream leaves its range.
THEOREM TypeCorrect == Spec => []TypeOK
<1>1. IInv => TypeOK
  BY DEF IInv
<1> QED
  BY Invariance, <1>1, PTL

\* aiopquic_loop_cb's OPEN_FLOW_CONTROL: the peer's limit never exceeds what
\* sc->rx can hold, however the drain interleaves with a grant.
THEOREM WindowSafe == Spec => []WindowWithinRing
<1>1. IInv => WindowWithinRing
  BY DEF IInv, Window
<1> QED
  BY Invariance, <1>1, PTL

\* rx_event_pending: coalescing notifications strands no bytes in sc->rx.
THEOREM BytesNotified == Spec => []NoStrandedBytes
<1>1. IInv => NoStrandedBytes
  BY DEF IInv, TypeOK, Notified, Reach, NoStrandedBytes
<1> QED
  BY Invariance, <1>1, PTL

\* TransportContext.drain_rx hands the FIN over with or after the last byte.
THEOREM FinComesLast == Spec => []FinIsLast
<1>1. IInv => FinIsLast
  BY DEF IInv, Ending
<1> QED
  BY Invariance, <1>1, PTL
=============================================================================
