----------------------- MODULE RxEventQueue_proofs -----------------------
(***************************************************************************)
(* Proofs about RxEventQueue for every ring capacity, drain budget and     *)
(* number of events.  The safety properties are consequences of one        *)
(* inductive invariant, IInv, whose parts are preserved one after the      *)
(* other: each part's lemma uses only the parts before it.  The last       *)
(* section proves that the queue refines EventFifo, step by step.          *)
(***************************************************************************)
EXTENDS RxEventQueue, SequenceTheorems, TLAPS

-----------------------------------------------------------------------------
(* The inductive invariant.                                                *)

Bit(b) == IF b THEN 1 ELSE 0

\* The two counters the threads steer by.  Every committed event is behind
\* tail, in the slot a refill is filling, or in the list; depth lags the list
\* by the node the worker has linked but not counted, and by the one the
\* refill has unlinked but not uncounted.  Its consequence is the exclusion
\* the ring rests on: depth is 0 while the worker is filling a slot.
Counting ==
    /\ tail + Bit(cpc = "place") + Len(ovf) = accepted
    /\ depth + Bit(wpc = "count") = Len(ovf) + Bit(cpc \in {"place", "uncount"})
    /\ wpc \in {"ring", "publish"} => depth = 0
    /\ cpc \in {"place", "uncount"} => depth > 0

\* The ring is never overfilled, nor popped while empty.
Bounds ==
    /\ head <= tail
    /\ tail - head <= Capacity
    /\ wpc = "publish" \/ cpc = "place" => tail - head < Capacity
    /\ cpc = "pop" => head < tail

\* The event numbered i is at index i: in its slot once behind tail or being
\* placed there, and after those the list continues the numbering.
Content ==
    /\ \A i \in head .. tail - 1 : slots[Slot(i)].n = i
    /\ cpc = "place" => slots[Slot(tail)].n = tail
    /\ wpc = "publish" => slots[Slot(tail)].n = went.n
    /\ wpc \in {"ring", "publish", "node"} => went.n = accepted
    /\ \A j \in 1 .. Len(ovf) : ovf[j].n = tail + Bit(cpc = "place") + j - 1

\* What Python has been handed is 0, 1, 2 ... up to the event being popped.
Delivered ==
    /\ Len(out) = head + Bit(cpc = "pop")
    /\ InOrderDelivery

\* A set flag means the fd is readable or about to be, except between the two
\* halves of aiopquic_clear_rx; and the last re-check of aiopquic_clear_rx
\* sees whatever the ring re-check before it could not.
Wakeful ==
    /\ (pending = 1 /\ wpc # "write" /\ cpc # "clearXchg") => fd > 0
    /\ (cpc = "rearmOvf" /\ head < accepted) =>
           (fd > 0 \/ depth > 0 \/ wpc \in {"count", "notify", "write"})
    /\ NoLostWake

IInv == TypeOK /\ Counting /\ Bounds /\ Content /\ Delivered /\ Wakeful

-----------------------------------------------------------------------------
(* Arithmetic of the ring.                                                 *)

\* Two indices less than a ring apart name different slots: the index
\* arithmetic of spsc_ring.h (index & mask) never aliases live entries.
LEMMA SlotsDiffer ==
    ASSUME NEW i \in Nat, NEW j \in Nat, i < j, j - i < Capacity
    PROVE  Slot(i) # Slot(j)
<1> USE CapacityAssumption
<1> SUFFICES ASSUME i % Capacity = j % Capacity PROVE FALSE
  BY DEF Slot
<1> DEFINE a == i \div Capacity
           b == j \div Capacity
<1>1. i = Capacity * a + (i % Capacity)
  OBVIOUS
<1>2. j = Capacity * b + (j % Capacity)
  OBVIOUS
<1>3. a \in Int /\ b \in Int
  OBVIOUS
<1> HIDE DEF a, b
<1>4. j - i = Capacity * (b - a)
  BY <1>1, <1>2, <1>3 DEF a, b
<1>5. b - a >= 1
  BY <1>3, <1>4
<1>6. Capacity * (b - a) >= Capacity
  BY <1>3, <1>5
<1> QED
  BY <1>3, <1>4, <1>6

\* An index names a slot of the ring.
LEMMA SlotInRing ==
    ASSUME NEW i \in Nat PROVE Slot(i) \in 0 .. Capacity - 1
  BY CapacityAssumption DEF Slot

-----------------------------------------------------------------------------
(* Preservation.                                                           *)

\* spsc_ring_refill_from_overflow may unlink a node whenever depth is not
\* zero.
LEMMA NodeToTake ==
    ASSUME TypeOK, Counting, cpc = "refill", depth > 0
    PROVE  /\ ovf # << >>
           /\ Head(ovf) \in Entry
           /\ Tail(ovf) \in Seq(Entry)
           /\ Len(Tail(ovf)) = Len(ovf) - 1
           /\ \A j \in 1 .. Len(Tail(ovf)) : Tail(ovf)[j] = ovf[j + 1]
           /\ Head(ovf) = ovf[1]
           /\ Len(ovf) \in Nat /\ Len(ovf) > 0
<1>1. Len(ovf) \in Nat /\ Len(ovf) > 0
  BY DEF TypeOK, Counting, Bit
<1>2. ovf # << >>
  BY <1>1
<1> QED
  BY <1>1, <1>2, HeadTailProperties DEF TypeOK

\* Type correctness; the counting tells that the node a refill takes exists and
\* that a depth that is decremented is positive.
LEMMA TypeStep ==
    TypeOK /\ Counting /\ [Next]_vars => TypeOK'
<1> SUFFICES ASSUME TypeOK /\ Counting, [Next]_vars
             PROVE  TypeOK'
  OBVIOUS
<1> USE CapacityAssumption, MaxEventsAssumption, MaxPushAssumption DEF
        TypeOK, Counting, Bit, Entry, WorkerPoints, ReaderPoints,
        RefillCallers, ringVars, ovfVars, wakeVars, workerVars, readerVars
<1>1. CASE PushStart
  BY <1>1 DEF PushStart
<1>2. CASE RingPushFull
  BY <1>2 DEF RingPushFull, RingFull
<1>3. CASE RingWrite
  <2>1. Slot(tail) \in 0 .. Capacity - 1
    BY SlotInRing
  <2>2. slots' \in [0 .. Capacity - 1 -> Entry]
    BY <1>3, <2>1 DEF RingWrite
  <2> QED
    BY <1>3, <2>2 DEF RingWrite
<1>4. CASE RingPublish
  BY <1>4 DEF RingPublish
<1>5. CASE PushOutOfMemory
  BY <1>5 DEF PushOutOfMemory, RingFull
<1>6. CASE OverflowAppend
  BY <1>6 DEF OverflowAppend
<1>7. CASE OverflowCount
  BY <1>7 DEF OverflowCount
<1>8. CASE NotifyExchange
  BY <1>8 DEF NotifyExchange
<1>9. CASE NotifyWrite
  BY <1>9 DEF NotifyWrite
<1>10. CASE StartDrain
  <2>1. budget' \in 0 .. MaxEvents
    BY <1>10 DEF StartDrain
  <2>2. moved' \in BOOLEAN
    BY <1>10 DEF StartDrain, CallRefill
  <2> QED
    BY <1>10, <2>1, <2>2 DEF StartDrain, CallRefill
<1>11. CASE RefillTake
  <2>1. Head(ovf) \in Entry /\ Tail(ovf) \in Seq(Entry)
    BY <1>11, NodeToTake DEF RefillTake
  <2>2. Slot(tail) \in 0 .. Capacity - 1
    BY SlotInRing
  <2>3. slots' \in [0 .. Capacity - 1 -> Entry]
    BY <1>11, <2>1, <2>2 DEF RefillTake
  <2> QED
    BY <1>11, <2>1, <2>3 DEF RefillTake
<1>12. CASE RefillPublish
  BY <1>12 DEF RefillPublish
<1>13. CASE RefillUncount
  <2>1. depth' \in Nat
    BY <1>13 DEF RefillUncount
  <2>2. moved' \in BOOLEAN
    BY <1>13 DEF RefillUncount
  <2> QED
    BY <1>13, <2>1, <2>2 DEF RefillUncount
<1>14. CASE RefillReturn
  BY <1>14 DEF RefillReturn, CallRefill, RingFull
<1>15. CASE DrainBudgetSpent
  BY <1>15 DEF DrainBudgetSpent, CallRefill
<1>16. CASE DrainMiss
  <2>1. budget' \in 0 .. MaxEvents
    BY <1>16 DEF DrainMiss
  <2>2. moved' \in BOOLEAN
    BY <1>16 DEF DrainMiss, CallRefill
  <2> QED
    BY <1>16, <2>1, <2>2 DEF DrainMiss, CallRefill
<1>17. CASE DrainHandle
  <2>1. slots[Slot(head)] \in Entry
    BY SlotInRing
  <2>2. slots' \in [0 .. Capacity - 1 -> Entry]
    BY <1>17, <2>1 DEF DrainHandle
  <2>3. out' \in Seq(Entry)
    BY <1>17, <2>1, AppendProperties DEF DrainHandle
  <2> QED
    BY <1>17, <2>2, <2>3 DEF DrainHandle
<1>18. CASE DrainPop
  BY <1>18 DEF DrainPop
<1>19. CASE ClearRead
  BY <1>19 DEF ClearRead
<1>20. CASE ClearExchange
  BY <1>20 DEF ClearExchange
<1>21. CASE ClearRearm
  BY <1>21 DEF ClearRearm
<1>22. CASE ClearRearmOverflow
  BY <1>22 DEF ClearRearmOverflow
<1>23. CASE UNCHANGED vars
  BY <1>23 DEF vars
<1> QED
  BY <1>1, <1>2, <1>3, <1>4, <1>5, <1>6, <1>7, <1>8, <1>9, <1>10, <1>11, <1>12,
     <1>13, <1>14, <1>15, <1>16, <1>17, <1>18, <1>19, <1>20, <1>21, <1>22, <1>23
     DEF Next, WorkerStep, ReaderStep

\* The two counters the threads steer by, tail and depth, account for every
\* event committed.
LEMMA CountingStep ==
    TypeOK /\ Counting /\ [Next]_vars => Counting'
<1> SUFFICES ASSUME TypeOK /\ Counting, [Next]_vars
             PROVE  Counting'
  OBVIOUS
<1> USE DEF TypeOK, Counting, Bit, WorkerPoints, ReaderPoints,
        RefillCallers, ringVars, ovfVars, wakeVars, workerVars, readerVars
<1>1. CASE PushStart
  BY <1>1 DEF PushStart
<1>2. CASE RingPushFull
  BY <1>2 DEF RingPushFull, RingFull
<1>3. CASE RingWrite
  BY <1>3 DEF RingWrite, RingFull
<1>4. CASE RingPublish
  BY <1>4 DEF RingPublish
<1>5. CASE PushOutOfMemory
  BY <1>5 DEF PushOutOfMemory, RingFull
<1>6. CASE OverflowAppend
  <2>1. Len(ovf') = Len(ovf) + 1
    BY <1>6, AppendProperties DEF OverflowAppend
  <2>2. /\ wpc = "node" /\ wpc' = "count" /\ accepted' = accepted + 1
        /\ UNCHANGED <<tail, depth, cpc>>
    BY <1>6 DEF OverflowAppend
  <2> QED
    BY <2>1, <2>2
<1>7. CASE OverflowCount
  BY <1>7 DEF OverflowCount
<1>8. CASE NotifyExchange
  BY <1>8 DEF NotifyExchange
<1>9. CASE NotifyWrite
  BY <1>9 DEF NotifyWrite
<1>10. CASE StartDrain
  BY <1>10 DEF StartDrain, CallRefill
<1>11. CASE RefillTake
  <2>1. Len(ovf') = Len(ovf) - 1
    BY <1>11, NodeToTake DEF RefillTake
  <2>2. /\ cpc = "refill" /\ cpc' = "place" /\ depth > 0
        /\ UNCHANGED <<tail, depth, wpc, accepted>>
    BY <1>11 DEF RefillTake
  <2> QED
    BY <2>1, <2>2
<1>12. CASE RefillPublish
  BY <1>12 DEF RefillPublish
<1>13. CASE RefillUncount
  BY <1>13 DEF RefillUncount
<1>14. CASE RefillReturn
  BY <1>14 DEF RefillReturn, CallRefill, RingFull
<1>15. CASE DrainBudgetSpent
  BY <1>15 DEF DrainBudgetSpent, CallRefill
<1>16. CASE DrainMiss
  BY <1>16 DEF DrainMiss, CallRefill
<1>17. CASE DrainHandle
  BY <1>17 DEF DrainHandle
<1>18. CASE DrainPop
  BY <1>18 DEF DrainPop
<1>19. CASE ClearRead
  BY <1>19 DEF ClearRead
<1>20. CASE ClearExchange
  BY <1>20 DEF ClearExchange
<1>21. CASE ClearRearm
  BY <1>21 DEF ClearRearm
<1>22. CASE ClearRearmOverflow
  BY <1>22 DEF ClearRearmOverflow
<1>23. CASE UNCHANGED vars
  BY <1>23 DEF vars
<1> QED
  BY <1>1, <1>2, <1>3, <1>4, <1>5, <1>6, <1>7, <1>8, <1>9, <1>10, <1>11, <1>12,
     <1>13, <1>14, <1>15, <1>16, <1>17, <1>18, <1>19, <1>20, <1>21, <1>22, <1>23
     DEF Next, WorkerStep, ReaderStep

\* The ring is never overfilled, by the worker or by a refill.
LEMMA BoundsStep ==
    TypeOK /\ Counting /\ Bounds /\ [Next]_vars => Bounds'
<1> SUFFICES ASSUME TypeOK /\ Counting /\ Bounds, [Next]_vars
             PROVE  Bounds'
  OBVIOUS
<1> USE CapacityAssumption DEF TypeOK, Counting, Bounds, Bit, WorkerPoints,
        ReaderPoints, ringVars, ovfVars, wakeVars, workerVars, readerVars
<1>1. CASE PushStart
  BY <1>1 DEF PushStart
<1>2. CASE RingPushFull
  BY <1>2 DEF RingPushFull, RingFull
<1>3. CASE RingWrite
  BY <1>3 DEF RingWrite, RingFull
<1>4. CASE RingPublish
  BY <1>4 DEF RingPublish
<1>5. CASE PushOutOfMemory
  BY <1>5 DEF PushOutOfMemory, RingFull
<1>6. CASE OverflowAppend
  BY <1>6 DEF OverflowAppend
<1>7. CASE OverflowCount
  BY <1>7 DEF OverflowCount
<1>8. CASE NotifyExchange
  BY <1>8 DEF NotifyExchange
<1>9. CASE NotifyWrite
  BY <1>9 DEF NotifyWrite
<1>10. CASE StartDrain
  BY <1>10 DEF StartDrain, CallRefill
<1>11. CASE RefillTake
  BY <1>11 DEF RefillTake, RingFull
<1>12. CASE RefillPublish
  BY <1>12 DEF RefillPublish
<1>13. CASE RefillUncount
  BY <1>13 DEF RefillUncount
<1>14. CASE RefillReturn
  BY <1>14 DEF RefillReturn, CallRefill, RingFull
<1>15. CASE DrainBudgetSpent
  BY <1>15 DEF DrainBudgetSpent, CallRefill
<1>16. CASE DrainMiss
  BY <1>16 DEF DrainMiss, CallRefill
<1>17. CASE DrainHandle
  BY <1>17 DEF DrainHandle
<1>18. CASE DrainPop
  BY <1>18 DEF DrainPop
<1>19. CASE ClearRead
  BY <1>19 DEF ClearRead
<1>20. CASE ClearExchange
  BY <1>20 DEF ClearExchange
<1>21. CASE ClearRearm
  BY <1>21 DEF ClearRearm
<1>22. CASE ClearRearmOverflow
  BY <1>22 DEF ClearRearmOverflow
<1>23. CASE UNCHANGED vars
  BY <1>23 DEF vars
<1> QED
  BY <1>1, <1>2, <1>3, <1>4, <1>5, <1>6, <1>7, <1>8, <1>9, <1>10, <1>11, <1>12,
     <1>13, <1>14, <1>15, <1>16, <1>17, <1>18, <1>19, <1>20, <1>21, <1>22, <1>23
     DEF Next, WorkerStep, ReaderStep

\* The wake is never lost.
LEMMA WakefulStep ==
    TypeOK /\ Counting /\ Bounds /\ Wakeful /\ [Next]_vars => Wakeful'
<1> SUFFICES ASSUME TypeOK /\ Counting /\ Bounds /\ Wakeful, [Next]_vars
             PROVE  Wakeful'
  OBVIOUS
<1> USE DEF TypeOK, Counting, Bounds, Wakeful, NoLostWake, Bit,
        WorkerPoints, ReaderPoints, ringVars, ovfVars, wakeVars, workerVars,
        readerVars
<1>1. CASE PushStart
  BY <1>1 DEF PushStart
<1>2. CASE RingPushFull
  BY <1>2 DEF RingPushFull, RingFull
<1>3. CASE RingWrite
  BY <1>3 DEF RingWrite, RingFull
<1>4. CASE RingPublish
  BY <1>4 DEF RingPublish
<1>5. CASE PushOutOfMemory
  BY <1>5 DEF PushOutOfMemory, RingFull
<1>6. CASE OverflowAppend
  BY <1>6 DEF OverflowAppend
<1>7. CASE OverflowCount
  BY <1>7 DEF OverflowCount
<1>8. CASE NotifyExchange
  BY <1>8 DEF NotifyExchange
<1>9. CASE NotifyWrite
  BY <1>9 DEF NotifyWrite
<1>10. CASE StartDrain
  BY <1>10 DEF StartDrain, CallRefill
<1>11. CASE RefillTake
  BY <1>11 DEF RefillTake, RingFull
<1>12. CASE RefillPublish
  BY <1>12 DEF RefillPublish
<1>13. CASE RefillUncount
  BY <1>13 DEF RefillUncount
<1>14. CASE RefillReturn
  BY <1>14 DEF RefillReturn, CallRefill, RingFull
<1>15. CASE DrainBudgetSpent
  BY <1>15 DEF DrainBudgetSpent, CallRefill
<1>16. CASE DrainMiss
  BY <1>16 DEF DrainMiss, CallRefill
<1>17. CASE DrainHandle
  BY <1>17 DEF DrainHandle
<1>18. CASE DrainPop
  BY <1>18 DEF DrainPop
<1>19. CASE ClearRead
  BY <1>19 DEF ClearRead
<1>20. CASE ClearExchange
  BY <1>20 DEF ClearExchange
<1>21. CASE ClearRearm
  BY <1>21 DEF ClearRearm
<1>22. CASE ClearRearmOverflow
  BY <1>22 DEF ClearRearmOverflow
<1>23. CASE UNCHANGED vars
  BY <1>23 DEF vars
<1> QED
  BY <1>1, <1>2, <1>3, <1>4, <1>5, <1>6, <1>7, <1>8, <1>9, <1>10, <1>11, <1>12,
     <1>13, <1>14, <1>15, <1>16, <1>17, <1>18, <1>19, <1>20, <1>21, <1>22, <1>23
     DEF Next, WorkerStep, ReaderStep

\* Filling the slot at tail leaves the entries between head and tail alone.
LEMMA TailSlotIsFree ==
    ASSUME TypeOK, Bounds, tail - head < Capacity, NEW e \in Entry
    PROVE  LET s == [slots EXCEPT ![Slot(tail)] = e]
           IN  /\ s[Slot(tail)] = e
               /\ \A i \in head .. tail - 1 : s[Slot(i)] = slots[Slot(i)]
<1>1. /\ slots \in [0 .. Capacity - 1 -> Entry]
      /\ head \in Nat /\ tail \in Nat /\ Capacity \in Nat
  BY CapacityAssumption DEF TypeOK
<1>2. Slot(tail) \in 0 .. Capacity - 1
  BY <1>1, SlotInRing
<1>3. ASSUME NEW i \in head .. tail - 1
      PROVE  Slot(i) # Slot(tail) /\ Slot(i) \in 0 .. Capacity - 1
  <2>1. i \in Nat /\ i < tail /\ tail - i < Capacity
    BY <1>1
  <2> QED
    BY <1>1, <2>1, SlotsDiffer, SlotInRing
<1> QED
  BY <1>1, <1>2, <1>3

\* The overflow list keeps its numbering when a node is appended.
LEMMA AppendKeepsContent ==
    TypeOK /\ Counting /\ Content /\ OverflowAppend => Content'
<1> SUFFICES ASSUME TypeOK, Counting, Content, OverflowAppend
             PROVE  Content'
  OBVIOUS
<1>1. /\ wpc = "node" /\ wpc' = "count" /\ ovf' = Append(ovf, went)
      /\ UNCHANGED <<slots, head, tail, went, cpc>>
  BY DEF OverflowAppend, ringVars, readerVars
<1>2. ovf \in Seq(Entry) /\ went \in Entry
  BY DEF TypeOK
<1>3. /\ Len(ovf') = Len(ovf) + 1
      /\ \A j \in 1 .. Len(ovf) : ovf'[j] = ovf[j]
      /\ ovf'[Len(ovf) + 1] = went
  BY <1>1, <1>2, AppendProperties
<1>4. Len(ovf) \in Nat /\ tail \in Nat /\ Bit(cpc = "place") \in {0, 1}
  BY <1>2, LenProperties DEF TypeOK, Bit
<1>5. went.n = tail + Bit(cpc = "place") + (Len(ovf) + 1) - 1
  BY <1>1, <1>4 DEF Content, Counting
<1>6. ASSUME NEW j \in 1 .. Len(ovf')
      PROVE  ovf'[j].n = tail + Bit(cpc = "place") + j - 1
  <2>1. CASE j \in 1 .. Len(ovf)
    BY <1>3, <2>1 DEF Content
  <2>2. CASE j = Len(ovf) + 1
    BY <1>3, <1>5, <2>2
  <2> QED
    BY <1>3, <1>4, <2>1, <2>2
<1>7. \A j \in 1 .. Len(ovf') :
          ovf'[j].n = tail' + Bit(cpc' = "place") + j - 1
  BY <1>1, <1>6
<1>8. /\ \A i \in head' .. tail' - 1 : slots'[Slot(i)].n = i
      /\ cpc' = "place" => slots'[Slot(tail')].n = tail'
  BY <1>1 DEF Content
<1>9. wpc' \notin {"ring", "publish", "node"}
  BY <1>1
<1> QED
  BY <1>7, <1>8, <1>9 DEF Content

\* The node a refill unlinks is the event whose number is tail, so the slot
\* it fills and the rest of the list keep the numbering.
LEMMA TakeKeepsContent ==
    TypeOK /\ Counting /\ Bounds /\ Content /\ RefillTake => Content'
<1> SUFFICES ASSUME TypeOK, Counting, Bounds, Content, RefillTake
             PROVE  Content'
  OBVIOUS
<1>1. /\ cpc = "refill" /\ cpc' = "place" /\ depth > 0
      /\ ~(tail - head >= Capacity)
      /\ slots' = [slots EXCEPT ![Slot(tail)] = Head(ovf)]
      /\ ovf' = Tail(ovf)
      /\ UNCHANGED <<head, tail, wpc, went, accepted>>
  BY DEF RefillTake, RingFull, workerVars
<1>2. /\ Head(ovf) \in Entry /\ Head(ovf) = ovf[1]
      /\ Len(ovf') = Len(ovf) - 1
      /\ \A j \in 1 .. Len(ovf') : ovf'[j] = ovf[j + 1]
      /\ Len(ovf) \in Nat /\ Len(ovf) > 0
  BY <1>1, NodeToTake
<1>3. head \in Nat /\ tail \in Nat /\ Capacity \in Nat
  BY CapacityAssumption DEF TypeOK
<1>4. \A j \in 1 .. Len(ovf) : ovf[j].n = tail + j - 1
  <2>1. Bit(cpc = "place") = 0
    BY <1>1 DEF Bit
  <2>2. \A j \in 1 .. Len(ovf) : ovf[j].n = tail + 0 + j - 1
    BY <2>1 DEF Content
  <2> QED
    BY <1>3, <2>2
<1>5. Head(ovf).n = tail
  BY <1>2, <1>3, <1>4
<1>6. /\ slots'[Slot(tail)] = Head(ovf)
      /\ \A i \in head .. tail - 1 : slots'[Slot(i)] = slots[Slot(i)]
  BY <1>1, <1>2, <1>3, TailSlotIsFree
<1>7. /\ \A i \in head' .. tail' - 1 : slots'[Slot(i)].n = i
      /\ slots'[Slot(tail')].n = tail'
  BY <1>1, <1>5, <1>6 DEF Content
<1>8. \A j \in 1 .. Len(ovf') :
          ovf'[j].n = tail' + Bit(cpc' = "place") + j - 1
  <2>1. Bit(cpc' = "place") = 1
    BY <1>1 DEF Bit
  <2>2. ASSUME NEW j \in 1 .. Len(ovf')
        PROVE  ovf'[j].n = tail + 1 + j - 1
    BY <1>2, <1>3, <1>4
  <2> QED
    BY <1>1, <2>1, <2>2
<1>9. wpc' # "publish" /\ (wpc' = "ring" => wpc = "ring")
  BY <1>1 DEF Counting
<1>10. wpc' \in {"ring", "publish", "node"} => went'.n = accepted'
  BY <1>1 DEF Content
<1> QED
  BY <1>7, <1>8, <1>9, <1>10 DEF Content

\* Publishing the slot a refill filled renumbers nothing.
LEMMA PublishKeepsContent ==
    TypeOK /\ Counting /\ Content /\ RefillPublish => Content'
<1> SUFFICES ASSUME TypeOK, Counting, Content, RefillPublish
             PROVE  Content'
  OBVIOUS
<1>1. /\ cpc = "place" /\ cpc' = "uncount" /\ tail' = tail + 1
      /\ UNCHANGED <<slots, head, ovf, wpc, went, accepted>>
  BY DEF RefillPublish, ovfVars, workerVars
<1>2. head \in Nat /\ tail \in Nat
  BY DEF TypeOK
<1>3. wpc' # "publish"
  BY <1>1 DEF Counting
<1>4. slots[Slot(tail)].n = tail
  BY <1>1 DEF Content
<1>5. \A i \in head .. tail - 1 : slots[Slot(i)].n = i
  BY DEF Content
<1>6. ASSUME NEW i \in head' .. tail' - 1 PROVE slots'[Slot(i)].n = i
  <2>1. i \in head .. tail - 1 \/ i = tail
    BY <1>1, <1>2
  <2> QED
    BY <1>1, <1>4, <1>5, <2>1
<1>7. Bit(cpc = "place") = 1 /\ Bit(cpc' = "place") = 0
  BY <1>1 DEF Bit
<1>8. ASSUME NEW j \in 1 .. Len(ovf')
      PROVE  ovf'[j].n = tail' + Bit(cpc' = "place") + j - 1
  <2>1. ovf[j].n = tail + 1 + j - 1
    BY <1>1, <1>7 DEF Content
  <2> QED
    BY <1>1, <1>2, <1>7, <2>1
<1>9. wpc' \in {"ring", "publish", "node"} => went'.n = accepted'
  BY <1>1 DEF Content
<1>10. cpc' # "place"
  BY <1>1
<1> QED
  BY <1>3, <1>6, <1>8, <1>9, <1>10 DEF Content

\* The slot the worker publishes holds the event numbered tail: the overflow
\* is empty, so tail is the number of the event being committed.
LEMMA RingPublishKeepsContent ==
    TypeOK /\ Counting /\ Content /\ RingPublish => Content'
<1> SUFFICES ASSUME TypeOK, Counting, Content, RingPublish
             PROVE  Content'
  OBVIOUS
<1>1. /\ wpc = "publish" /\ wpc' = "notify" /\ tail' = tail + 1
      /\ UNCHANGED <<slots, head, ovf, went, cpc>>
  BY DEF RingPublish, ovfVars, readerVars
<1>2. head \in Nat /\ tail \in Nat /\ Len(ovf) \in Nat
  BY LenProperties DEF TypeOK
<1>3. cpc \notin {"place", "uncount"} /\ depth = 0
  BY <1>1 DEF Counting
<1>4. Bit(cpc = "place") = 0 /\ Len(ovf) = 0
  BY <1>1, <1>2, <1>3 DEF Counting, Bit
<1>5. slots[Slot(tail)].n = tail
  BY <1>1, <1>2, <1>4 DEF Content, Counting
<1>6. \A i \in head .. tail - 1 : slots[Slot(i)].n = i
  BY DEF Content
<1>7. ASSUME NEW i \in head' .. tail' - 1 PROVE slots'[Slot(i)].n = i
  <2>1. i \in head .. tail - 1 \/ i = tail
    BY <1>1, <1>2
  <2> QED
    BY <1>1, <1>5, <1>6, <2>1
<1>8. cpc' # "place" /\ wpc' \notin {"ring", "publish", "node"}
  BY <1>1, <1>3
<1>9. 1 .. Len(ovf') = {}
  BY <1>1, <1>4
<1> QED
  BY <1>7, <1>8, <1>9 DEF Content

\* Handing an entry to Python takes its payload, never its number.
LEMMA HandleKeepsContent ==
    TypeOK /\ Content /\ DrainHandle => Content'
<1> SUFFICES ASSUME TypeOK, Content, DrainHandle
             PROVE  Content'
  OBVIOUS
<1>1. /\ cpc = "read" /\ cpc' = "pop"
      /\ slots' = [slots EXCEPT ![Slot(head)] = [n |-> @.n, owned |-> FALSE]]
      /\ UNCHANGED <<head, tail, ovf, wpc, went, accepted>>
  BY DEF DrainHandle, ovfVars, workerVars
<1>2. /\ slots \in [0 .. Capacity - 1 -> Entry]
      /\ head \in Nat /\ tail \in Nat
  BY DEF TypeOK
<1>3. \A k \in 0 .. Capacity - 1 : slots'[k].n = slots[k].n
  BY <1>1, <1>2
<1>4. \A i \in Nat : slots'[Slot(i)].n = slots[Slot(i)].n
  BY <1>3, SlotInRing
<1>5. \A i \in head' .. tail' - 1 : slots'[Slot(i)].n = i
  BY <1>1, <1>2, <1>4 DEF Content
<1>6. wpc' = "publish" => slots'[Slot(tail')].n = went'.n
  BY <1>1, <1>2, <1>4 DEF Content
<1>7. Bit(cpc' = "place") = 0 /\ Bit(cpc = "place") = 0
  BY <1>1 DEF Bit
<1>8. \A j \in 1 .. Len(ovf') :
          ovf'[j].n = tail' + Bit(cpc' = "place") + j - 1
  BY <1>1, <1>7 DEF Content
<1>9. wpc' \in {"ring", "publish", "node"} => went'.n = accepted'
  BY <1>1 DEF Content
<1>10. cpc' # "place"
  BY <1>1
<1> QED
  BY <1>5, <1>6, <1>8, <1>9, <1>10 DEF Content

\* The entry handed to Python is the one at head, whose number is head.
LEMMA HandleDelivers ==
    TypeOK /\ Content /\ Delivered /\ DrainHandle => Delivered'
<1> SUFFICES ASSUME TypeOK, Content, Delivered, DrainHandle
             PROVE  Delivered'
  OBVIOUS
<1>1. /\ cpc = "read" /\ cpc' = "pop" /\ head < tail /\ head' = head
      /\ out' = Append(out, slots[Slot(head)])
  BY DEF DrainHandle
<1>2. /\ head \in Nat /\ tail \in Nat /\ out \in Seq(Entry)
      /\ slots \in [0 .. Capacity - 1 -> Entry]
  BY DEF TypeOK
<1>3. slots[Slot(head)].n = head
  BY <1>1, <1>2 DEF Content
<1>4. slots[Slot(head)] \in Entry
  BY <1>2, SlotInRing
<1>5. /\ Len(out') = Len(out) + 1
      /\ \A i \in 1 .. Len(out) : out'[i] = out[i]
      /\ out'[Len(out) + 1] = slots[Slot(head)]
  BY <1>1, <1>2, <1>4, AppendProperties
<1>6. Len(out) = head
  <2>1. Bit(cpc = "pop") = 0
    BY <1>1 DEF Bit
  <2> QED
    BY <1>2, <2>1 DEF Delivered
<1>7. Len(out') = head' + Bit(cpc' = "pop")
  <2>1. Bit(cpc' = "pop") = 1
    BY <1>1 DEF Bit
  <2> QED
    BY <1>1, <1>5, <1>6, <2>1
<1>8. \A i \in 1 .. Len(out) : out[i].n = i - 1
  BY DEF Delivered, InOrderDelivery
<1>9. ASSUME NEW i \in 1 .. Len(out') PROVE out'[i].n = i - 1
  <2>1. CASE i \in 1 .. Len(out)
    BY <1>5, <1>8, <2>1
  <2>2. CASE i = Len(out) + 1
    BY <1>2, <1>3, <1>5, <1>6, <2>2
  <2> QED
    BY <1>2, <1>5, <1>6, <2>1, <2>2
<1>10. InOrderDelivery'
  BY <1>9 DEF InOrderDelivery
<1> QED
  BY <1>7, <1>10 DEF Delivered

\* Every index holds the event of its number: the slots between head and tail,
\* the slot being filled, and after them the overflow list.
LEMMA ContentStep ==
    TypeOK /\ Counting /\ Bounds /\ Content /\ [Next]_vars => Content'
<1> SUFFICES ASSUME TypeOK /\ Counting /\ Bounds /\ Content, [Next]_vars
             PROVE  Content'
  OBVIOUS
<1> USE CapacityAssumption DEF TypeOK, Counting, Bounds, Content, Bit,
        WorkerPoints, ReaderPoints, ringVars, ovfVars, wakeVars, workerVars,
        readerVars
<1>1. CASE PushStart
  BY <1>1 DEF PushStart
<1>2. CASE RingPushFull
  BY <1>2 DEF RingPushFull, RingFull
<1>3. CASE RingWrite
  <2>1. /\ wpc = "ring" /\ wpc' = "publish" /\ cpc \notin {"place", "uncount"}
        /\ slots' = [slots EXCEPT ![Slot(tail)] = went]
        /\ tail - head < Capacity
        /\ UNCHANGED <<head, tail, ovf, went, cpc, accepted>>
    BY <1>3 DEF RingWrite, RingFull
  <2>2. went \in Entry
    OBVIOUS
  <2>3. /\ slots'[Slot(tail)] = went
        /\ \A i \in head .. tail - 1 : slots'[Slot(i)] = slots[Slot(i)]
    BY <2>1, <2>2, TailSlotIsFree
  <2> QED
    BY <2>1, <2>3
<1>4. CASE RingPublish
  BY <1>4, RingPublishKeepsContent
<1>5. CASE PushOutOfMemory
  BY <1>5 DEF PushOutOfMemory, RingFull
<1>6. CASE OverflowAppend
  BY <1>6, AppendKeepsContent
<1>7. CASE OverflowCount
  BY <1>7 DEF OverflowCount
<1>8. CASE NotifyExchange
  BY <1>8 DEF NotifyExchange
<1>9. CASE NotifyWrite
  BY <1>9 DEF NotifyWrite
<1>10. CASE StartDrain
  BY <1>10 DEF StartDrain, CallRefill
<1>11. CASE RefillTake
  BY <1>11, TakeKeepsContent
<1>12. CASE RefillPublish
  BY <1>12, PublishKeepsContent
<1>13. CASE RefillUncount
  BY <1>13 DEF RefillUncount
<1>14. CASE RefillReturn
  BY <1>14 DEF RefillReturn, CallRefill, RingFull
<1>15. CASE DrainBudgetSpent
  BY <1>15 DEF DrainBudgetSpent, CallRefill
<1>16. CASE DrainMiss
  BY <1>16 DEF DrainMiss, CallRefill
<1>17. CASE DrainHandle
  BY <1>17, HandleKeepsContent
<1>18. CASE DrainPop
  BY <1>18 DEF DrainPop
<1>19. CASE ClearRead
  BY <1>19 DEF ClearRead
<1>20. CASE ClearExchange
  BY <1>20 DEF ClearExchange
<1>21. CASE ClearRearm
  BY <1>21 DEF ClearRearm
<1>22. CASE ClearRearmOverflow
  BY <1>22 DEF ClearRearmOverflow
<1>23. CASE UNCHANGED vars
  BY <1>23 DEF vars
<1> QED
  BY <1>1, <1>2, <1>3, <1>4, <1>5, <1>6, <1>7, <1>8, <1>9, <1>10, <1>11, <1>12,
     <1>13, <1>14, <1>15, <1>16, <1>17, <1>18, <1>19, <1>20, <1>21, <1>22, <1>23
     DEF Next, WorkerStep, ReaderStep

\* What is handed to Python is the next number.
LEMMA DeliveredStep ==
    TypeOK /\ Content /\ Delivered /\ [Next]_vars => Delivered'
<1> SUFFICES ASSUME TypeOK /\ Content /\ Delivered, [Next]_vars
             PROVE  Delivered'
  OBVIOUS
<1> USE DEF TypeOK, Content, Delivered, InOrderDelivery, Bit, WorkerPoints,
        ReaderPoints, ringVars, ovfVars, wakeVars, workerVars, readerVars
<1>1. CASE PushStart
  BY <1>1 DEF PushStart
<1>2. CASE RingPushFull
  BY <1>2 DEF RingPushFull, RingFull
<1>3. CASE RingWrite
  BY <1>3 DEF RingWrite, RingFull
<1>4. CASE RingPublish
  BY <1>4 DEF RingPublish
<1>5. CASE PushOutOfMemory
  BY <1>5 DEF PushOutOfMemory, RingFull
<1>6. CASE OverflowAppend
  BY <1>6 DEF OverflowAppend
<1>7. CASE OverflowCount
  BY <1>7 DEF OverflowCount
<1>8. CASE NotifyExchange
  BY <1>8 DEF NotifyExchange
<1>9. CASE NotifyWrite
  BY <1>9 DEF NotifyWrite
<1>10. CASE StartDrain
  BY <1>10 DEF StartDrain, CallRefill
<1>11. CASE RefillTake
  BY <1>11 DEF RefillTake, RingFull
<1>12. CASE RefillPublish
  BY <1>12 DEF RefillPublish
<1>13. CASE RefillUncount
  BY <1>13 DEF RefillUncount
<1>14. CASE RefillReturn
  BY <1>14 DEF RefillReturn, CallRefill, RingFull
<1>15. CASE DrainBudgetSpent
  BY <1>15 DEF DrainBudgetSpent, CallRefill
<1>16. CASE DrainMiss
  BY <1>16 DEF DrainMiss, CallRefill
<1>17. CASE DrainHandle
  BY <1>17, HandleDelivers
<1>18. CASE DrainPop
  BY <1>18 DEF DrainPop
<1>19. CASE ClearRead
  BY <1>19 DEF ClearRead
<1>20. CASE ClearExchange
  BY <1>20 DEF ClearExchange
<1>21. CASE ClearRearm
  BY <1>21 DEF ClearRearm
<1>22. CASE ClearRearmOverflow
  BY <1>22 DEF ClearRearmOverflow
<1>23. CASE UNCHANGED vars
  BY <1>23 DEF vars
<1> QED
  BY <1>1, <1>2, <1>3, <1>4, <1>5, <1>6, <1>7, <1>8, <1>9, <1>10, <1>11, <1>12,
     <1>13, <1>14, <1>15, <1>16, <1>17, <1>18, <1>19, <1>20, <1>21, <1>22, <1>23
     DEF Next, WorkerStep, ReaderStep

-----------------------------------------------------------------------------
(* The theorems.                                                           *)

\* A queue just created (spsc_ring_create, aiopquic_ctx_create) satisfies the
\* invariant.
LEMMA InitIInv == Init => IInv
<1> SUFFICES ASSUME Init PROVE IInv
  OBVIOUS
<1>1. NoEntry \in Entry
  BY DEF NoEntry, Entry
<1>2. Len(ovf) = 0 /\ Len(out) = 0
  BY DEF Init
<1>3. TypeOK
  <2>1. slots \in [0 .. Capacity - 1 -> Entry]
    BY <1>1 DEF Init
  <2>2. moved \in BOOLEAN
    BY DEF Init
  <2>3. budget \in 0 .. MaxEvents
    BY MaxEventsAssumption DEF Init
  <2>4. ovf \in Seq(Entry) /\ out \in Seq(Entry)
    BY EmptySeq DEF Init
  <2> QED
    BY <1>1, <2>1, <2>2, <2>3, <2>4
       DEF Init, TypeOK, WorkerPoints, ReaderPoints, RefillCallers
<1>4. Counting
  BY <1>2 DEF Init, Counting, Bit
<1>5. Bounds
  BY CapacityAssumption DEF Init, Bounds
<1>6. Content
  BY <1>2 DEF Init, Content
<1>7. Delivered
  BY <1>2 DEF Init, Delivered, InOrderDelivery, Bit
<1>8. Wakeful
  BY DEF Init, Wakeful, NoLostWake
<1> QED
  BY <1>3, <1>4, <1>5, <1>6, <1>7, <1>8 DEF IInv

\* Every step of either thread preserves the invariant.
LEMMA StepIInv == IInv /\ [Next]_vars => IInv'
  BY TypeStep, CountingStep, BoundsStep, ContentStep, DeliveredStep,
     WakefulStep
     DEF IInv

\* The inductive invariant holds throughout every run of the queue.
THEOREM Invariance == Spec => []IInv
  BY InitIInv, StepIInv, PTL DEF Spec

\* The queue's variables keep their types: no index leaves the ring, the
\* overflow depth is never decremented below zero (spsc_ring.h, the atomic
\* subtraction of spsc_ring_refill_from_overflow), no drain exceeds its budget.
THEOREM TypeCorrect == Spec => []TypeOK
<1>1. IInv => TypeOK
  BY DEF IInv
<1> QED
  BY <1>1, Invariance, PTL

\* Python receives the events of the RX queue in the order the worker
\* committed them, none lost and none twice, for every capacity and budget:
\* push_or_overflow and refill_from_overflow preserve order together.
THEOREM DeliveryInOrder == Spec => []InOrderDelivery
<1>1. IInv => InOrderDelivery
  BY DEF IInv, Delivered
<1> QED
  BY <1>1, Invariance, PTL

\* The ring has one producer at a time: the worker never fills a slot while a
\* refill of the consumer thread does (the overflow comment of spsc_ring.h).
THEOREM OneRingWriter == Spec => []SingleRingWriter
<1>1. IInv => SingleRingWriter
  BY DEF IInv, Counting, SingleRingWriter, TypeOK
<1> QED
  BY <1>1, Invariance, PTL

\* The list head spsc_ring_refill_from_overflow dereferences is never NULL.
THEOREM RefillSafe == Spec => []RefillFindsNode
<1>1. IInv => RefillFindsNode
  BY NodeToTake DEF IInv, RefillFindsNode
<1> QED
  BY <1>1, Invariance, PTL

\* aiopquic_notify_rx and aiopquic_clear_rx never lose a wake: a consumer that
\* stopped draining with an event still undelivered has a readable fd, or a
\* worker about to write it.
THEOREM WakeNeverLost == Spec => []NoLostWake
<1>1. IInv => NoLostWake
  BY DEF IInv, Wakeful
<1> QED
  BY <1>1, Invariance, PTL

-----------------------------------------------------------------------------
(* The refinement.                                                         *)

\* The serial numbers from a up to, and without, b.
Serials(a, b) == [k \in 1 .. b - a |-> a + k - 1]

\* What a Put does to such a run.
LEMMA SerialsGrow ==
    ASSUME NEW a \in Nat, NEW b \in Nat, a <= b
    PROVE  /\ Serials(a, b) \in Seq(Nat) /\ Len(Serials(a, b)) = b - a
           /\ Serials(a, b + 1) = Append(Serials(a, b), b)
<1>1. Serials(a, b) \in Seq(Nat) /\ Len(Serials(a, b)) = b - a
  BY DEF Serials
<1>2. Serials(a, b + 1) \in Seq(Nat) /\ Len(Serials(a, b + 1)) = b + 1 - a
  BY DEF Serials
<1>3. /\ Append(Serials(a, b), b) \in Seq(Nat)
      /\ Len(Append(Serials(a, b), b)) = b + 1 - a
  BY <1>1
<1>4. ASSUME NEW k \in 1 .. b + 1 - a
      PROVE  Serials(a, b + 1)[k] = Append(Serials(a, b), b)[k]
  <2>1. Serials(a, b + 1)[k] = a + k - 1
    BY DEF Serials
  <2>2. CASE k = b + 1 - a
    BY <1>1, <2>1, <2>2
  <2>3. CASE k # b + 1 - a
    <3>1. k \in 1 .. b - a
      BY <2>3
    <3>2. Append(Serials(a, b), b)[k] = Serials(a, b)[k]
      BY <1>1, <3>1
    <3>3. Serials(a, b)[k] = a + k - 1
      BY <3>1 DEF Serials
    <3> QED
      BY <2>1, <3>2, <3>3
  <2> QED
    BY <2>2, <2>3
<1> QED
  BY <1>1, <1>2, <1>3, <1>4

\* What a Take does to it.
LEMMA SerialsShrink ==
    ASSUME NEW a \in Nat, NEW b \in Nat, a < b
    PROVE  /\ Serials(a, b) # << >> /\ Head(Serials(a, b)) = a
           /\ Tail(Serials(a, b)) = Serials(a + 1, b)
<1>1. Serials(a, b) \in Seq(Nat) /\ Len(Serials(a, b)) = b - a
  BY DEF Serials
<1>2. Serials(a, b) # << >> /\ Head(Serials(a, b)) = a
  BY <1>1 DEF Serials
<1>3. Serials(a + 1, b) \in Seq(Nat) /\ Len(Serials(a + 1, b)) = b - a - 1
  BY DEF Serials
<1>4. /\ Tail(Serials(a, b)) \in Seq(Nat)
      /\ Len(Tail(Serials(a, b))) = b - a - 1
      /\ \A k \in 1 .. b - a - 1 :
             Tail(Serials(a, b))[k] = Serials(a, b)[k + 1]
  BY <1>1, <1>2
<1>5. \A k \in 1 .. b - a - 1 : Serials(a, b)[k + 1] = Serials(a + 1, b)[k]
  BY DEF Serials
<1>6. Tail(Serials(a, b)) = Serials(a + 1, b)
  BY <1>3, <1>4, <1>5, SeqEqual
<1> QED
  BY <1>2, <1>6

\* The history of the FIFO.
Received == [i \in 1 .. Len(out) |-> out[i].n]

\* The queue is a run of serial numbers, and so is the history.
Shaped ==
    /\ InFlight = Serials(Len(out), accepted)
    /\ Received = Serials(0, Len(out))
    /\ Len(out) \in Nat /\ accepted \in Nat /\ Len(out) <= accepted

\* The ring and the overflow list together hold exactly the events committed
\* and not yet handed to Python, in order.
LEMMA Shape == IInv => Shaped
<1> SUFFICES ASSUME IInv PROVE Shaped
  OBVIOUS
<1> DEFINE a == Len(out)
           m == tail + Bit(cpc = "place")
           ring == [k \in 1 .. m - a |-> slots[Slot(a + k - 1)].n]
           list == [j \in 1 .. Len(ovf) |-> ovf[j].n]
<1>1. /\ a \in Nat /\ m \in Nat /\ a <= m /\ a = head + Bit(cpc = "pop")
      /\ m + Len(ovf) = accepted /\ Len(ovf) \in Nat /\ head <= a
      /\ accepted \in Nat
  BY DEF IInv, TypeOK, Counting, Bounds, Delivered, Bit
<1>2. a <= accepted /\ (m - a) + Len(ovf) = accepted - a
  BY <1>1
<1>3. \A k \in 1 .. m - a : slots[Slot(a + k - 1)].n = a + k - 1
  <2>1. ASSUME NEW k \in 1 .. m - a PROVE slots[Slot(a + k - 1)].n = a + k - 1
    <3> DEFINE i == a + k - 1
    <3>1. i \in head .. tail - 1 \/ (cpc = "place" /\ i = tail)
      BY <1>1 DEF Bit, IInv, TypeOK
    <3> HIDE DEF i
    <3>2. slots[Slot(i)].n = i
      BY <3>1 DEF IInv, Content
    <3> QED
      BY <3>2 DEF i
  <2> QED
    BY <2>1
<1>4. \A j \in 1 .. Len(ovf) : ovf[j].n = m + j - 1
  BY DEF IInv, Content
<1>5. InFlight = ring \o list
  <2>1. (IF cpc = "pop" THEN head + 1 ELSE head) = a
    BY <1>1 DEF Bit, IInv, TypeOK
  <2>2. (IF cpc = "place" THEN tail ELSE tail - 1) - a + 1 = m - a
    BY <1>1 DEF Bit, IInv, TypeOK
  <2> HIDE DEF a, m
  <2> QED
    BY <2>1, <2>2 DEF InFlight
<1> HIDE DEF m, a
<1>6. /\ ring \in Seq(Nat) /\ Len(ring) = m - a
      /\ \A k \in 1 .. m - a : ring[k] = a + k - 1
  <2>1. ring = [k \in 1 .. m - a |-> a + k - 1]
    BY <1>3
  <2> HIDE DEF ring
  <2> QED
    BY <2>1, <1>1
<1>7. /\ list \in Seq(Nat) /\ Len(list) = Len(ovf)
      /\ \A j \in 1 .. Len(ovf) : list[j] = m + j - 1
  <2>1. list = [j \in 1 .. Len(ovf) |-> m + j - 1]
    BY <1>4
  <2> HIDE DEF list
  <2> QED
    BY <2>1, <1>1
<1> HIDE DEF ring, list
<1>8. Len(ring) + Len(list) = accepted - a
  BY <1>2, <1>6, <1>7
<1>9. /\ ring \o list \in Seq(Nat) /\ Len(ring \o list) = accepted - a
      /\ \A k \in 1 .. accepted - a :
             (ring \o list)[k] =
                 IF k <= m - a THEN ring[k] ELSE list[k - (m - a)]
  <2>1. /\ ring \o list \in Seq(Nat)
        /\ Len(ring \o list) = Len(ring) + Len(list)
        /\ \A k \in 1 .. Len(ring) + Len(list) :
               (ring \o list)[k] =
                   IF k <= Len(ring) THEN ring[k] ELSE list[k - Len(ring)]
    BY <1>6, <1>7, ConcatProperties
  <2>2. Len(ring) = m - a
    BY <1>6
  <2> QED
    BY <2>1, <2>2, <1>8
<1>10. \A k \in 1 .. accepted - a : (ring \o list)[k] = a + k - 1
  <2>1. ASSUME NEW k \in 1 .. accepted - a PROVE (ring \o list)[k] = a + k - 1
    <3>1. CASE k <= m - a
      BY <3>1, <1>1, <1>6, <1>9
    <3>2. CASE ~(k <= m - a)
      <4>1. k - (m - a) \in 1 .. Len(ovf)
        BY <3>2, <1>1
      <4>2. list[k - (m - a)] = m + (k - (m - a)) - 1
        BY <4>1, <1>7
      <4>3. (ring \o list)[k] = list[k - (m - a)]
        BY <3>2, <1>9
      <4>4. m + (k - (m - a)) - 1 = a + k - 1
        BY <1>1
      <4> QED
        BY <4>2, <4>3, <4>4
    <3> QED
      BY <3>1, <3>2
  <2> QED
    BY <2>1
<1>11. /\ Serials(a, accepted) \in Seq(Nat)
       /\ Len(Serials(a, accepted)) = accepted - a
  BY <1>1, <1>2, SerialsGrow
<1>12. \A k \in 1 .. accepted - a : Serials(a, accepted)[k] = a + k - 1
  BY DEF Serials
<1>13. ring \o list = Serials(a, accepted)
  BY <1>9, <1>10, <1>11, <1>12, SeqEqual
<1>14. Received = Serials(0, a)
  <2>1. \A i \in 1 .. Len(out) : out[i].n = i - 1
    BY DEF IInv, Delivered, InOrderDelivery
  <2> QED
    BY <2>1, <1>1 DEF Received, Serials, a
<1> QED
  BY <1>1, <1>5, <1>13, <1>14, <1>2 DEF a, Shaped

\* Publishing a slot or linking a node is a Put, handing an entry to Python a
\* Take, and every other step a stutter.
LEMMA FifoStep ==
    IInv /\ IInv' /\ [Next]_vars => [Fifo!Next]_(Fifo!fifoVars)
<1> SUFFICES ASSUME IInv, IInv', [Next]_vars
             PROVE  [Fifo!Next]_(Fifo!fifoVars)
  OBVIOUS
<1>1. Fifo!Put \/ Fifo!Take \/ UNCHANGED <<InFlight, Received>> =>
          [Fifo!Next]_(Fifo!fifoVars)
  BY DEF Fifo!Next, Fifo!fifoVars, Received
<1>2. Shaped
  BY Shape
<1>3. Shaped'
  <2>1. (IInv => Shaped)'
    BY Shape, PTL
  <2> QED
    BY <2>1
<1>4. \/ accepted' = accepted + 1 /\ UNCHANGED out
      \/ UNCHANGED accepted /\ Len(out') = Len(out) + 1
      \/ UNCHANGED <<accepted, out>>
  <2>1. CASE DrainHandle
    <3>1. Slot(head) \in 0 .. Capacity - 1
      BY SlotInRing DEF IInv, TypeOK
    <3>2. slots[Slot(head)] \in Entry /\ out \in Seq(Entry)
      BY <3>1 DEF IInv, TypeOK
    <3> QED
      BY <2>1, <3>2 DEF DrainHandle
  <2>2. CASE ~DrainHandle
    BY <2>2 DEF vars, Next, WorkerStep, ReaderStep, PushStart, RingPushFull,
       RingWrite, RingPublish, PushOutOfMemory, OverflowAppend, OverflowCount,
       NotifyExchange, NotifyWrite, StartDrain, RefillTake, RefillPublish,
       RefillUncount, RefillReturn, DrainBudgetSpent, DrainMiss, DrainPop,
       ClearRead, ClearExchange, ClearRearm, ClearRearmOverflow
  <2> QED
    BY <2>1, <2>2
<1>5. 0 \in Nat /\ 0 <= Len(out)
  BY <1>2 DEF Shaped
<1>6. ASSUME accepted' = accepted + 1, UNCHANGED out PROVE Fifo!Put
  <2>1. InFlight' = Append(InFlight, Len(Received) + Len(InFlight))
    <3>1. Len(Received) = Len(out) /\ Len(InFlight) = accepted - Len(out)
      <4>1. Len(Serials(Len(out), accepted)) = accepted - Len(out)
        BY <1>2, SerialsGrow DEF Shaped
      <4>2. Len(Serials(0, Len(out))) = Len(out) - 0
        BY <1>2, <1>5, SerialsGrow DEF Shaped
      <4> QED
        BY <1>2, <4>1, <4>2 DEF Shaped
    <3>2. Len(Received) + Len(InFlight) = accepted
      BY <1>2, <3>1 DEF Shaped
    <3> QED
      BY <1>2, <1>3, <1>6, <3>2, SerialsGrow DEF Shaped
  <2>2. UNCHANGED Received
    BY <1>2, <1>3, <1>6 DEF Shaped
  <2> QED
    BY <2>1, <2>2 DEF Fifo!Put, Received
<1>7. ASSUME UNCHANGED accepted, Len(out') = Len(out) + 1 PROVE Fifo!Take
  <2>1. Len(out) < accepted
    BY <1>2, <1>3, <1>7 DEF Shaped
  <2>2. /\ InFlight # << >> /\ Head(InFlight) = Len(out)
        /\ InFlight' = Tail(InFlight)
    BY <1>2, <1>3, <1>7, <2>1, SerialsShrink DEF Shaped
  <2>3. Received' = Append(Received, Len(out))
    <3>1. Serials(0, Len(out) + 1) = Append(Serials(0, Len(out)), Len(out))
      BY <1>2, <1>5, SerialsGrow DEF Shaped
    <3> QED
      BY <1>2, <1>3, <1>7, <3>1 DEF Shaped
  <2> QED
    BY <2>2, <2>3 DEF Fifo!Take, Received
<1>8. UNCHANGED <<accepted, out>> => UNCHANGED <<InFlight, Received>>
  BY <1>2, <1>3 DEF Shaped
<1> QED
  BY <1>1, <1>4, <1>6, <1>7, <1>8

\* Nothing is queued at first.
LEMMA FifoInit == Init => Fifo!Init
<1> SUFFICES ASSUME Init PROVE Fifo!Init
  OBVIOUS
<1>1. Shaped
  BY Shape, InitIInv
<1>2. Len(out) = 0 /\ accepted = 0
  BY DEF Init
<1>3. Serials(0, 0) = << >>
  BY SerialsGrow
<1> QED
  BY <1>1, <1>2, <1>3 DEF Shaped, Fifo!Init, Received

\* The safety half of ImplementsFifo: under the refinement mapping of
\* RxEventQueue every step of the ring, the overflow list and the drain cycle
\* is a step of the unbounded FIFO or leaves it alone.
THEOREM RefinesFifo == Spec => Fifo!Init /\ [][Fifo!Next]_(Fifo!fifoVars)
<1>1. Init => Fifo!Init
  BY FifoInit
<1> QED
  BY <1>1, FifoStep, Invariance, PTL DEF Spec
=============================================================================
