------------------------- MODULE TxEventRing_proofs -------------------------
(***************************************************************************)
(* Proofs about TxEventRing: type correctness, SleeperIsWoken and          *)
(* ParkedWriterIsServed, for every ring capacity, low-water mark and       *)
(* number of entries.  Both are claims about what two threads see of each  *)
(* other's stores, so the invariant speaks of what the store buffers can   *)
(* hold (Producer, HeadStores, OtherStores) as much as of memory.          *)
(***************************************************************************)
EXTENDS TxEventRing, WellFoundedInduction, TLAPS

-----------------------------------------------------------------------------
(* The inductive invariant.                                                *)

WorkerStores == Stores({"head", "idle", "drainPending"})

\* Types alone, without the bounds TypeOK adds.
Typed ==
    /\ head \in Nat /\ tail \in Nat
    /\ idle \in {0, 1} /\ drainPending \in {0, 1}
    /\ netWake \in BOOLEAN /\ drainedQ \in Nat
    /\ wbuf \in Seq(WorkerStores)
    /\ ppc \in ProducerPoints /\ wpc \in WorkerPoints
    /\ wret \in {"drain", "top"}
    /\ todo \in Nat /\ parked \in Nat
    /\ wakeLost \in BOOLEAN /\ shortMem \in BOOLEAN

\* The buffer holds no store to the location.
Absent(buf, name) == \A i \in 1 .. Len(buf) : buf[i].to # name

\* The producer's buffer holds at most the one store its program point has
\* just made: every push and every arm ends in a fence.
Producer ==
    \/ pbuf = << >>
    \/ ppc = "armFence" /\ pbuf = <<Store("drainPending", 1)>>
    \/ ppc = "wakeFence" /\ pbuf = <<Store("tail", tail + 1)>>

\* The worker is in aiopquic_loop_cb's drain loop, short of its last fence.
InDrainLoop ==
    \/ wpc \in {"drain", "finalFence"}
    \/ wpc \in {"fireLoad", "fireCount", "fireCas"} /\ wret = "drain"

\* The buffered values of head rise from h to m.
Rising(buf, h, m) ==
    /\ \A i \in 1 .. Len(buf) : buf[i].to = "head" =>
           h <= buf[i].val /\ buf[i].val <= m
    /\ \A i, j \in 1 .. Len(buf) :
           i < j /\ buf[i].to = "head" /\ buf[j].to = "head" =>
               buf[i].val <= buf[j].val

\* Only the drain loop pops, and pops in order.
HeadStores ==
    /\ head <= MyHead
    /\ Rising(wbuf, head, MyHead)
    /\ ~Absent(wbuf, "head") => InDrainLoop

\* The worker stores 0 or 1 in its idle mark, and 1 in drain_pending.
Flags(buf) ==
    \A i \in 1 .. Len(buf) :
        /\ buf[i].to = "idle" => buf[i].val \in {0, 1}
        /\ buf[i].to = "drainPending" => buf[i].val = 1

\* The worker re-arms for want of memory only, and peeks and sleeps behind a
\* fence.
OtherStores ==
    /\ Flags(wbuf)
    /\ ~Absent(wbuf, "drainPending") => shortMem
    /\ wpc \in {"armPeek", "asleep"} => wbuf = << >>

\* Every entry the writers were given is in the ring or past it, waiting to be
\* pushed or with a parked writer, and who goes on to push has room.
Counted ==
    /\ MyHead <= tail /\ tail <= MyTail
    /\ MyTail - head <= Capacity
    /\ MyTail + todo + parked = Writers
    /\ ppc \in {"armFence", "armCount", "write"} => todo > 0
    /\ ppc = "write" => MyTail - head < Capacity

\* From its arm to its wait the worker is marked idle, or whoever took the
\* mark has written the wake or is about to.
Marked ==
    wpc \in {"armFence", "armPeek", "asleep"} =>
        MyIdle = 1 \/ netWake \/ ppc = "wakeSys"

\* Behind the fence of its arm, and as long as it is parked, a writer has its
\* drain event under way, its arm in memory, or the worker's re-arm.
Armed ==
    (parked > 0 \/ ppc = "armCount" \/ (ppc = "armFence" /\ pbuf = << >>)) =>
        drainedQ > 0 \/ drainPending = 1 \/ ~Absent(wbuf, "drainPending")

\* The ring popped empty under a parked writer, the worker has not yet been
\* through the final check.
Answering ==
    (parked > 0 /\ ~shortMem /\ drainedQ = 0 /\ MyHead = MyTail) =>
        wpc \in {"drain", "finalFence", "fireLoad", "fireCount", "fireCas"}

IInv == /\ Typed /\ Producer /\ HeadStores /\ OtherStores /\ Counted
        /\ Marked /\ SleeperIsWoken /\ Armed /\ Answering

-----------------------------------------------------------------------------
(* What a thread sees through its store buffer.                            *)

\* Every nonempty set of naturals has a least element.
LEMMA Least ==
    ASSUME NEW S \in SUBSET Nat, S # {}
    PROVE  \E m \in S : \A k \in S : m <= k
<1> DEFINE R == OpToRel(<, Nat)
<1>1. IsWellFoundedOn(R, Nat)
  BY NatLessThanWellFounded
<1>2. \A x, y \in Nat : y < x => <<y, x>> \in R
  BY DEF OpToRel
<1> HIDE DEF R
<1>3. PICK x \in S : \A y \in S : ~(<<y,x>> \in R)
  BY <1>1, WFMin
<1>4. \A y \in S : ~(y < x)
  BY <1>2, <1>3
<1> QED
  BY <1>4

\* A nonempty set of positions has a greatest.
LEMMA Greatest ==
    ASSUME NEW n \in Nat, NEW S, S \subseteq 1 .. n, S # {}
    PROVE  \E m \in S : \A k \in S : k <= m
<1> DEFINE D == {d \in Nat : \E k \in S : d = n - k}
<1>1. D \in SUBSET Nat
  OBVIOUS
<1>0. PICK k \in S : TRUE
  OBVIOUS
<1>5. n - k \in D
  BY <1>0
<1>2. PICK m \in D : \A d \in D : m <= d
  <2> HIDE DEF D
  <2> QED
    BY <1>1, <1>5, Least
<1>3. PICK j \in S : m = n - j BY <1>2
<1>4. ASSUME NEW i \in S PROVE i <= j
  <2>1. n - i \in D /\ i \in 1 .. n /\ j \in 1 .. n
    BY <1>3
  <2>2. m <= n - i
    BY <2>1, <1>2
   <2> QED
    BY <2>1, <2>2, <1>3
<1> QED
  BY <1>3, <1>4

\* i is the place of the youngest store to the location.
Youngest(buf, name, i) ==
    /\ i \in 1 .. Len(buf) /\ buf[i].to = name
    /\ \A j \in 1 .. Len(buf) : buf[j].to = name => j <= i

\* Without a buffered store a thread reads memory.
LEMMA ViewAbsent ==
    ASSUME NEW buf, NEW name, NEW mem, Absent(buf, name)
    PROVE  View(buf, name, mem) = mem
BY DEF View, Absent

\* A thread reads its youngest store to the location.
LEMMA ViewYoungest ==
    ASSUME NEW buf, NEW name, NEW mem, NEW i,
           Youngest(buf, name, i), Len(buf) \in Nat
    PROVE  View(buf, name, mem) = buf[i].val
<1> USE DEF Youngest
<1> DEFINE mine == {k \in 1 .. Len(buf) : buf[k].to = name}
           c == CHOOSE k \in mine : \A j \in mine : j <= k
<1>1. c = i
  OBVIOUS
<1> QED
  BY <1>1 DEF View

\* A buffer with a store to the location has a youngest one.
LEMMA HasYoungest ==
    ASSUME NEW buf, NEW name, Len(buf) \in Nat, ~Absent(buf, name)
    PROVE  \E i : Youngest(buf, name, i)
<1> DEFINE mine == {i \in 1 .. Len(buf) : buf[i].to = name}
<1>1. mine \subseteq 1 .. Len(buf) /\ mine # {}
  BY DEF Absent
<1> HIDE DEF mine
<1>2. PICK i \in mine : \A j \in mine : j <= i
  BY <1>1, Greatest
<1> QED
  BY <1>2 DEF mine, Youngest

\* A new store is read at once, and hides nothing else.
LEMMA ViewAppend ==
  ASSUME NEW V, NEW buf \in Seq(V), NEW s \in V, NEW name, NEW mem
  PROVE  View(Append(buf, s), name, mem)
           = IF s.to = name THEN s.val ELSE View(buf, name, mem)
<1> DEFINE b == Append(buf, s)
<1>1. /\ b \in Seq(V) /\ Len(b) = Len(buf) + 1 /\ Len(buf) \in Nat
      /\ Len(b) \in Nat /\ b[Len(b)] = s
      /\ \A i \in 1 .. Len(buf) : b[i] = buf[i]
  OBVIOUS
<1> HIDE DEF b
<1> SUFFICES View(b, name, mem)
               = IF s.to = name THEN s.val ELSE View(buf, name, mem)
  BY DEF b
<1>2. CASE s.to = name
  <2>1. Youngest(b, name, Len(b))
    BY <1>1, <1>2 DEF Youngest
  <2> QED
    BY <1>1, <1>2, <2>1, ViewYoungest
<1>3. CASE s.to # name /\ Absent(buf, name)
  <2>1. Absent(b, name)
    BY <1>1, <1>3 DEF Absent
  <2> QED
    BY <2>1, <1>3, ViewAbsent
<1>4. CASE s.to # name /\ ~Absent(buf, name)
  <2>1. PICK i : Youngest(buf, name, i)
    BY <1>4, <1>1, HasYoungest
  <2>2. Youngest(b, name, i)
    BY <2>1, <1>1, <1>4 DEF Youngest
  <2>3. View(buf, name, mem) = buf[i].val /\ View(b, name, mem) = b[i].val
    BY <2>1, <2>2, <1>1, ViewYoungest
  <2>4. b[i] = buf[i]
    BY <2>1, <1>1 DEF Youngest
  <2> QED
    BY <2>3, <2>4, <1>4
<1> QED
  BY <1>2, <1>3, <1>4

\* A store that reaches memory leaves its own thread's view as it was.
LEMMA ViewTail ==
  ASSUME NEW V, NEW buf \in Seq(V), buf # << >>, NEW name, NEW mem
  PROVE  View(Tail(buf), name,
              IF Head(buf).to = name THEN Head(buf).val ELSE mem)
           = View(buf, name, mem)
<1> DEFINE b == Tail(buf)
           m == IF Head(buf).to = name THEN Head(buf).val ELSE mem
<1>1. /\ Len(b) = Len(buf) - 1 /\ Len(buf) \in Nat /\ Len(buf) > 0
      /\ Len(b) \in Nat /\ Head(buf) = buf[1]
      /\ \A i \in 1 .. Len(b) : b[i] = buf[i + 1]
  OBVIOUS
<1> HIDE DEF b
<1>2. \A j \in 1 .. Len(buf) :
        j = 1 \/ (j - 1 \in 1 .. Len(b) /\ b[j - 1] = buf[j])
  BY <1>1
<1>3. m = IF buf[1].to = name THEN buf[1].val ELSE mem
  BY <1>1
<1> HIDE DEF m
<1> SUFFICES View(b, name, m) = View(buf, name, mem)
  BY DEF b, m
<1>4. CASE Absent(b, name) /\ buf[1].to = name
  <2>1. Youngest(buf, name, 1)
    BY <1>1, <1>2, <1>4 DEF Youngest, Absent
  <2> QED
    BY <1>1, <1>3, <1>4, <2>1, ViewAbsent, ViewYoungest
<1>5. CASE Absent(b, name) /\ buf[1].to # name
  <2>1. Absent(buf, name)
    BY <1>1, <1>2, <1>5 DEF Absent
  <2> QED
    BY <1>3, <1>5, <2>1, ViewAbsent
<1>6. CASE ~Absent(b, name)
  <2>1. PICK i : Youngest(b, name, i)
    BY <1>6, <1>1, HasYoungest
  <2>2. Youngest(buf, name, i + 1)
    BY <2>1, <1>1, <1>2 DEF Youngest
  <2>3. View(b, name, m) = b[i].val /\ View(buf, name, mem) = buf[i + 1].val
    BY <2>1, <2>2, <1>1, ViewYoungest
  <2>4. b[i] = buf[i + 1]
    BY <2>1, <1>1 DEF Youngest
  <2> QED
    BY <2>3, <2>4
<1> QED
  BY <1>4, <1>5, <1>6

\* What a thread reads is memory or one of its buffered stores.
LEMMA ViewCases ==
  ASSUME NEW V, NEW buf \in Seq(V), NEW name, NEW mem
  PROVE  \/ Absent(buf, name) /\ View(buf, name, mem) = mem
         \/ \E i \in 1 .. Len(buf) :
               buf[i].to = name /\ View(buf, name, mem) = buf[i].val
<1>1. CASE Absent(buf, name)
  BY <1>1, ViewAbsent
<1>2. CASE ~Absent(buf, name)
  <2>0. Len(buf) \in Nat
    OBVIOUS
  <2>1. PICK i : Youngest(buf, name, i)
    BY <1>2, <2>0, HasYoungest
  <2>2. View(buf, name, mem) = buf[i].val
    BY <2>0, <2>1, ViewYoungest
  <2> QED
    BY <2>1, <2>2 DEF Youngest
<1> QED
  BY <1>1, <1>2


\* b2 differs from b1 in stores to the idle mark alone.
Alike(b1, b2) ==
    /\ b2 \in Seq(WorkerStores)
    /\ \A m : View(b2, "head", m) = View(b1, "head", m)
    /\ Absent(b2, "head") <=> Absent(b1, "head")
    /\ Absent(b2, "drainPending") <=> Absent(b1, "drainPending")
    /\ Flags(b1) => Flags(b2)
    /\ \A h, m : Rising(b1, h, m) => Rising(b2, h, m)

\* A store to the idle mark changes nothing but the mark.
LEMMA IdleStore ==
    ASSUME NEW b \in Seq(WorkerStores), NEW v \in {0, 1}
    PROVE  /\ Alike(b, Append(b, Store("idle", v)))
           /\ \A m : View(Append(b, Store("idle", v)), "idle", m) = v
<1> DEFINE s == Store("idle", v)
           c == Append(b, s)
<1>1. s \in WorkerStores /\ s.to = "idle" /\ s.val = v
  BY DEF WorkerStores, Stores, Store
<1>2. \A m : View(c, "head", m) = View(b, "head", m) /\ View(c, "idle", m) = v
  BY <1>1, ViewAppend
<1> HIDE DEF s
<1>3. /\ c \in Seq(WorkerStores) /\ Len(c) = Len(b) + 1 /\ c[Len(c)] = s
      /\ Len(b) \in Nat /\ \A i \in 1 .. Len(b) : c[i] = b[i]
  BY <1>1
<1> HIDE DEF c
<1>4. \A i \in 1 .. Len(c) : i \in 1 .. Len(b) \/ c[i] = s
  BY <1>3
<1>5. /\ Absent(c, "head") <=> Absent(b, "head")
      /\ Absent(c, "drainPending") <=> Absent(b, "drainPending")
  BY <1>1, <1>3, <1>4 DEF Absent
<1>6. Flags(b) => Flags(c)
  BY <1>1, <1>3, <1>4 DEF Flags
<1>7. ASSUME NEW h, NEW m, Rising(b, h, m) PROVE Rising(c, h, m)
  BY <1>1, <1>3, <1>4, <1>7 DEF Rising
<1> QED
  BY <1>2, <1>3, <1>5, <1>6, <1>7 DEF Alike, c, s

\* What time_check, and the first callback after a wait, store.
LEMMA IdleSteps ==
    ASSUME wbuf \in Seq(WorkerStores), UNCHANGED head,
           TimeCheckArm \/ TimeCheckNow \/ IdlePeek \/ WokenByWake
               \/ WokenByItself
    PROVE  /\ Alike(wbuf, wbuf') /\ MyHead' = MyHead
           /\ TimeCheckArm => MyIdle' = 1
<1>1. Alike(wbuf, wbuf)
  BY DEF Alike
<1>2. Alike(wbuf, Append(wbuf, Store("idle", 0)))
  BY IdleStore
<1>3. PICK b : /\ b = wbuf \o ClearIdle
               /\ Alike(wbuf, b)
  <2>1. CASE MyIdle = 0
    <3>1. wbuf \o ClearIdle = wbuf
      BY <2>1 DEF ClearIdle
    <3> QED
      BY <3>1, <1>1
  <2>2. CASE MyIdle # 0
    <3>1. Store("idle", 0) \in WorkerStores
      BY DEF Store, WorkerStores, Stores
    <3>2. wbuf \o ClearIdle = Append(wbuf, Store("idle", 0))
      BY <2>2, <3>1 DEF ClearIdle
    <3> QED
      BY <3>2, <1>2
  <2> QED
    BY <2>1, <2>2
<1>4. b \in Seq(WorkerStores)
  BY <1>3 DEF Alike
<1>5. /\ Alike(b, Append(b, Store("idle", 1)))
      /\ \A m : View(Append(b, Store("idle", 1)), "idle", m) = 1
  BY <1>4, IdleStore
<1>6. b \o <<Store("idle", 1)>> = Append(b, Store("idle", 1))
  <2>1. Store("idle", 1) \in WorkerStores
    BY DEF Store, WorkerStores, Stores
  <2> QED
    BY <1>4, <2>1
<1>7. Alike(wbuf, b \o <<Store("idle", 1)>>)
  BY <1>3, <1>5, <1>6 DEF Alike
<1>8. TimeCheckArm => wbuf' = b \o <<Store("idle", 1)>>
  BY <1>3 DEF TimeCheckArm
<1>9. \/ wbuf' = b \o <<Store("idle", 1)>> \/ wbuf' = b \/ wbuf' = wbuf
      \/ wbuf' = Append(wbuf, Store("idle", 0))
  BY <1>3, <1>8 DEF TimeCheckNow, IdlePeek, WokenByWake, WokenByItself,
                    WithdrawIdle
<1>10. Alike(wbuf, wbuf')
  BY <1>1, <1>2, <1>3, <1>7, <1>9
<1>11. MyHead' = MyHead
  BY <1>10 DEF Alike, MyHead
<1>12. TimeCheckArm => MyIdle' = 1
  BY <1>5, <1>6, <1>8 DEF MyIdle
<1> QED
  BY <1>10, <1>11, <1>12

\* A pop is buffered behind the pops before it.
LEMMA PopStore ==
    ASSUME NEW b \in Seq(WorkerStores), NEW h \in Nat, NEW m \in Nat, h <= m,
           Rising(b, h, m), Flags(b)
    PROVE  LET c == Append(b, Store("head", m + 1))
           IN  /\ c \in Seq(WorkerStores)
               /\ \A v : View(c, "head", v) = m + 1
               /\ \A v : View(c, "idle", v) = View(b, "idle", v)
               /\ Rising(c, h, m + 1) /\ Flags(c)
               /\ Absent(c, "drainPending") <=> Absent(b, "drainPending")
<1> DEFINE s == Store("head", m + 1)
           c == Append(b, s)
<1>1. s \in WorkerStores /\ s.to = "head" /\ s.val = m + 1
  BY DEF WorkerStores, Stores, Store
<1>2. \A v : /\ View(c, "head", v) = m + 1
             /\ View(c, "idle", v) = View(b, "idle", v)
  BY <1>1, ViewAppend
<1> HIDE DEF s
<1>3. /\ c \in Seq(WorkerStores) /\ Len(c) = Len(b) + 1 /\ c[Len(c)] = s
      /\ Len(b) \in Nat /\ \A i \in 1 .. Len(b) : c[i] = b[i]
  BY <1>1
<1>0. \A i \in 1 .. Len(b) : b[i].val \in Nat
  <2>1. \A i \in 1 .. Len(b) : b[i] \in WorkerStores
    OBVIOUS
  <2> QED
    BY <2>1 DEF WorkerStores, Stores
<1> HIDE DEF c
<1>4. \A i \in 1 .. Len(c) : i \in 1 .. Len(b) \/ (c[i] = s /\ i = Len(c))
  BY <1>3
<1>5. Absent(c, "drainPending") <=> Absent(b, "drainPending")
  BY <1>1, <1>3, <1>4 DEF Absent
<1>6. Flags(c)
  BY <1>1, <1>3, <1>4 DEF Flags
<1>7. Rising(c, h, m + 1)
  <2>1. ASSUME NEW i \in 1 .. Len(c), c[i].to = "head"
        PROVE  h <= c[i].val /\ c[i].val <= m + 1
    BY <2>1, <1>0, <1>1, <1>3, <1>4 DEF Rising
  <2>2. ASSUME NEW i \in 1 .. Len(c), NEW j \in 1 .. Len(c), i < j,
               c[i].to = "head", c[j].to = "head"
        PROVE  c[i].val <= c[j].val
    <3>1. i \in 1 .. Len(b) /\ c[i] = b[i]
      BY <2>2, <1>3, <1>4
    <3>2. CASE j \in 1 .. Len(b)
      BY <2>2, <3>1, <3>2, <1>3 DEF Rising
    <3>3. CASE c[j] = s
      BY <2>2, <3>1, <3>3, <1>1, <1>0 DEF Rising
    <3> QED
      BY <3>2, <3>3, <1>4
  <2> QED
    BY <2>1, <2>2 DEF Rising
<1> QED
  BY <1>2, <1>3, <1>5, <1>6, <1>7 DEF c, s

\* A re-arm is a store to drain_pending and to nothing else.
LEMMA RearmStore ==
    LET c == <<Store("drainPending", 1)>>
    IN  /\ c \in Seq(WorkerStores)
        /\ \A m : View(c, "head", m) = m /\ View(c, "idle", m) = m
        /\ Absent(c, "head") /\ ~Absent(c, "drainPending")
        /\ Flags(c) /\ \A h, m : Rising(c, h, m)
<1> DEFINE s == Store("drainPending", 1)
           c == <<s>>
<1>1. s \in WorkerStores /\ s.to = "drainPending" /\ s.val = 1
  BY DEF WorkerStores, Stores, Store
<1> HIDE DEF s
<1>2. c \in Seq(WorkerStores) /\ Len(c) = 1 /\ c[1] = s
  BY <1>1
<1> HIDE DEF c
<1>3. \A i \in 1 .. Len(c) : i = 1
  BY <1>2
<1>4. /\ Absent(c, "head") /\ Absent(c, "idle") /\ ~Absent(c, "drainPending")
      /\ Flags(c) /\ \A h, m : Rising(c, h, m)
  BY <1>1, <1>2, <1>3 DEF Absent, Flags, Rising
<1>5. \A m : View(c, "head", m) = m /\ View(c, "idle", m) = m
  BY <1>4, ViewAbsent
<1> QED
  BY <1>2, <1>4, <1>5 DEF c, s

\* The worker's oldest store reaches memory.
LEMMA Flushed ==
    ASSUME wbuf \in Seq(WorkerStores), FlushWorker, HeadStores, Flags(wbuf),
           head \in Nat, MyHead \in Nat
    PROVE  /\ wbuf' \in Seq(WorkerStores)
           /\ head' \in Nat /\ head <= head' /\ head' <= MyHead
           /\ idle' = idle \/ idle' \in {0, 1}
           /\ drainPending' = drainPending \/ drainPending' = 1
           /\ UNCHANGED <<tail, MyHead, MyIdle>>
           /\ Rising(wbuf', head', MyHead) /\ Flags(wbuf')
           /\ \A n : Absent(wbuf, n) => Absent(wbuf', n)
           /\ ~Absent(wbuf, "drainPending") =>
                  ~Absent(wbuf', "drainPending") \/ drainPending' = 1
<1> DEFINE s == Head(wbuf)
<1>1. /\ wbuf' \in Seq(WorkerStores) /\ Len(wbuf) \in Nat /\ Len(wbuf) > 0
      /\ Len(wbuf') = Len(wbuf) - 1 /\ s = wbuf[1]
      /\ \A i \in 1 .. Len(wbuf') : wbuf'[i] = wbuf[i + 1]
  BY DEF FlushWorker
<1>2. /\ s \in WorkerStores /\ s.to \in {"head", "idle", "drainPending"}
      /\ s.val \in Nat
  <2>1. s \in WorkerStores
    BY <1>1
  <2> QED
    BY <2>1 DEF WorkerStores, Stores
<1>3. /\ head' = IF s.to = "head" THEN s.val ELSE head
      /\ idle' = IF s.to = "idle" THEN s.val ELSE idle
      /\ drainPending' = IF s.to = "drainPending" THEN s.val ELSE drainPending
      /\ tail' = tail
  BY <1>2 DEF FlushWorker, Commit
<1>4. UNCHANGED <<MyHead, MyIdle>>
  BY <1>3, ViewTail DEF FlushWorker, MyHead, MyIdle
<1> HIDE DEF s
<1>5. /\ 1 \in 1 .. Len(wbuf)
      /\ \A i \in 1 .. Len(wbuf') : i + 1 \in 1 .. Len(wbuf)
  BY <1>1
<1>6. /\ s.to = "head" => head <= s.val /\ s.val <= MyHead
      /\ s.to = "idle" => s.val \in {0, 1}
      /\ s.to = "drainPending" => s.val = 1
  BY <1>1, <1>5 DEF HeadStores, Rising, Flags
<1>7. head' \in Nat /\ head <= head' /\ head' <= MyHead
  BY <1>2, <1>3, <1>6 DEF HeadStores
<1>8. /\ idle' = idle \/ idle' \in {0, 1}
      /\ drainPending' = drainPending \/ drainPending' = 1
  BY <1>3, <1>6
<1>9. Flags(wbuf')
  BY <1>1, <1>5 DEF Flags
<1>10. \A n : Absent(wbuf, n) => Absent(wbuf', n)
  BY <1>1, <1>5 DEF Absent
<1>11. ASSUME ~Absent(wbuf, "drainPending")
       PROVE  ~Absent(wbuf', "drainPending") \/ drainPending' = 1
  <2>1. PICK i \in 1 .. Len(wbuf) : wbuf[i].to = "drainPending"
    BY <1>11 DEF Absent
  <2>2. CASE i = 1
    BY <1>1, <1>3, <1>6, <2>1, <2>2
  <2>3. CASE i # 1
    <3>1. i - 1 \in 1 .. Len(wbuf') /\ wbuf'[i - 1] = wbuf[i]
      BY <1>1, <2>3
    <3> QED
      BY <3>1, <2>1 DEF Absent
  <2> QED
    BY <2>2, <2>3
<1>12. Rising(wbuf', head', MyHead)
  <2>1. ASSUME NEW i \in 1 .. Len(wbuf'), wbuf'[i].to = "head"
        PROVE  head' <= wbuf'[i].val /\ wbuf'[i].val <= MyHead
    <3>1. i + 1 \in 1 .. Len(wbuf) /\ wbuf'[i] = wbuf[i + 1] /\ 1 < i + 1
      BY <1>1, <1>5
    <3> QED
      BY <3>1, <2>1, <1>1, <1>3, <1>5 DEF HeadStores, Rising
  <2>2. ASSUME NEW i \in 1 .. Len(wbuf'), NEW j \in 1 .. Len(wbuf'), i < j,
               wbuf'[i].to = "head", wbuf'[j].to = "head"
        PROVE  wbuf'[i].val <= wbuf'[j].val
    <3>1. /\ i + 1 \in 1 .. Len(wbuf) /\ j + 1 \in 1 .. Len(wbuf)
          /\ i + 1 < j + 1
          /\ wbuf'[i] = wbuf[i + 1] /\ wbuf'[j] = wbuf[j + 1]
      BY <1>1, <1>5, <2>2
    <3> QED
      BY <3>1, <2>2 DEF HeadStores, Rising
  <2> QED
    BY <2>1, <2>2 DEF Rising
<1> QED
  BY <1>1, <1>3, <1>4, <1>7, <1>8, <1>9, <1>10, <1>11, <1>12

\* The tail the producer sees: its own store of it, or memory's.
LEMMA TailSeen ==
    ASSUME NEW b, NEW t
    PROVE  /\ b = << >> => View(b, "tail", t) = t
           /\ b = <<Store("drainPending", 1)>> => View(b, "tail", t) = t
           /\ \A v : b = <<Store("tail", v)>> => View(b, "tail", t) = v
<1>1. b = << >> => View(b, "tail", t) = t
  BY ViewAbsent DEF Absent
<1>2. ASSUME NEW n, NEW v, b = <<Store(n, v)>>
      PROVE  View(b, "tail", t) = IF n = "tail" THEN v ELSE t
  <2> DEFINE s == Store(n, v)
  <2>1. s.to = n /\ s.val = v
    BY DEF Store
  <2> HIDE DEF s
  <2>2. Len(<<s>>) = 1 /\ <<s>>[1] = s
    OBVIOUS
  <2>3. \A i \in 1 .. Len(<<s>>) : i = 1
    BY <2>2
  <2>4. CASE n = "tail"
    <3>1. Youngest(<<s>>, "tail", 1)
      BY <2>1, <2>2, <2>3, <2>4 DEF Youngest
    <3> QED
      BY <1>2, <2>1, <2>2, <2>4, <3>1, ViewYoungest DEF s
  <2>5. CASE n # "tail"
    <3>1. Absent(<<s>>, "tail")
      BY <2>1, <2>2, <2>3, <2>5 DEF Absent
    <3> QED
      BY <1>2, <2>5, <3>1, ViewAbsent DEF s
  <2> QED
    BY <2>4, <2>5
<1> QED
  BY <1>1, <1>2

\* A number above another exceeds it by a number.
LEMMA Difference == \A a, b \in Nat : a <= b => \E n \in Nat : b = a + n
<1>1. \A a, b \in Nat : a <= b => b - a \in Nat /\ b = a + (b - a)
  OBVIOUS
<1> QED
  BY <1>1

\* What either thread sees of the indices is a number.
LEMMA Numbers ==
    Typed /\ Producer => MyHead \in Nat /\ MyTail \in Nat
<1> SUFFICES ASSUME Typed, Producer
             PROVE  MyHead \in Nat /\ MyTail \in Nat
  OBVIOUS
<1>1. MyTail = tail \/ MyTail = tail + 1
  BY TailSeen DEF Producer, MyTail
<1>2. \A i \in 1 .. Len(wbuf) : wbuf[i].val \in Nat
  <2>1. \A i \in 1 .. Len(wbuf) : wbuf[i] \in WorkerStores
    BY DEF Typed
  <2> QED
    BY <2>1 DEF WorkerStores, Stores
<1>3. MyHead \in Nat
  <2>1. wbuf \in Seq(WorkerStores) /\ head \in Nat
    BY DEF Typed
  <2> QED
    BY <1>2, <2>1, ViewCases DEF MyHead
<1> QED
  BY <1>1, <1>3 DEF Typed

-----------------------------------------------------------------------------
(* Every part of the invariant is preserved by every step.                 *)

\* Only a push moves the tail the producer sees, only a pop the head the worker
\* sees.
LEMMA ViewStep ==
    Typed /\ Producer /\ HeadStores /\ OtherStores /\ [Next]_vars =>
        /\ MyTail' = MyTail \/ (Write /\ MyTail' = MyTail + 1)
        /\ MyHead' = MyHead \/ (DrainPop /\ MyHead' = MyHead + 1)
<1> SUFFICES ASSUME Typed, Producer, HeadStores, OtherStores, [Next]_vars
             PROVE  /\ MyTail' = MyTail \/ (Write /\ MyTail' = MyTail + 1)
                    /\ MyHead' = MyHead \/ (DrainPop /\ MyHead' = MyHead + 1)
  OBVIOUS
<1> USE Numbers DEF Typed, MyHead, MyTail, memVars, writerVars, workerVars
<1>1. CASE WriterStart
  <2>1. pbuf = << >> /\ UNCHANGED <<head, tail, wbuf>>
    BY <1>1 DEF WriterStart, Producer
  <2>2. pbuf' = << >> \/ pbuf' = <<Store("drainPending", 1)>>
    BY <1>1, <2>1 DEF WriterStart
  <2> QED
    BY <2>1, <2>2, TailSeen
<1>2. CASE ArmFence
  BY <1>2 DEF ArmFence
<1>3. CASE ArmCount
  BY <1>3 DEF ArmCount
<1>4. CASE Write
  <2>1. pbuf = << >> /\ UNCHANGED <<head, tail, wbuf>>
    BY <1>4 DEF Write, Producer
  <2>2. pbuf' = <<Store("tail", MyTail + 1)>>
    BY <1>4, <2>1 DEF Write
  <2> QED
    BY <1>4, <2>1, <2>2, TailSeen
<1>5. CASE WakeFence
  BY <1>5 DEF WakeFence
<1>6. CASE WakeLoad
  BY <1>6 DEF WakeLoad
<1>7. CASE WakeExchange
  BY <1>7 DEF WakeExchange
<1>8. CASE WakeNetworkThread
  BY <1>8 DEF WakeNetworkThread
<1>9. CASE HandleDrained
  BY <1>9 DEF HandleDrained
<1>10. CASE TimeCheckArm
  <2>1. UNCHANGED <<head, tail, pbuf>>
    BY <1>10 DEF TimeCheckArm
  <2>2. MyHead' = MyHead
    BY <1>10, <2>1, IdleSteps
  <2> QED
    BY <2>1, <2>2
<1>11. CASE IdleFence
  BY <1>11 DEF IdleFence
<1>12. CASE IdlePeek
  <2>1. UNCHANGED <<head, tail, pbuf>>
    BY <1>12 DEF IdlePeek
  <2>2. MyHead' = MyHead
    BY <1>12, <2>1, IdleSteps
  <2> QED
    BY <2>1, <2>2
<1>13. CASE WokenByWake
  <2>1. UNCHANGED <<head, tail, pbuf>>
    BY <1>13 DEF WokenByWake, WithdrawIdle
  <2>2. MyHead' = MyHead
    BY <1>13, <2>1, IdleSteps
  <2> QED
    BY <2>1, <2>2
<1>14. CASE DrainPop
  <2>1. /\ UNCHANGED <<head, tail, pbuf>>
        /\ wbuf' = Append(wbuf, Store("head", MyHead + 1))
    BY <1>14 DEF DrainPop
  <2>2. MyHead' = MyHead + 1
    BY <2>1, PopStore DEF OtherStores, HeadStores
  <2> QED
    BY <1>14, <2>1, <2>2
<1>15. CASE DrainEmpty
  BY <1>15 DEF DrainEmpty
<1>16. CASE FinalFence
  BY <1>16 DEF FinalFence
<1>17. CASE FireLoad
  BY <1>17 DEF FireLoad
<1>18. CASE FireCount
  BY <1>18 DEF FireCount
<1>19. CASE FireCas
  BY <1>19 DEF FireCas
<1>20. CASE FireOutOfMemory
  <2>1. /\ UNCHANGED <<head, tail, pbuf>> /\ wbuf = << >>
        /\ wbuf' = <<Store("drainPending", 1)>>
    BY <1>20 DEF FireOutOfMemory
  <2>2. MyHead = head /\ MyHead' = head'
    BY <2>1, RearmStore, ViewAbsent DEF Absent
  <2> QED
    BY <2>1, <2>2
<1>21. CASE TimeCheckNow
  <2>1. UNCHANGED <<head, tail, pbuf>>
    BY <1>21 DEF TimeCheckNow
  <2>2. MyHead' = MyHead
    BY <1>21, <2>1, IdleSteps
  <2> QED
    BY <2>1, <2>2
<1>22. CASE WokenByItself
  <2>1. UNCHANGED <<head, tail, pbuf>>
    BY <1>22 DEF WokenByItself, WithdrawIdle
  <2>2. MyHead' = MyHead
    BY <1>22, <2>1, IdleSteps
  <2> QED
    BY <2>1, <2>2
<1>23. CASE FlushProducer
  <2>1. pbuf' = << >> /\ UNCHANGED <<head, wbuf>> /\ tail' = MyTail
    <3>1. CASE pbuf = <<Store("drainPending", 1)>>
      BY <1>23, <3>1, TailSeen DEF FlushProducer, Commit, Store
    <3>2. CASE pbuf = <<Store("tail", tail + 1)>>
      BY <1>23, <3>2, TailSeen DEF FlushProducer, Commit, Store
    <3> QED
      BY <1>23, <3>1, <3>2 DEF FlushProducer, Producer
  <2> QED
    BY <2>1, TailSeen
<1>24. CASE FlushWorker
  <2>1. UNCHANGED pbuf
    BY <1>24 DEF FlushWorker
  <2>2. UNCHANGED <<tail, MyHead>>
    BY <1>24, Flushed DEF OtherStores
  <2> QED
    BY <2>1, <2>2
<1>25. CASE UNCHANGED vars
  BY <1>25 DEF vars
<1> QED
  BY <1>1, <1>2, <1>3, <1>4, <1>5, <1>6, <1>7, <1>8, <1>9, <1>10, <1>11,
     <1>12, <1>13, <1>14, <1>15, <1>16, <1>17, <1>18, <1>19, <1>20, <1>21,
     <1>22, <1>23, <1>24, <1>25 DEF Next, ProducerStep, WorkerStep

\* Types.
LEMMA TypedStep ==
    Typed /\ Producer /\ HeadStores /\ OtherStores /\ Counted /\ [Next]_vars =>
        Typed'
<1> SUFFICES ASSUME Typed, Producer, HeadStores, OtherStores, Counted,
                    [Next]_vars
             PROVE  Typed'
  OBVIOUS
<1> USE DEF Typed, ProducerPoints, WorkerPoints, memVars, writerVars,
        workerVars
<1>1. CASE WriterStart
  BY <1>1 DEF WriterStart
<1>2. CASE ArmFence
  BY <1>2 DEF ArmFence
<1>3. CASE ArmCount
  BY <1>3, Numbers DEF Counted, ArmCount
<1>4. CASE Write
  BY <1>4, Numbers DEF Counted, Write
<1>5. CASE WakeFence
  BY <1>5 DEF WakeFence
<1>6. CASE WakeLoad
  BY <1>6 DEF WakeLoad
<1>7. CASE WakeExchange
  BY <1>7 DEF WakeExchange
<1>8. CASE WakeNetworkThread
  BY <1>8 DEF WakeNetworkThread
<1>9. CASE HandleDrained
  BY <1>9 DEF HandleDrained
<1>10. CASE TimeCheckArm
  <2>1. wbuf' \in Seq(WorkerStores)
    BY <1>10, IdleSteps DEF Alike, TimeCheckArm
  <2>2. netWake' \in BOOLEAN /\ wakeLost' \in BOOLEAN
    BY <1>10 DEF TimeCheckArm
  <2> QED
    BY <1>10, <2>1, <2>2 DEF TimeCheckArm
<1>11. CASE IdleFence
  BY <1>11 DEF IdleFence
<1>12. CASE IdlePeek
  <2>1. wbuf' \in Seq(WorkerStores)
    BY <1>12, IdleSteps DEF Alike, IdlePeek
  <2>2. netWake' \in BOOLEAN /\ wakeLost' \in BOOLEAN
    BY <1>12 DEF IdlePeek
  <2> QED
    BY <1>12, <2>1, <2>2 DEF IdlePeek
<1>13. CASE WokenByWake
  <2>1. wbuf' \in Seq(WorkerStores)
    BY <1>13, IdleSteps DEF Alike, WokenByWake, WithdrawIdle
  <2>2. netWake' \in BOOLEAN /\ wakeLost' \in BOOLEAN
    BY <1>13 DEF WokenByWake, WithdrawIdle
  <2> QED
    BY <1>13, <2>1, <2>2 DEF WokenByWake, WithdrawIdle
<1>14. CASE DrainPop
  <2>1. wbuf' \in Seq(WorkerStores)
    BY <1>14, PopStore, Numbers DEF DrainPop, HeadStores, OtherStores
  <2> QED
    BY <1>14, <2>1 DEF DrainPop
<1>15. CASE DrainEmpty
  BY <1>15 DEF DrainEmpty
<1>16. CASE FinalFence
  BY <1>16 DEF FinalFence
<1>17. CASE FireLoad
  BY <1>17 DEF FireLoad
<1>18. CASE FireCount
  BY <1>18 DEF FireCount
<1>19. CASE FireCas
  BY <1>19 DEF FireCas
<1>20. CASE FireOutOfMemory
  BY <1>20, RearmStore DEF FireOutOfMemory
<1>21. CASE TimeCheckNow
  <2>1. wbuf' \in Seq(WorkerStores)
    BY <1>21, IdleSteps DEF Alike, TimeCheckNow
  <2>2. netWake' \in BOOLEAN /\ wakeLost' \in BOOLEAN
    BY <1>21 DEF TimeCheckNow
  <2> QED
    BY <1>21, <2>1, <2>2 DEF TimeCheckNow
<1>22. CASE WokenByItself
  <2>1. wbuf' \in Seq(WorkerStores)
    BY <1>22, IdleSteps DEF Alike, WokenByItself, WithdrawIdle
  <2>2. netWake' \in BOOLEAN /\ wakeLost' \in BOOLEAN
    BY <1>22 DEF WokenByItself, WithdrawIdle
  <2> QED
    BY <1>22, <2>1, <2>2 DEF WokenByItself, WithdrawIdle
<1>23. CASE FlushProducer
  <2>1. /\ UNCHANGED <<head, idle, wbuf>>
        /\ tail' \in Nat /\ drainPending' \in {0, 1}
    <3>1. CASE pbuf = <<Store("drainPending", 1)>>
      BY <1>23, <3>1 DEF FlushProducer, Commit, Store
    <3>2. CASE pbuf = <<Store("tail", tail + 1)>>
      BY <1>23, <3>2 DEF FlushProducer, Commit, Store
    <3> QED
      BY <1>23, <3>1, <3>2 DEF FlushProducer, Producer
  <2> QED
    BY <1>23, <2>1 DEF FlushProducer, Commit
<1>24. CASE FlushWorker
  <2>1. /\ wbuf' \in Seq(WorkerStores) /\ head' \in Nat /\ UNCHANGED tail
        /\ idle' \in {0, 1} /\ drainPending' \in {0, 1}
    BY <1>24, Flushed, Numbers DEF OtherStores
  <2> QED
    BY <1>24, <2>1 DEF FlushWorker, Commit
<1>25. CASE UNCHANGED vars
  BY <1>25 DEF vars
<1> QED
  BY <1>1, <1>2, <1>3, <1>4, <1>5, <1>6, <1>7, <1>8, <1>9, <1>10, <1>11,
     <1>12, <1>13, <1>14, <1>15, <1>16, <1>17, <1>18, <1>19, <1>20, <1>21,
     <1>22, <1>23, <1>24, <1>25 DEF Next, ProducerStep, WorkerStep

\* The producer's one store.
LEMMA ProducerStores ==
    Typed /\ Producer /\ HeadStores /\ OtherStores /\ [Next]_vars => Producer'
<1> SUFFICES ASSUME Typed, Producer, HeadStores, OtherStores, [Next]_vars
             PROVE  Producer'
  OBVIOUS
<1> USE DEF Producer, memVars, writerVars, workerVars
<1>1. CASE WriterStart
  BY <1>1 DEF WriterStart
<1>2. CASE ArmFence
  BY <1>2 DEF ArmFence
<1>3. CASE ArmCount
  BY <1>3 DEF ArmCount
<1>4. CASE Write
  BY <1>4, TailSeen DEF Write, MyTail
<1>5. CASE WakeFence
  BY <1>5 DEF WakeFence
<1>6. CASE WakeLoad
  BY <1>6 DEF WakeLoad
<1>7. CASE WakeExchange
  BY <1>7 DEF WakeExchange
<1>8. CASE WakeNetworkThread
  BY <1>8 DEF WakeNetworkThread
<1>9. CASE HandleDrained
  BY <1>9 DEF HandleDrained
<1>10. CASE TimeCheckArm
  BY <1>10 DEF TimeCheckArm
<1>11. CASE IdleFence
  BY <1>11 DEF IdleFence
<1>12. CASE IdlePeek
  BY <1>12 DEF IdlePeek
<1>13. CASE WokenByWake
  BY <1>13 DEF WokenByWake, WithdrawIdle
<1>14. CASE DrainPop
  BY <1>14 DEF DrainPop
<1>15. CASE DrainEmpty
  BY <1>15 DEF DrainEmpty
<1>16. CASE FinalFence
  BY <1>16 DEF FinalFence
<1>17. CASE FireLoad
  BY <1>17 DEF FireLoad
<1>18. CASE FireCount
  BY <1>18 DEF FireCount
<1>19. CASE FireCas
  BY <1>19 DEF FireCas
<1>20. CASE FireOutOfMemory
  BY <1>20 DEF FireOutOfMemory
<1>21. CASE TimeCheckNow
  BY <1>21 DEF TimeCheckNow
<1>22. CASE WokenByItself
  BY <1>22 DEF WokenByItself, WithdrawIdle
<1>23. CASE FlushProducer
  <2>1. pbuf' = << >>
    BY <1>23 DEF FlushProducer
  <2> QED
    BY <2>1
<1>24. CASE FlushWorker
  <2>1. UNCHANGED <<tail, pbuf, ppc>>
    BY <1>24, Flushed, Numbers DEF OtherStores, Typed, FlushWorker, writerVars
  <2> QED
    BY <2>1
<1>25. CASE UNCHANGED vars
  BY <1>25 DEF vars
<1> QED
  BY <1>1, <1>2, <1>3, <1>4, <1>5, <1>6, <1>7, <1>8, <1>9, <1>10, <1>11,
     <1>12, <1>13, <1>14, <1>15, <1>16, <1>17, <1>18, <1>19, <1>20, <1>21,
     <1>22, <1>23, <1>24, <1>25 DEF Next, ProducerStep, WorkerStep

\* Pops are buffered in order, in the drain loop.
LEMMA HeadStoresStep ==
    Typed /\ Producer /\ HeadStores /\ OtherStores /\ [Next]_vars =>
        HeadStores'
<1> SUFFICES ASSUME Typed, Producer, HeadStores, OtherStores, [Next]_vars
             PROVE  HeadStores'
  OBVIOUS
<1> USE DEF HeadStores, InDrainLoop, memVars, writerVars, workerVars
<1>1. CASE WriterStart
  BY <1>1 DEF WriterStart, MyHead
<1>2. CASE ArmFence
  BY <1>2 DEF ArmFence, MyHead
<1>3. CASE ArmCount
  BY <1>3 DEF ArmCount, MyHead
<1>4. CASE Write
  BY <1>4 DEF Write, MyHead
<1>5. CASE WakeFence
  BY <1>5 DEF WakeFence, MyHead
<1>6. CASE WakeLoad
  BY <1>6 DEF WakeLoad, MyHead
<1>7. CASE WakeExchange
  BY <1>7 DEF WakeExchange, MyHead
<1>8. CASE WakeNetworkThread
  BY <1>8 DEF WakeNetworkThread, MyHead
<1>9. CASE HandleDrained
  BY <1>9 DEF HandleDrained, MyHead
<1>10. CASE TimeCheckArm
  <2>1. wbuf' = wbuf \/ Alike(wbuf, wbuf')
    BY <1>10, IdleSteps DEF Typed, TimeCheckArm
  <2>2. ~Absent(wbuf, "head") => InDrainLoop'
    BY <1>10 DEF TimeCheckArm, OtherStores, Absent
  <2>3. UNCHANGED <<head, MyHead>>
    BY <1>10, IdleSteps DEF Typed, TimeCheckArm
  <2> QED
    BY <2>1, <2>2, <2>3 DEF Alike
<1>11. CASE IdleFence
  BY <1>11 DEF IdleFence, MyHead
<1>12. CASE IdlePeek
  <2>1. wbuf' = wbuf \/ Alike(wbuf, wbuf')
    BY <1>12, IdleSteps DEF Typed, IdlePeek
  <2>2. ~Absent(wbuf, "head") => InDrainLoop'
    BY <1>12 DEF IdlePeek, OtherStores, Absent
  <2>3. UNCHANGED <<head, MyHead>>
    BY <1>12, IdleSteps DEF Typed, IdlePeek
  <2> QED
    BY <2>1, <2>2, <2>3 DEF Alike
<1>13. CASE WokenByWake
  <2>1. wbuf' = wbuf \/ Alike(wbuf, wbuf')
    BY <1>13, IdleSteps DEF Typed, WokenByWake, WithdrawIdle
  <2>2. ~Absent(wbuf, "head") => InDrainLoop'
    BY <1>13 DEF WokenByWake, WithdrawIdle, OtherStores, Absent
  <2>3. UNCHANGED <<head, MyHead>>
    BY <1>13, IdleSteps DEF Typed, WokenByWake, WithdrawIdle
  <2> QED
    BY <2>1, <2>2, <2>3 DEF Alike
<1>14. CASE DrainPop
  <2>1. /\ wbuf' = Append(wbuf, Store("head", MyHead + 1)) /\ UNCHANGED head
        /\ InDrainLoop'
    BY <1>14 DEF DrainPop
  <2>2. MyHead' = MyHead + 1 /\ Rising(wbuf', head, MyHead + 1)
    BY <2>1, PopStore, Numbers DEF OtherStores, MyHead, Typed
  <2> QED
    BY <2>1, <2>2, Numbers DEF Typed
<1>15. CASE DrainEmpty
  BY <1>15 DEF DrainEmpty, MyHead
<1>16. CASE FinalFence
  <2>1. UNCHANGED <<head, wbuf>> /\ Absent(wbuf, "head")
    BY <1>16 DEF FinalFence, Absent
  <2> QED
    BY <2>1 DEF MyHead
<1>17. CASE FireLoad
  BY <1>17 DEF FireLoad, MyHead
<1>18. CASE FireCount
  BY <1>18 DEF FireCount, MyHead
<1>19. CASE FireCas
  <2>1. UNCHANGED <<head, wbuf>> /\ Absent(wbuf, "head")
    BY <1>19 DEF FireCas, Absent
  <2> QED
    BY <2>1 DEF MyHead
<1>20. CASE FireOutOfMemory
  <2>1. UNCHANGED head /\ wbuf' = <<Store("drainPending", 1)>>
    BY <1>20 DEF FireOutOfMemory
  <2> QED
    BY <2>1, RearmStore DEF MyHead, Typed
<1>21. CASE TimeCheckNow
  <2>1. wbuf' = wbuf \/ Alike(wbuf, wbuf')
    BY <1>21, IdleSteps DEF Typed, TimeCheckNow
  <2>2. ~Absent(wbuf, "head") => InDrainLoop'
    BY <1>21 DEF TimeCheckNow, OtherStores, Absent
  <2>3. UNCHANGED <<head, MyHead>>
    BY <1>21, IdleSteps DEF Typed, TimeCheckNow
  <2> QED
    BY <2>1, <2>2, <2>3 DEF Alike
<1>22. CASE WokenByItself
  <2>1. wbuf' = wbuf \/ Alike(wbuf, wbuf')
    BY <1>22, IdleSteps DEF Typed, WokenByItself, WithdrawIdle
  <2>2. ~Absent(wbuf, "head") => InDrainLoop'
    BY <1>22 DEF WokenByItself, WithdrawIdle, OtherStores, Absent
  <2>3. UNCHANGED <<head, MyHead>>
    BY <1>22, IdleSteps DEF Typed, WokenByItself, WithdrawIdle
  <2> QED
    BY <2>1, <2>2, <2>3 DEF Alike
<1>23. CASE FlushProducer
  <2>1. UNCHANGED <<head, wbuf, wpc, wret>>
    BY <1>23 DEF FlushProducer, Commit, Producer, Store
  <2> QED
    BY <2>1 DEF MyHead
<1>24. CASE FlushWorker
  <2>1. UNCHANGED <<wpc, wret>>
    BY <1>24 DEF FlushWorker
  <2>2. /\ head' <= MyHead /\ UNCHANGED MyHead /\ Rising(wbuf', head', MyHead)
        /\ Absent(wbuf, "head") => Absent(wbuf', "head")
    BY <1>24, Flushed, Numbers DEF OtherStores, Typed
  <2> QED
    BY <2>1, <2>2
<1>25. CASE UNCHANGED vars
  BY <1>25 DEF vars, MyHead
<1> QED
  BY <1>1, <1>2, <1>3, <1>4, <1>5, <1>6, <1>7, <1>8, <1>9, <1>10, <1>11,
     <1>12, <1>13, <1>14, <1>15, <1>16, <1>17, <1>18, <1>19, <1>20, <1>21,
     <1>22, <1>23, <1>24, <1>25 DEF Next, ProducerStep, WorkerStep

\* The worker's other stores.
LEMMA OtherStoresStep ==
    Typed /\ Producer /\ HeadStores /\ OtherStores /\ [Next]_vars =>
        OtherStores'
<1> SUFFICES ASSUME Typed, Producer, HeadStores, OtherStores, [Next]_vars
             PROVE  OtherStores'
  OBVIOUS
<1> USE DEF OtherStores, memVars, writerVars, workerVars
<1>1. CASE WriterStart
  BY <1>1 DEF WriterStart
<1>2. CASE ArmFence
  BY <1>2 DEF ArmFence
<1>3. CASE ArmCount
  BY <1>3 DEF ArmCount
<1>4. CASE Write
  BY <1>4 DEF Write
<1>5. CASE WakeFence
  BY <1>5 DEF WakeFence
<1>6. CASE WakeLoad
  BY <1>6 DEF WakeLoad
<1>7. CASE WakeExchange
  BY <1>7 DEF WakeExchange
<1>8. CASE WakeNetworkThread
  BY <1>8 DEF WakeNetworkThread
<1>9. CASE HandleDrained
  BY <1>9 DEF HandleDrained
<1>10. CASE TimeCheckArm
  <2>1. Alike(wbuf, wbuf')
    BY <1>10, IdleSteps DEF Typed, TimeCheckArm
  <2>2. wpc' \in {"armPeek", "asleep"} => wbuf' = << >>
    BY <1>10 DEF TimeCheckArm
  <2> QED
    BY <1>10, <2>1, <2>2 DEF Alike, TimeCheckArm
<1>11. CASE IdleFence
  BY <1>11 DEF IdleFence
<1>12. CASE IdlePeek
  <2>1. Alike(wbuf, wbuf')
    BY <1>12, IdleSteps DEF Typed, IdlePeek
  <2>2. wpc' \in {"armPeek", "asleep"} => wbuf' = << >>
    BY <1>12 DEF IdlePeek
  <2> QED
    BY <1>12, <2>1, <2>2 DEF Alike, IdlePeek
<1>13. CASE WokenByWake
  <2>1. Alike(wbuf, wbuf')
    BY <1>13, IdleSteps DEF Typed, WokenByWake, WithdrawIdle
  <2>2. wpc' \in {"armPeek", "asleep"} => wbuf' = << >>
    BY <1>13 DEF WokenByWake, WithdrawIdle
  <2> QED
    BY <1>13, <2>1, <2>2 DEF Alike, WokenByWake, WithdrawIdle
<1>14. CASE DrainPop
  <2>1. /\ wbuf' = Append(wbuf, Store("head", MyHead + 1))
        /\ wpc' = "fireLoad" /\ UNCHANGED shortMem
    BY <1>14 DEF DrainPop
  <2>2. /\ Flags(wbuf')
        /\ Absent(wbuf', "drainPending") <=> Absent(wbuf, "drainPending")
    BY <2>1, PopStore, Numbers DEF HeadStores, Typed
  <2> QED
    BY <2>1, <2>2
<1>15. CASE DrainEmpty
  BY <1>15 DEF DrainEmpty
<1>16. CASE FinalFence
  BY <1>16 DEF FinalFence
<1>17. CASE FireLoad
  BY <1>17 DEF FireLoad, Typed
<1>18. CASE FireCount
  BY <1>18 DEF FireCount, Typed
<1>19. CASE FireCas
  BY <1>19 DEF FireCas, Typed
<1>20. CASE FireOutOfMemory
  BY <1>20, RearmStore DEF FireOutOfMemory, Typed
<1>21. CASE TimeCheckNow
  <2>1. Alike(wbuf, wbuf')
    BY <1>21, IdleSteps DEF Typed, TimeCheckNow
  <2>2. wpc' \in {"armPeek", "asleep"} => wbuf' = << >>
    BY <1>21 DEF TimeCheckNow
  <2> QED
    BY <1>21, <2>1, <2>2 DEF Alike, TimeCheckNow
<1>22. CASE WokenByItself
  <2>1. Alike(wbuf, wbuf')
    BY <1>22, IdleSteps DEF Typed, WokenByItself, WithdrawIdle
  <2>2. wpc' \in {"armPeek", "asleep"} => wbuf' = << >>
    BY <1>22 DEF WokenByItself, WithdrawIdle
  <2> QED
    BY <1>22, <2>1, <2>2 DEF Alike, WokenByItself, WithdrawIdle
<1>23. CASE FlushProducer
  BY <1>23 DEF FlushProducer, Commit
<1>24. CASE FlushWorker
  <2>1. wpc \notin {"armPeek", "asleep"} /\ UNCHANGED <<wpc, shortMem>>
    BY <1>24 DEF FlushWorker
  <2>2. /\ Flags(wbuf')
        /\ Absent(wbuf, "drainPending") => Absent(wbuf', "drainPending")
    BY <1>24, Flushed, Numbers DEF Typed
  <2> QED
    BY <2>1, <2>2
<1>25. CASE UNCHANGED vars
  BY <1>25 DEF vars
<1> QED
  BY <1>1, <1>2, <1>3, <1>4, <1>5, <1>6, <1>7, <1>8, <1>9, <1>10, <1>11,
     <1>12, <1>13, <1>14, <1>15, <1>16, <1>17, <1>18, <1>19, <1>20, <1>21,
     <1>22, <1>23, <1>24, <1>25 DEF Next, ProducerStep, WorkerStep

\* No entry is lost or pushed into a full ring.
LEMMA CountedStep ==
    Typed /\ Producer /\ HeadStores /\ OtherStores /\ Counted /\ [Next]_vars =>
        Counted'
<1> SUFFICES ASSUME Typed, Producer, HeadStores, OtherStores, Counted,
                    [Next]_vars
             PROVE  Counted'
  OBVIOUS
<1> USE CapacityAssumption, LowWaterAssumption, WritersAssumption DEF
        Counted, memVars, writerVars, workerVars
<1>1. CASE WriterStart
  <2>1. ~Write /\ ~DrainPop
    BY <1>1 DEF WriterStart, Write, DrainPop
  <2>2. UNCHANGED <<MyHead, MyTail>>
    BY <2>1, ViewStep
  <2> QED
    BY <1>1, <2>2, Numbers DEF WriterStart, Typed
<1>2. CASE ArmFence
  <2>1. ~Write /\ ~DrainPop
    BY <1>2 DEF ArmFence, Write, DrainPop
  <2>2. UNCHANGED <<MyHead, MyTail>>
    BY <2>1, ViewStep
  <2> QED
    BY <1>2, <2>2, Numbers DEF ArmFence, Typed
<1>3. CASE ArmCount
  <2>1. ~Write /\ ~DrainPop
    BY <1>3 DEF ArmCount, Write, DrainPop
  <2>2. UNCHANGED <<MyHead, MyTail, head, tail>>
    BY <1>3, <2>1, ViewStep DEF ArmCount
  <2>3. todo > 0 /\ MyTail + todo + parked = Writers
    BY <1>3 DEF ArmCount
  <2>4. CASE MyTail - head > LowWater
    <3>1. todo' = todo - 1 /\ parked' = parked + 1 /\ ppc' = "idle"
      BY <1>3, <2>4 DEF ArmCount
    <3>2. MyTail' + todo' + parked' = Writers
      BY <2>2, <2>3, <3>1, Numbers DEF Typed
    <3> QED
      BY <2>2, <3>1, <3>2
  <2>5. CASE ~(MyTail - head > LowWater)
    <3>1. ppc' = "write" /\ UNCHANGED <<todo, parked>>
      BY <1>3, <2>5 DEF ArmCount
    <3>2. MyTail - head < Capacity
      BY <2>5, Numbers DEF Typed
    <3> QED
      BY <2>2, <2>3, <3>1, <3>2
  <2> QED
    BY <2>4, <2>5
<1>4. CASE Write
  <2>1. /\ UNCHANGED <<head, tail, wbuf, parked>>
        /\ todo' = todo - 1 /\ ppc' = "wakeFence"
    BY <1>4 DEF Write
  <2>2. MyHead' = MyHead
    BY <2>1 DEF MyHead
  <2>3. MyTail' = MyTail + 1
    <3>1. pbuf' = <<Store("tail", MyTail + 1)>>
      BY <1>4 DEF Write, Producer
    <3> QED
      BY <3>1, TailSeen DEF MyTail
  <2>4. /\ MyTail - head < Capacity /\ todo > 0
        /\ MyHead <= tail /\ tail <= MyTail
        /\ MyTail + todo + parked = Writers
    BY <1>4 DEF Write
  <2>5. MyTail' - head' <= Capacity /\ tail' <= MyTail' /\ MyHead' <= tail'
    BY <2>1, <2>2, <2>3, <2>4, Numbers DEF Typed
  <2>6. MyTail' + todo' + parked' = Writers
    BY <2>1, <2>3, <2>4, Numbers DEF Typed
  <2> QED
    BY <2>1, <2>5, <2>6
<1>5. CASE WakeFence
  <2>1. ~Write /\ ~DrainPop
    BY <1>5 DEF WakeFence, Write, DrainPop
  <2>2. UNCHANGED <<MyHead, MyTail>>
    BY <2>1, ViewStep
  <2> QED
    BY <1>5, <2>2, Numbers DEF WakeFence, Typed
<1>6. CASE WakeLoad
  <2>1. ~Write /\ ~DrainPop
    BY <1>6 DEF WakeLoad, Write, DrainPop
  <2>2. UNCHANGED <<MyHead, MyTail>>
    BY <2>1, ViewStep
  <2> QED
    BY <1>6, <2>2, Numbers DEF WakeLoad, Typed
<1>7. CASE WakeExchange
  <2>1. ~Write /\ ~DrainPop
    BY <1>7 DEF WakeExchange, Write, DrainPop
  <2>2. UNCHANGED <<MyHead, MyTail>>
    BY <2>1, ViewStep
  <2> QED
    BY <1>7, <2>2, Numbers DEF WakeExchange, Typed
<1>8. CASE WakeNetworkThread
  <2>1. ~Write /\ ~DrainPop
    BY <1>8 DEF WakeNetworkThread, Write, DrainPop
  <2>2. UNCHANGED <<MyHead, MyTail>>
    BY <2>1, ViewStep
  <2> QED
    BY <1>8, <2>2, Numbers DEF WakeNetworkThread, Typed
<1>9. CASE HandleDrained
  <2>1. ~Write /\ ~DrainPop
    BY <1>9 DEF HandleDrained, Write, DrainPop
  <2>2. UNCHANGED <<MyHead, MyTail>>
    BY <2>1, ViewStep
  <2> QED
    BY <1>9, <2>2, Numbers DEF HandleDrained, Typed
<1>10. CASE TimeCheckArm
  <2>1. ~Write /\ ~DrainPop
    BY <1>10 DEF TimeCheckArm, Write, DrainPop
  <2>2. UNCHANGED <<MyHead, MyTail>>
    BY <2>1, ViewStep
  <2> QED
    BY <1>10, <2>2, Numbers DEF TimeCheckArm, Typed
<1>11. CASE IdleFence
  <2>1. ~Write /\ ~DrainPop
    BY <1>11 DEF IdleFence, Write, DrainPop
  <2>2. UNCHANGED <<MyHead, MyTail>>
    BY <2>1, ViewStep
  <2> QED
    BY <1>11, <2>2, Numbers DEF IdleFence, Typed
<1>12. CASE IdlePeek
  <2>1. ~Write /\ ~DrainPop
    BY <1>12 DEF IdlePeek, Write, DrainPop
  <2>2. UNCHANGED <<MyHead, MyTail>>
    BY <2>1, ViewStep
  <2> QED
    BY <1>12, <2>2, Numbers DEF IdlePeek, Typed
<1>13. CASE WokenByWake
  <2>1. ~Write /\ ~DrainPop
    BY <1>13 DEF WokenByWake, WithdrawIdle, Write, DrainPop
  <2>2. UNCHANGED <<MyHead, MyTail>>
    BY <2>1, ViewStep
  <2> QED
    BY <1>13, <2>2, Numbers DEF WokenByWake, WithdrawIdle, Typed
<1>14. CASE DrainPop
  <2>1. UNCHANGED <<head, tail, pbuf, todo, parked, ppc>> /\ MyHead < tail
    BY <1>14 DEF DrainPop
  <2>2. MyTail' = MyTail
    BY <2>1 DEF MyTail
  <2>3. MyHead' = MyHead \/ MyHead' = MyHead + 1
    BY ViewStep
  <2> QED
    BY <2>1, <2>2, <2>3, Numbers DEF Typed
<1>15. CASE DrainEmpty
  <2>1. ~Write /\ ~DrainPop
    BY <1>15 DEF DrainEmpty, Write, DrainPop
  <2>2. UNCHANGED <<MyHead, MyTail>>
    BY <2>1, ViewStep
  <2> QED
    BY <1>15, <2>2, Numbers DEF DrainEmpty, Typed
<1>16. CASE FinalFence
  <2>1. ~Write /\ ~DrainPop
    BY <1>16 DEF FinalFence, Write, DrainPop
  <2>2. UNCHANGED <<MyHead, MyTail>>
    BY <2>1, ViewStep
  <2> QED
    BY <1>16, <2>2, Numbers DEF FinalFence, Typed
<1>17. CASE FireLoad
  <2>1. ~Write /\ ~DrainPop
    BY <1>17 DEF FireLoad, Write, DrainPop
  <2>2. UNCHANGED <<MyHead, MyTail>>
    BY <2>1, ViewStep
  <2> QED
    BY <1>17, <2>2, Numbers DEF FireLoad, Typed
<1>18. CASE FireCount
  <2>1. ~Write /\ ~DrainPop
    BY <1>18 DEF FireCount, Write, DrainPop
  <2>2. UNCHANGED <<MyHead, MyTail>>
    BY <2>1, ViewStep
  <2> QED
    BY <1>18, <2>2, Numbers DEF FireCount, Typed
<1>19. CASE FireCas
  <2>1. ~Write /\ ~DrainPop
    BY <1>19 DEF FireCas, Write, DrainPop
  <2>2. UNCHANGED <<MyHead, MyTail>>
    BY <2>1, ViewStep
  <2> QED
    BY <1>19, <2>2, Numbers DEF FireCas, Typed
<1>20. CASE FireOutOfMemory
  <2>1. ~Write /\ ~DrainPop
    BY <1>20 DEF FireOutOfMemory, Write, DrainPop
  <2>2. UNCHANGED <<MyHead, MyTail>>
    BY <2>1, ViewStep
  <2> QED
    BY <1>20, <2>2, Numbers DEF FireOutOfMemory, Typed
<1>21. CASE TimeCheckNow
  <2>1. ~Write /\ ~DrainPop
    BY <1>21 DEF TimeCheckNow, Write, DrainPop
  <2>2. UNCHANGED <<MyHead, MyTail>>
    BY <2>1, ViewStep
  <2> QED
    BY <1>21, <2>2, Numbers DEF TimeCheckNow, Typed
<1>22. CASE WokenByItself
  <2>1. ~Write /\ ~DrainPop
    BY <1>22 DEF WokenByItself, WithdrawIdle, Write, DrainPop
  <2>2. UNCHANGED <<MyHead, MyTail>>
    BY <2>1, ViewStep
  <2> QED
    BY <1>22, <2>2, Numbers DEF WokenByItself, WithdrawIdle, Typed
<1>23. CASE FlushProducer
  <2>1. ~Write /\ ~DrainPop
    BY <1>23 DEF FlushProducer, Write, DrainPop
  <2>2. UNCHANGED <<MyHead, MyTail>>
    BY <2>1, ViewStep
  <2>3. UNCHANGED <<head, ppc, todo, parked>> /\ (tail' = tail \/ tail' = MyTail)
    <3>1. CASE pbuf = <<Store("drainPending", 1)>>
      BY <1>23, <3>1 DEF FlushProducer, Commit, Store
    <3>2. CASE pbuf = <<Store("tail", tail + 1)>>
      BY <1>23, <3>2, TailSeen DEF FlushProducer, Commit, Store, MyTail
    <3> QED
      BY <1>23, <3>1, <3>2 DEF FlushProducer, Producer
  <2> QED
    BY <2>2, <2>3, Numbers DEF Typed
<1>24. CASE FlushWorker
  <2>1. ~Write /\ ~DrainPop /\ UNCHANGED <<ppc, todo, parked>>
    BY <1>24 DEF FlushWorker, Write, DrainPop
  <2>2. UNCHANGED <<MyHead, MyTail>>
    BY <2>1, ViewStep
  <2>3. UNCHANGED tail /\ head' \in Nat /\ head <= head'
    BY <1>24, Flushed, Numbers DEF OtherStores, Typed
  <2>4. PICK n \in Nat : head' = head + n
    BY <2>3, Difference DEF Typed
  <2> QED
    BY <2>1, <2>2, <2>3, <2>4, Numbers DEF Typed
<1>25. CASE UNCHANGED vars
  BY <1>25 DEF vars, MyHead, MyTail
<1> QED
  BY <1>1, <1>2, <1>3, <1>4, <1>5, <1>6, <1>7, <1>8, <1>9, <1>10, <1>11,
     <1>12, <1>13, <1>14, <1>15, <1>16, <1>17, <1>18, <1>19, <1>20, <1>21,
     <1>22, <1>23, <1>24, <1>25 DEF Next, ProducerStep, WorkerStep

\* The idle mark is taken only by who owes the wake.
LEMMA MarkedStep ==
    Typed /\ Producer /\ HeadStores /\ OtherStores /\ Marked /\ [Next]_vars =>
        Marked'
<1> SUFFICES ASSUME Typed, Producer, HeadStores, OtherStores, Marked,
                    [Next]_vars
             PROVE  Marked'
  OBVIOUS
<1> USE DEF Marked, memVars, writerVars, workerVars
<1>1. CASE WriterStart
  BY <1>1 DEF WriterStart, Typed, MyIdle
<1>2. CASE ArmFence
  BY <1>2 DEF ArmFence, Typed, MyIdle
<1>3. CASE ArmCount
  BY <1>3 DEF ArmCount, Typed, MyIdle
<1>4. CASE Write
  BY <1>4 DEF Write, Typed, MyIdle
<1>5. CASE WakeFence
  BY <1>5 DEF WakeFence, Typed, MyIdle
<1>6. CASE WakeLoad
  BY <1>6 DEF WakeLoad, Typed, MyIdle
<1>7. CASE WakeExchange
  <2>1. CASE Absent(wbuf, "idle")
    BY <1>7, <2>1, ViewAbsent DEF WakeExchange, MyIdle, Typed
  <2>2. CASE ~Absent(wbuf, "idle")
    <3>1. PICK i : Youngest(wbuf, "idle", i)
      BY <2>2, HasYoungest DEF Typed
    <3>2. MyIdle' = MyIdle
      BY <1>7, <3>1, ViewYoungest DEF WakeExchange, MyIdle, Typed
    <3>3. ppc = "wakeXchg" /\ UNCHANGED <<wpc, netWake>>
      BY <1>7 DEF WakeExchange
    <3> QED
      BY <3>2, <3>3
  <2> QED
    BY <2>1, <2>2
<1>8. CASE WakeNetworkThread
  BY <1>8 DEF WakeNetworkThread, Typed, MyIdle
<1>9. CASE HandleDrained
  BY <1>9 DEF HandleDrained, Typed, MyIdle
<1>10. CASE TimeCheckArm
  <2>1. UNCHANGED head
    BY <1>10 DEF TimeCheckArm
  <2> QED
    BY <1>10, <2>1, IdleSteps DEF Typed
<1>11. CASE IdleFence
  BY <1>11 DEF IdleFence, Typed, MyIdle
<1>12. CASE IdlePeek
  BY <1>12 DEF IdlePeek, Typed, MyIdle
<1>13. CASE WokenByWake
  BY <1>13 DEF WokenByWake, WithdrawIdle, Typed, MyIdle
<1>14. CASE DrainPop
  BY <1>14 DEF DrainPop, Typed, MyIdle
<1>15. CASE DrainEmpty
  BY <1>15 DEF DrainEmpty, Typed, MyIdle
<1>16. CASE FinalFence
  BY <1>16 DEF FinalFence, Typed, MyIdle
<1>17. CASE FireLoad
  BY <1>17 DEF FireLoad, Typed, MyIdle
<1>18. CASE FireCount
  BY <1>18 DEF FireCount, Typed, MyIdle
<1>19. CASE FireCas
  BY <1>19 DEF FireCas, Typed, MyIdle
<1>20. CASE FireOutOfMemory
  BY <1>20 DEF FireOutOfMemory, Typed, MyIdle
<1>21. CASE TimeCheckNow
  BY <1>21 DEF TimeCheckNow, Typed, MyIdle
<1>22. CASE WokenByItself
  BY <1>22 DEF WokenByItself, WithdrawIdle, Typed, MyIdle
<1>23. CASE FlushProducer
  <2>1. UNCHANGED <<idle, wbuf, wpc, netWake, ppc>>
    BY <1>23 DEF FlushProducer, Commit, Producer, Store
  <2> QED
    BY <2>1 DEF MyIdle
<1>24. CASE FlushWorker
  <2>1. UNCHANGED <<wpc, netWake, ppc>>
    BY <1>24 DEF FlushWorker, Commit
  <2>2. UNCHANGED MyIdle
    BY <1>24, Flushed, Numbers DEF OtherStores, Typed
  <2> QED
    BY <2>1, <2>2
<1>25. CASE UNCHANGED vars
  BY <1>25 DEF vars, MyIdle
<1> QED
  BY <1>1, <1>2, <1>3, <1>4, <1>5, <1>6, <1>7, <1>8, <1>9, <1>10, <1>11,
     <1>12, <1>13, <1>14, <1>15, <1>16, <1>17, <1>18, <1>19, <1>20, <1>21,
     <1>22, <1>23, <1>24, <1>25 DEF Next, ProducerStep, WorkerStep

\* No push slips between the worker's peek and its wait.
LEMMA SleeperStep ==
    Typed /\ Producer /\ HeadStores /\ OtherStores /\ Marked /\
    SleeperIsWoken /\ [Next]_vars =>
        SleeperIsWoken'
<1> SUFFICES ASSUME Typed, Producer, HeadStores, OtherStores, Marked,
                    SleeperIsWoken, [Next]_vars
             PROVE  SleeperIsWoken'
  OBVIOUS
<1> USE DEF SleeperIsWoken, memVars, writerVars, workerVars
<1>1. CASE WriterStart
  <2>1. ~Write /\ ~DrainPop
    BY <1>1 DEF WriterStart, Write, DrainPop
  <2>2. UNCHANGED <<MyHead, MyTail>>
    BY <2>1, ViewStep
  <2> QED
    BY <1>1, <2>2 DEF WriterStart
<1>2. CASE ArmFence
  <2>1. ~Write /\ ~DrainPop
    BY <1>2 DEF ArmFence, Write, DrainPop
  <2>2. UNCHANGED <<MyHead, MyTail>>
    BY <2>1, ViewStep
  <2> QED
    BY <1>2, <2>2 DEF ArmFence
<1>3. CASE ArmCount
  <2>1. ~Write /\ ~DrainPop
    BY <1>3 DEF ArmCount, Write, DrainPop
  <2>2. UNCHANGED <<MyHead, MyTail>>
    BY <2>1, ViewStep
  <2> QED
    BY <1>3, <2>2 DEF ArmCount
<1>4. CASE Write
  BY <1>4 DEF Write
<1>5. CASE WakeFence
  <2>1. ~Write /\ ~DrainPop
    BY <1>5 DEF WakeFence, Write, DrainPop
  <2>2. UNCHANGED <<MyHead, MyTail>>
    BY <2>1, ViewStep
  <2> QED
    BY <1>5, <2>2 DEF WakeFence
<1>6. CASE WakeLoad
  <2>1. wpc = "asleep" => MyIdle = idle
    BY ViewAbsent DEF OtherStores, MyIdle, Absent
  <2> QED
    BY <1>6, <2>1 DEF WakeLoad, Marked, MyHead, MyTail
<1>7. CASE WakeExchange
  <2>1. wpc = "asleep" => MyIdle = idle
    BY ViewAbsent DEF OtherStores, MyIdle, Absent
  <2> QED
    BY <1>7, <2>1 DEF WakeExchange, Marked, MyHead, MyTail, Typed
<1>8. CASE WakeNetworkThread
  <2>1. ~Write /\ ~DrainPop
    BY <1>8 DEF WakeNetworkThread, Write, DrainPop
  <2>2. UNCHANGED <<MyHead, MyTail>>
    BY <2>1, ViewStep
  <2> QED
    BY <1>8, <2>2 DEF WakeNetworkThread
<1>9. CASE HandleDrained
  <2>1. ~Write /\ ~DrainPop
    BY <1>9 DEF HandleDrained, Write, DrainPop
  <2>2. UNCHANGED <<MyHead, MyTail>>
    BY <2>1, ViewStep
  <2> QED
    BY <1>9, <2>2 DEF HandleDrained
<1>10. CASE TimeCheckArm
  <2>1. ~Write /\ ~DrainPop
    BY <1>10 DEF TimeCheckArm, Write, DrainPop
  <2>2. UNCHANGED <<MyHead, MyTail>>
    BY <2>1, ViewStep
  <2> QED
    BY <1>10, <2>2 DEF TimeCheckArm
<1>11. CASE IdleFence
  <2>1. ~Write /\ ~DrainPop
    BY <1>11 DEF IdleFence, Write, DrainPop
  <2>2. UNCHANGED <<MyHead, MyTail>>
    BY <2>1, ViewStep
  <2> QED
    BY <1>11, <2>2 DEF IdleFence
<1>12. CASE IdlePeek
  <2>1. CASE MyHead >= tail
    <3>1. UNCHANGED <<MyHead, MyTail, ppc>>
      BY <1>12, <2>1 DEF IdlePeek, MyHead, MyTail
    <3>2. MyHead < MyTail => ppc = "wakeFence"
      BY <2>1, Numbers, TailSeen DEF Producer, MyTail, Typed
    <3> QED
      BY <3>1, <3>2
  <2>2. CASE ~(MyHead >= tail)
    BY <1>12, <2>2 DEF IdlePeek
  <2> QED
    BY <2>1, <2>2
<1>13. CASE WokenByWake
  <2>1. ~Write /\ ~DrainPop
    BY <1>13 DEF WokenByWake, WithdrawIdle, Write, DrainPop
  <2>2. UNCHANGED <<MyHead, MyTail>>
    BY <2>1, ViewStep
  <2> QED
    BY <1>13, <2>2 DEF WokenByWake, WithdrawIdle
<1>14. CASE DrainPop
  BY <1>14 DEF DrainPop
<1>15. CASE DrainEmpty
  <2>1. ~Write /\ ~DrainPop
    BY <1>15 DEF DrainEmpty, Write, DrainPop
  <2>2. UNCHANGED <<MyHead, MyTail>>
    BY <2>1, ViewStep
  <2> QED
    BY <1>15, <2>2 DEF DrainEmpty
<1>16. CASE FinalFence
  <2>1. ~Write /\ ~DrainPop
    BY <1>16 DEF FinalFence, Write, DrainPop
  <2>2. UNCHANGED <<MyHead, MyTail>>
    BY <2>1, ViewStep
  <2> QED
    BY <1>16, <2>2 DEF FinalFence
<1>17. CASE FireLoad
  <2>1. ~Write /\ ~DrainPop
    BY <1>17 DEF FireLoad, Write, DrainPop
  <2>2. UNCHANGED <<MyHead, MyTail>>
    BY <2>1, ViewStep
  <2> QED
    BY <1>17, <2>2 DEF FireLoad, Typed
<1>18. CASE FireCount
  <2>1. ~Write /\ ~DrainPop
    BY <1>18 DEF FireCount, Write, DrainPop
  <2>2. UNCHANGED <<MyHead, MyTail>>
    BY <2>1, ViewStep
  <2> QED
    BY <1>18, <2>2 DEF FireCount, Typed
<1>19. CASE FireCas
  <2>1. ~Write /\ ~DrainPop
    BY <1>19 DEF FireCas, Write, DrainPop
  <2>2. UNCHANGED <<MyHead, MyTail>>
    BY <2>1, ViewStep
  <2> QED
    BY <1>19, <2>2 DEF FireCas, Typed
<1>20. CASE FireOutOfMemory
  <2>1. ~Write /\ ~DrainPop
    BY <1>20 DEF FireOutOfMemory, Write, DrainPop
  <2>2. UNCHANGED <<MyHead, MyTail>>
    BY <2>1, ViewStep
  <2> QED
    BY <1>20, <2>2 DEF FireOutOfMemory, Typed
<1>21. CASE TimeCheckNow
  <2>1. ~Write /\ ~DrainPop
    BY <1>21 DEF TimeCheckNow, Write, DrainPop
  <2>2. UNCHANGED <<MyHead, MyTail>>
    BY <2>1, ViewStep
  <2> QED
    BY <1>21, <2>2 DEF TimeCheckNow
<1>22. CASE WokenByItself
  <2>1. ~Write /\ ~DrainPop
    BY <1>22 DEF WokenByItself, WithdrawIdle, Write, DrainPop
  <2>2. UNCHANGED <<MyHead, MyTail>>
    BY <2>1, ViewStep
  <2> QED
    BY <1>22, <2>2 DEF WokenByItself, WithdrawIdle
<1>23. CASE FlushProducer
  <2>1. ~Write /\ ~DrainPop
    BY <1>23 DEF FlushProducer, Commit, Write, DrainPop
  <2>2. UNCHANGED <<MyHead, MyTail>>
    BY <2>1, ViewStep
  <2> QED
    BY <1>23, <2>2 DEF FlushProducer, Commit
<1>24. CASE FlushWorker
  <2>1. ~Write /\ ~DrainPop
    BY <1>24 DEF FlushWorker, Write, DrainPop
  <2>2. UNCHANGED <<MyHead, MyTail>>
    BY <2>1, ViewStep
  <2> QED
    BY <1>24, <2>2 DEF FlushWorker, Commit
<1>25. CASE UNCHANGED vars
  BY <1>25 DEF vars, MyHead, MyTail
<1> QED
  BY <1>1, <1>2, <1>3, <1>4, <1>5, <1>6, <1>7, <1>8, <1>9, <1>10, <1>11,
     <1>12, <1>13, <1>14, <1>15, <1>16, <1>17, <1>18, <1>19, <1>20, <1>21,
     <1>22, <1>23, <1>24, <1>25 DEF Next, ProducerStep, WorkerStep

\* An arm is taken down only for the event that answers it.
LEMMA ArmedStep ==
    Typed /\ Producer /\ HeadStores /\ OtherStores /\ Counted /\ Armed /\
    [Next]_vars =>
        Armed'
<1> SUFFICES ASSUME Typed, Producer, HeadStores, OtherStores, Counted, Armed,
                    [Next]_vars
             PROVE  Armed'
  OBVIOUS
<1> USE DEF Armed, memVars, writerVars, workerVars
<1>1. CASE WriterStart
  BY <1>1 DEF WriterStart, Producer
<1>2. CASE ArmFence
  BY <1>2 DEF ArmFence
<1>3. CASE ArmCount
  BY <1>3 DEF ArmCount, Typed, Counted
<1>4. CASE Write
  BY <1>4 DEF Write, Typed, Counted
<1>5. CASE WakeFence
  BY <1>5 DEF WakeFence
<1>6. CASE WakeLoad
  BY <1>6 DEF WakeLoad
<1>7. CASE WakeExchange
  BY <1>7 DEF WakeExchange
<1>8. CASE WakeNetworkThread
  BY <1>8 DEF WakeNetworkThread
<1>9. CASE HandleDrained
  BY <1>9 DEF HandleDrained, Typed
<1>10. CASE TimeCheckArm
  <2>1. UNCHANGED <<parked, ppc, pbuf, drainedQ, drainPending, head>>
    BY <1>10 DEF TimeCheckArm
  <2>2. Absent(wbuf', "drainPending") <=> Absent(wbuf, "drainPending")
    BY <1>10, <2>1, IdleSteps DEF Typed, Alike
  <2> QED
    BY <2>1, <2>2
<1>11. CASE IdleFence
  BY <1>11 DEF IdleFence
<1>12. CASE IdlePeek
  <2>1. UNCHANGED <<parked, ppc, pbuf, drainedQ, drainPending, head>>
    BY <1>12 DEF IdlePeek
  <2>2. Absent(wbuf', "drainPending") <=> Absent(wbuf, "drainPending")
    BY <1>12, <2>1, IdleSteps DEF Typed, Alike
  <2> QED
    BY <2>1, <2>2
<1>13. CASE WokenByWake
  <2>1. UNCHANGED <<parked, ppc, pbuf, drainedQ, drainPending, head>>
    BY <1>13 DEF WokenByWake, WithdrawIdle
  <2>2. Absent(wbuf', "drainPending") <=> Absent(wbuf, "drainPending")
    BY <1>13, <2>1, IdleSteps DEF Typed, Alike
  <2> QED
    BY <2>1, <2>2
<1>14. CASE DrainPop
  <2>1. /\ wbuf' = Append(wbuf, Store("head", MyHead + 1))
        /\ UNCHANGED <<parked, ppc, pbuf, drainedQ, drainPending>>
    BY <1>14 DEF DrainPop
  <2>2. Absent(wbuf', "drainPending") <=> Absent(wbuf, "drainPending")
    BY <2>1, PopStore, Numbers DEF HeadStores, OtherStores, Typed
  <2> QED
    BY <2>1, <2>2
<1>15. CASE DrainEmpty
  BY <1>15 DEF DrainEmpty
<1>16. CASE FinalFence
  BY <1>16 DEF FinalFence
<1>17. CASE FireLoad
  BY <1>17 DEF FireLoad
<1>18. CASE FireCount
  BY <1>18 DEF FireCount
<1>19. CASE FireCas
  <2>1. Absent(wbuf, "drainPending")
    BY <1>19 DEF FireCas, Absent
  <2> QED
    BY <1>19, <2>1 DEF FireCas, Typed
<1>20. CASE FireOutOfMemory
  BY <1>20, RearmStore DEF FireOutOfMemory
<1>21. CASE TimeCheckNow
  <2>1. UNCHANGED <<parked, ppc, pbuf, drainedQ, drainPending, head>>
    BY <1>21 DEF TimeCheckNow
  <2>2. Absent(wbuf', "drainPending") <=> Absent(wbuf, "drainPending")
    BY <1>21, <2>1, IdleSteps DEF Typed, Alike
  <2> QED
    BY <2>1, <2>2
<1>22. CASE WokenByItself
  <2>1. UNCHANGED <<parked, ppc, pbuf, drainedQ, drainPending, head>>
    BY <1>22 DEF WokenByItself, WithdrawIdle
  <2>2. Absent(wbuf', "drainPending") <=> Absent(wbuf, "drainPending")
    BY <1>22, <2>1, IdleSteps DEF Typed, Alike
  <2> QED
    BY <2>1, <2>2
<1>23. CASE FlushProducer
  <2>1. UNCHANGED <<parked, ppc, drainedQ, wbuf>>
    BY <1>23 DEF FlushProducer, Commit
  <2>2. \/ ppc = "armFence" /\ drainPending' = 1
        \/ ppc = "wakeFence" /\ UNCHANGED drainPending
    BY <1>23 DEF FlushProducer, Commit, Producer, Store
  <2> QED
    BY <2>1, <2>2
<1>24. CASE FlushWorker
  <2>1. UNCHANGED <<parked, ppc, pbuf, drainedQ>>
    BY <1>24 DEF FlushWorker, Commit
  <2>2. /\ drainPending' = drainPending \/ drainPending' = 1
        /\ ~Absent(wbuf, "drainPending") =>
               ~Absent(wbuf', "drainPending") \/ drainPending' = 1
    BY <1>24, Flushed, Numbers DEF OtherStores, Typed
  <2> QED
    BY <2>1, <2>2
<1>25. CASE UNCHANGED vars
  BY <1>25 DEF vars
<1> QED
  BY <1>1, <1>2, <1>3, <1>4, <1>5, <1>6, <1>7, <1>8, <1>9, <1>10, <1>11,
     <1>12, <1>13, <1>14, <1>15, <1>16, <1>17, <1>18, <1>19, <1>20, <1>21,
     <1>22, <1>23, <1>24, <1>25 DEF Next, ProducerStep, WorkerStep

\* The final check finds the arm of every writer parked by then.
LEMMA AnsweringStep ==
    Typed /\ Producer /\ HeadStores /\ OtherStores /\ Counted /\ Armed /\
    Answering /\ [Next]_vars =>
        Answering'
<1> SUFFICES ASSUME Typed, Producer, HeadStores, OtherStores, Counted, Armed,
                    Answering, [Next]_vars
             PROVE  Answering'
  OBVIOUS
<1> USE DEF Answering, memVars, writerVars, workerVars
<1>1. CASE WriterStart
  <2>1. ~Write /\ ~DrainPop
    BY <1>1 DEF WriterStart, Write, DrainPop
  <2>2. UNCHANGED <<MyHead, MyTail>>
    BY <2>1, ViewStep
  <2> QED
    BY <1>1, <2>2, Numbers DEF WriterStart, Typed
<1>2. CASE ArmFence
  <2>1. ~Write /\ ~DrainPop
    BY <1>2 DEF ArmFence, Write, DrainPop
  <2>2. UNCHANGED <<MyHead, MyTail>>
    BY <2>1, ViewStep
  <2> QED
    BY <1>2, <2>2, Numbers DEF ArmFence, Typed
<1>3. CASE ArmCount
  <2>1. ~Write /\ ~DrainPop /\ UNCHANGED <<head, wpc>>
    BY <1>3 DEF ArmCount, Write, DrainPop
  <2>2. UNCHANGED <<MyHead, MyTail>>
    BY <2>1, ViewStep
  <2>3. CASE MyTail - head > LowWater /\ MyHead = MyTail
    <3>1. ~Absent(wbuf, "head")
      BY <2>3, ViewAbsent, LowWaterAssumption DEF MyHead, Typed
    <3> QED
      BY <3>1, <2>1 DEF HeadStores, InDrainLoop
  <2>4. CASE MyTail - head > LowWater /\ MyHead # MyTail
    BY <2>2, <2>4
  <2>5. CASE ~(MyTail - head > LowWater)
    BY <1>3, <2>2, <2>5 DEF ArmCount
  <2> QED
    BY <2>3, <2>4, <2>5
<1>4. CASE Write
  <2>1. pbuf' = <<Store("tail", MyTail + 1)>> /\ UNCHANGED <<head, wbuf>>
    BY <1>4 DEF Write, Producer
  <2>2. MyTail' = MyTail + 1 /\ MyHead' = MyHead
    BY <2>1, TailSeen DEF MyTail, MyHead
  <2>3. MyHead' # MyTail'
    BY <2>2, Numbers DEF Counted, Typed
  <2> QED
    BY <2>3
<1>5. CASE WakeFence
  <2>1. ~Write /\ ~DrainPop
    BY <1>5 DEF WakeFence, Write, DrainPop
  <2>2. UNCHANGED <<MyHead, MyTail>>
    BY <2>1, ViewStep
  <2> QED
    BY <1>5, <2>2, Numbers DEF WakeFence, Typed
<1>6. CASE WakeLoad
  <2>1. ~Write /\ ~DrainPop
    BY <1>6 DEF WakeLoad, Write, DrainPop
  <2>2. UNCHANGED <<MyHead, MyTail>>
    BY <2>1, ViewStep
  <2> QED
    BY <1>6, <2>2, Numbers DEF WakeLoad, Typed
<1>7. CASE WakeExchange
  <2>1. ~Write /\ ~DrainPop
    BY <1>7 DEF WakeExchange, Write, DrainPop
  <2>2. UNCHANGED <<MyHead, MyTail>>
    BY <2>1, ViewStep
  <2> QED
    BY <1>7, <2>2, Numbers DEF WakeExchange, Typed
<1>8. CASE WakeNetworkThread
  <2>1. ~Write /\ ~DrainPop
    BY <1>8 DEF WakeNetworkThread, Write, DrainPop
  <2>2. UNCHANGED <<MyHead, MyTail>>
    BY <2>1, ViewStep
  <2> QED
    BY <1>8, <2>2, Numbers DEF WakeNetworkThread, Typed
<1>9. CASE HandleDrained
  <2>1. ~Write /\ ~DrainPop
    BY <1>9 DEF HandleDrained, Write, DrainPop
  <2>2. UNCHANGED <<MyHead, MyTail>>
    BY <2>1, ViewStep
  <2> QED
    BY <1>9, <2>2, Numbers DEF HandleDrained, Typed
<1>10. CASE TimeCheckArm
  <2>1. ~Write /\ ~DrainPop
    BY <1>10 DEF TimeCheckArm, Write, DrainPop
  <2>2. UNCHANGED <<MyHead, MyTail>>
    BY <2>1, ViewStep
  <2> QED
    BY <1>10, <2>2, Numbers DEF TimeCheckArm, Typed
<1>11. CASE IdleFence
  <2>1. ~Write /\ ~DrainPop
    BY <1>11 DEF IdleFence, Write, DrainPop
  <2>2. UNCHANGED <<MyHead, MyTail>>
    BY <2>1, ViewStep
  <2> QED
    BY <1>11, <2>2, Numbers DEF IdleFence, Typed
<1>12. CASE IdlePeek
  <2>1. ~Write /\ ~DrainPop
    BY <1>12 DEF IdlePeek, Write, DrainPop
  <2>2. UNCHANGED <<MyHead, MyTail>>
    BY <2>1, ViewStep
  <2> QED
    BY <1>12, <2>2, Numbers DEF IdlePeek, Typed
<1>13. CASE WokenByWake
  <2>1. ~Write /\ ~DrainPop
    BY <1>13 DEF WokenByWake, WithdrawIdle, Write, DrainPop
  <2>2. UNCHANGED <<MyHead, MyTail>>
    BY <2>1, ViewStep
  <2> QED
    BY <1>13, <2>2, Numbers DEF WokenByWake, WithdrawIdle, Typed
<1>14. CASE DrainPop
  BY <1>14 DEF DrainPop
<1>15. CASE DrainEmpty
  <2>1. ~Write /\ ~DrainPop
    BY <1>15 DEF DrainEmpty, Write, DrainPop
  <2>2. UNCHANGED <<MyHead, MyTail>>
    BY <2>1, ViewStep
  <2> QED
    BY <1>15, <2>2, Numbers DEF DrainEmpty, Typed
<1>16. CASE FinalFence
  <2>1. ~Write /\ ~DrainPop
    BY <1>16 DEF FinalFence, Write, DrainPop
  <2>2. UNCHANGED <<MyHead, MyTail>>
    BY <2>1, ViewStep
  <2> QED
    BY <1>16, <2>2, Numbers DEF FinalFence, Typed
<1>17. CASE FireLoad
  <2>1. UNCHANGED <<MyHead, MyTail, parked, shortMem>>
    BY <1>17 DEF FireLoad, MyHead, MyTail
  <2> SUFFICES ASSUME parked > 0, ~shortMem, drainedQ' = 0, MyHead = MyTail
               PROVE  wpc' \in {"drain", "finalFence", "fireLoad", "fireCount",
                                "fireCas"}
    BY <2>1
  <2>2. drainedQ = 0 /\ Absent(wbuf, "drainPending")
    BY <1>17 DEF FireLoad, OtherStores, Typed
  <2>3. drainPending = 1
    BY <2>2 DEF Armed
  <2>4. View(wbuf, "drainPending", drainPending) = 1
    BY <2>2, <2>3, ViewAbsent
  <2> QED
    BY <1>17, <2>4 DEF FireLoad
<1>18. CASE FireCount
  <2>1. UNCHANGED <<MyHead, MyTail, parked, shortMem, drainedQ>>
    BY <1>18 DEF FireCount, MyHead, MyTail
  <2>2. CASE MyHead = MyTail
    <3>1. tail - MyHead = 0
      BY <2>2, Numbers DEF Counted, Typed
    <3> QED
      BY <1>18, <3>1, LowWaterAssumption DEF FireCount
  <2>3. CASE MyHead # MyTail
    BY <2>1, <2>3
  <2> QED
    BY <2>2, <2>3
<1>19. CASE FireCas
  <2>1. UNCHANGED <<MyHead, MyTail, parked, shortMem>>
    BY <1>19 DEF FireCas, MyHead, MyTail
  <2> SUFFICES ASSUME parked > 0, ~shortMem, drainedQ' = 0, MyHead = MyTail
               PROVE  wpc' \in {"drain", "finalFence", "fireLoad", "fireCount",
                                "fireCas"}
    BY <2>1
  <2>2. drainedQ = 0 /\ Absent(wbuf, "drainPending")
    BY <1>19 DEF FireCas, OtherStores, Typed
  <2>3. drainPending = 1
    BY <2>2 DEF Armed
  <2> QED
    BY <1>19, <2>2, <2>3 DEF FireCas
<1>20. CASE FireOutOfMemory
  BY <1>20 DEF FireOutOfMemory
<1>21. CASE TimeCheckNow
  <2>1. ~Write /\ ~DrainPop
    BY <1>21 DEF TimeCheckNow, Write, DrainPop
  <2>2. UNCHANGED <<MyHead, MyTail>>
    BY <2>1, ViewStep
  <2> QED
    BY <1>21, <2>2, Numbers DEF TimeCheckNow, Typed
<1>22. CASE WokenByItself
  <2>1. ~Write /\ ~DrainPop
    BY <1>22 DEF WokenByItself, WithdrawIdle, Write, DrainPop
  <2>2. UNCHANGED <<MyHead, MyTail>>
    BY <2>1, ViewStep
  <2> QED
    BY <1>22, <2>2, Numbers DEF WokenByItself, WithdrawIdle, Typed
<1>23. CASE FlushProducer
  <2>1. ~Write /\ ~DrainPop
    BY <1>23 DEF FlushProducer, Commit, Write, DrainPop
  <2>2. UNCHANGED <<MyHead, MyTail>>
    BY <2>1, ViewStep
  <2> QED
    BY <1>23, <2>2 DEF FlushProducer, Commit
<1>24. CASE FlushWorker
  <2>1. ~Write /\ ~DrainPop
    BY <1>24 DEF FlushWorker, Write, DrainPop
  <2>2. UNCHANGED <<MyHead, MyTail>>
    BY <2>1, ViewStep
  <2> QED
    BY <1>24, <2>2 DEF FlushWorker, Commit
<1>25. CASE UNCHANGED vars
  BY <1>25 DEF vars, MyHead, MyTail
<1> QED
  BY <1>1, <1>2, <1>3, <1>4, <1>5, <1>6, <1>7, <1>8, <1>9, <1>10, <1>11,
     <1>12, <1>13, <1>14, <1>15, <1>16, <1>17, <1>18, <1>19, <1>20, <1>21,
     <1>22, <1>23, <1>24, <1>25 DEF Next, ProducerStep, WorkerStep

-----------------------------------------------------------------------------
(* The theorems.                                                           *)

\* The initial state satisfies the invariant.
LEMMA InitIInv == Init => IInv
<1> SUFFICES ASSUME Init PROVE IInv
  OBVIOUS
<1> USE CapacityAssumption, WritersAssumption DEF Init
<1>1. MyTail = 0 /\ MyHead = 0
  BY TailSeen, ViewAbsent DEF MyTail, MyHead, Absent
<1>2. Typed
  <2>1. netWake \in BOOLEAN /\ wakeLost \in BOOLEAN /\ shortMem \in BOOLEAN
    OBVIOUS
  <2>2. wbuf \in Seq(WorkerStores)
    OBVIOUS
  <2> QED
    BY <2>1, <2>2 DEF Typed, ProducerPoints, WorkerPoints
<1>3. HeadStores /\ OtherStores
  BY <1>1 DEF HeadStores, OtherStores, Rising, Flags, Absent
<1>4. Counted
  BY <1>1 DEF Counted
<1> QED
  BY <1>2, <1>3, <1>4
     DEF IInv, Producer, Marked, SleeperIsWoken, Armed, Answering

\* The conjunction above is an invariant of the two threads, their store
\* buffers and the memory between them.
THEOREM Invariance == Spec => []IInv
<1>1. IInv /\ [Next]_vars => IInv'
  BY TypedStep, ProducerStores, HeadStoresStep, OtherStoresStep, CountedStep,
     MarkedStep, SleeperStep, ArmedStep, AnsweringStep DEF IInv
<1> QED
  BY InitIInv, <1>1, PTL DEF Spec

\* Every variable stays in its type: in particular the ring never holds more
\* than Capacity entries, and head as the worker sees it never passes tail as
\* memory holds it.
THEOREM TypeCorrect == Spec => []TypeOK
<1>1. IInv => TypeOK
  <2> SUFFICES ASSUME IInv PROVE TypeOK
    OBVIOUS
  <2>1. pbuf \in Seq(Stores({"tail", "drainPending"}))
    <3>1. /\ Store("drainPending", 1) \in Stores({"tail", "drainPending"})
          /\ Store("tail", tail + 1) \in Stores({"tail", "drainPending"})
      BY DEF IInv, Typed, Store, Stores
    <3>2. \A S : << >> \in Seq(S) /\ \A x \in S : <<x>> \in Seq(S)
      OBVIOUS
    <3> QED
      BY <3>1, <3>2 DEF IInv, Producer
  <2>2. /\ head \in 0 .. Writers /\ tail \in 0 .. Writers
        /\ MyTail - head \in 0 .. Capacity /\ MyHead <= tail
        /\ todo \in 0 .. Writers /\ parked \in 0 .. Writers
    BY Numbers, CapacityAssumption, WritersAssumption
       DEF IInv, Typed, HeadStores, Counted
  <2> QED
    BY <2>1, <2>2 DEF IInv, Typed, TypeOK, WorkerStores
<1> QED
  BY Invariance, <1>1, PTL

\* The worker never sleeps over a queued entry that nobody will wake it for:
\* aiopquic_tx_wake_needed and aiopquic_tx_worker_idle_arm, with stores that
\* reach memory late.
THEOREM NoLostWake == Spec => []SleeperIsWoken
<1>1. IInv => SleeperIsWoken
  BY DEF IInv
<1> QED
  BY Invariance, <1>1, PTL

\* A writer parked on a full ring is never forgotten:
\* aiopquic_arm_tx_event_ring_drain_pending against
\* aiopquic_tx_event_ring_drained_final.
THEOREM WriterServed == Spec => []ParkedWriterIsServed
<1>1. IInv => Served
  <2> SUFFICES ASSUME IInv, wpc = "asleep", parked > 0, ~shortMem, drainedQ = 0
               PROVE  \/ netWake
                      \/ ppc \in {"wakeFence", "wakeLoad", "wakeXchg",
                                  "wakeSys"}
    BY DEF Served, IInv, Typed
  <2>1. MyHead # MyTail
    BY DEF IInv, Answering
  <2>2. MyHead < MyTail
    BY <2>1, Numbers DEF IInv, Counted, Typed
  <2> QED
    BY <2>2 DEF IInv, SleeperIsWoken
<1>2. IInv => KeepsArm
  <2> SUFFICES ASSUME IInv, parked > 0, drainedQ = 0
               PROVE  View(wbuf, "drainPending", drainPending) = 1
    BY DEF KeepsArm, IInv, Typed
  <2>1. wbuf \in Seq(WorkerStores) /\ Flags(wbuf)
    BY DEF IInv, Typed, OtherStores
  <2>2. drainPending = 1 \/ ~Absent(wbuf, "drainPending")
    BY DEF IInv, Armed
  <2>3. \/ Absent(wbuf, "drainPending")
             /\ View(wbuf, "drainPending", drainPending) = drainPending
        \/ \E i \in 1 .. Len(wbuf) :
               /\ wbuf[i].to = "drainPending"
               /\ View(wbuf, "drainPending", drainPending) = wbuf[i].val
    BY <2>1, ViewCases
  <2> QED
    BY <2>1, <2>2, <2>3 DEF Flags
<1> QED
  BY Invariance, <1>1, <1>2, PTL DEF ParkedWriterIsServed
=============================================================================
