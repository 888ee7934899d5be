-------------------------- MODULE StreamTx_proofs --------------------------
(***************************************************************************)
(* Proofs about StreamTx for every ring size, stream length and reset the  *)
(* application makes.  IInv is inductive; it is proved part by part, each  *)
(* part from those before it.                                              *)
(***************************************************************************)
EXTENDS StreamTx, TLAPS

-----------------------------------------------------------------------------
(* The inductive invariant.                                                *)

\* A write in progress fits the stream and, once it is to be pushed, the ring;
\* after the FIN there is none.
Writing ==
    /\ ppc \in {"check", "arm", "recheck", "parked", "push"} =>
           tail + plen <= Total
    /\ ppc = "push" => plen <= Room
    /\ fin => ppc \in {"idle", "mark", "done"}

\* Every byte that left the ring was pulled or abandoned; every byte that
\* entered it is counted, or will be by the writer at hand.
Counts ==
    /\ pulled + discarded = head
    /\ pushed + (IF ppc \in {"fin", "mark"} THEN plen ELSE 0) = tail

\* What picoquic was given: everything pulled until the stream ended, all of
\* it under a FIN; and what a running prepare_to_send knows of the ring.
Wire ==
    /\ sent <= head
    /\ ~Ended => sent = head
    /\ sentFin => fin /\ sent = tail /\ sentReset = NoReset
    /\ wpc \in {"used", "provide"} => ~Ended
    /\ sawFin => fin
    /\ wpc = "provide" => sawUsed <= tail - head
    /\ wpc = "provide" /\ sawFin => sawUsed = tail - head

\* A held reset waits for bytes the ring had, and no FIN passed it; one that
\* was sent promises no more than was sent.
Reset ==
    /\ resetPending => /\ head <= reliableSize /\ reliableSize <= tail
                       /\ ~sentFin
    /\ KeepsReliable

MarkComing ==
    \/ ppc \in {"fin", "mark"}
    \/ \E i \in 1 .. Len(txQueue) : txQueue[i].kind = "MARK"

\* Bytes in the ring of a stream that may still send are polled for, or a
\* MARK_ACTIVE is coming; a pull under way accounts for what it saw.
Backed ==
    (~Ended /\ ~resetPending) =>
        /\ (wpc # "provide" /\ head < tail) => active \/ MarkComing
        /\ (wpc = "provide" /\ sawUsed < tail - head) => MarkComing

\* A writer that waits, or is about to, has its arm or its event; and as long
\* as it has neither its event nor a pull about to answer, the ring is as full
\* as it found it.
Parking ==
    /\ ppc \in {"recheck", "parked"} => drainedQ > 0 \/ armed = 1
    /\ (/\ ppc = "parked" /\ drainedQ = 0 /\ wpc # "take"
        /\ ~shortMem /\ ~Ended) => Room < plen

IInv == TypeOK /\ Writing /\ Counts /\ Wire /\ Reset /\ Backed /\ Parking

-----------------------------------------------------------------------------
(* Operators.                                                              *)

\* aiopquic_reset_reliable_size of a queued TX_STREAM_RESET: what was written
\* at most.
LEMMA ResetCommand ==
    ASSUME TypeOK, Command("RESET")
    PROVE  ReliableSize(Head(txQueue).size) \in 0 .. tail
<1>1. Head(txQueue) \in Commands /\ Head(txQueue).kind = "RESET"
  BY DEF TypeOK, Command
<1>2. Head(txQueue) \in [kind : {"RESET"}, size : ResetSizes]
  BY <1>1 DEF Commands
<1>3. Head(txQueue).size \in ResetSizes
  BY <1>2
<1>4. \A size \in ResetSizes : size \in Nat
  BY BoundsAssumption
<1> QED
  BY <1>3, <1>4, NegotiatedAssumption DEF ReliableSize, Smaller, TypeOK

\* aiopquic_stream_ctx_tx_sendable: a pull takes no more than it saw, and while
\* a reset is held no more than its reliable bytes.
LEMMA Pull ==
    ASSUME TypeOK, Wire, Reset, wpc = "provide"
    PROVE  /\ Smaller(Sendable, want) \in 0 .. sawUsed
           /\ Sendable <= sawUsed
           /\ Smaller(Sendable, want) <= tail - head
           /\ resetPending => head + Smaller(Sendable, want) <= reliableSize
           /\ ~resetPending => Sendable = sawUsed
           /\ Sendable \in Nat /\ Smaller(Sendable, want) <= Sendable
  BY BoundsAssumption DEF TypeOK, Wire, Reset, Sendable, Smaller

\* What prepare_to_send does to the numbers when d bytes go out.
Provides(d) ==
    /\ head' = head + d /\ sent' = sent + d /\ pulled' = pulled + d
    /\ d <= tail - head
    /\ resetPending => head + d <= reliableSize
    /\ UNCHANGED <<tail, ppc, plen, txQueue, sentReset>>

LEMMA Provided ==
    ASSUME TypeOK, Wire, Reset, PrepareProvide
    PROVE  \E d \in 0 .. sawUsed : Provides(d) /\ (sentFin' => d = sawUsed)
<1> DEFINE d == Smaller(Sendable, want)
<1>1. wpc = "provide"
  BY DEF PrepareProvide
<1>2. /\ d \in 0 .. sawUsed /\ d <= tail - head
      /\ resetPending => head + d <= reliableSize
  BY <1>1, Pull
<1>3. /\ head' = head + d /\ sent' = sent + d /\ pulled' = pulled + d
      /\ UNCHANGED <<tail, ppc, plen, txQueue, sentReset>>
  BY DEF PrepareProvide, writerVars
<1>4. sentFin' => d = sawUsed
  BY DEF PrepareProvide
<1> HIDE DEF d
<1> QED
  BY <1>2, <1>3, <1>4 DEF Provides

-----------------------------------------------------------------------------
(* Preservation.                                                           *)

\* Type correctness.
LEMMA TypeStep ==
    TypeOK /\ Writing /\ Counts /\ Wire /\ Reset /\ [Next]_vars => TypeOK'
<1> SUFFICES ASSUME TypeOK, Writing, Counts, Wire, Reset, [Next]_vars
             PROVE  TypeOK'
  OBVIOUS
<1> USE CapAssumption, BoundsAssumption, NegotiatedAssumption DEF TypeOK,
        Writing, Counts, Wire, Reset, Room, Ended, NoReset, Commands,
        WriterPoints, WorkerPoints, ringVars, resetVars, countVars,
        writerVars, workerVars, wireVars, eventVars
<1>1. ASSUME NEW n \in 0 .. Cap, NEW f \in BOOLEAN, NewSend(n, f)
      PROVE  TypeOK'
  BY <1>1 DEF NewSend
<1>2. CASE SendCheck
  BY <1>2 DEF SendCheck
<1>3. CASE SendArm
  BY <1>3 DEF SendArm
<1>4. CASE SendRecheck
  BY <1>4 DEF SendRecheck
<1>5. CASE SendPush
  BY <1>5 DEF SendPush
<1>6. CASE SendFin
  BY <1>6 DEF SendFin
<1>7. CASE SendMark
  <2>1. txQueue' \in Seq(Commands)
    BY <1>7 DEF SendMark, NoWrite
  <2>2. pushed' \in Nat
    BY <1>7 DEF SendMark, NoWrite
  <2>3. plen' \in 0 .. Cap
    BY <1>7 DEF SendMark, NoWrite
  <2>4. pfin' \in BOOLEAN
    BY <1>7 DEF SendMark, NoWrite
  <2> QED
    BY <1>7, <2>1, <2>2, <2>3, <2>4 DEF SendMark, NoWrite
<1>8. CASE HandleDrained
  BY <1>8 DEF HandleDrained
<1>9. CASE HandleDestroy
  <2>1. plen' \in 0 .. Cap
    BY <1>9 DEF HandleDestroy, NoWrite
  <2>2. pfin' \in BOOLEAN
    BY <1>9 DEF HandleDestroy, NoWrite
  <2> QED
    BY <1>9, <2>1, <2>2 DEF HandleDestroy, NoWrite
<1>10. ASSUME NEW size \in ResetSizes, ResetStream(size)
       PROVE  TypeOK'
  BY <1>10 DEF ResetStream
<1>11. CASE HandleMark
  BY <1>11 DEF HandleMark, Command
<1>12. CASE HandleResetHeld
  BY <1>12 DEF HandleResetHeld, Command
<1>13. CASE HandleResetDefer
  BY <1>13, ResetCommand DEF HandleResetDefer, Command
<1>14. CASE HandleResetNow
  <2>1. txQueue' \in Seq(Commands)
    BY <1>14, ResetCommand DEF HandleResetNow, Command, SendReset
  <2>2. head' \in 0 .. tail' /\ tail' - head' <= Cap /\ discarded' \in Nat
    BY <1>14, ResetCommand DEF HandleResetNow, Command, SendReset
  <2>3. sentReset' \in {NoReset} \cup 0 .. Total
    BY <1>14, ResetCommand DEF HandleResetNow, Command, SendReset
  <2> QED
    BY <1>14, <2>1, <2>2, <2>3, ResetCommand DEF HandleResetNow, Command,
       SendReset
<1>15. CASE HandleResetNoMemory
  <2>1. txQueue' \in Seq(Commands)
    BY <1>15, ResetCommand DEF HandleResetNoMemory, Command, SendReset
  <2>2. head' \in 0 .. tail' /\ tail' - head' <= Cap /\ discarded' \in Nat
    BY <1>15, ResetCommand DEF HandleResetNoMemory, Command, SendReset
  <2>3. sentReset' \in {NoReset} \cup 0 .. Total
    BY <1>15, ResetCommand DEF HandleResetNoMemory, Command, SendReset
  <2> QED
    BY <1>15, <2>1, <2>2, <2>3, ResetCommand DEF HandleResetNoMemory, Command,
       SendReset
<1>16. CASE RunDeferredReset
  <2>1. head' \in 0 .. tail' /\ tail' - head' <= Cap /\ discarded' \in Nat
    BY <1>16 DEF RunDeferredReset, SendReset
  <2>2. sentReset' \in {NoReset} \cup 0 .. Total
    BY <1>16 DEF RunDeferredReset, SendReset
  <2> QED
    BY <1>16, <2>1, <2>2 DEF RunDeferredReset, SendReset
<1>17. ASSUME NEW n \in 0 .. MaxWant, PrepareFin(n)
       PROVE  TypeOK'
  BY <1>17 DEF PrepareFin
<1>18. CASE PrepareUsed
  BY <1>18 DEF PrepareUsed
<1>19. CASE PrepareProvide
  <2>1. PICK d \in 0 .. sawUsed : Provides(d)
    BY <1>19, Provided
  <2>2. head' \in 0 .. tail' /\ tail' - head' <= Cap /\ tail' \in 0 .. Total
    BY <2>1 DEF Provides
  <2>3. sent' \in 0 .. Total /\ pulled' \in Nat
    BY <2>1 DEF Provides
  <2>4. want' \in 0 .. MaxWant /\ sawUsed' \in 0 .. Cap
    BY <1>19 DEF PrepareProvide, NoPull
  <2>5. sentFin' \in BOOLEAN
    BY <1>19 DEF PrepareProvide
  <2>6. active' \in BOOLEAN
    BY <1>19 DEF PrepareProvide
  <2>7. sawFin' \in BOOLEAN
    BY <1>19 DEF PrepareProvide, NoPull
  <2> QED
    BY <1>19, <2>2, <2>3, <2>4, <2>5, <2>6, <2>7 DEF PrepareProvide
<1>20. CASE PrepareTake
  BY <1>20 DEF PrepareTake
<1>21. CASE PrepareTakeNoMemory
  BY <1>21 DEF PrepareTakeNoMemory
<1>22. CASE StreamReleased
  BY <1>22 DEF StreamReleased
<1>23. CASE UNCHANGED vars
  BY <1>23 DEF vars
<1> QED
  BY <1>1, <1>2, <1>3, <1>4, <1>5, <1>6, <1>7, <1>8, <1>9, <1>10, <1>11,
     <1>12, <1>13, <1>14, <1>15, <1>16, <1>17, <1>18, <1>19, <1>20, <1>21,
     <1>22, <1>23 DEF Next, SendStep, CommandStep, PrepareStep

\* Only the writer moves the tail, and the room it has seen only grows.
LEMMA WritingStep ==
    TypeOK /\ Writing /\ Wire /\ Reset /\ [Next]_vars => Writing'
<1> SUFFICES ASSUME TypeOK, Writing, Wire, Reset, [Next]_vars
             PROVE  Writing'
  OBVIOUS
<1> USE CapAssumption, BoundsAssumption DEF TypeOK, Writing, Room, ringVars,
        resetVars, countVars, writerVars, workerVars, wireVars, eventVars
<1>1. ASSUME NEW n \in 0 .. Cap, NEW f \in BOOLEAN, NewSend(n, f)
      PROVE  Writing'
  BY <1>1 DEF NewSend
<1>2. CASE SendCheck
  BY <1>2 DEF SendCheck
<1>3. CASE SendArm
  BY <1>3 DEF SendArm
<1>4. CASE SendRecheck
  BY <1>4 DEF SendRecheck
<1>5. CASE SendPush
  BY <1>5 DEF SendPush
<1>6. CASE SendFin
  BY <1>6 DEF SendFin
<1>7. CASE SendMark
  BY <1>7 DEF SendMark, NoWrite
<1>8. CASE HandleDrained
  BY <1>8 DEF HandleDrained
<1>9. CASE HandleDestroy
  BY <1>9 DEF HandleDestroy, NoWrite
<1>10. ASSUME NEW size \in ResetSizes, ResetStream(size)
       PROVE  Writing'
  BY <1>10 DEF ResetStream
<1>11. CASE HandleMark
  BY <1>11 DEF HandleMark, Command
<1>12. CASE HandleResetHeld
  BY <1>12 DEF HandleResetHeld, Command
<1>13. CASE HandleResetDefer
  BY <1>13, ResetCommand DEF HandleResetDefer, Command
<1>14. CASE HandleResetNow
  BY <1>14, ResetCommand DEF HandleResetNow, Command, SendReset
<1>15. CASE HandleResetNoMemory
  BY <1>15, ResetCommand DEF HandleResetNoMemory, Command, SendReset
<1>16. CASE RunDeferredReset
  BY <1>16 DEF RunDeferredReset, SendReset
<1>17. ASSUME NEW n \in 0 .. MaxWant, PrepareFin(n)
       PROVE  Writing'
  BY <1>17 DEF PrepareFin
<1>18. CASE PrepareUsed
  BY <1>18 DEF PrepareUsed
<1>19. CASE PrepareProvide
  <2>1. PICK d \in 0 .. sawUsed : Provides(d)
    BY <1>19, Provided
  <2>2. /\ ppc' \in {"check", "arm", "recheck", "parked", "push"} =>
                 tail' + plen' <= Total
        /\ ppc' = "push" => plen' <= Room'
    BY <2>1 DEF Provides
  <2>3. fin' => ppc' \in {"idle", "mark", "done"}
    BY <1>19 DEF PrepareProvide
  <2> QED
    BY <2>2, <2>3
<1>20. CASE PrepareTake
  BY <1>20 DEF PrepareTake
<1>21. CASE PrepareTakeNoMemory
  BY <1>21 DEF PrepareTakeNoMemory
<1>22. CASE StreamReleased
  BY <1>22 DEF StreamReleased
<1>23. CASE UNCHANGED vars
  BY <1>23 DEF vars
<1> QED
  BY <1>1, <1>2, <1>3, <1>4, <1>5, <1>6, <1>7, <1>8, <1>9, <1>10, <1>11,
     <1>12, <1>13, <1>14, <1>15, <1>16, <1>17, <1>18, <1>19, <1>20, <1>21,
     <1>22, <1>23 DEF Next, SendStep, CommandStep, PrepareStep

\* The counters move with the ring.
LEMMA CountsStep ==
    TypeOK /\ Counts /\ [Next]_vars => Counts'
<1> SUFFICES ASSUME TypeOK, Counts, [Next]_vars
             PROVE  Counts'
  OBVIOUS
<1> USE DEF TypeOK, Counts, ringVars, resetVars, countVars, writerVars,
        workerVars, wireVars, eventVars
<1>1. ASSUME NEW n \in 0 .. Cap, NEW f \in BOOLEAN, NewSend(n, f)
      PROVE  Counts'
  BY <1>1 DEF NewSend
<1>2. CASE SendCheck
  BY <1>2 DEF SendCheck
<1>3. CASE SendArm
  BY <1>3 DEF SendArm
<1>4. CASE SendRecheck
  BY <1>4 DEF SendRecheck
<1>5. CASE SendPush
  BY <1>5 DEF SendPush
<1>6. CASE SendFin
  BY <1>6 DEF SendFin
<1>7. CASE SendMark
  BY <1>7 DEF SendMark, NoWrite
<1>8. CASE HandleDrained
  BY <1>8 DEF HandleDrained
<1>9. CASE HandleDestroy
  BY <1>9 DEF HandleDestroy, NoWrite
<1>10. ASSUME NEW size \in ResetSizes, ResetStream(size)
       PROVE  Counts'
  BY <1>10 DEF ResetStream
<1>11. CASE HandleMark
  BY <1>11 DEF HandleMark, Command
<1>12. CASE HandleResetHeld
  BY <1>12 DEF HandleResetHeld, Command
<1>13. CASE HandleResetDefer
  BY <1>13 DEF HandleResetDefer, Command
<1>14. CASE HandleResetNow
  BY <1>14 DEF HandleResetNow, Command, SendReset
<1>15. CASE HandleResetNoMemory
  BY <1>15 DEF HandleResetNoMemory, Command, SendReset
<1>16. CASE RunDeferredReset
  BY <1>16 DEF RunDeferredReset, SendReset
<1>17. ASSUME NEW n \in 0 .. MaxWant, PrepareFin(n)
       PROVE  Counts'
  BY <1>17 DEF PrepareFin
<1>18. CASE PrepareUsed
  BY <1>18 DEF PrepareUsed
<1>19. CASE PrepareProvide
  BY <1>19 DEF PrepareProvide, NoPull, Sendable, Smaller
<1>20. CASE PrepareTake
  BY <1>20 DEF PrepareTake
<1>21. CASE PrepareTakeNoMemory
  BY <1>21 DEF PrepareTakeNoMemory
<1>22. CASE StreamReleased
  BY <1>22 DEF StreamReleased
<1>23. CASE UNCHANGED vars
  BY <1>23 DEF vars
<1> QED
  BY <1>1, <1>2, <1>3, <1>4, <1>5, <1>6, <1>7, <1>8, <1>9, <1>10, <1>11,
     <1>12, <1>13, <1>14, <1>15, <1>16, <1>17, <1>18, <1>19, <1>20, <1>21,
     <1>22, <1>23 DEF Next, SendStep, CommandStep, PrepareStep

\* What was pulled was sent.
LEMMA WireStep ==
    TypeOK /\ Writing /\ Wire /\ Reset /\ [Next]_vars => Wire'
<1> SUFFICES ASSUME TypeOK, Writing, Wire, Reset, [Next]_vars
             PROVE  Wire'
  OBVIOUS
<1> USE DEF TypeOK, Writing, Wire, Reset, Ended, NoReset, ringVars,
        resetVars, countVars, writerVars, workerVars, wireVars, eventVars
<1>1. ASSUME NEW n \in 0 .. Cap, NEW f \in BOOLEAN, NewSend(n, f)
      PROVE  Wire'
  BY <1>1 DEF NewSend
<1>2. CASE SendCheck
  BY <1>2 DEF SendCheck
<1>3. CASE SendArm
  BY <1>3 DEF SendArm
<1>4. CASE SendRecheck
  BY <1>4 DEF SendRecheck
<1>5. CASE SendPush
  BY <1>5 DEF SendPush
<1>6. CASE SendFin
  BY <1>6 DEF SendFin
<1>7. CASE SendMark
  BY <1>7 DEF SendMark, NoWrite
<1>8. CASE HandleDrained
  BY <1>8 DEF HandleDrained
<1>9. CASE HandleDestroy
  BY <1>9 DEF HandleDestroy, NoWrite
<1>10. ASSUME NEW size \in ResetSizes, ResetStream(size)
       PROVE  Wire'
  BY <1>10 DEF ResetStream
<1>11. CASE HandleMark
  BY <1>11 DEF HandleMark, Command
<1>12. CASE HandleResetHeld
  BY <1>12 DEF HandleResetHeld, Command
<1>13. CASE HandleResetDefer
  BY <1>13, ResetCommand DEF HandleResetDefer, Command
<1>14. CASE HandleResetNow
  BY <1>14, ResetCommand DEF HandleResetNow, Command, SendReset
<1>15. CASE HandleResetNoMemory
  BY <1>15, ResetCommand DEF HandleResetNoMemory, Command, SendReset
<1>16. CASE RunDeferredReset
  BY <1>16 DEF RunDeferredReset, SendReset
<1>17. ASSUME NEW n \in 0 .. MaxWant, PrepareFin(n)
       PROVE  Wire'
  BY <1>17 DEF PrepareFin
<1>18. CASE PrepareUsed
  BY <1>18 DEF PrepareUsed
<1>19. CASE PrepareProvide
  <2>1. PICK d \in 0 .. sawUsed : Provides(d) /\ (sentFin' => d = sawUsed)
    BY <1>19, Provided
  <2>2. wpc = "provide" /\ ~Ended /\ sent = head /\ sentReset = NoReset
    BY <1>19 DEF PrepareProvide
  <2>3. sent' = head' /\ wpc' = "take" /\ ~sawFin' /\ sentReset' = NoReset
    BY <1>19, <2>1, <2>2 DEF PrepareProvide, NoPull, Provides
  <2>4. sentFin' => sawFin /\ fin'
    BY <1>19 DEF PrepareProvide
  <2>5. ASSUME sentFin' PROVE sent' = tail'
    <3>1. d = sawUsed /\ sawFin
      BY <2>1, <2>4, <2>5
    <3>2. sawUsed = tail - head
      BY <2>2, <3>1
    <3> QED
      BY <2>1, <2>2, <3>1, <3>2 DEF Provides
  <2>6. sentFin' => fin' /\ sent' = tail' /\ sentReset' = NoReset
    BY <2>3, <2>4, <2>5, Zenon
  <2>7. sent' <= head'
    BY <2>1, <2>3 DEF Provides
  <2> QED
    BY <2>3, <2>6, <2>7, Zenon DEF Wire
<1>20. CASE PrepareTake
  BY <1>20 DEF PrepareTake
<1>21. CASE PrepareTakeNoMemory
  BY <1>21 DEF PrepareTakeNoMemory
<1>22. CASE StreamReleased
  BY <1>22 DEF StreamReleased
<1>23. CASE UNCHANGED vars
  BY <1>23 DEF vars
<1> QED
  BY <1>1, <1>2, <1>3, <1>4, <1>5, <1>6, <1>7, <1>8, <1>9, <1>10, <1>11,
     <1>12, <1>13, <1>14, <1>15, <1>16, <1>17, <1>18, <1>19, <1>20, <1>21,
     <1>22, <1>23 DEF Next, SendStep, CommandStep, PrepareStep

\* A reset waits for its reliable bytes.
LEMMA ResetStep ==
    TypeOK /\ Wire /\ Reset /\ [Next]_vars => Reset'
<1> SUFFICES ASSUME TypeOK, Wire, Reset, [Next]_vars
             PROVE  Reset'
  OBVIOUS
<1> USE DEF TypeOK, Wire, Reset, KeepsReliable, Ended, NoReset, ringVars,
        resetVars, countVars, writerVars, workerVars, wireVars, eventVars
<1>1. ASSUME NEW n \in 0 .. Cap, NEW f \in BOOLEAN, NewSend(n, f)
      PROVE  Reset'
  BY <1>1 DEF NewSend
<1>2. CASE SendCheck
  BY <1>2 DEF SendCheck
<1>3. CASE SendArm
  BY <1>3 DEF SendArm
<1>4. CASE SendRecheck
  BY <1>4 DEF SendRecheck
<1>5. CASE SendPush
  BY <1>5 DEF SendPush
<1>6. CASE SendFin
  BY <1>6 DEF SendFin
<1>7. CASE SendMark
  BY <1>7 DEF SendMark, NoWrite
<1>8. CASE HandleDrained
  BY <1>8 DEF HandleDrained
<1>9. CASE HandleDestroy
  BY <1>9 DEF HandleDestroy, NoWrite
<1>10. ASSUME NEW size \in ResetSizes, ResetStream(size)
       PROVE  Reset'
  BY <1>10 DEF ResetStream
<1>11. CASE HandleMark
  BY <1>11 DEF HandleMark, Command
<1>12. CASE HandleResetHeld
  BY <1>12 DEF HandleResetHeld, Command
<1>13. CASE HandleResetDefer
  BY <1>13, ResetCommand DEF HandleResetDefer, Command
<1>14. CASE HandleResetNow
  BY <1>14, ResetCommand DEF HandleResetNow, Command, SendReset
<1>15. CASE HandleResetNoMemory
  BY <1>15, ResetCommand DEF HandleResetNoMemory, Command, SendReset
<1>16. CASE RunDeferredReset
  BY <1>16 DEF RunDeferredReset, SendReset
<1>17. ASSUME NEW n \in 0 .. MaxWant, PrepareFin(n)
       PROVE  Reset'
  BY <1>17 DEF PrepareFin
<1>18. CASE PrepareUsed
  BY <1>18 DEF PrepareUsed
<1>19. CASE PrepareProvide
  <2>1. PICK d \in 0 .. sawUsed : Provides(d)
    BY <1>19, Provided
  <2>2. UNCHANGED <<resetPending, reliableSize>> /\ (resetPending => ~sentFin')
    BY <1>19 DEF PrepareProvide
  <2>3. resetPending' => head' <= reliableSize' /\ reliableSize' <= tail'
    BY <2>1, <2>2 DEF Provides
  <2>4. KeepsReliable'
    BY <2>1 DEF Provides
  <2> QED
    BY <2>2, <2>3, <2>4
<1>20. CASE PrepareTake
  BY <1>20 DEF PrepareTake
<1>21. CASE PrepareTakeNoMemory
  BY <1>21 DEF PrepareTakeNoMemory
<1>22. CASE StreamReleased
  BY <1>22 DEF StreamReleased
<1>23. CASE UNCHANGED vars
  BY <1>23 DEF vars
<1> QED
  BY <1>1, <1>2, <1>3, <1>4, <1>5, <1>6, <1>7, <1>8, <1>9, <1>10, <1>11,
     <1>12, <1>13, <1>14, <1>15, <1>16, <1>17, <1>18, <1>19, <1>20, <1>21,
     <1>22, <1>23 DEF Next, SendStep, CommandStep, PrepareStep

\* Bytes in the ring are polled for.
LEMMA BackedStep ==
    TypeOK /\ Writing /\ Wire /\ Reset /\ Backed /\ [Next]_vars => Backed'
<1> SUFFICES ASSUME TypeOK, Writing, Wire, Reset, Backed, [Next]_vars
             PROVE  Backed'
  OBVIOUS
<1> USE DEF TypeOK, Writing, Wire, Backed, MarkComing, Ended, NoReset,
        Commands, ringVars, resetVars, countVars, writerVars, workerVars,
        wireVars, eventVars
<1>1. ASSUME NEW n \in 0 .. Cap, NEW f \in BOOLEAN, NewSend(n, f)
      PROVE  Backed'
  BY <1>1 DEF NewSend
<1>2. CASE SendCheck
  BY <1>2 DEF SendCheck
<1>3. CASE SendArm
  BY <1>3 DEF SendArm
<1>4. CASE SendRecheck
  BY <1>4 DEF SendRecheck
<1>5. CASE SendPush
  BY <1>5 DEF SendPush
<1>6. CASE SendFin
  BY <1>6 DEF SendFin
<1>7. CASE SendMark
  BY <1>7 DEF SendMark, NoWrite
<1>8. CASE HandleDrained
  BY <1>8 DEF HandleDrained
<1>9. CASE HandleDestroy
  BY <1>9 DEF HandleDestroy, NoWrite
<1>10. ASSUME NEW size \in ResetSizes, ResetStream(size)
       PROVE  Backed'
  BY <1>10 DEF ResetStream
<1>11. CASE HandleMark
  BY <1>11 DEF HandleMark, Command
<1>12. CASE HandleResetHeld
  BY <1>12 DEF HandleResetHeld, Command
<1>13. CASE HandleResetDefer
  BY <1>13, ResetCommand DEF HandleResetDefer, Command
<1>14. CASE HandleResetNow
  BY <1>14, ResetCommand DEF HandleResetNow, Command, SendReset
<1>15. CASE HandleResetNoMemory
  BY <1>15, ResetCommand DEF HandleResetNoMemory, Command, SendReset
<1>16. CASE RunDeferredReset
  BY <1>16 DEF RunDeferredReset, SendReset
<1>17. ASSUME NEW n \in 0 .. MaxWant, PrepareFin(n)
       PROVE  Backed'
  BY <1>17 DEF PrepareFin
<1>18. CASE PrepareUsed
  BY <1>18 DEF PrepareUsed
<1>19. CASE PrepareProvide
  <2>1. /\ wpc' = "take" /\ head' = head + Smaller(Sendable, want)
        /\ UNCHANGED <<tail, ppc, txQueue, resetPending>>
    BY <1>19 DEF PrepareProvide
  <2>2. active' <=> Sendable > Smaller(Sendable, want)
    BY <1>19 DEF PrepareProvide
  <2> SUFFICES ASSUME ~resetPending, head' < tail', ~active' PROVE MarkComing'
    BY <2>1
  <2>4. ~Ended /\ wpc = "provide"
    BY <1>19 DEF PrepareProvide
  <2>3. Sendable = sawUsed /\ Smaller(Sendable, want) = sawUsed
    BY <2>2, <2>4, Pull
  <2>5. sawUsed < tail - head
    BY <2>1, <2>3
  <2>6. MarkComing
    BY <2>4, <2>5
  <2> QED
    BY <2>1, <2>6
<1>20. CASE PrepareTake
  BY <1>20 DEF PrepareTake
<1>21. CASE PrepareTakeNoMemory
  BY <1>21 DEF PrepareTakeNoMemory
<1>22. CASE StreamReleased
  BY <1>22 DEF StreamReleased
<1>23. CASE UNCHANGED vars
  BY <1>23 DEF vars
<1> QED
  BY <1>1, <1>2, <1>3, <1>4, <1>5, <1>6, <1>7, <1>8, <1>9, <1>10, <1>11,
     <1>12, <1>13, <1>14, <1>15, <1>16, <1>17, <1>18, <1>19, <1>20, <1>21,
     <1>22, <1>23 DEF Next, SendStep, CommandStep, PrepareStep

\* A waiting writer is answered.
LEMMA ParkingStep ==
    TypeOK /\ Writing /\ Wire /\ Reset /\ Parking /\ [Next]_vars => Parking'
<1> SUFFICES ASSUME TypeOK, Writing, Wire, Reset, Parking, [Next]_vars
             PROVE  Parking'
  OBVIOUS
<1> USE DEF TypeOK, Writing, Parking, Room, Ended, NoReset, ringVars,
        resetVars, countVars, writerVars, workerVars, wireVars, eventVars
<1>1. ASSUME NEW n \in 0 .. Cap, NEW f \in BOOLEAN, NewSend(n, f)
      PROVE  Parking'
  BY <1>1 DEF NewSend
<1>2. CASE SendCheck
  BY <1>2 DEF SendCheck
<1>3. CASE SendArm
  BY <1>3 DEF SendArm
<1>4. CASE SendRecheck
  BY <1>4 DEF SendRecheck
<1>5. CASE SendPush
  BY <1>5 DEF SendPush
<1>6. CASE SendFin
  BY <1>6 DEF SendFin
<1>7. CASE SendMark
  BY <1>7 DEF SendMark, NoWrite
<1>8. CASE HandleDrained
  BY <1>8 DEF HandleDrained
<1>9. CASE HandleDestroy
  BY <1>9 DEF HandleDestroy, NoWrite
<1>10. ASSUME NEW size \in ResetSizes, ResetStream(size)
       PROVE  Parking'
  BY <1>10 DEF ResetStream
<1>11. CASE HandleMark
  BY <1>11 DEF HandleMark, Command
<1>12. CASE HandleResetHeld
  BY <1>12 DEF HandleResetHeld, Command
<1>13. CASE HandleResetDefer
  BY <1>13, ResetCommand DEF HandleResetDefer, Command
<1>14. CASE HandleResetNow
  BY <1>14, ResetCommand DEF HandleResetNow, Command, SendReset
<1>15. CASE HandleResetNoMemory
  BY <1>15, ResetCommand DEF HandleResetNoMemory, Command, SendReset
<1>16. CASE RunDeferredReset
  BY <1>16 DEF RunDeferredReset, SendReset
<1>17. ASSUME NEW n \in 0 .. MaxWant, PrepareFin(n)
       PROVE  Parking'
  BY <1>17 DEF PrepareFin
<1>18. CASE PrepareUsed
  BY <1>18 DEF PrepareUsed
<1>19. CASE PrepareProvide
  <2>1. wpc' = "take" /\ UNCHANGED <<ppc, drainedQ, armed>>
    BY <1>19 DEF PrepareProvide
  <2> QED
    BY <2>1
<1>20. CASE PrepareTake
  BY <1>20 DEF PrepareTake
<1>21. CASE PrepareTakeNoMemory
  BY <1>21 DEF PrepareTakeNoMemory
<1>22. CASE StreamReleased
  BY <1>22 DEF StreamReleased
<1>23. CASE UNCHANGED vars
  BY <1>23 DEF vars
<1> QED
  BY <1>1, <1>2, <1>3, <1>4, <1>5, <1>6, <1>7, <1>8, <1>9, <1>10, <1>11,
     <1>12, <1>13, <1>14, <1>15, <1>16, <1>17, <1>18, <1>19, <1>20, <1>21,
     <1>22, <1>23 DEF Next, SendStep, CommandStep, PrepareStep

-----------------------------------------------------------------------------
(* The theorems.                                                           *)

LEMMA InitIInv == Init => IInv
<1> SUFFICES ASSUME Init PROVE IInv
  OBVIOUS
<1> USE CapAssumption, BoundsAssumption DEF Init, NoReset
<1>1. TypeOK
  <2>1. /\ head \in 0 .. tail /\ tail \in 0 .. Total /\ tail - head <= Cap
        /\ reliableSize \in 0 .. Total /\ drainedQ \in Nat
        /\ pushed \in Nat /\ pulled \in Nat /\ discarded \in Nat
        /\ plen \in 0 .. Cap /\ resets \in 0 .. MaxResets
        /\ want \in 0 .. MaxWant /\ sawUsed \in 0 .. Cap /\ sent \in 0 .. Total
    OBVIOUS
  <2>2. armed \in {0, 1} /\ txQueue \in Seq(Commands)
    OBVIOUS
  <2>3. ppc \in WriterPoints /\ wpc \in WorkerPoints
    BY DEF WriterPoints, WorkerPoints
  <2> QED
    BY <2>1, <2>2, <2>3 DEF TypeOK
<1>2. Writing /\ Counts
  BY DEF Writing, Counts, Room
<1>3. Wire /\ Reset
  BY DEF Wire, Reset, KeepsReliable, Ended
<1>4. Backed /\ Parking
  BY DEF Backed, Parking
<1> QED
  BY <1>1, <1>2, <1>3, <1>4 DEF IInv

\* IInv, which ties the ring, the counters, the writer's wait, the held reset
\* and what picoquic was given to each other, holds in every reachable state.
THEOREM Invariance == Spec => []IInv
<1>1. IInv /\ [Next]_vars => IInv'
  BY TypeStep, WritingStep, CountsStep, WireStep, ResetStep, BackedStep,
     ParkingStep DEF IInv
<1> QED
  BY InitIInv, <1>1, PTL DEF Spec

\* The state of the send path stays within its types: the ring is never
\* overfilled nor popped beyond its tail.
THEOREM TypeCorrect == Spec => []TypeOK
<1>1. IInv => TypeOK
  BY DEF IInv
<1> QED
  BY Invariance, <1>1, PTL

\* prepare_to_send reads fin_pending before the ring: a FIN never goes out at
\* an old tail.
THEOREM FinBehindAllBytes == Spec => []FinSendsAll
<1>1. IInv => FinSendsAll
  BY DEF IInv, Wire, FinSendsAll
<1> QED
  BY Invariance, <1>1, PTL

\* aiopquic_defer_reset: a reliable reset has its bytes sent, those and no
\* more.
THEOREM ReliableReset == Spec => []ResetKeepsReliable
<1>1. IInv => ResetKeepsReliable
  BY DEF IInv, TypeOK, Wire, Reset, ResetKeepsReliable, KeepsReliable,
         HoldsBack
<1> QED
  BY Invariance, <1>1, PTL

\* The TX gate's budget: the counters of queued bytes agree with the ring.
THEOREM BudgetExact == Spec => []QueuedIsRing
<1>1. IInv => QueuedIsRing
  BY DEF IInv, TypeOK, Counts, QueuedIsRing
<1> QED
  BY Invariance, <1>1, PTL

\* tx_drain_pending: a writer that found the ring full is never left waiting
\* for nothing.
THEOREM WriterServed == Spec => []ParkedWriterIsServed
<1>1. ASSUME IInv PROVE KeepsArm
  BY <1>1 DEF IInv, Parking, KeepsArm
<1>2. ASSUME IInv PROVE Served
  <2> SUFFICES ASSUME ppc = "parked", wpc = "idle", ~shortMem,
                      drainedQ = 0, ~Ended, ~resetPending
               PROVE  /\ armed = 1
                      /\ \/ active
                         \/ \E i \in 1 .. Len(txQueue) : txQueue[i].kind = "MARK"
    BY <1>2 DEF Served, IInv, TypeOK
  <2>1. armed = 1 /\ Room < plen
    BY <1>2 DEF IInv, Parking
  <2>2. head < tail
    BY <1>2, <2>1, CapAssumption DEF IInv, TypeOK, Room
  <2>3. active \/ MarkComing
    BY <1>2, <2>2 DEF IInv, Backed
  <2> QED
    BY <2>1, <2>3 DEF MarkComing
<1>3. IInv => ParkedWriterIsServed
  BY <1>1, <1>2 DEF ParkedWriterIsServed
<1> QED
  BY Invariance, <1>3, PTL
=============================================================================
