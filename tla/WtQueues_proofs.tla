--------------------------- MODULE WtQueues_proofs ---------------------------
(***************************************************************************)
(* Lemmas on the two queues between a WebTransport session and its worker: *)
(* what more entries, or one entry less, mean for a stream's borrowed sc   *)
(* and for the futures that wait for a reply, and what the worker's        *)
(* helpers push.                                                           *)
(***************************************************************************)
EXTENDS WtSession, FiniteSetTheorems, WellFoundedInduction, TLAPS

\* The entries of the queues.
Plain == {"new", "ready", "refused", "closed", "cnxclosed"}
Kinds == Plain \cup {"newstream", "data", "fin", "reset", "stop", "created",
                     "failed", "destroy", "release"}
Events == [t : Kinds, d : Streams \cup {NoStream}, k : Nat]
Commands == [t : {"open", "create", "op", "close", "fin", "cleanup",
                  "deregister"}, k : Nat]
\* The entries that concern a stream name one.
Formed(q) ==
    \A i \in 1 .. Len(q) : /\ q[i].t \notin Plain \cup {"failed", "stop"}
                                  => q[i].d \in Streams
                           /\ q[i].t = "release" => q[i].k = 0

\* What a queue holds for stream d.
Is(e, t, d) == e.t = t /\ e.d = d
Adds(e, d) == e.d = d /\ e.t \in {"newstream", "created"}
BorrowedIn(q, d) == \E i \in 1 .. Len(q) : Borrows(q[i], d)
ReleasedIn(q, d) == \E i \in 1 .. Len(q) : Is(q[i], "release", d)
AddedIn(q, d) == \E i \in 1 .. Len(q) : Adds(q[i], d)

\* Nothing that borrows is behind the release, nothing that gives the sc to
\* Python behind the STREAM_DESTROY.
LastRelease(q, d) ==
    \A i, j \in 1 .. Len(q) :
        i < j /\ Is(q[i], "release", d) => ~Borrows(q[j], d)
LastDestroy(q, d) ==
    \A i, j \in 1 .. Len(q) :
        i < j /\ Is(q[i], "destroy", d) => ~Adds(q[j], d)

\* Ahead of the release Python drops the sc, or has none and gets none.
DroppedIn(q, d, S) ==
    \A i \in 1 .. Len(q) : Is(q[i], "release", d) =>
        \/ \E j \in 1 .. Len(q) : j < i /\ Is(q[j], "destroy", d)
        \/ d \notin S /\ \A j \in 1 .. Len(q) : j < i => ~Adds(q[j], d)

-----------------------------------------------------------------------------
(* Queues.                                                                 *)

\* The entries of two queues in a row.
LEMMA Concat ==
    ASSUME NEW T, NEW q \in Seq(T), NEW r \in Seq(T)
    PROVE  /\ q \o r \in Seq(T) /\ Len(q \o r) = Len(q) + Len(r)
           /\ Len(q) \in Nat /\ Len(r) \in Nat
           /\ \A i \in 1 .. Len(q) : (q \o r)[i] = q[i]
           /\ \A i \in 1 .. Len(r) : (q \o r)[Len(q) + i] = r[i]
           /\ \A i \in 1 .. Len(q \o r) :
                  \/ i \in 1 .. Len(q)
                  \/ /\ i > Len(q) /\ i - Len(q) \in 1 .. Len(r)
                     /\ (q \o r)[i] = r[i - Len(q)]
  OBVIOUS

\* The entries behind the first.
LEMMA Rest ==
    ASSUME NEW T, NEW q \in Seq(T), q # << >>
    PROVE  /\ Tail(q) \in Seq(T) /\ Len(q) \in Nat /\ Len(Tail(q)) = Len(q) - 1
           /\ Head(q) = q[1] /\ Head(q) \in T /\ 1 \in 1 .. Len(q)
           /\ \A i \in 1 .. Len(Tail(q)) :
                  i + 1 \in 1 .. Len(q) /\ Tail(q)[i] = q[i + 1]
           /\ \A i \in 1 .. Len(q) :
                  i # 1 => i - 1 \in 1 .. Len(Tail(q)) /\ Tail(q)[i - 1] = q[i]
  OBVIOUS

\* A queue with one more entry.
LEMMA Longer ==
    ASSUME NEW T, NEW q \in Seq(T), NEW e \in T
    PROVE  /\ Append(q, e) \in Seq(T) /\ Len(Append(q, e)) = Len(q) + 1
           /\ Len(q) \in Nat /\ Append(q, e)[Len(q) + 1] = e
           /\ \A i \in 1 .. Len(q) : Append(q, e)[i] = q[i]
           /\ Append(q, e) = q \o <<e>> /\ <<e>> \in Seq(T)
  OBVIOUS

\* Formed of two queues in a row, and of a queue's rest.
LEMMA FormedConcat ==
    ASSUME NEW q \in Seq(Events), NEW r \in Seq(Events), Formed(q), Formed(r)
    PROVE  Formed(q \o r)
  BY Concat DEF Formed
LEMMA FormedRest ==
    ASSUME NEW q \in Seq(Events), q # << >>, Formed(q)
    PROVE  Formed(Tail(q))
  BY Rest DEF Formed

\* Before the release of d in r comes its STREAM_DESTROY.
Led(r, d) ==
    \A i \in 1 .. Len(r) : Is(r[i], "release", d) =>
        \E j \in 1 .. Len(r) : j < i /\ Is(r[j], "destroy", d)

\* What more entries mean for stream d.
LEMMA StreamConcat ==
    ASSUME NEW q \in Seq(Events), NEW r \in Seq(Events), NEW d
    PROVE  /\ BorrowedIn(q \o r, d) <=> BorrowedIn(q, d) \/ BorrowedIn(r, d)
           /\ ReleasedIn(q \o r, d) <=> ReleasedIn(q, d) \/ ReleasedIn(r, d)
           /\ (/\ LastRelease(q, d) /\ LastRelease(r, d)
               /\ ~(ReleasedIn(q, d) /\ BorrowedIn(r, d)))
                  => LastRelease(q \o r, d)
           /\ (/\ LastDestroy(q, d) /\ LastDestroy(r, d)
               /\ ~(BorrowedIn(q, d) /\ AddedIn(r, d)))
                  => LastDestroy(q \o r, d)
           /\ \A S : DroppedIn(q, d, S) /\ Led(r, d)
                        => DroppedIn(q \o r, d, S)
<1> DEFINE n == Len(q)
           c == q \o r
<1>1. /\ c \in Seq(Events) /\ Len(c) = n + Len(r) /\ n \in Nat /\ Len(r) \in Nat
      /\ \A i \in 1 .. n : i \in 1 .. Len(c) /\ c[i] = q[i]
      /\ \A i \in 1 .. Len(r) : n + i \in 1 .. Len(c) /\ c[n + i] = r[i]
      /\ \A i \in 1 .. Len(c) :
             \/ i \in 1 .. n /\ c[i] = q[i]
             \/ i > n /\ i - n \in 1 .. Len(r) /\ c[i] = r[i - n]
  BY Concat
<1> HIDE DEF c, n
<1>2. BorrowedIn(c, d) <=> BorrowedIn(q, d) \/ BorrowedIn(r, d)
  BY <1>1 DEF BorrowedIn, n
<1>3. ReleasedIn(c, d) <=> ReleasedIn(q, d) \/ ReleasedIn(r, d)
  BY <1>1 DEF ReleasedIn, n
<1>4. ASSUME LastRelease(q, d), LastRelease(r, d),
             ~(ReleasedIn(q, d) /\ BorrowedIn(r, d))
      PROVE  LastRelease(c, d)
  <2> SUFFICES ASSUME NEW i \in 1 .. Len(c), NEW j \in 1 .. Len(c), i < j,
                      Is(c[i], "release", d), Borrows(c[j], d)
               PROVE  FALSE
    BY DEF LastRelease
  <2>1. CASE i \in 1 .. n /\ j \in 1 .. n
    BY <1>1, <1>4, <2>1 DEF LastRelease, n
  <2>2. CASE i \in 1 .. n /\ j > n
    <3>1. i \in 1 .. Len(q) /\ Is(q[i], "release", d)
      BY <1>1, <2>2 DEF n
    <3>2. j - n \in 1 .. Len(r) /\ Borrows(r[j - n], d)
      BY <1>1, <2>2
    <3> QED
      BY <1>4, <3>1, <3>2 DEF ReleasedIn, BorrowedIn
  <2>3. CASE i > n
    <3>1. /\ i - n \in 1 .. Len(r) /\ j - n \in 1 .. Len(r) /\ i - n < j - n
          /\ c[i] = r[i - n] /\ c[j] = r[j - n]
      BY <1>1, <2>3
    <3> QED
      BY <1>4, <3>1 DEF LastRelease
  <2> QED
    BY <1>1, <2>1, <2>2, <2>3
<1>5. ASSUME LastDestroy(q, d), LastDestroy(r, d),
             ~(BorrowedIn(q, d) /\ AddedIn(r, d))
      PROVE  LastDestroy(c, d)
  <2> SUFFICES ASSUME NEW i \in 1 .. Len(c), NEW j \in 1 .. Len(c), i < j,
                      Is(c[i], "destroy", d), Adds(c[j], d)
               PROVE  FALSE
    BY DEF LastDestroy
  <2>1. CASE i \in 1 .. n /\ j \in 1 .. n
    BY <1>1, <1>5, <2>1 DEF LastDestroy, n
  <2>2. CASE i \in 1 .. n /\ j > n
    <3>1. i \in 1 .. Len(q) /\ Is(q[i], "destroy", d)
      BY <1>1, <2>2 DEF n
    <3>2. j - n \in 1 .. Len(r) /\ Adds(r[j - n], d)
      BY <1>1, <2>2
    <3>3. Borrows(q[i], d)
      BY <3>1 DEF Borrows, Is
    <3> QED
      BY <1>5, <3>1, <3>2, <3>3 DEF BorrowedIn, AddedIn
  <2>3. CASE i > n
    <3>1. /\ i - n \in 1 .. Len(r) /\ j - n \in 1 .. Len(r) /\ i - n < j - n
          /\ c[i] = r[i - n] /\ c[j] = r[j - n]
      BY <1>1, <2>3
    <3> QED
      BY <1>5, <3>1 DEF LastDestroy
  <2> QED
    BY <1>1, <2>1, <2>2, <2>3
<1>6. ASSUME NEW S, DroppedIn(q, d, S), Led(r, d)
      PROVE  DroppedIn(c, d, S)
  <2> SUFFICES ASSUME NEW i \in 1 .. Len(c), Is(c[i], "release", d)
               PROVE  \/ \E j \in 1 .. Len(c) : j < i /\ Is(c[j], "destroy", d)
                      \/ d \notin S
                         /\ \A j \in 1 .. Len(c) : j < i => ~Adds(c[j], d)
    BY DEF DroppedIn
  <2>1. CASE i \in 1 .. n
    <3>1. Is(q[i], "release", d) /\ n = Len(q)
      BY <1>1, <2>1 DEF n
    <3>2. CASE \E j \in 1 .. n : j < i /\ Is(q[j], "destroy", d)
      BY <1>1, <2>1, <3>2
    <3>3. CASE d \notin S /\ \A j \in 1 .. n : j < i => ~Adds(q[j], d)
      BY <1>1, <2>1, <3>3
    <3> QED
      BY <1>6, <2>1, <3>1, <3>2, <3>3 DEF DroppedIn
  <2>2. CASE i > n
    <3>1. i - n \in 1 .. Len(r) /\ c[i] = r[i - n]
      BY <1>1, <2>2
    <3>2. PICK j \in 1 .. Len(r) : j < i - n /\ Is(r[j], "destroy", d)
      BY <1>6, <3>1 DEF Led
    <3>3. n + j \in 1 .. Len(c) /\ n + j < i /\ Is(c[n + j], "destroy", d)
      BY <1>1, <3>1, <3>2
    <3> QED
      BY <3>3
  <2> QED
    BY <1>1, <2>1, <2>2
<1> QED
  BY <1>2, <1>3, <1>4, <1>5, <1>6 DEF c

\* What is left behind the first entry, for stream d.
LEMMA StreamRest ==
    ASSUME NEW q \in Seq(Events), q # << >>, NEW d
    PROVE  /\ BorrowedIn(Tail(q), d) => BorrowedIn(q, d)
           /\ ReleasedIn(Tail(q), d) => ReleasedIn(q, d)
           /\ Borrows(Head(q), d) => BorrowedIn(q, d)
           /\ Is(Head(q), "release", d) => ReleasedIn(q, d)
           /\ LastRelease(q, d) => LastRelease(Tail(q), d)
           /\ LastDestroy(q, d) => LastDestroy(Tail(q), d)
           /\ LastRelease(q, d) /\ Is(Head(q), "release", d)
                  => ~BorrowedIn(Tail(q), d)
           /\ LastDestroy(q, d) /\ Is(Head(q), "destroy", d)
                  => ~AddedIn(Tail(q), d)
           /\ \A S : DroppedIn(q, d, S) /\ Is(Head(q), "release", d)
                        => d \notin S
           /\ \A S, U : (/\ DroppedIn(q, d, S)
                         /\ d \in U => d \in S \/ Adds(Head(q), d)
                         /\ ~Is(Head(q), "destroy", d))
                            => DroppedIn(Tail(q), d, U)
           /\ \A U : d \notin U /\ ~AddedIn(Tail(q), d)
                        => DroppedIn(Tail(q), d, U)
<1> DEFINE c == Tail(q)
<1>1. /\ c \in Seq(Events) /\ Len(q) \in Nat /\ Len(c) = Len(q) - 1
      /\ Head(q) = q[1] /\ 1 \in 1 .. Len(q)
      /\ \A i \in 1 .. Len(c) : i + 1 \in 1 .. Len(q) /\ c[i] = q[i + 1]
      /\ \A i \in 1 .. Len(q) : i # 1 => i - 1 \in 1 .. Len(c) /\ c[i - 1] = q[i]
  BY Rest
<1> HIDE DEF c
<1>2. /\ BorrowedIn(c, d) => BorrowedIn(q, d)
      /\ ReleasedIn(c, d) => ReleasedIn(q, d)
      /\ Borrows(Head(q), d) => BorrowedIn(q, d)
      /\ Is(Head(q), "release", d) => ReleasedIn(q, d)
  BY <1>1 DEF BorrowedIn, ReleasedIn
<1>3. LastRelease(q, d) => LastRelease(c, d)
  BY <1>1 DEF LastRelease
<1>4. LastDestroy(q, d) => LastDestroy(c, d)
  BY <1>1 DEF LastDestroy
<1>5. LastRelease(q, d) /\ Is(Head(q), "release", d) => ~BorrowedIn(c, d)
  BY <1>1 DEF LastRelease, BorrowedIn
<1>6. LastDestroy(q, d) /\ Is(Head(q), "destroy", d) => ~AddedIn(c, d)
  BY <1>1 DEF LastDestroy, AddedIn
<1>7. \A S : DroppedIn(q, d, S) /\ Is(Head(q), "release", d) => d \notin S
  BY <1>1 DEF DroppedIn
<1>8. ASSUME NEW S, NEW U, DroppedIn(q, d, S),
             d \in U => d \in S \/ Adds(Head(q), d), ~Is(Head(q), "destroy", d)
      PROVE  DroppedIn(c, d, U)
  <2> SUFFICES ASSUME NEW i \in 1 .. Len(c), Is(c[i], "release", d)
               PROVE  \/ \E j \in 1 .. Len(c) : j < i /\ Is(c[j], "destroy", d)
                      \/ d \notin U
                         /\ \A j \in 1 .. Len(c) : j < i => ~Adds(c[j], d)
    BY DEF DroppedIn
  <2>1. i + 1 \in 1 .. Len(q) /\ Is(q[i + 1], "release", d)
    BY <1>1
  <2>2. CASE \E j \in 1 .. Len(q) : j < i + 1 /\ Is(q[j], "destroy", d)
    <3>1. PICK j \in 1 .. Len(q) : j < i + 1 /\ Is(q[j], "destroy", d)
      BY <2>2
    <3>2. j # 1
      BY <1>1, <1>8, <3>1
    <3>3. j - 1 \in 1 .. Len(c) /\ j - 1 < i /\ Is(c[j - 1], "destroy", d)
      BY <1>1, <3>1, <3>2
    <3> QED
      BY <3>3
  <2>3. CASE d \notin S /\ \A j \in 1 .. Len(q) : j < i + 1 => ~Adds(q[j], d)
    <3>1. ~Adds(Head(q), d)
      BY <1>1, <2>3
    <3>2. \A j \in 1 .. Len(c) : j < i => ~Adds(c[j], d)
      BY <1>1, <2>3
    <3> QED
      BY <1>8, <2>3, <3>1, <3>2
  <2> QED
    BY <1>8, <2>1, <2>2, <2>3 DEF DroppedIn
<1>9. \A U : d \notin U /\ ~AddedIn(c, d) => DroppedIn(c, d, U)
  BY DEF DroppedIn, AddedIn
<1> QED
  BY <1>2, <1>3, <1>4, <1>5, <1>6, <1>7, <1>8, <1>9 DEF c

-----------------------------------------------------------------------------
(* The events of several streams.                                          *)

\* Every nonempty set of naturals has a least element.
LEMMA LeastOf ==
    ASSUME NEW T \in SUBSET Nat, T # {}
    PROVE  \E n \in T : \A m \in T : n <= m
<1>1. IsWellFoundedOn(OpToRel(<, Nat), Nat)
  BY NatLessThanWellFounded
<1>2. PICK n \in T : \A m \in T : ~(<<m, n>> \in OpToRel(<, Nat))
  BY <1>1, WFMin
<1>3. \A m \in T : ~(m < n)
  BY <1>2 DEF OpToRel
<1> QED
  BY <1>3

\* The streams of a finite set can be put in the order of their ids.
Ordered(D, q) ==
    /\ q \in [1 .. Cardinality(D) -> D]
    /\ \A i, j \in 1 .. Cardinality(D) : i < j => q[i] < q[j]

LEMMA CanOrder ==
    ASSUME NEW D \in SUBSET Nat, IsFiniteSet(D)
    PROVE  \E q : Ordered(D, q)
<1> DEFINE Fails(n) == \E E \in SUBSET Nat : /\ IsFiniteSet(E) /\ Cardinality(E) = n
                                             /\ \A q : ~Ordered(E, q)
           T == {n \in Nat : Fails(n)}
<1> SUFFICES ASSUME \A q : ~Ordered(D, q) PROVE FALSE
  OBVIOUS
<1>1. Cardinality(D) \in T
  BY FS_CardinalityType
<1>2. PICK n \in T : \A m \in T : n <= m
  <2>1. T \in SUBSET Nat /\ T # {}
    BY <1>1
  <2> HIDE DEF T
  <2> QED
    BY <2>1, LeastOf
<1>3. n \in Nat /\ \A m \in Nat : Fails(m) => n <= m
  BY <1>2
<1>4. PICK E \in SUBSET Nat : /\ IsFiniteSet(E) /\ Cardinality(E) = n
                              /\ \A q : ~Ordered(E, q)
  BY <1>2
<1> HIDE DEF T
<1>5. CASE E = {}
  <2>1. n = 0
    BY <1>4, <1>5, FS_EmptySet
  <2>2. Ordered(E, [i \in 1 .. 0 |-> 0])
    BY <1>4, <2>1 DEF Ordered
  <2> QED
    BY <1>4, <2>2
<1>6. CASE E # {}
  <2>1. PICK e \in E : \A x \in E : e <= x
    BY <1>6, LeastOf
  <2> DEFINE F == E \ {e}
  <2>2. IsFiniteSet(F) /\ Cardinality(F) = n - 1 /\ F \in SUBSET Nat
    BY <1>4, <2>1, FS_RemoveElement
  <2>3. n - 1 \in Nat
    BY <2>2, FS_CardinalityType
  <2>4. ~Fails(n - 1)
    BY <1>3, <2>3
  <2>5. PICK q : Ordered(F, q)
    BY <2>2, <2>4
  <2> DEFINE p == [i \in 1 .. n |-> IF i = 1 THEN e ELSE q[i - 1]]
  <2> HIDE DEF Fails
  <2>6. /\ \A i \in 1 .. n - 1 : q[i] \in F
        /\ \A i, j \in 1 .. n - 1 : i < j => q[i] < q[j]
    BY <2>2, <2>5 DEF Ordered
  <2>7. \A x \in F : x \in E /\ e < x
    BY <2>1
  <2> HIDE DEF F
  <2>8. p \in [1 .. n -> E]
    <3> SUFFICES ASSUME NEW i \in 1 .. n PROVE (IF i = 1 THEN e ELSE q[i - 1]) \in E
      OBVIOUS
    <3> QED
      BY <1>3, <2>3, <2>6, <2>7
  <2>9. ASSUME NEW i \in 1 .. n, NEW j \in 1 .. n, i < j PROVE p[i] < p[j]
    <3>1. p[j] = q[j - 1] /\ j - 1 \in 1 .. n - 1
      BY <1>3, <2>9
    <3>2. CASE i = 1
      BY <2>6, <2>7, <3>1, <3>2
    <3>3. CASE i # 1
      BY <1>3, <2>6, <2>9, <3>1, <3>3
    <3> QED
      BY <3>2, <3>3
  <2>10. Ordered(E, p)
    BY <1>4, <2>8, <2>9 DEF Ordered
  <2> QED
    BY <1>4, <2>10
<1> QED
  BY <1>5, <1>6

\* InOrder names every stream at most once, and no other.
LEMMA InOrderIs ==
    ASSUME NEW D \in SUBSET Streams
    PROVE  /\ IsFiniteSet(D) /\ Cardinality(D) \in Nat
           /\ \A i \in 1 .. Cardinality(D) : InOrder(D)[i] \in D
           /\ \A i, j \in 1 .. Cardinality(D) :
                  InOrder(D)[i] = InOrder(D)[j] => i = j
<1>1. IsFiniteSet(D) /\ Cardinality(D) \in Nat /\ D \in SUBSET Nat
  BY WtAssumption, FS_Subset, FS_CardinalityType
<1>2. PICK q : Ordered(D, q)
  BY <1>1, CanOrder
<1>3. Ordered(D, InOrder(D))
  BY <1>2 DEF Ordered, InOrder
<1>4. \A i \in 1 .. Cardinality(D) : InOrder(D)[i] \in D /\ InOrder(D)[i] \in Nat
  BY <1>1, <1>3 DEF Ordered
<1> QED
  BY <1>1, <1>3, <1>4 DEF Ordered

\* It leaves none out: as many entries as streams, no two of them the same.
LEMMA InOrderAll ==
    ASSUME NEW D \in SUBSET Streams, NEW d \in D
    PROVE  \E i \in 1 .. Cardinality(D) : InOrder(D)[i] = d
<1> DEFINE n == Cardinality(D)
           q == [i \in 1 .. n |-> InOrder(D)[i]]
<1>1. /\ IsFiniteSet(D) /\ n \in Nat
      /\ \A i \in 1 .. n : InOrder(D)[i] \in D
      /\ \A i, j \in 1 .. n : InOrder(D)[i] = InOrder(D)[j] => i = j
  BY InOrderIs
<1>2. IsFiniteSet(1 .. n) /\ Cardinality(1 .. n) = n
  BY <1>1, FS_Interval
<1> HIDE DEF n
<1>3. q \in Injection(1 .. n, D)
  BY <1>1 DEF Injection, IsInjective
<1>4. q \in Surjection(1 .. n, D)
  BY <1>1, <1>2, <1>3, FS_Injection, FS_SameCardinalityBij DEF n
<1>5. PICK i \in 1 .. n : q[i] = d
  BY <1>4 DEF Surjection
<1> QED
  BY <1>5 DEF n

\* Entries that do not borrow the sc of d, and entries that end nothing.
LEMMA Silent ==
    ASSUME NEW r, NEW d, ~BorrowedIn(r, d)
    PROVE  /\ ~ReleasedIn(r, d) /\ ~AddedIn(r, d)
           /\ LastRelease(r, d) /\ LastDestroy(r, d) /\ Led(r, d)
  BY DEF BorrowedIn, ReleasedIn, AddedIn, LastRelease, LastDestroy, Led,
         Borrows, Is, Adds
LEMMA Endless ==
    ASSUME NEW r, NEW d,
           \A i \in 1 .. Len(r) : r[i].t \notin {"release", "destroy"}
    PROVE  /\ ~ReleasedIn(r, d)
           /\ LastRelease(r, d) /\ LastDestroy(r, d) /\ Led(r, d)
  BY DEF ReleasedIn, LastRelease, LastDestroy, Led, Is

\* LINK_RELEASE of the streams of D.
LEMMA ReleasesAre ==
    ASSUME NEW D \in SUBSET Streams
    PROVE  /\ Releases(D) \in Seq(Events) /\ Formed(Releases(D))
           /\ Len(Releases(D)) = Cardinality(D)
           /\ \A i \in 1 .. Len(Releases(D)) : Releases(D)[i].t = "release"
           /\ \A d : /\ d \notin D => ~BorrowedIn(Releases(D), d)
                     /\ LastRelease(Releases(D), d)
                     /\ LastDestroy(Releases(D), d) /\ ~AddedIn(Releases(D), d)
<1> DEFINE r == Releases(D)
           n == Cardinality(D)
<1>1. n \in Nat /\ \A i \in 1 .. n : InOrder(D)[i] \in D
  BY InOrderIs
<1>2. \A i, j \in 1 .. n : InOrder(D)[i] = InOrder(D)[j] => i = j
  BY InOrderIs
<1>3. r = [i \in 1 .. n |-> [t |-> "release", d |-> InOrder(D)[i], k |-> 0]]
  BY DEF Releases, Ev
<1>4. \A i \in 1 .. n : [t |-> "release", d |-> InOrder(D)[i], k |-> 0] \in Events
  BY <1>1 DEF Events, Kinds
<1> HIDE DEF r, n
<1>5. r \in Seq(Events) /\ Len(r) = n
  BY <1>1, <1>3, <1>4
<1>6. \A i \in 1 .. Len(r) : /\ r[i].t = "release" /\ r[i].k = 0
                             /\ r[i].d = InOrder(D)[i] /\ r[i].d \in D
  BY <1>1, <1>3, <1>5
<1>7. Formed(r)
  BY <1>6 DEF Formed, Plain
<1>8. ASSUME NEW d
      PROVE  /\ d \notin D => ~BorrowedIn(r, d)
             /\ LastRelease(r, d) /\ LastDestroy(r, d) /\ ~AddedIn(r, d)
  <2>1. d \notin D => ~BorrowedIn(r, d)
    BY <1>6 DEF BorrowedIn, Borrows
  <2>2. LastDestroy(r, d) /\ ~AddedIn(r, d)
    BY <1>6 DEF LastDestroy, AddedIn, Is, Adds
  <2>3. LastRelease(r, d)
    BY <1>2, <1>1, <1>5, <1>6 DEF LastRelease, Is, Borrows
  <2> QED
    BY <2>1, <2>2, <2>3
<1> QED
  BY <1>5, <1>6, <1>7, <1>8 DEF r, n

\* STREAM_DESTROY of the streams of D.
LEMMA DestroysAre ==
    ASSUME NEW D \in SUBSET Streams
    PROVE  /\ Destroys(D) \in Seq(Events) /\ Formed(Destroys(D))
           /\ Len(Destroys(D)) = Cardinality(D)
           /\ \A i \in 1 .. Len(Destroys(D)) : Destroys(D)[i].t = "destroy"
           /\ \A d : /\ d \notin D => ~BorrowedIn(Destroys(D), d)
                     /\ LastRelease(Destroys(D), d) /\ LastDestroy(Destroys(D), d)
                     /\ ~ReleasedIn(Destroys(D), d) /\ ~AddedIn(Destroys(D), d)
                     /\ Led(Destroys(D), d)
<1> DEFINE r == Destroys(D)
           n == Cardinality(D)
<1>1. n \in Nat /\ \A i \in 1 .. n : InOrder(D)[i] \in D
  BY InOrderIs
<1>2. r = [i \in 1 .. n |-> [t |-> "destroy", d |-> InOrder(D)[i], k |-> 0]]
  BY DEF Destroys, Ev
<1>3. \A i \in 1 .. n : [t |-> "destroy", d |-> InOrder(D)[i], k |-> 0] \in Events
  BY <1>1 DEF Events, Kinds
<1> HIDE DEF r, n
<1>4. r \in Seq(Events) /\ Len(r) = n
  BY <1>1, <1>2, <1>3
<1>5. \A i \in 1 .. Len(r) : r[i].t = "destroy" /\ r[i].d \in D
  BY <1>1, <1>2, <1>4
<1>6. Formed(r)
  BY <1>5 DEF Formed, Plain
<1>7. ASSUME NEW d
      PROVE  /\ d \notin D => ~BorrowedIn(r, d)
             /\ LastRelease(r, d) /\ LastDestroy(r, d)
             /\ ~ReleasedIn(r, d) /\ ~AddedIn(r, d) /\ Led(r, d)
  BY <1>5 DEF BorrowedIn, Borrows, LastRelease, LastDestroy, ReleasedIn,
              AddedIn, Led, Is, Adds
<1> QED
  BY <1>4, <1>5, <1>6, <1>7 DEF r, n

\* The STREAM_DESTROY of the streams of A, then the LINK_RELEASE of those of B,
\* in the order in which retired streams get them.
LEMMA FreeEventsAre ==
    ASSUME NEW A \in SUBSET Streams, NEW B \in SUBSET A
    PROVE  /\ FreeEvents(A, B) \in Seq(Events) /\ Formed(FreeEvents(A, B))
           /\ \A i \in 1 .. Len(FreeEvents(A, B)) :
                  FreeEvents(A, B)[i].t \in {"destroy", "release"}
           /\ \A d : /\ d \notin A => ~BorrowedIn(FreeEvents(A, B), d)
                     /\ LastRelease(FreeEvents(A, B), d)
                     /\ LastDestroy(FreeEvents(A, B), d)
                     /\ ~AddedIn(FreeEvents(A, B), d) /\ Led(FreeEvents(A, B), d)
<1> DEFINE a == Destroys(A)
           b == Releases(B)
           r == FreeEvents(A, B)
           n == Cardinality(A)
           m == Cardinality(B)
<1>0. B \in SUBSET Streams
  OBVIOUS
<1>1. /\ a \in Seq(Events) /\ Formed(a) /\ Len(a) = n
      /\ b \in Seq(Events) /\ Formed(b) /\ Len(b) = m /\ n \in Nat /\ m \in Nat
  BY <1>0, DestroysAre, ReleasesAre, InOrderIs
<1>2. /\ \A i \in 1 .. n : a[i].t = "destroy" /\ a[i].d = InOrder(A)[i]
      /\ \A i \in 1 .. m : b[i].t = "release" /\ b[i].d \in A
  <2>1. \A i \in 1 .. m : InOrder(B)[i] \in B
    BY <1>0, InOrderIs
  <2> QED
    BY <1>1, <2>1 DEF Destroys, Releases, Ev
<1>3. r = a \o b
  BY DEF FreeEvents
<1>4. \A d \in A : \E i \in 1 .. n : InOrder(A)[i] = d
  BY InOrderAll
<1> HIDE DEF a, b, r, n, m
<1>5. /\ r \in Seq(Events) /\ Formed(r) /\ Len(r) = n + m
      /\ \A i \in 1 .. Len(r) :
             \/ i \in 1 .. n /\ r[i] = a[i]
             \/ i > n /\ i - n \in 1 .. m /\ r[i] = b[i - n]
      /\ \A i \in 1 .. n : r[i] = a[i]
  <2>1. a \in Seq(Events) /\ b \in Seq(Events)
    BY <1>1
  <2>2. /\ a \o b \in Seq(Events) /\ Len(a \o b) = Len(a) + Len(b)
        /\ \A i \in 1 .. Len(a) : (a \o b)[i] = a[i]
        /\ \A i \in 1 .. Len(a \o b) :
             \/ i \in 1 .. Len(a)
             \/ /\ i > Len(a) /\ i - Len(a) \in 1 .. Len(b)
                /\ (a \o b)[i] = b[i - Len(a)]
    BY <2>1
  <2>3. /\ a \o b \in Seq(Events) /\ Len(a \o b) = n + m
        /\ \A i \in 1 .. n : (a \o b)[i] = a[i]
        /\ \A i \in 1 .. Len(a \o b) :
             \/ i \in 1 .. n /\ (a \o b)[i] = a[i]
             \/ i > n /\ i - n \in 1 .. m /\ (a \o b)[i] = b[i - n]
    BY <1>1, <2>2
  <2>4. Formed(r)
    BY <1>1, <1>3, FormedConcat
  <2> QED
    BY <1>3, <2>3, <2>4, Zenon
<1>6. ASSUME NEW d
      PROVE  /\ d \notin A => ~BorrowedIn(r, d)
             /\ LastRelease(r, d) /\ LastDestroy(r, d) /\ ~AddedIn(r, d)
  <2>1. /\ d \notin A => ~BorrowedIn(a, d)
        /\ LastRelease(a, d) /\ ~ReleasedIn(a, d) /\ LastDestroy(a, d)
    BY DestroysAre DEF a
  <2>2. /\ d \notin A => ~BorrowedIn(b, d)
        /\ LastRelease(b, d) /\ LastDestroy(b, d) /\ ~AddedIn(b, d)
    BY <1>0, ReleasesAre DEF b
  <2>3. ~AddedIn(r, d)
    BY <1>2, <1>5 DEF AddedIn, Adds
  <2> QED
    BY <1>1, <1>3, <2>1, <2>2, <2>3, StreamConcat
<1>7. ASSUME NEW d, NEW i \in 1 .. Len(r), Is(r[i], "release", d)
      PROVE  \E j \in 1 .. Len(r) : j < i /\ Is(r[j], "destroy", d)
  <2>1. i - n \in 1 .. m /\ i > n /\ r[i] = b[i - n]
    BY <1>2, <1>5, <1>7 DEF Is
  <2>2. d \in A
    BY <1>2, <1>7, <2>1 DEF Is
  <2>3. PICK j \in 1 .. n : InOrder(A)[j] = d
    BY <1>4, <2>2
  <2>4. j \in 1 .. Len(r) /\ j < i
    BY <1>1, <1>5, <2>1
  <2>5. r[j].t = "destroy" /\ r[j].d = d
    BY <1>2, <1>5, <2>3
  <2> QED
    BY <2>4, <2>5 DEF Is
<1>8. \A i \in 1 .. Len(r) : r[i].t \in {"destroy", "release"}
  BY <1>2, <1>5
<1> QED
  BY <1>5, <1>6, <1>7, <1>8 DEF Led, r

-----------------------------------------------------------------------------
(* Counting the entries of a queue.                                        *)

\* A count is a number, grows with the prefix, and counts its last entry.
LEMMA UptoBounds ==
    ASSUME NEW q, NEW T, NEW n \in Nat, NEW i \in 0 .. n
    PROVE  /\ Upto(q, T, i) \in Nat /\ Upto(q, T, n) \in Nat
           /\ Upto(q, T, i) <= Upto(q, T, n)
           /\ i # 0 /\ q[i].t \in T => Upto(q, T, i) >= 1
<1> DEFINE A == {j \in 1 .. i : q[j].t \in T}
           B == {j \in 1 .. n : q[j].t \in T}
<1>1. IsFiniteSet(1 .. n)
  BY FS_Interval
<1>2. A \subseteq B /\ B \subseteq 1 .. n
  OBVIOUS
<1>3. IsFiniteSet(B)
  BY <1>1, <1>2, FS_Subset
<1>4. IsFiniteSet(A) /\ Cardinality(A) <= Cardinality(B)
  BY <1>2, <1>3, FS_Subset
<1>5. i # 0 /\ q[i].t \in T => i \in A
  OBVIOUS
<1>6. Upto(q, T, i) = Cardinality(A) /\ Upto(q, T, n) = Cardinality(B)
  BY DEF Upto
<1> HIDE DEF A, B
<1>7. Cardinality(A) \in Nat /\ Cardinality(B) \in Nat
  BY <1>3, <1>4, FS_CardinalityType
<1>8. i # 0 /\ q[i].t \in T => Cardinality(A) # 0
  BY <1>4, <1>5, FS_EmptySet
<1> QED
  BY <1>4, <1>6, <1>7, <1>8

\* Equal prefixes count the same.
LEMMA UptoSame ==
    ASSUME NEW q, NEW r, NEW T, NEW i \in Nat, \A j \in 1 .. i : r[j] = q[j]
    PROVE  Upto(r, T, i) = Upto(q, T, i)
<1>1. {j \in 1 .. i : r[j].t \in T} = {j \in 1 .. i : q[j].t \in T}
  OBVIOUS
<1> QED
  BY <1>1 DEF Upto

\* One entry more.
LEMMA UptoNext ==
    ASSUME NEW q, NEW T, NEW i \in Nat
    PROVE  /\ q[i + 1].t \in T => Upto(q, T, i + 1) = Upto(q, T, i) + 1
           /\ q[i + 1].t \notin T => Upto(q, T, i + 1) = Upto(q, T, i)
<1> DEFINE A == {j \in 1 .. i : q[j].t \in T}
           B == {j \in 1 .. i + 1 : q[j].t \in T}
<1>1. IsFiniteSet(1 .. i) /\ A \subseteq 1 .. i /\ i + 1 \notin A
  BY FS_Interval
<1>2. IsFiniteSet(A)
  BY <1>1, FS_Subset
<1>3. q[i + 1].t \in T => B = A \cup {i + 1}
  OBVIOUS
<1>4. q[i + 1].t \notin T => B = A
  OBVIOUS
<1>5. Upto(q, T, i) = Cardinality(A) /\ Upto(q, T, i + 1) = Cardinality(B)
  BY DEF Upto
<1> HIDE DEF A, B
<1>6. Cardinality(A \cup {i + 1}) = Cardinality(A) + 1
  BY <1>1, <1>2, FS_AddElement
<1> QED
  BY <1>3, <1>4, <1>5, <1>6

\* Entries that are not of the kinds counted change nothing.
LEMMA UptoMore ==
    ASSUME NEW q, NEW T, NEW n \in Nat, NEW m \in Nat, n <= m,
           \A j \in n + 1 .. m : q[j].t \notin T
    PROVE  Upto(q, T, m) = Upto(q, T, n)
<1>1. {j \in 1 .. m : q[j].t \in T} = {j \in 1 .. n : q[j].t \in T}
  OBVIOUS
<1> QED
  BY <1>1 DEF Upto

\* The same entries, one place on.
LEMMA UptoTail ==
    ASSUME NEW X, NEW q \in Seq(X), q # << >>, NEW T, NEW i \in 0 .. Len(Tail(q))
    PROVE  /\ q[1].t \in T => Upto(q, T, i + 1) = Upto(Tail(q), T, i) + 1
           /\ q[1].t \notin T => Upto(q, T, i + 1) = Upto(Tail(q), T, i)
<1> DEFINE r == Tail(q)
           A == {j \in 1 .. i : r[j].t \in T}
           B == {j \in 2 .. i + 1 : q[j].t \in T}
           f == [j \in A |-> j + 1]
<1>1. /\ Len(q) \in Nat /\ Len(r) = Len(q) - 1 /\ i \in Nat
      /\ \A j \in 1 .. Len(r) : r[j] = q[j + 1]
      /\ \A j \in 1 .. Len(q) : j # 1 => r[j - 1] = q[j]
  BY Rest
<1> HIDE DEF r
<1>2. IsFiniteSet(1 .. i)
  BY <1>1, FS_Interval
<1>3. IsFiniteSet(A)
  <2>1. A \subseteq 1 .. i
    OBVIOUS
  <2> HIDE DEF A
  <2> QED
    BY <1>2, <2>1, FS_Subset
<1>4. ASSUME NEW j \in A PROVE j + 1 \in B
  <2>1. j \in 1 .. i /\ r[j].t \in T
    OBVIOUS
  <2>2. j \in 1 .. Len(r)
    BY <1>1, <2>1 DEF r
  <2> QED
    BY <1>1, <2>1, <2>2
<1>5. \A j \in B : j - 1 \in A
  BY <1>1
<1>6. A \subseteq Int /\ B \subseteq Int
  BY <1>1
<1>7. Upto(r, T, i) = Cardinality(A)
  BY DEF Upto
<1>8. /\ q[1].t \in T => {j \in 1 .. i + 1 : q[j].t \in T} = B \cup {1}
      /\ q[1].t \notin T => {j \in 1 .. i + 1 : q[j].t \in T} = B
      /\ 1 \notin B
  BY <1>1
<1> HIDE DEF A, B
<1>9. f \in Bijection(A, B)
  <2>1. f \in [A -> B]
    BY <1>4
  <2>2. \A a, b \in A : f[a] = f[b] => a = b
    BY <1>6
  <2>3. \A b \in B : \E a \in A : f[a] = b
    <3> SUFFICES ASSUME NEW b \in B PROVE \E a \in A : f[a] = b
      OBVIOUS
    <3>1. b - 1 \in A /\ f[b - 1] = b
      BY <1>5, <1>6
    <3> QED
      BY <3>1
  <2> HIDE DEF f
  <2> QED
    BY <2>1, <2>2, <2>3 DEF Bijection, Injection, Surjection, IsInjective
<1>10. IsFiniteSet(B) /\ Cardinality(B) = Cardinality(A)
  BY <1>3, <1>9, FS_Bijection DEF ExistsBijection
<1>11. Cardinality(B \cup {1}) = Cardinality(B) + 1
  BY <1>8, <1>10, FS_AddElement
<1>12. Upto(q, T, i + 1) = Cardinality({j \in 1 .. i + 1 : q[j].t \in T})
  BY DEF Upto
<1> QED
  BY <1>7, <1>8, <1>10, <1>11, <1>12 DEF r

-----------------------------------------------------------------------------
(* Replies and requests, in step with the futures.                         *)

Creates == {"create"}
Pairs(p, q, c) ==
    /\ Len(p) = Upto(q, Replies, Len(q)) + Upto(c, Creates, Len(c))
    /\ \A i \in 1 .. Len(q) : q[i].t \in Replies =>
           p[Upto(q, Replies, i)] = q[i].k
    /\ \A i \in 1 .. Len(c) : c[i].t \in Creates =>
           p[Upto(q, Replies, Len(q)) + Upto(c, Creates, i)] = c[i].k

\* The counts of a queue and of its prefixes.
LEMMA Counts ==
    ASSUME NEW X, NEW q \in Seq(X), NEW T
    PROVE  /\ Len(q) \in Nat /\ Upto(q, T, Len(q)) \in Nat
           /\ \A i \in 1 .. Len(q) :
                  /\ Upto(q, T, i) \in Nat
                  /\ Upto(q, T, i) <= Upto(q, T, Len(q))
                  /\ q[i].t \in T => Upto(q, T, i) >= 1
<1>1. Len(q) \in Nat
  OBVIOUS
<1>2. Upto(q, T, Len(q)) \in Nat
  BY <1>1, UptoBounds
<1>3. ASSUME NEW i \in 1 .. Len(q)
      PROVE  /\ Upto(q, T, i) \in Nat
             /\ Upto(q, T, i) <= Upto(q, T, Len(q))
             /\ q[i].t \in T => Upto(q, T, i) >= 1
  <2>1. i \in 0 .. Len(q) /\ i # 0
    BY <1>1
  <2> QED
    BY <1>1, <2>1, UptoBounds
<1> QED
  BY <1>1, <1>2, <1>3

\* The counts of a queue that grows by entries of other kinds.
LEMMA CountsKept ==
    ASSUME NEW X, NEW q \in Seq(X), NEW r \in Seq(X), NEW T,
           \A i \in 1 .. Len(r) : r[i].t \notin T
    PROVE  /\ Upto(q \o r, T, Len(q \o r)) = Upto(q, T, Len(q))
           /\ \A i \in 1 .. Len(q) : Upto(q \o r, T, i) = Upto(q, T, i)
           /\ \A i \in 1 .. Len(q \o r) : (q \o r)[i].t \in T =>
                  i \in 1 .. Len(q) /\ (q \o r)[i] = q[i]
<1> DEFINE w == q \o r
<1>1. /\ Len(w) = Len(q) + Len(r) /\ Len(q) \in Nat /\ Len(r) \in Nat
      /\ \A i \in 1 .. Len(q) : w[i] = q[i]
      /\ \A i \in 1 .. Len(w) :
             \/ i \in 1 .. Len(q)
             \/ /\ i > Len(q) /\ i - Len(q) \in 1 .. Len(r)
                /\ w[i] = r[i - Len(q)]
  BY Concat
<1> HIDE DEF w
<1>2. \A i \in 1 .. Len(w) : w[i].t \in T => i \in 1 .. Len(q) /\ w[i] = q[i]
  BY <1>1
<1>3. ASSUME NEW i \in 0 .. Len(q) PROVE Upto(w, T, i) = Upto(q, T, i)
  <2>1. i \in Nat /\ \A j \in 1 .. i : w[j] = q[j]
    BY <1>1
  <2> QED
    BY <2>1, UptoSame
<1>4. Upto(w, T, Len(w)) = Upto(w, T, Len(q))
  <2>1. Len(w) \in Nat /\ Len(q) <= Len(w)
    BY <1>1
  <2>2. \A j \in Len(q) + 1 .. Len(w) : w[j].t \notin T
    BY <1>1, <1>2
  <2> QED
    BY <1>1, <2>1, <2>2, UptoMore
<1>5. Upto(w, T, Len(q)) = Upto(q, T, Len(q))
  BY <1>1, <1>3
<1> QED
  BY <1>1, <1>2, <1>3, <1>4, <1>5 DEF w

\* The counts of a queue that grows by one entry that counts.
LEMMA CountsOne ==
    ASSUME NEW X, NEW q \in Seq(X), NEW e \in X, NEW T, e.t \in T
    PROVE  /\ Len(Append(q, e)) = Len(q) + 1 /\ Len(q) \in Nat
           /\ Upto(Append(q, e), T, Len(q) + 1) = Upto(q, T, Len(q)) + 1
           /\ \A i \in 1 .. Len(q) : /\ Upto(Append(q, e), T, i) = Upto(q, T, i)
                                     /\ Append(q, e)[i] = q[i]
           /\ Append(q, e)[Len(q) + 1] = e
<1> DEFINE w == Append(q, e)
<1>1. /\ Len(w) = Len(q) + 1 /\ Len(q) \in Nat /\ w[Len(q) + 1] = e
      /\ \A i \in 1 .. Len(q) : w[i] = q[i]
  BY Longer
<1> HIDE DEF w
<1>2. ASSUME NEW i \in 0 .. Len(q) PROVE Upto(w, T, i) = Upto(q, T, i)
  <2>1. i \in Nat /\ \A j \in 1 .. i : w[j] = q[j]
    BY <1>1
  <2> QED
    BY <2>1, UptoSame
<1>3. Upto(w, T, Len(q) + 1) = Upto(w, T, Len(q)) + 1
  BY <1>1, UptoNext
<1> QED
  BY <1>1, <1>2, <1>3 DEF w

\* More events, none of them a reply.
LEMMA PairsEvents ==
    ASSUME NEW p \in Seq(Nat), NEW q \in Seq(Events), NEW c \in Seq(Commands),
           Pairs(p, q, c), NEW r \in Seq(Events),
           \A i \in 1 .. Len(r) : r[i].t \notin Replies
    PROVE  Pairs(p, q \o r, c)
  BY CountsKept DEF Pairs

\* More commands, none of them a request.
LEMMA PairsPosts ==
    ASSUME NEW p \in Seq(Nat), NEW q \in Seq(Events), NEW c \in Seq(Commands),
           Pairs(p, q, c), NEW r \in Seq(Commands),
           \A i \in 1 .. Len(r) : r[i].t \notin Creates
    PROVE  Pairs(p, q, c \o r)
<1>1. Upto(c \o r, Creates, Len(c \o r)) = Upto(c, Creates, Len(c))
  BY CountsKept
<1>2. ASSUME NEW i \in 1 .. Len(c)
      PROVE  Upto(c \o r, Creates, i) = Upto(c, Creates, i)
  <2> DEFINE w == c \o r
  <2>1. i \in Nat /\ \A j \in 1 .. i : w[j] = c[j]
    BY Concat
  <2> HIDE DEF w
  <2>2. Upto(w, Creates, i) = Upto(c, Creates, i)
    BY <2>1, UptoSame
  <2> QED
    BY <2>2 DEF w
<1>3. \A i \in 1 .. Len(c \o r) : (c \o r)[i].t \in Creates =>
          i \in 1 .. Len(c) /\ (c \o r)[i] = c[i]
  BY CountsKept
<1> DEFINE w == c \o r
<1>4. /\ Upto(w, Creates, Len(w)) = Upto(c, Creates, Len(c))
      /\ \A i \in 1 .. Len(c) : Upto(w, Creates, i) = Upto(c, Creates, i)
      /\ \A i \in 1 .. Len(w) : w[i].t \in Creates => i \in 1 .. Len(c) /\ w[i] = c[i]
  BY <1>1, <1>2, <1>3, Zenon
<1> HIDE DEF w
<1>5. Pairs(p, q, w)
  BY <1>4 DEF Pairs
<1> QED
  BY <1>5 DEF w

LEMMA PairsPost ==
    ASSUME NEW p \in Seq(Nat), NEW q \in Seq(Events), NEW c \in Seq(Commands),
           Pairs(p, q, c), NEW e \in Commands, e.t \notin Creates
    PROVE  Pairs(p, q, Append(c, e))
<1> DEFINE r == <<e>>
<1>1. Append(c, e) = c \o r
  BY Longer
<1>2. r \in Seq(Commands)
  BY Longer
<1>3. \A i \in 1 .. Len(r) : r[i].t \notin Creates
  OBVIOUS
<1> HIDE DEF r
<1> QED
  BY <1>1, <1>2, <1>3, PairsPosts

\* A request, and its future.
LEMMA PairsRequest ==
    ASSUME NEW p \in Seq(Nat), NEW q \in Seq(Events), NEW c \in Seq(Commands),
           Pairs(p, q, c), NEW e \in Commands, e.t \in Creates
    PROVE  Pairs(Append(p, e.k), q, Append(c, e))
<1> DEFINE w == Append(c, e)
           z == Append(p, e.k)
           n == Upto(q, Replies, Len(q))
           m == Upto(c, Creates, Len(c))
<1>1. /\ Len(w) = Len(c) + 1 /\ Len(c) \in Nat
      /\ Upto(w, Creates, Len(c) + 1) = m + 1
      /\ \A i \in 1 .. Len(c) : Upto(w, Creates, i) = Upto(c, Creates, i) /\ w[i] = c[i]
      /\ w[Len(c) + 1] = e
  BY CountsOne
<1>2. e.k \in Nat
  BY DEF Commands
<1>3. /\ Len(z) = Len(p) + 1 /\ Len(p) \in Nat /\ z[Len(p) + 1] = e.k
      /\ \A i \in 1 .. Len(p) : z[i] = p[i]
  BY <1>2, Longer
<1>4. /\ n \in Nat
      /\ \A i \in 1 .. Len(q) : /\ Upto(q, Replies, i) \in Nat
                                /\ Upto(q, Replies, i) <= n
                                /\ q[i].t \in Replies => Upto(q, Replies, i) >= 1
  BY Counts
<1>5. /\ m \in Nat
      /\ \A i \in 1 .. Len(c) : /\ Upto(c, Creates, i) \in Nat
                                /\ Upto(c, Creates, i) <= m
                                /\ c[i].t \in Creates => Upto(c, Creates, i) >= 1
  BY Counts
<1>6. /\ Len(p) = n + m
      /\ \A i \in 1 .. Len(q) : q[i].t \in Replies => p[Upto(q, Replies, i)] = q[i].k
      /\ \A i \in 1 .. Len(c) : c[i].t \in Creates =>
             p[n + Upto(c, Creates, i)] = c[i].k
  BY DEF Pairs
<1> HIDE DEF w, z, n, m
<1>7. Len(z) = n + Upto(w, Creates, Len(w))
  BY <1>1, <1>3, <1>4, <1>5, <1>6
<1>8. \A i \in 1 .. Len(q) : q[i].t \in Replies => z[Upto(q, Replies, i)] = q[i].k
  BY <1>3, <1>4, <1>5, <1>6
<1>9. ASSUME NEW i \in 1 .. Len(w), w[i].t \in Creates
      PROVE  z[n + Upto(w, Creates, i)] = w[i].k
  <2>1. CASE i \in 1 .. Len(c)
    <3>1. /\ w[i] = c[i] /\ Upto(w, Creates, i) = Upto(c, Creates, i)
          /\ c[i].t \in Creates
      BY <1>1, <1>9, <2>1
    <3>2. n + Upto(c, Creates, i) \in 1 .. Len(p)
      BY <1>4, <1>5, <1>6, <2>1, <3>1
    <3>3. p[n + Upto(c, Creates, i)] = c[i].k
      BY <1>6, <2>1, <3>1
    <3> QED
      BY <1>3, <3>1, <3>2, <3>3
  <2>2. CASE i = Len(c) + 1
    <3>1. n + Upto(w, Creates, i) = Len(p) + 1
      BY <1>1, <1>4, <1>5, <1>6, <2>2
    <3> QED
      BY <1>1, <1>3, <2>2, <3>1
  <2> QED
    BY <1>1, <2>1, <2>2
<1>10. Pairs(z, q, w)
  BY <1>7, <1>8, <1>9 DEF Pairs, n
<1> QED
  BY <1>10 DEF z, w

\* A command is taken that asks for no stream.
LEMMA PairsPop ==
    ASSUME NEW p \in Seq(Nat), NEW q \in Seq(Events), NEW c \in Seq(Commands),
           Pairs(p, q, c), c # << >>, Head(c).t \notin Creates
    PROVE  Pairs(p, q, Tail(c))
<1> DEFINE w == Tail(c)
           n == Upto(q, Replies, Len(q))
<1>1. /\ Len(c) \in Nat /\ Len(w) = Len(c) - 1 /\ w \in Seq(Commands)
      /\ Head(c) = c[1] /\ 1 \in 1 .. Len(c)
      /\ \A i \in 1 .. Len(w) : i + 1 \in 1 .. Len(c) /\ w[i] = c[i + 1]
  BY Rest
<1>2. \A i \in 0 .. Len(w) : Upto(c, Creates, i + 1) = Upto(w, Creates, i)
  BY <1>1, UptoTail
<1>3. /\ Len(p) = n + Upto(c, Creates, Len(c))
      /\ \A i \in 1 .. Len(q) : q[i].t \in Replies => p[Upto(q, Replies, i)] = q[i].k
      /\ \A i \in 1 .. Len(c) : c[i].t \in Creates =>
             p[n + Upto(c, Creates, i)] = c[i].k
  BY DEF Pairs
<1> HIDE DEF w, n
<1>4. Upto(c, Creates, Len(c)) = Upto(w, Creates, Len(w))
  <2>1. Len(w) \in 0 .. Len(w) /\ Len(w) + 1 = Len(c)
    BY <1>1
  <2> QED
    BY <1>2, <2>1
<1>5. ASSUME NEW i \in 1 .. Len(w), w[i].t \in Creates
      PROVE  p[n + Upto(w, Creates, i)] = w[i].k
  <2>1. i \in 0 .. Len(w) /\ i + 1 \in 1 .. Len(c) /\ w[i] = c[i + 1]
    BY <1>1
  <2>2. p[n + Upto(c, Creates, i + 1)] = c[i + 1].k
    BY <1>3, <1>5, <2>1
  <2> QED
    BY <1>2, <2>1, <2>2
<1>6. Pairs(p, q, w)
  BY <1>3, <1>4, <1>5 DEF Pairs, n
<1> QED
  BY <1>6 DEF w

\* A request is taken and answered.
LEMMA PairsReply ==
    ASSUME NEW p \in Seq(Nat), NEW q \in Seq(Events), NEW c \in Seq(Commands),
           Pairs(p, q, c), c # << >>, Head(c).t \in Creates,
           NEW e \in Events, e.t \in Replies, e.k = Head(c).k
    PROVE  Pairs(p, Append(q, e), Tail(c))
<1> DEFINE w == Tail(c)
           z == Append(q, e)
           n == Upto(q, Replies, Len(q))
<1>1. /\ Len(c) \in Nat /\ Len(w) = Len(c) - 1 /\ w \in Seq(Commands)
      /\ Head(c) = c[1] /\ 1 \in 1 .. Len(c)
      /\ \A i \in 1 .. Len(w) : i + 1 \in 1 .. Len(c) /\ w[i] = c[i + 1]
  BY Rest
<1>2. \A i \in 0 .. Len(w) : Upto(c, Creates, i + 1) = Upto(w, Creates, i) + 1
  BY <1>1, UptoTail
<1>3. /\ Len(p) = n + Upto(c, Creates, Len(c))
      /\ \A i \in 1 .. Len(q) : q[i].t \in Replies => p[Upto(q, Replies, i)] = q[i].k
      /\ \A i \in 1 .. Len(c) : c[i].t \in Creates =>
             p[n + Upto(c, Creates, i)] = c[i].k
  BY DEF Pairs
<1>4. /\ Len(z) = Len(q) + 1 /\ Len(q) \in Nat
      /\ Upto(z, Replies, Len(q) + 1) = n + 1
      /\ \A i \in 1 .. Len(q) : Upto(z, Replies, i) = Upto(q, Replies, i) /\ z[i] = q[i]
      /\ z[Len(q) + 1] = e
  BY CountsOne
<1>5. n \in Nat
  BY Counts
<1>6. \A i \in 0 .. Len(w) : Upto(w, Creates, i) \in Nat
  <2> SUFFICES ASSUME NEW i \in 0 .. Len(w) PROVE Upto(w, Creates, i) \in Nat
    OBVIOUS
  <2>1. Len(w) \in Nat
    BY <1>1
  <2> QED
    BY <2>1, UptoBounds
<1> HIDE DEF w, z, n
<1>7. Upto(c, Creates, 1) = 1
  <2>1. 0 \in 0 .. Len(w) /\ 0 + 1 = 1
    BY <1>1
  <2>2. Upto(w, Creates, 0) = 0
    <3>1. {j \in 1 .. 0 : w[j].t \in Creates} = {}
      OBVIOUS
    <3> QED
      BY <3>1, FS_EmptySet DEF Upto
  <2> QED
    BY <1>2, <2>1, <2>2
<1>8. p[n + 1] = e.k
  BY <1>1, <1>3, <1>7
<1>9. Len(p) = Upto(z, Replies, Len(z)) + Upto(w, Creates, Len(w))
  <2>1. Len(w) \in 0 .. Len(w) /\ Len(w) + 1 = Len(c)
    BY <1>1
  <2>2. Upto(c, Creates, Len(c)) = Upto(w, Creates, Len(w)) + 1
    BY <1>2, <2>1
  <2>3. Upto(z, Replies, Len(z)) = n + 1
    BY <1>4
  <2>4. Upto(w, Creates, Len(w)) \in Nat
    BY <1>6, <2>1
  <2> QED
    BY <1>3, <1>5, <2>2, <2>3, <2>4
<1>10. ASSUME NEW i \in 1 .. Len(z), z[i].t \in Replies
       PROVE  p[Upto(z, Replies, i)] = z[i].k
  <2>1. CASE i \in 1 .. Len(q)
    BY <1>3, <1>4, <1>10, <2>1
  <2>2. CASE i = Len(q) + 1
    BY <1>4, <1>8, <2>2
  <2>3. i \in 1 .. Len(q) \/ i = Len(q) + 1
    <3>1. Len(z) = Len(q) + 1 /\ Len(q) \in Nat
      BY <1>4
    <3> QED
      BY <3>1
  <2> QED
    BY <2>1, <2>2, <2>3
<1>11. ASSUME NEW i \in 1 .. Len(w), w[i].t \in Creates
       PROVE  p[Upto(z, Replies, Len(z)) + Upto(w, Creates, i)] = w[i].k
  <2>1. i \in 0 .. Len(w) /\ i + 1 \in 1 .. Len(c) /\ w[i] = c[i + 1]
    BY <1>1
  <2>2. p[n + Upto(c, Creates, i + 1)] = c[i + 1].k
    BY <1>3, <1>11, <2>1
  <2>3. n + Upto(c, Creates, i + 1) = Upto(z, Replies, Len(z)) + Upto(w, Creates, i)
    BY <1>2, <1>4, <1>5, <1>6, <2>1
  <2> QED
    BY <2>1, <2>2, <2>3
<1>12. Pairs(p, z, w)
  BY <1>9, <1>10, <1>11 DEF Pairs
<1> QED
  BY <1>12 DEF w, z

\* An event is taken that is no reply.
LEMMA PairsSkip ==
    ASSUME NEW p \in Seq(Nat), NEW q \in Seq(Events), NEW c \in Seq(Commands),
           Pairs(p, q, c), q # << >>, Head(q).t \notin Replies
    PROVE  Pairs(p, Tail(q), c)
<1> DEFINE w == Tail(q)
<1>1. /\ Len(q) \in Nat /\ Len(w) = Len(q) - 1
      /\ Head(q) = q[1] /\ 1 \in 1 .. Len(q)
      /\ \A i \in 1 .. Len(w) : i + 1 \in 1 .. Len(q) /\ w[i] = q[i + 1]
  BY Rest
<1>2. \A i \in 0 .. Len(w) : Upto(q, Replies, i + 1) = Upto(w, Replies, i)
  BY <1>1, UptoTail
<1> HIDE DEF w
<1>3. Upto(q, Replies, Len(q)) = Upto(w, Replies, Len(w))
  <2>1. Len(w) \in 0 .. Len(w) /\ Len(w) + 1 = Len(q)
    BY <1>1
  <2> QED
    BY <1>2, <2>1
<1>4. ASSUME NEW i \in 1 .. Len(w), w[i].t \in Replies
      PROVE  p[Upto(w, Replies, i)] = w[i].k
  <2>1. i \in 0 .. Len(w) /\ i + 1 \in 1 .. Len(q) /\ w[i] = q[i + 1]
    BY <1>1
  <2>2. p[Upto(q, Replies, i + 1)] = q[i + 1].k
    BY <1>4, <2>1 DEF Pairs
  <2> QED
    BY <1>2, <2>1, <2>2
<1>5. Pairs(p, w, c)
  BY <1>3, <1>4 DEF Pairs
<1> QED
  BY <1>5 DEF w

\* A reply is taken, and its future.
LEMMA PairsTake ==
    ASSUME NEW p \in Seq(Nat), NEW q \in Seq(Events), NEW c \in Seq(Commands),
           Pairs(p, q, c), q # << >>, Head(q).t \in Replies, p # << >>
    PROVE  Pairs(Tail(p), Tail(q), c) /\ Head(p) = Head(q).k
<1> DEFINE w == Tail(q)
           z == Tail(p)
           n == Upto(q, Replies, Len(q))
           m == Upto(w, Replies, Len(w))
<1>1. /\ Len(q) \in Nat /\ Len(w) = Len(q) - 1 /\ w \in Seq(Events)
      /\ Head(q) = q[1] /\ 1 \in 1 .. Len(q)
      /\ \A i \in 1 .. Len(w) : i + 1 \in 1 .. Len(q) /\ w[i] = q[i + 1]
  BY Rest
<1>2. /\ Len(p) \in Nat /\ Len(z) = Len(p) - 1 /\ Head(p) = p[1]
      /\ \A i \in 1 .. Len(z) : z[i] = p[i + 1]
  BY Rest
<1>3. \A i \in 0 .. Len(w) : Upto(q, Replies, i + 1) = Upto(w, Replies, i) + 1
  BY <1>1, UptoTail
<1>4. /\ m \in Nat
      /\ \A i \in 1 .. Len(w) : /\ Upto(w, Replies, i) \in Nat
                                /\ Upto(w, Replies, i) <= m
                                /\ w[i].t \in Replies => Upto(w, Replies, i) >= 1
  BY <1>1, Counts
<1>5. /\ Upto(c, Creates, Len(c)) \in Nat
      /\ \A i \in 1 .. Len(c) :
             /\ Upto(c, Creates, i) \in Nat
             /\ Upto(c, Creates, i) <= Upto(c, Creates, Len(c))
             /\ c[i].t \in Creates => Upto(c, Creates, i) >= 1
  BY Counts
<1>6. /\ Len(p) = n + Upto(c, Creates, Len(c))
      /\ \A i \in 1 .. Len(q) : q[i].t \in Replies => p[Upto(q, Replies, i)] = q[i].k
      /\ \A i \in 1 .. Len(c) : c[i].t \in Creates =>
             p[n + Upto(c, Creates, i)] = c[i].k
  BY DEF Pairs
<1> HIDE DEF w, z, n, m
<1>7. n = m + 1
  <2>1. Len(w) \in 0 .. Len(w) /\ Len(w) + 1 = Len(q)
    BY <1>1
  <2> QED
    BY <1>3, <2>1 DEF n, m
<1>8. Len(z) = m + Upto(c, Creates, Len(c))
  BY <1>2, <1>4, <1>5, <1>6, <1>7
<1>9. ASSUME NEW i \in 1 .. Len(w), w[i].t \in Replies
      PROVE  z[Upto(w, Replies, i)] = w[i].k
  <2>1. i \in 0 .. Len(w) /\ i + 1 \in 1 .. Len(q) /\ w[i] = q[i + 1]
    BY <1>1
  <2>2. p[Upto(q, Replies, i + 1)] = q[i + 1].k
    BY <1>6, <1>9, <2>1
  <2>3. Upto(w, Replies, i) \in 1 .. Len(z)
    BY <1>4, <1>5, <1>8, <1>9
  <2> QED
    BY <1>2, <1>3, <2>1, <2>2, <2>3
<1>10. ASSUME NEW i \in 1 .. Len(c), c[i].t \in Creates
       PROVE  z[m + Upto(c, Creates, i)] = c[i].k
  <2>1. p[n + Upto(c, Creates, i)] = c[i].k
    BY <1>6, <1>10
  <2>2. /\ m + Upto(c, Creates, i) \in 1 .. Len(z)
        /\ n + Upto(c, Creates, i) = (m + Upto(c, Creates, i)) + 1
    BY <1>4, <1>5, <1>7, <1>8, <1>10
  <2> QED
    BY <1>2, <2>1, <2>2
<1>11. Pairs(z, w, c)
  BY <1>8, <1>9, <1>10 DEF Pairs, m
<1>12. Upto(q, Replies, 1) = 1
  <2>1. 0 \in 0 .. Len(w) /\ 0 + 1 = 1
    BY <1>1
  <2>2. Upto(w, Replies, 0) = 0
    <3>1. {j \in 1 .. 0 : w[j].t \in Replies} = {}
      OBVIOUS
    <3> QED
      BY <3>1, FS_EmptySet DEF Upto
  <2> QED
    BY <1>3, <2>1, <2>2
<1> QED
  BY <1>1, <1>2, <1>6, <1>11, <1>12 DEF w, z
==============================================================================
