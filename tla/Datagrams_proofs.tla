-------------------------- MODULE Datagrams_proofs --------------------------
(***************************************************************************)
(* Proofs about Datagrams and its table, DgramTable: for any number of     *)
(* addresses, connections, sends and commands, any hash, any sizes of      *)
(* record, queue and table.                                                *)
(*                                                                         *)
(* First the table: what a walk finds in one that is Sound, and that puts, *)
(* removals and growths keep it so.  Then the invariant IInv, a lemma for  *)
(* each action that it is kept, and what follows from it.  Its heart is    *)
(* that the reference a connection made on its ring has one owner at a     *)
(* time (Claims), which every MARK still queued can rely on (Marks).       *)
(***************************************************************************)
EXTENDS Datagrams, FiniteSetTheorems, WellFoundedInduction, TLAPS

-----------------------------------------------------------------------------
(* Least and greatest elements.                                            *)

\* Every nonempty set of naturals has a least element.
LEMMA LeastOf ==
    ASSUME NEW T \in SUBSET Nat, T # {}
    PROVE  \E n \in T : \A m \in T : n <= m
<1>1. IsWellFoundedOn(OpToRel(<, Nat), Nat)
  BY NatLessThanWellFounded
<1>2. PICK n \in T : \A m \in T : ~(<<m, n>> \in OpToRel(<, Nat))
  BY <1>1, WFMin
<1>3. \A m \in T : ~(m < n)
  BY <1>2 DEF OpToRel
<1> QED
  BY <1>3

\* What Min returns.
LEMMA MinIs ==
    ASSUME NEW T \in SUBSET Nat, T # {}
    PROVE  Min(T) \in T /\ \A m \in T : Min(T) <= m
<1>1. \E n \in T : \A m \in T : n <= m
  BY LeastOf
<1> QED
  BY <1>1 DEF Min

\* What Max returns, where there is a greatest element.
LEMMA MaxIs ==
    ASSUME NEW T \in SUBSET Nat, NEW n \in T, \A m \in T : m <= n
    PROVE  Max(T) = n
<1>1. \A m \in T : n >= m
  OBVIOUS
<1>2. Max(T) \in T /\ \A m \in T : Max(T) >= m
  BY <1>1 DEF Max
<1> DEFINE x == Max(T)
<1>3. x \in T /\ x >= n
  BY <1>2
<1> HIDE DEF x
<1>4. x = n
  BY <1>3
<1> QED
  BY <1>4 DEF x

-----------------------------------------------------------------------------
(* Probing.                                                                *)

\* Counting up from h modulo n wraps once in n steps.
LEMMA ModWrap ==
    ASSUME NEW h \in Nat, NEW n \in Nat \ {0}, NEW k \in 0 .. n - 1
    PROVE  /\ h % n \in 0 .. n - 1
           /\ (h + k) % n = IF (h % n) + k < n THEN (h % n) + k ELSE (h % n) + k - n
<1> DEFINE a == h \div n
           b == (h + k) \div n
           m == h % n
           r == (h + k) % n
<1>1. /\ a \in Int /\ b \in Int /\ m \in 0 .. n - 1 /\ r \in 0 .. n - 1
      /\ h = n * a + m /\ h + k = n * b + r
  OBVIOUS
<1> HIDE DEF a, b, m, r
<1>2. n * (b - a) = m + k - r
  BY <1>1
<1>3. m + k - r < 2 * n /\ m + k - r > -n
  BY <1>1
<1>4. ~(b - a >= 2)
  <2> SUFFICES ASSUME b - a >= 2 PROVE FALSE
    OBVIOUS
  <2>1. n * (b - a) >= n * 2
    BY <1>1
  <2> QED
    BY <2>1, <1>1, <1>2, <1>3
<1>5. ~(b - a <= -1)
  <2> SUFFICES ASSUME b - a <= -1 PROVE FALSE
    OBVIOUS
  <2>1. n * (b - a) <= n * (-1)
    BY <1>1
  <2> QED
    BY <2>1, <1>1, <1>2, <1>3
<1>6. b - a = 0 \/ b - a = 1
  BY <1>1, <1>4, <1>5
<1>7. n * (b - a) = 0 \/ n * (b - a) = n
  BY <1>6, <1>1
<1>8. r = IF m + k < n THEN m + k ELSE m + k - n
  BY <1>1, <1>2, <1>7
<1> QED
  BY <1>1, <1>8 DEF m, r

\* A table of the worker: its size, and a probe's slot.
LEMMA Probes ==
    ASSUME NEW T, NEW t \in Seq(T), Cap(t) # 0, NEW c \in Addr
    PROVE  /\ Cap(t) \in Nat /\ DOMAIN t = 1 .. Cap(t)
           /\ \A k \in 0 .. Cap(t) - 1 : ProbeAt(t, c, k) \in DOMAIN t
           /\ \A i \in DOMAIN t : \E k \in 0 .. Cap(t) - 1 : ProbeAt(t, c, k) = i
<1> DEFINE n == Cap(t)
           m == Hash(c) % n
<1>1. n \in Nat \ {0} /\ DOMAIN t = 1 .. n /\ Hash(c) \in Nat
  BY TableAssumption DEF TableAssumption, Cap
<1>2. \A k \in 0 .. n - 1 :
          /\ m \in 0 .. n - 1
          /\ ProbeAt(t, c, k) = (IF m + k < n THEN m + k ELSE m + k - n) + 1
  BY <1>1, ModWrap DEF ProbeAt
<1> HIDE DEF n, m
<1>3. \A k \in 0 .. n - 1 : ProbeAt(t, c, k) \in DOMAIN t
  <2> TAKE k \in 0 .. n - 1
  <2> DEFINE x == ProbeAt(t, c, k)
  <2>1. m \in 0 .. n - 1 /\ x = (IF m + k < n THEN m + k ELSE m + k - n) + 1
    BY <1>2
  <2> HIDE DEF x
  <2>2. x \in 1 .. n
    BY <1>1, <2>1
  <2> QED
    BY <1>1, <2>2 DEF x
<1>4. ASSUME NEW i \in DOMAIN t
      PROVE  \E k \in 0 .. n - 1 : ProbeAt(t, c, k) = i
  <2>1. m \in 0 .. n - 1
    BY <1>1, <1>2
  <2> DEFINE k == IF i - 1 >= m THEN i - 1 - m ELSE i - 1 - m + n
  <2>2. k \in 0 .. n - 1 /\ (IF m + k < n THEN m + k ELSE m + k - n) + 1 = i
    BY <1>1, <2>1
  <2> QED
    BY <1>2, <2>2
<1> QED
  BY <1>1, <1>3, <1>4 DEF n

\* A walk for c goes past the first k slots it looks at.
Passes(t, c, k) ==
    \A j \in 0 .. k - 1 : t[ProbeAt(t, c, j)].cnx \notin {c, Null}

\* What keeps a table in order: every entry is on the walk for its
\* connection, before any empty slot; a connection has one entry; entries
\* hold rings, other slots none.
Reached(t) ==
    \A i \in DOMAIN t : t[i].cnx \in Addr =>
        \E k \in 0 .. Cap(t) - 1 :
            ProbeAt(t, t[i].cnx, k) = i /\ Passes(t, t[i].cnx, k)
OnePer(t) ==
    \A i, j \in DOMAIN t : t[i].cnx \in Addr /\ t[i].cnx = t[j].cnx => i = j
Filled(t) == \A i \in DOMAIN t : t[i].cnx \in Addr <=> t[i].db # NoRing

\* And its load: an empty slot is left.
Loaded(t, more) ==
    Cap(t) # 0 => Cap(t) >= 2 /\ (Used(t) + more) * 10 < Cap(t) * 7
Sound(t) == Reached(t) /\ OnePer(t) /\ Filled(t) /\ Loaded(t, 0)

\* The slots in use, of which there are at most as many as slots.
LEMMA UsedType ==
    ASSUME NEW T, NEW t \in Seq(T)
    PROVE  /\ Used(t) \in Nat /\ Used(t) <= Cap(t)
           /\ IsFiniteSet({i \in DOMAIN t : t[i].cnx # Null})
<1>1. DOMAIN t = 1 .. Cap(t) /\ Cap(t) \in Nat
  BY DEF Cap
<1>2. IsFiniteSet(1 .. Cap(t)) /\ Cardinality(1 .. Cap(t)) = Cap(t)
  BY <1>1, FS_Interval
<1> QED
  BY <1>1, <1>2, FS_Subset, FS_CardinalityType DEF Used

\* A load below the limit leaves an empty slot.
LEMMA EmptyLeft ==
    ASSUME NEW T, NEW t \in Seq(T), Cap(t) # 0, Loaded(t, 0)
    PROVE  \E i \in DOMAIN t : t[i].cnx = Null
<1> SUFFICES ASSUME \A i \in DOMAIN t : t[i].cnx # Null PROVE FALSE
  OBVIOUS
<1>1. DOMAIN t = 1 .. Cap(t) /\ Cap(t) \in Nat
  BY DEF Cap
<1>2. {i \in DOMAIN t : t[i].cnx # Null} = 1 .. Cap(t)
  BY <1>1
<1>3. Cardinality(1 .. Cap(t)) = Cap(t)
  BY <1>1, FS_Interval
<1>4. Used(t) = Cap(t)
  BY <1>2, <1>3 DEF Used
<1> QED
  BY <1>1, <1>4 DEF Loaded

\* A walk ends, at c's own slot or at an empty one, after slots that are
\* neither.
LEMMA WalkEnds ==
    ASSUME NEW T, NEW t \in Seq(T), Cap(t) # 0, Loaded(t, 0), NEW c \in Addr
    PROVE  /\ Walk(t, c) \in 0 .. Cap(t) - 1 /\ Passes(t, c, Walk(t, c))
           /\ EndOfWalk(t, c) \in DOMAIN t
           /\ t[EndOfWalk(t, c)].cnx \in {c, Null}
<1>1. PICK i \in DOMAIN t : t[i].cnx = Null
  BY EmptyLeft
<1>2. PICK k \in 0 .. Cap(t) - 1 : ProbeAt(t, c, k) = i
  BY Probes
<1>3. Cap(t) \in Nat /\ \A j \in 0 .. Cap(t) - 1 : ProbeAt(t, c, j) \in DOMAIN t
  BY Probes
<1>4. Stops(t, c) \in SUBSET Nat /\ k \in Stops(t, c)
  BY <1>1, <1>2, <1>3 DEF Stops
<1>5. Walk(t, c) \in Stops(t, c) /\ \A j \in Stops(t, c) : Walk(t, c) <= j
  BY <1>4, MinIs DEF Walk
<1>6. /\ Walk(t, c) \in 0 .. Cap(t) - 1
      /\ t[EndOfWalk(t, c)].cnx \in {c, Null} /\ EndOfWalk(t, c) \in DOMAIN t
  BY <1>3, <1>5 DEF Stops, EndOfWalk
<1>7. Passes(t, c, Walk(t, c))
  <2> DEFINE n == Walk(t, c)
  <2> SUFFICES ASSUME NEW j \in 0 .. n - 1,
                      t[ProbeAt(t, c, j)].cnx \in {c, Null}
               PROVE  FALSE
    BY DEF Passes
  <2>1. n \in 0 .. Cap(t) - 1
    BY <1>6
  <2>2. j \in 0 .. Cap(t) - 1 /\ j < n
    BY <2>1, <1>3
  <2>3. j \in Stops(t, c)
    BY <2>2 DEF Stops
  <2> HIDE DEF n
  <2>4. n <= j
    BY <2>3, <1>5 DEF n
  <2> QED
    BY <2>1, <2>2, <2>4, <1>3
<1> QED
  BY <1>6, <1>7

\* Probing finds c's entry if there is one.
LEMMA WalkFinds ==
    ASSUME NEW T, NEW t \in Seq(T), Sound(t), NEW c \in Addr
    PROVE  /\ \A i \in DOMAIN t : t[i].cnx = c =>
                 IsIn(t, c) /\ EndOfWalk(t, c) = i /\ TableGet(t, c) = t[i].db
           /\ IsIn(t, c) => EndOfWalk(t, c) \in DOMAIN t /\ t[EndOfWalk(t, c)].cnx = c
           /\ ~IsIn(t, c) => TableGet(t, c) = NoRing
<1>0. c # Null
  BY TableAssumption DEF TableAssumption
<1>1. ASSUME NEW i \in DOMAIN t, t[i].cnx = c
      PROVE  Cap(t) # 0 /\ EndOfWalk(t, c) = i
  <2>1. Cap(t) # 0 /\ Cap(t) \in Nat
    BY DEF Cap
  <2>2. PICK k \in 0 .. Cap(t) - 1 : ProbeAt(t, c, k) = i /\ Passes(t, c, k)
    BY <1>1 DEF Sound, Reached
  <2> DEFINE n == Walk(t, c)
  <2>3. n \in 0 .. Cap(t) - 1 /\ Passes(t, c, n) /\ t[ProbeAt(t, c, n)].cnx \in {c, Null}
    BY <2>1, WalkEnds DEF Sound, EndOfWalk
  <2> HIDE DEF n
  <2>4. ~(n < k)
    BY <2>1, <2>2, <2>3 DEF Passes
  <2>5. ~(k < n)
    BY <1>1, <2>1, <2>2, <2>3 DEF Passes
  <2>6. k = n
    BY <2>1, <2>2, <2>3, <2>4, <2>5
  <2> QED
    BY <2>1, <2>2, <2>6 DEF n, EndOfWalk
<1>2. ASSUME IsIn(t, c)
      PROVE  EndOfWalk(t, c) \in DOMAIN t /\ t[EndOfWalk(t, c)].cnx = c
  BY <1>2, WalkEnds DEF IsIn, Sound
<1>3. ASSUME ~IsIn(t, c) PROVE TableGet(t, c) = NoRing
  <2>1. CASE Cap(t) = 0
    BY <2>1 DEF TableGet
  <2>2. CASE Cap(t) # 0
    <3>1. EndOfWalk(t, c) \in DOMAIN t /\ t[EndOfWalk(t, c)].cnx = Null
      BY <2>2, <1>3, WalkEnds DEF IsIn, Sound
    <3>2. t[EndOfWalk(t, c)].cnx \notin Addr
      BY <3>1, TableAssumption DEF TableAssumption
    <3> QED
      BY <2>2, <3>1, <3>2 DEF TableGet, Sound, Filled
  <2> QED
    BY <2>1, <2>2
<1> QED
  BY <1>1, <1>2, <1>3 DEF IsIn, TableGet

\* The slot a new entry takes is free, and the walk for c comes to it.
LEMMA VacantIs ==
    ASSUME NEW T, NEW t \in Seq(T), Sound(t), Cap(t) # 0, NEW c \in Addr,
           ~IsIn(t, c)
    PROVE  /\ Vacant(t, c) \in DOMAIN t /\ t[Vacant(t, c)].cnx \in {Null, Tomb}
           /\ \E k \in 0 .. Cap(t) - 1 :
                  /\ ProbeAt(t, c, k) = Vacant(t, c) /\ Passes(t, c, k)
                  /\ \A j \in 0 .. k - 1 : ProbeAt(t, c, j) # Vacant(t, c)
<1> DEFINE n == Walk(t, c)
           tombs == {k \in 0 .. n : t[ProbeAt(t, c, k)].cnx = Tomb}
<1>1. /\ n \in 0 .. Cap(t) - 1 /\ Passes(t, c, n) /\ Cap(t) \in Nat
      /\ t[ProbeAt(t, c, n)].cnx = Null
      /\ \A k \in 0 .. Cap(t) - 1 : ProbeAt(t, c, k) \in DOMAIN t
  BY WalkEnds, Probes DEF Sound, IsIn, EndOfWalk
<1>2. Vacant(t, c) = ProbeAt(t, c, IF tombs = {} THEN n ELSE Min(tombs))
  BY DEF Vacant
<1> HIDE DEF n
<1>3. CASE tombs = {}
  <2>1. Vacant(t, c) = ProbeAt(t, c, n)
    BY <1>2, <1>3
  <2>2. \A j \in 0 .. n - 1 : ProbeAt(t, c, j) # ProbeAt(t, c, n)
    BY <1>1 DEF Passes
  <2> QED
    BY <1>1, <2>1, <2>2
<1>4. CASE tombs # {}
  <2> DEFINE k == Min(tombs)
  <2>1. tombs \in SUBSET Nat
    BY <1>1
  <2>2. k \in tombs /\ \A j \in tombs : k <= j
    BY <2>1, <1>4, MinIs
  <2>3. Vacant(t, c) = ProbeAt(t, c, k)
    BY <1>2, <1>4
  <2> HIDE DEF k
  <2>4. k \in 0 .. Cap(t) - 1 /\ k <= n /\ t[ProbeAt(t, c, k)].cnx = Tomb
    BY <1>1, <2>2
  <2>5. Passes(t, c, k)
    BY <1>1, <2>4 DEF Passes
  <2>6. ASSUME NEW j \in 0 .. k - 1 PROVE ProbeAt(t, c, j) # ProbeAt(t, c, k)
    <3> SUFFICES ASSUME ProbeAt(t, c, j) = ProbeAt(t, c, k) PROVE FALSE
      OBVIOUS
    <3>1. j \in 0 .. n /\ j < k
      BY <1>1, <2>4
    <3>2. j \in tombs
      BY <3>1, <2>4
    <3> QED
      BY <3>1, <3>2, <2>2, <2>4
  <2> QED
    BY <1>1, <2>3, <2>4, <2>5, <2>6
<1> QED
  BY <1>3, <1>4

\* A change of slots moves no probe.
LEMMA SameProbes ==
    ASSUME NEW t, NEW u, Cap(u) = Cap(t)
    PROVE  \A c, k : ProbeAt(u, c, k) = ProbeAt(t, c, k)
  BY DEF ProbeAt

\* A new entry leaves the table in order.
LEMMA Entered ==
    ASSUME NEW R, NoRing \notin R, NEW t \in Seq(Slot(R)), Sound(t), Cap(t) # 0,
           Loaded(t, 1), NEW c \in Addr, ~IsIn(t, c), NEW r \in R
    PROVE  LET v == Vacant(t, c)
               u == [t EXCEPT ![v] = [cnx |-> c, db |-> r]]
           IN  /\ v \in DOMAIN t /\ t[v].cnx \notin Addr
               /\ u \in Seq(Slot(R)) /\ Sound(u) /\ Used(u) <= Used(t) + 1
<1> DEFINE v == Vacant(t, c)
           e == [cnx |-> c, db |-> r]
           u == [t EXCEPT ![v] = e]
<1>1. /\ v \in DOMAIN t /\ t[v].cnx \in {Null, Tomb} /\ Cap(t) \in Nat
      /\ \A k \in 0 .. Cap(t) - 1 : \A b \in Addr : ProbeAt(t, b, k) \in DOMAIN t
  BY VacantIs, Probes
<1>2. PICK n \in 0 .. Cap(t) - 1 :
          /\ ProbeAt(t, c, n) = v /\ Passes(t, c, n)
          /\ \A j \in 0 .. n - 1 : ProbeAt(t, c, j) # v
  BY VacantIs
<1>3. e \in Slot(R)
  BY DEF Slot
<1>4. /\ u \in Seq(Slot(R)) /\ DOMAIN u = DOMAIN t /\ Cap(u) = Cap(t)
      /\ u[v] = e /\ \A i \in DOMAIN t : i # v => u[i] = t[i]
      /\ \A b, k : ProbeAt(u, b, k) = ProbeAt(t, b, k)
  <2> HIDE DEF v, e
  <2>1. /\ u \in Seq(Slot(R)) /\ DOMAIN u = DOMAIN t /\ Cap(u) = Cap(t)
        /\ u[v] = e /\ \A i \in DOMAIN t : i # v => u[i] = t[i]
    BY <1>1, <1>3 DEF Cap
  <2> QED
    BY <2>1, SameProbes
<1>5. Null \notin Addr /\ Tomb \notin Addr /\ e.cnx = c /\ e.db = r
  BY TableAssumption DEF TableAssumption
<1> HIDE DEF v, u, e
<1>6. Reached(u)
  <2> SUFFICES ASSUME NEW i \in DOMAIN u, u[i].cnx \in Addr
               PROVE  \E k \in 0 .. Cap(u) - 1 :
                        ProbeAt(u, u[i].cnx, k) = i /\ Passes(u, u[i].cnx, k)
    BY DEF Reached
  <2>1. CASE i = v
    <3>1. ASSUME NEW j \in 0 .. n - 1 PROVE u[ProbeAt(u, c, j)].cnx \notin {c, Null}
      <4>1. j \in 0 .. Cap(t) - 1
        BY <1>1, <1>2
      <4>2. ProbeAt(t, c, j) \in DOMAIN t /\ ProbeAt(t, c, j) # v
        BY <4>1, <1>1, <1>2
      <4>3. t[ProbeAt(t, c, j)].cnx \notin {c, Null}
        BY <1>2 DEF Passes
      <4> QED
        BY <4>2, <4>3, <1>4
    <3>2. Passes(u, c, n)
      BY <3>1 DEF Passes
    <3> QED
      BY <2>1, <3>2, <1>2, <1>4, <1>5
  <2>2. CASE i # v
    <3> DEFINE b == t[i].cnx
    <3>1. i \in DOMAIN t /\ u[i] = t[i] /\ b \in Addr
      BY <2>2, <1>4
    <3>2. PICK k \in 0 .. Cap(t) - 1 : ProbeAt(t, b, k) = i /\ Passes(t, b, k)
      BY <3>1 DEF Sound, Reached
    <3>3. b # c
      <4> SUFFICES ASSUME b = c PROVE FALSE
        OBVIOUS
      <4> QED
        BY <3>1, WalkFinds
    <3> HIDE DEF b
    <3>4. Passes(u, b, k)
      <4> SUFFICES ASSUME NEW j \in 0 .. k - 1
                   PROVE  u[ProbeAt(u, b, j)].cnx \notin {b, Null}
        BY DEF Passes
      <4>1. j \in 0 .. Cap(t) - 1
        BY <3>2, <1>1
      <4>2. ProbeAt(u, b, j) = ProbeAt(t, b, j) /\ ProbeAt(t, b, j) \in DOMAIN t
        BY <4>1, <1>1, <1>4, <3>1 DEF b
      <4>3. t[ProbeAt(t, b, j)].cnx \notin {b, Null}
        BY <3>2 DEF Passes
      <4>4. CASE ProbeAt(t, b, j) = v
        BY <4>2, <4>4, <1>4, <1>5, <3>3
      <4>5. CASE ProbeAt(t, b, j) # v
        BY <4>2, <4>3, <4>5, <1>4
      <4> QED
        BY <4>4, <4>5
    <3> QED
      BY <3>1, <3>2, <3>4, <1>4 DEF b
  <2> QED
    BY <2>1, <2>2
<1>7. OnePer(u)
  <2>1. \A i \in DOMAIN t : t[i].cnx # c
    BY WalkFinds
  <2> QED
    BY <2>1, <1>4, <1>5 DEF OnePer, Sound
<1>8. Filled(u)
  BY <1>4, <1>5 DEF Filled, Sound
<1>9. Used(u) <= Used(t) + 1 /\ Used(u) \in Nat /\ Used(t) \in Nat
  <2> DEFINE A == {i \in DOMAIN t : t[i].cnx # Null}
             B == {i \in DOMAIN u : u[i].cnx # Null}
  <2>1. IsFiniteSet(A) /\ Cardinality(A) \in Nat /\ IsFiniteSet(B) /\ Cardinality(B) \in Nat
    BY <1>4, UsedType, FS_CardinalityType
  <2>2. B \subseteq A \cup {v}
    BY <1>4
  <2>3. IsFiniteSet(A \cup {v}) /\ Cardinality(A \cup {v}) <= Cardinality(A) + 1
    <3> DEFINE S == A \cup {v}
    <3>1. /\ IsFiniteSet(S)
          /\ Cardinality(S) = IF v \in A THEN Cardinality(A) ELSE Cardinality(A) + 1
      BY <2>1, FS_AddElement, Zenon
    <3> HIDE DEF S, A
    <3>2. Cardinality(S) <= Cardinality(A) + 1
      BY <2>1, <3>1
    <3> QED
      BY <3>1, <3>2 DEF S
  <2>4. Cardinality(B) <= Cardinality(A \cup {v})
    BY <2>2, <2>3, FS_Subset
  <2>5. Cardinality(A \cup {v}) \in Nat
    BY <2>3, FS_CardinalityType
  <2> QED
    BY <2>1, <2>3, <2>4, <2>5 DEF Used
<1>10. Loaded(u, 0)
  <2> DEFINE x == Used(u)
             y == Used(t)
             z == Cap(t)
  <2>1. x <= y + 1 /\ x \in Nat /\ y \in Nat /\ z \in Nat /\ (y + 1) * 10 < z * 7 /\ z >= 2
    BY <1>1, <1>9 DEF Loaded
  <2> HIDE DEF x, y, z
  <2>2. z >= 2 /\ (x + 0) * 10 < z * 7
    BY <2>1
  <2> QED
    BY <2>2, <1>4 DEF Loaded, x, z
<1> QED
  BY <1>1, <1>4, <1>5, <1>6, <1>7, <1>8, <1>9, <1>10 DEF Sound, v, u, e

\* A removal leaves the table in order.
LEMMA Tombed ==
    ASSUME NEW R, NEW t \in Seq(Slot(R)), Sound(t), NEW v \in DOMAIN t,
           t[v].cnx \in Addr
    PROVE  LET u == [t EXCEPT ![v] = [cnx |-> Tomb, db |-> NoRing]]
           IN  u \in Seq(Slot(R)) /\ Sound(u)
<1> DEFINE e == [cnx |-> Tomb, db |-> NoRing]
           u == [t EXCEPT ![v] = e]
<1>1. e \in Slot(R) /\ e.cnx = Tomb /\ e.db = NoRing
  BY DEF Slot
<1>2. /\ u \in Seq(Slot(R)) /\ DOMAIN u = DOMAIN t /\ Cap(u) = Cap(t)
      /\ u[v] = e /\ \A i \in DOMAIN t : i # v => u[i] = t[i]
      /\ \A b, k : ProbeAt(u, b, k) = ProbeAt(t, b, k)
  <2> HIDE DEF e
  <2>1. /\ u \in Seq(Slot(R)) /\ DOMAIN u = DOMAIN t /\ Cap(u) = Cap(t)
        /\ u[v] = e /\ \A i \in DOMAIN t : i # v => u[i] = t[i]
    BY <1>1 DEF Cap
  <2> QED
    BY <2>1, SameProbes
<1>3. Null \notin Addr /\ Tomb \notin Addr /\ Tomb # Null
  BY TableAssumption DEF TableAssumption, Tomb, Null
<1>4. Cap(t) \in Nat /\ Cap(t) # 0
  BY DEF Cap
<1>5. \A b \in Addr : \A k \in 0 .. Cap(t) - 1 : ProbeAt(t, b, k) \in DOMAIN t
  BY <1>4, Probes
<1> HIDE DEF u, e
<1>6. Reached(u)
  <2> SUFFICES ASSUME NEW i \in DOMAIN u, u[i].cnx \in Addr
               PROVE  \E k \in 0 .. Cap(u) - 1 :
                        ProbeAt(u, u[i].cnx, k) = i /\ Passes(u, u[i].cnx, k)
    BY DEF Reached
  <2> DEFINE b == t[i].cnx
  <2>1. i # v /\ i \in DOMAIN t /\ u[i] = t[i] /\ b \in Addr
    BY <1>1, <1>2, <1>3
  <2>2. PICK k \in 0 .. Cap(t) - 1 : ProbeAt(t, b, k) = i /\ Passes(t, b, k)
    BY <2>1 DEF Sound, Reached
  <2> HIDE DEF b
  <2>3. Passes(u, b, k)
    <3> SUFFICES ASSUME NEW j \in 0 .. k - 1
                 PROVE  u[ProbeAt(u, b, j)].cnx \notin {b, Null}
      BY DEF Passes
    <3>1. j \in 0 .. Cap(t) - 1
      BY <2>2, <1>4
    <3>2. ProbeAt(u, b, j) = ProbeAt(t, b, j) /\ ProbeAt(t, b, j) \in DOMAIN t
      BY <3>1, <1>2, <1>5, <2>1
    <3>3. t[ProbeAt(t, b, j)].cnx \notin {b, Null}
      BY <2>2 DEF Passes
    <3> QED
      BY <3>2, <3>3, <1>1, <1>2, <1>3, <2>1
  <2> QED
    BY <2>1, <2>2, <2>3, <1>2 DEF b
<1>7. OnePer(u)
  BY <1>1, <1>2, <1>3 DEF OnePer, Sound
<1>8. Filled(u)
  BY <1>1, <1>2, <1>3 DEF Filled, Sound
<1>9. Used(u) = Used(t)
  <2>1. {i \in DOMAIN u : u[i].cnx # Null} = {i \in DOMAIN t : t[i].cnx # Null}
    BY <1>1, <1>2, <1>3
  <2> QED
    BY <2>1 DEF Used
<1>10. Loaded(u, 0)
  BY <1>2, <1>9 DEF Sound, Loaded
<1> QED
  BY <1>2, <1>6, <1>7, <1>8, <1>10 DEF Sound, u, e

-----------------------------------------------------------------------------
(* Growth.                                                                 *)

\* The first m slots placed in turn.
PlacedTo(g, t, cap, m) ==
    /\ g = [i \in 0 .. m |-> g[i]] /\ g[0] = EmptyTable(cap)
    /\ \A i \in 1 .. m : g[i] = Place(g[i - 1], t[i])

\* All can be, by induction.
LEMMA CanPlace ==
    ASSUME NEW t, NEW cap, NEW n \in Nat
    PROVE  \E g : PlacedTo(g, t, cap, n)
<1> DEFINE T == {m \in Nat : ~\E g : PlacedTo(g, t, cap, m)}
<1> SUFFICES ASSUME T # {} PROVE FALSE
  OBVIOUS
<1>1. PICK m \in T : \A k \in T : m <= k
  BY LeastOf
<1>2. m # 0
  <2> DEFINE g == [i \in 0 .. 0 |-> EmptyTable(cap)]
  <2>1. PlacedTo(g, t, cap, 0)
    BY DEF PlacedTo
  <2> QED
    BY <2>1
<1>3. m - 1 \in Nat /\ m - 1 \notin T
  BY <1>1, <1>2
<1>4. PICK g : PlacedTo(g, t, cap, m - 1)
  BY <1>3
<1> DEFINE h == [i \in 0 .. m |-> IF i = m THEN Place(g[m - 1], t[m]) ELSE g[i]]
<1>5. PlacedTo(h, t, cap, m)
  <2>1. h = [i \in 0 .. m |-> h[i]]
    OBVIOUS
  <2>2. h[0] = EmptyTable(cap)
    BY <1>2, <1>4 DEF PlacedTo
  <2>3. ASSUME NEW i \in 1 .. m PROVE h[i] = Place(h[i - 1], t[i])
    <3>1. CASE i = m
      BY <1>3, <3>1
    <3>2. CASE i # m
      <4>1. i \in 1 .. m - 1 /\ i - 1 \in 0 .. m /\ i - 1 # m
        BY <1>3, <3>2
      <4>2. h[i] = g[i] /\ h[i - 1] = g[i - 1]
        BY <3>2, <4>1
      <4>3. g[i] = Place(g[i - 1], t[i])
        BY <4>1, <1>4 DEF PlacedTo
      <4> QED
        BY <4>2, <4>3
    <3> QED
      BY <3>1, <3>2
  <2> QED
    BY <2>1, <2>2, <2>3 DEF PlacedTo
<1> QED
  BY <1>5

\* So the recursive definition of Rehash is one.
LEMMA RehashIs ==
    ASSUME NEW t, NEW cap, Cap(t) \in Nat
    PROVE  PlacedTo(Rehash(t, cap), t, cap, Cap(t))
<1> DEFINE n == Cap(t)
           Body(f) == [i \in 0 .. n |-> IF i = 0 THEN EmptyTable(cap)
                                        ELSE Place(f[i - 1], t[i])]
<1>1. \E f : f = Body(f)
  <2>1. PICK g : PlacedTo(g, t, cap, n)
    BY CanPlace
  <2>2. \A i \in 0 .. n :
            g[i] = IF i = 0 THEN EmptyTable(cap) ELSE Place(g[i - 1], t[i])
    BY <2>1 DEF PlacedTo
  <2>3. g = Body(g)
    BY <2>1, <2>2 DEF PlacedTo
  <2> QED
    BY <2>3
<1>2. Rehash(t, cap) = CHOOSE f : f = Body(f)
  BY DEF Rehash
<1> DEFINE f == Rehash(t, cap)
<1>3. f = Body(f)
  BY <1>1, <1>2
<1> QED
  BY <1>3 DEF PlacedTo

\* Table t has an entry of ring r for c.
Has(t, c, r) == \E i \in DOMAIN t : t[i].cnx = c /\ t[i].db = r

\* The slots in use among the first m.
UsedTo(t, m) == {i \in 1 .. m : t[i].cnx # Null}

\* They are finitely many, at most those of the whole table.
LEMMA UsedToIs ==
    ASSUME NEW T, NEW t \in Seq(T), NEW m \in 0 .. Cap(t)
    PROVE  /\ IsFiniteSet(UsedTo(t, m)) /\ Cardinality(UsedTo(t, m)) \in Nat
           /\ Cardinality(UsedTo(t, m)) <= Used(t)
<1> DEFINE A == {i \in DOMAIN t : t[i].cnx # Null}
           B == UsedTo(t, m)
<1>1. DOMAIN t = 1 .. Cap(t) /\ Cap(t) \in Nat
  BY DEF Cap
<1>2. IsFiniteSet(A)
  BY UsedType
<1>3. B \subseteq A
  BY <1>1 DEF UsedTo
<1> HIDE DEF A, B
<1>4. IsFiniteSet(B) /\ Cardinality(B) <= Cardinality(A) /\ Cardinality(B) \in Nat
  BY <1>2, <1>3, FS_Subset, FS_CardinalityType
<1> QED
  BY <1>4 DEF A, B, Used

\* What holds of the new table u when the first m slots are placed.
PlacedOK(R, t, cap, u, m) ==
    /\ u \in Seq(Slot(R)) /\ Cap(u) = cap
    /\ Reached(u) /\ OnePer(u) /\ Filled(u)
    /\ \A i \in DOMAIN u : u[i].cnx # Tomb
    /\ Used(u) <= Cardinality(UsedTo(t, m))
    /\ \A c \in Addr, r \in R :
           Has(u, c, r) <=> \E i \in 1 .. m : t[i].cnx = c /\ t[i].db = r

\* A fresh table is in order and has nothing.
LEMMA NothingPlaced ==
    ASSUME NEW R, NoRing \notin R, NEW t \in Seq(Slot(R)), NEW cap \in Nat
    PROVE  PlacedOK(R, t, cap, EmptyTable(cap), 0)
<1> DEFINE u == EmptyTable(cap)
<1>1. EmptySlot \in Slot(R) /\ EmptySlot.cnx = Null /\ EmptySlot.db = NoRing
  BY DEF Slot, EmptySlot
<1>2. /\ u \in Seq(Slot(R)) /\ Cap(u) = cap /\ DOMAIN u = 1 .. cap
      /\ \A i \in 1 .. cap : u[i] = EmptySlot
  BY <1>1 DEF EmptyTable, Cap
<1>3. Null \notin Addr /\ Null # Tomb
  BY TableAssumption DEF TableAssumption, Null, Tomb
<1> HIDE DEF u
<1>4. Reached(u) /\ OnePer(u) /\ Filled(u)
  BY <1>1, <1>2, <1>3 DEF Reached, OnePer, Filled
<1>5. Used(u) <= Cardinality(UsedTo(t, 0))
  <2>1. {i \in DOMAIN u : u[i].cnx # Null} = {}
    BY <1>1, <1>2
  <2>2. UsedTo(t, 0) = {}
    BY DEF UsedTo
  <2>3. Used(u) = 0 /\ Cardinality(UsedTo(t, 0)) = 0
    BY <2>1, <2>2, FS_EmptySet, Zenon DEF Used
  <2> QED
    BY <2>3
<1>6. \A c \in Addr, r \in R : ~Has(u, c, r)
  BY <1>1, <1>2 DEF Has
<1> QED
  BY <1>1, <1>2, <1>3, <1>4, <1>5, <1>6 DEF PlacedOK, u

\* One more slot is placed: a tombstone or an empty slot is passed over, an
\* entry is put.
LEMMA PlaceNext ==
    ASSUME NEW R, NoRing \notin R, NEW t \in Seq(Slot(R)), Sound(t),
           NEW cap \in Nat, cap >= 2, cap >= Cap(t),
           NEW m \in 1 .. Cap(t), NEW u, PlacedOK(R, t, cap, u, m - 1)
    PROVE  PlacedOK(R, t, cap, Place(u, t[m]), m)
<1> DEFINE c == t[m].cnx
           r == t[m].db
           placed == Place(u, t[m])
<1>1. /\ Cap(t) \in Nat /\ DOMAIN t = 1 .. Cap(t) /\ m \in DOMAIN t /\ Cap(t) # 0
      /\ t[m] \in Slot(R) /\ m \in Nat /\ m - 1 \in 0 .. Cap(t) /\ m \in 0 .. Cap(t)
  BY DEF Cap
<1>2. Null \notin Addr /\ Tomb \notin Addr /\ Null # Tomb
  BY TableAssumption DEF TableAssumption, Null, Tomb
<1>3. UsedTo(t, m) = IF c = Null THEN UsedTo(t, m - 1) ELSE UsedTo(t, m - 1) \cup {m}
  BY <1>1 DEF UsedTo
<1>4. /\ IsFiniteSet(UsedTo(t, m - 1)) /\ Cardinality(UsedTo(t, m - 1)) \in Nat
      /\ Cardinality(UsedTo(t, m)) \in Nat /\ Cardinality(UsedTo(t, m)) <= Used(t)
  BY <1>1, UsedToIs
<1>5. c # Null => Cardinality(UsedTo(t, m)) = Cardinality(UsedTo(t, m - 1)) + 1
  <2>1. m \notin UsedTo(t, m - 1)
    BY <1>1 DEF UsedTo
  <2> DEFINE A == UsedTo(t, m - 1)
             B == UsedTo(t, m)
  <2> HIDE DEF A, B
  <2>2. c # Null => B = A \cup {m}
    BY <1>3 DEF A, B
  <2>3. Cardinality(A \cup {m}) = IF m \in A THEN Cardinality(A) ELSE Cardinality(A) + 1
    BY <1>4, FS_AddElement DEF A
  <2> QED
    BY <2>1, <2>2, <2>3 DEF A, B
<1>6. c = Null => Cardinality(UsedTo(t, m)) = Cardinality(UsedTo(t, m - 1))
  BY <1>3
<1>7. Used(u) \in Nat /\ Used(t) \in Nat
  BY UsedType DEF PlacedOK
<1>8. CASE c \in {Null, Tomb}
  <2>1. placed = u
    BY <1>8 DEF Place
  <2>2. r = NoRing /\ c \notin Addr
    BY <1>1, <1>2, <1>8 DEF Sound, Filled
  <2>3. Used(u) <= Cardinality(UsedTo(t, m))
    BY <1>4, <1>5, <1>6, <1>7 DEF PlacedOK
  <2>4. ASSUME NEW a \in Addr, NEW q \in R
        PROVE  Has(u, a, q) <=> \E i \in 1 .. m : t[i].cnx = a /\ t[i].db = q
    <3>1. Has(u, a, q) <=> \E i \in 1 .. m - 1 : t[i].cnx = a /\ t[i].db = q
      BY DEF PlacedOK
    <3> QED
      BY <3>1, <2>2, <1>1
  <2> QED
    BY <2>1, <2>3, <2>4 DEF PlacedOK
<1>9. CASE c \notin {Null, Tomb}
  <2>1. c \in Addr /\ r \in R /\ t[m] = [cnx |-> c, db |-> r]
    BY <1>1, <1>9 DEF Slot, Sound, Filled
  <2> HIDE DEF c, r
  <2>2. u \in Seq(Slot(R)) /\ Cap(u) = cap /\ Cap(u) # 0 /\ DOMAIN u = 1 .. cap
    BY DEF PlacedOK, Cap
  <2>3. Loaded(u, 1) /\ Loaded(u, 0)
    <3> DEFINE x == Used(u)
               y == Used(t)
               z == Cap(t)
    <3>1. x + 1 <= y
      BY <1>4, <1>5, <1>7, <2>1, <1>2 DEF PlacedOK
    <3>2. y * 10 < z * 7
      BY <1>1, <1>7 DEF Sound, Loaded
    <3>3. x \in Nat /\ y \in Nat /\ z \in Nat /\ cap >= z
      BY <1>1, <1>7
    <3> HIDE DEF x, y, z
    <3>4. (x + 1) * 10 < cap * 7 /\ (x + 0) * 10 < cap * 7
      BY <3>1, <3>2, <3>3
    <3> QED
      BY <3>4, <2>2 DEF Loaded, x
  <2>4. Sound(u)
    BY <2>3 DEF Sound, PlacedOK
  <2>5. ~IsIn(u, c)
    <3> SUFFICES ASSUME IsIn(u, c) PROVE FALSE
      OBVIOUS
    <3>1. PICK j \in DOMAIN u : u[j].cnx = c
      BY <2>1, <2>2, <2>4, WalkFinds
    <3>2. u[j].db \in R
      <4>1. u[j] \in Slot(R)
        BY <2>2
      <4>2. u[j].db # NoRing
        BY <2>1, <2>4, <3>1 DEF Sound, Filled
      <4> QED
        BY <4>1, <4>2 DEF Slot
    <3>3. Has(u, c, u[j].db)
      BY <3>1 DEF Has
    <3>4. PICK i \in 1 .. m - 1 : t[i].cnx = c
      BY <2>1, <3>2, <3>3 DEF PlacedOK
    <3>5. i \in DOMAIN t /\ i # m
      BY <1>1
    <3> QED
      BY <1>1, <2>1, <3>4, <3>5 DEF Sound, OnePer, c
  <2>6. Vacant(u, c) = EndOfWalk(u, c)
    <3>1. Walk(u, c) \in 0 .. Cap(u) - 1
      BY <2>1, <2>2, <2>3, WalkEnds
    <3>2. \A k \in 0 .. Cap(u) - 1 : ProbeAt(u, c, k) \in DOMAIN u
      BY <2>1, <2>2, Probes
    <3>3. {k \in 0 .. Walk(u, c) : u[ProbeAt(u, c, k)].cnx = Tomb} = {}
      BY <2>2, <3>1, <3>2 DEF PlacedOK
    <3> QED
      BY <3>3 DEF Vacant, EndOfWalk
  <2> DEFINE v == Vacant(u, c)
             e == [cnx |-> c, db |-> r]
             x == [u EXCEPT ![v] = e]
  <2>7. placed = x
    <3>1. placed = [u EXCEPT ![EndOfWalk(u, t[m].cnx)] = t[m]]
      BY <1>9 DEF Place, c
    <3> QED
      BY <3>1, <2>1, <2>6 DEF c, r
  <2>8. /\ v \in DOMAIN u /\ u[v].cnx \notin Addr
        /\ placed \in Seq(Slot(R)) /\ Sound(placed) /\ Used(placed) <= Used(u) + 1
    <3>1. /\ v \in DOMAIN u /\ u[v].cnx \notin Addr
          /\ x \in Seq(Slot(R)) /\ Sound(x) /\ Used(x) <= Used(u) + 1
      BY <2>1, <2>2, <2>3, <2>4, <2>5, Entered
    <3> HIDE DEF x, v, placed
    <3> QED
      BY <3>1, <2>7
  <2> HIDE DEF v
  <2>9. /\ DOMAIN placed = DOMAIN u /\ Cap(placed) = cap /\ placed[v].cnx = c /\ placed[v].db = r
        /\ \A i \in DOMAIN u : i # v => placed[i] = u[i]
    BY <2>2, <2>7, <2>8 DEF Cap
  <2> HIDE DEF placed
  <2>10. \A i \in DOMAIN placed : placed[i].cnx # Tomb
    BY <2>1, <2>9, <1>2 DEF PlacedOK
  <2>11. Used(placed) <= Cardinality(UsedTo(t, m))
    <3>1. Used(placed) \in Nat
      BY <2>8, UsedType
    <3>2. c # Null
      BY <2>1, <1>2
    <3> QED
      BY <1>4, <1>5, <1>7, <2>8, <3>1, <3>2 DEF PlacedOK
  <2>12. ASSUME NEW a \in Addr, NEW q \in R
         PROVE  Has(placed, a, q) <=> \E i \in 1 .. m : t[i].cnx = a /\ t[i].db = q
    <3>1. Has(u, a, q) <=> \E i \in 1 .. m - 1 : t[i].cnx = a /\ t[i].db = q
      BY DEF PlacedOK
    <3>2. Has(placed, a, q) <=> (Has(u, a, q) \/ (a = c /\ q = r))
      BY <2>8, <2>9 DEF Has
    <3>3. (\E i \in 1 .. m : t[i].cnx = a /\ t[i].db = q)
          <=> \/ \E i \in 1 .. m - 1 : t[i].cnx = a /\ t[i].db = q
              \/ a = c /\ q = r
      BY <1>1 DEF c, r
    <3> QED
      BY <3>1, <3>2, <3>3
  <2> QED
    BY <2>8, <2>9, <2>10, <2>11, <2>12 DEF PlacedOK, Sound, placed
<1> QED
  BY <1>8, <1>9

\* A grown table is in order, has room for one more and the same entries.
LEMMA Grown ==
    ASSUME NEW R, NoRing \notin R, NEW t \in Seq(Slot(R)), Sound(t)
    PROVE  /\ Grow(t) \in Seq(Slot(R)) /\ Sound(Grow(t)) /\ Cap(Grow(t)) # 0
           /\ Loaded(Grow(t), 1)
           /\ \A c \in Addr, r \in R : Has(Grow(t), c, r) <=> Has(t, c, r)
<1> DEFINE cap == IF Cap(t) = 0 THEN InitCap ELSE 2 * Cap(t)
           g == Rehash(t, cap)
           n == Cap(t)
<1>1. /\ n \in Nat /\ DOMAIN t = 1 .. n /\ cap \in Nat /\ cap >= 2 /\ cap >= n
      /\ n # 0 => cap = 2 * n
  BY TableAssumption DEF TableAssumption, Cap
<1>2. PlacedTo(g, t, cap, n)
  BY <1>1, RehashIs
<1>3. Grow(t) = g[n]
  BY DEF Grow
<1> HIDE DEF cap, g
<1>4. PlacedOK(R, t, cap, g[n], n)
  <2> DEFINE T == {m \in Nat : m <= n /\ ~PlacedOK(R, t, cap, g[m], m)}
  <2> SUFFICES ASSUME T # {} PROVE FALSE
    BY <1>1
  <2>1. PICK m \in T : \A k \in T : m <= k
    BY LeastOf
  <2>2. m # 0
    BY <1>1, <1>2, <2>1, NothingPlaced DEF PlacedTo
  <2>3. m - 1 \in Nat /\ m - 1 <= n /\ m - 1 \notin T /\ m \in 1 .. n
    BY <1>1, <2>1, <2>2
  <2>4. PlacedOK(R, t, cap, g[m - 1], m - 1)
    BY <2>3
  <2>5. g[m] = Place(g[m - 1], t[m])
    BY <1>2, <2>3 DEF PlacedTo
  <2>6. PlacedOK(R, t, cap, Place(g[m - 1], t[m]), m)
    BY <1>1, <2>3, <2>4, PlaceNext
  <2> QED
    BY <2>1, <2>5, <2>6
<1> DEFINE u == g[n]
<1> HIDE DEF u
<1>5. /\ u \in Seq(Slot(R)) /\ Cap(u) = cap /\ Used(u) \in Nat /\ Used(t) \in Nat
      /\ Used(u) <= Cardinality(UsedTo(t, n)) /\ Cardinality(UsedTo(t, n)) \in Nat
      /\ Cardinality(UsedTo(t, n)) <= Used(t) /\ Used(t) <= n
  <2>1. u \in Seq(Slot(R)) /\ Cap(u) = cap /\ Used(u) <= Cardinality(UsedTo(t, n))
    BY <1>4 DEF PlacedOK, u
  <2>2. Used(u) \in Nat
    BY <2>1, UsedType
  <2>3. Used(t) \in Nat /\ Used(t) <= n
    BY UsedType
  <2>4. n \in 0 .. Cap(t)
    BY <1>1
  <2>5. Cardinality(UsedTo(t, n)) \in Nat /\ Cardinality(UsedTo(t, n)) <= Used(t)
    BY <2>4, UsedToIs
  <2> QED
    BY <2>1, <2>2, <2>3, <2>5
<1>6. Loaded(u, 1) /\ Loaded(u, 0)
  <2> DEFINE x == Used(u)
             y == Used(t)
  <2>1. x <= y /\ y <= n /\ x \in Nat /\ y \in Nat /\ (n # 0 => n >= 2 /\ y * 10 < n * 7)
    <3>1. n # 0 => n >= 2 /\ (y + 0) * 10 < n * 7
      BY DEF Sound, Loaded
    <3> QED
      BY <1>1, <1>5, <3>1
  <2> HIDE DEF x, y, n
  <2>2. (x + 1) * 10 < cap * 7 /\ (x + 0) * 10 < cap * 7
    BY <1>1, <2>1
  <2> QED
    BY <1>1, <1>5, <2>2 DEF Loaded, x
<1>7. \A c \in Addr, r \in R : Has(u, c, r) <=> Has(t, c, r)
  BY <1>1, <1>4 DEF PlacedOK, Has, u
<1> QED
  BY <1>1, <1>3, <1>4, <1>5, <1>6, <1>7 DEF PlacedOK, Sound, u
-----------------------------------------------------------------------------
(* The invariant.                                                          *)

B(P) == IF P THEN 1 ELSE 0

RingRec == [cnx : Addr, owner : Nat \ {0}, refs : Int, armed : BOOLEAN,
            recs : Seq(1 .. MaxRecord)]
CmdRec(R) ==
    {c \in [kind : TxKinds, cnx : Addr \cup {Null}, db : R \cup {NoRing}] :
        /\ c.kind # "OTHER" => c.cnx \in Addr
        /\ c.kind = "MARK" => c.db # NoRing}
EventRec == [kind : RxKinds \ {"RING_DRAINED"}, cnx : Addr, gen : Nat \ {0}]
RxRec == EventRec \cup [kind : {"RING_DRAINED"}, cnx : {Null}, gen : {0}]
ConnRec(R) ==
    {c \in [gen : Nat \ {0}, ring : R \cup {NoRing}, markOwed : BOOLEAN,
            parked : BOOLEAN, closed : BOOLEAN] :
        c.markOwed \/ c.parked => c.ring # NoRing}
WRec(R) == [at : {"pop", "take"}, cnx : Addr, db : R]
PRec == [at : {"push", "arm", "recheck", "mark"}, cnx : Addr,
         len : 1 .. MaxRecord + 1]

\* The types of the worker's variables, of the queues and of asyncio's.
WorkerTyped ==
    /\ cnx \in [Addr -> {"none", "up", "closing", "final"}]
    /\ gen \in [Addr -> Nat] /\ active \subseteq Addr /\ reset \subseteq Nat
    /\ w \in {Idle} \cup WRec(Ring) /\ failed \in BOOLEAN
    /\ left \in [{"cnx", "sends", "cmds", "dgrams", "ends", "closes", "resets",
                  "fails"} -> Nat]
RingsTyped == rings \in Seq(RingRec)
TableTyped == table \in Seq(Slot(Ring)) /\ Sound(table)
TxTyped == txQ \in Seq(CmdRec(Ring)) /\ Len(txQ) <= TxCap /\ txArmed \in BOOLEAN
RxTyped == rxQ \in Seq(RxRec) /\ batch \in Seq(EventRec)
LoopTyped ==
    /\ py \in {"idle", "drain", "route"} /\ (py = "route" => batch # <<>>)
    /\ owed \in Seq([cnx : Addr, db : Ring])
    /\ conn \in [Addr -> {NoConn} \cup ConnRec(Ring)]
    /\ p \in {Idle} \cup PRec
    /\ toClose \subseteq Addr /\ leaked \subseteq Ring
    /\ phase \in {"run", "stopping", "stopped", "freed"}

\* What the two calls in progress rely on.
Busy ==
    /\ p # Idle => phase = "run" /\ Known(p.cnx) /\ conn[p.cnx].ring # NoRing
    /\ toClose # {} => phase = "stopping"
    /\ \A a \in toClose : Known(a)
    /\ w # Idle => /\ phase \in {"run", "stopping"} /\ cnx[w.cnx] = "up"
                   /\ Has(table, w.cnx, w.db)
                   /\ w.at = "pop" => rings[w.db].recs # <<>>

\* The connections accepted are numbered.
Gens ==
    /\ Born \in Nat /\ (\A a \in Addr : gen[a] <= Born)
    /\ Cardinality({a \in Addr : gen[a] # 0}) <= Born
    /\ \A a \in Addr : cnx[a] # "none" => gen[a] # 0

\* A ring is named only with the address it was made for.
Home ==
    /\ \A a \in Addr : Known(a) /\ conn[a].ring # NoRing =>
           rings[conn[a].ring].cnx = a
    /\ \A i \in DOMAIN txQ : txQ[i].db # NoRing => rings[txQ[i].db].cnx = txQ[i].cnx
    /\ \A i \in DOMAIN owed : rings[owed[i].db].cnx = owed[i].cnx
TableHome == \A a \in Addr, r \in Ring : Has(table, a, r) => rings[r].cnx = a

\* The reference its connection made has one owner at a time: the
\* connection, a RELEASE, posted or owed, or nobody any more.
Owns(r) == Known(rings[r].cnx) /\ conn[rings[r].cnx].ring = r
ReleaseAt(i, r) == txQ[i].kind = "RELEASE" /\ txQ[i].db = r
Queued(r) == \E i \in DOMAIN txQ : ReleaseAt(i, r)
Owing(r) == \E i \in DOMAIN owed : owed[i].db = r
Claimed(r) == Owns(r) \/ Queued(r) \/ Owing(r) \/ r \in leaked
Single(r) ==
    /\ ~(Owns(r) /\ Queued(r)) /\ ~(Owns(r) /\ Owing(r)) /\ ~(Owns(r) /\ r \in leaked)
    /\ ~(Queued(r) /\ Owing(r)) /\ ~(Queued(r) /\ r \in leaked)
    /\ ~(Owing(r) /\ r \in leaked)
    /\ \A i, j \in DOMAIN txQ : ReleaseAt(i, r) /\ ReleaseAt(j, r) => i = j
    /\ \A i, j \in DOMAIN owed : owed[i].db = r /\ owed[j].db = r => i = j
Claims == \A r \in Ring : Single(r)

\* The table has the other reference.
Counts ==
    \A r \in Ring :
        rings[r].refs = B(Claimed(r)) + B(Has(table, rings[r].cnx, r))

\* A MARK still queued has the claim behind it.
Behind(i, r) == \E j \in DOMAIN txQ : j > i /\ ReleaseAt(j, r)
Marks ==
    phase \in {"run", "stopping"} =>
        \A i \in DOMAIN txQ, r \in Ring :
            txQ[i].kind = "MARK" /\ txQ[i].db = r =>
                Owns(r) \/ Behind(i, r) \/ Owing(r) \/ r \in leaked

\* A wake is on its way to a's writer.
WakeIn(q, a) == \E i \in DOMAIN q : q[i].cnx = a /\ q[i].kind \in {"DRAINED"} \cup Closes
Wake(a) == WakeIn(batch, a) \/ WakeIn(rxQ, a)
PopToCome(r) ==
    rings[r].armed /\ (rings[r].recs # <<>> \/ (w # Idle /\ w.at = "take" /\ w.db = r) \/ failed)
Parked ==
    /\ \A a \in Addr : Known(a) /\ conn[a].parked => PopToCome(conn[a].ring) \/ Wake(a)
    /\ p # Idle /\ p.at = "recheck" => rings[conn[p.cnx].ring].armed \/ Wake(p.cnx)

\* Connection g at address a is picoquic's still, or had no last event.
Live(c, n, z, a, g) == (c[a] \in {"up", "closing"} /\ n[a] = g) \/ g \in z
IsLive(a, g) == Live(cnx, gen, reset, a, g)
ClosedIn(q, i, a, g) ==
    \E j \in DOMAIN q : j > i /\ q[j] = [kind |-> "CLOSE", cnx |-> a, gen |-> g]
Data == {"READY", "DGRAM", "DRAINED"}
Ends ==
    phase = "run" =>
        /\ \A a \in Addr : Known(a) =>
               IsLive(a, conn[a].gen) \/ ClosedIn(batch, 0, a, conn[a].gen)
                 \/ ClosedIn(rxQ, 0, a, conn[a].gen)
        /\ \A i \in DOMAIN batch : batch[i].kind \in Data =>
               IsLive(batch[i].cnx, batch[i].gen)
                 \/ ClosedIn(batch, i, batch[i].cnx, batch[i].gen)
                 \/ ClosedIn(rxQ, 0, batch[i].cnx, batch[i].gen)
        /\ \A i \in DOMAIN rxQ : rxQ[i].kind \in Data =>
               IsLive(rxQ[i].cnx, rxQ[i].gen)
                 \/ ClosedIn(rxQ, i, rxQ[i].cnx, rxQ[i].gen)

\* Without a second connection at an address, address and number agree.
Agree ==
    ~Reused =>
        /\ \A i \in DOMAIN batch : batch[i].gen = gen[batch[i].cnx]
        /\ \A i \in DOMAIN rxQ : rxQ[i].cnx \in Addr => rxQ[i].gen = gen[rxQ[i].cnx]
        /\ \A a \in Addr : Known(a) => conn[a].gen = gen[a]
        /\ \A r \in Ring : rings[r].owner = gen[rings[r].cnx]

Typed == WorkerTyped /\ RingsTyped /\ TableTyped /\ TxTyped /\ RxTyped /\ LoopTyped
Refs == Home /\ TableHome /\ Claims /\ Counts /\ Marks
IInv == Typed /\ Busy /\ Gens /\ Refs /\ Parked /\ Ends /\ Agree

-----------------------------------------------------------------------------
(* Facts about sequences, records and rings that the steps use.            *)

\* A pop, index by index.
LEMMA OnTail ==
    ASSUME NEW T, NEW s \in Seq(T), s # <<>>
    PROVE  /\ Tail(s) \in Seq(T) /\ Len(Tail(s)) = Len(s) - 1 /\ Len(s) \in Nat \ {0}
           /\ DOMAIN s = 1 .. Len(s) /\ DOMAIN Tail(s) = 1 .. Len(s) - 1
           /\ s[1] \in T /\ \A i \in DOMAIN Tail(s) : Tail(s)[i] = s[i + 1]
  OBVIOUS

\* An append, index by index.
LEMMA OnAppend ==
    ASSUME NEW T, NEW s \in Seq(T), NEW e \in T
    PROVE  /\ Append(s, e) \in Seq(T) /\ Len(s) \in Nat /\ DOMAIN s = 1 .. Len(s)
           /\ Len(Append(s, e)) = Len(s) + 1
           /\ DOMAIN Append(s, e) = 1 .. Len(s) + 1
           /\ Append(s, e)[Len(s) + 1] = e
           /\ \A i \in DOMAIN s : Append(s, e)[i] = s[i]
  OBVIOUS

\* A set with at most one member has no more than one.
LEMMA AtMostOne ==
    ASSUME NEW S, \A x, y \in S : x = y
    PROVE  IsFiniteSet(S) /\ Cardinality(S) = IF S = {} THEN 0 ELSE 1
<1>1. CASE S = {}
  BY <1>1, FS_EmptySet
<1>2. CASE S # {}
  <2>1. PICK x : x \in S
    BY <1>2
  <2>2. S = {x}
    BY <2>1
  <2>. QED
    BY <2>2, <1>2, FS_Singleton
<1>. QED
  BY <1>1, <1>2

\* The fields of a ring's record, and that it stays one.
LEMMA RecIs ==
    ASSUME NEW c \in RingRec
    PROVE  /\ c.cnx \in Addr /\ c.owner \in Nat \ {0} /\ c.refs \in Int
           /\ c.armed \in BOOLEAN /\ c.recs \in Seq(1 .. MaxRecord)
           /\ c = [cnx |-> c.cnx, owner |-> c.owner, refs |-> c.refs,
                   armed |-> c.armed, recs |-> c.recs]
  BY DEF RingRec

\* Any fields of these types make such a record.
LEMMA IsRec ==
    ASSUME NEW a \in Addr, NEW g \in Nat \ {0}, NEW n \in Int, NEW b \in BOOLEAN,
           NEW s \in Seq(1 .. MaxRecord)
    PROVE  [cnx |-> a, owner |-> g, refs |-> n, armed |-> b, recs |-> s] \in RingRec
  BY DEF RingRec

\* A change of its count.
LEMMA RecRefs ==
    ASSUME NEW c \in RingRec, NEW n \in Int
    PROVE  LET e == [c EXCEPT !.refs = n]
           IN  /\ e \in RingRec /\ e.refs = n /\ e.cnx = c.cnx /\ e.owner = c.owner
               /\ e.armed = c.armed /\ e.recs = c.recs
<1>. DEFINE e == [c EXCEPT !.refs = n]
<1>1. e = [cnx |-> c.cnx, owner |-> c.owner, refs |-> n, armed |-> c.armed,
           recs |-> c.recs]
  BY RecIs
<1>2. e \in RingRec
  BY <1>1, RecIs, IsRec
<1>. QED
  BY <1>1, <1>2

\* A change of its arm.
LEMMA RecArmed ==
    ASSUME NEW c \in RingRec, NEW b \in BOOLEAN
    PROVE  LET e == [c EXCEPT !.armed = b]
           IN  /\ e \in RingRec /\ e.armed = b /\ e.cnx = c.cnx /\ e.owner = c.owner
               /\ e.refs = c.refs /\ e.recs = c.recs
<1>. DEFINE e == [c EXCEPT !.armed = b]
<1>1. e = [cnx |-> c.cnx, owner |-> c.owner, refs |-> c.refs, armed |-> b,
           recs |-> c.recs]
  BY RecIs
<1>2. e \in RingRec
  BY <1>1, RecIs, IsRec
<1>. QED
  BY <1>1, <1>2

\* A change of its records.
LEMMA RecRecs ==
    ASSUME NEW c \in RingRec, NEW s \in Seq(1 .. MaxRecord)
    PROVE  LET e == [c EXCEPT !.recs = s]
           IN  /\ e \in RingRec /\ e.recs = s /\ e.cnx = c.cnx /\ e.owner = c.owner
               /\ e.refs = c.refs /\ e.armed = c.armed
<1>. DEFINE e == [c EXCEPT !.recs = s]
<1>1. e = [cnx |-> c.cnx, owner |-> c.owner, refs |-> c.refs, armed |-> c.armed,
           recs |-> s]
  BY DEF RingRec
<1>2. e \in RingRec
  BY <1>1, RecIs, IsRec
<1>. QED
  BY <1>1, <1>2

\* Rings are numbered from 1.
LEMMA RingsAre ==
    ASSUME RingsTyped
    PROVE  /\ Len(rings) \in Nat /\ Ring = 1 .. Len(rings) /\ NoRing \notin Ring
           /\ \A r \in Ring : /\ rings[r] \in RingRec /\ rings[r].cnx \in Addr
                              /\ rings[r].owner \in Nat \ {0} /\ rings[r].refs \in Int
                              /\ rings[r].armed \in BOOLEAN
                              /\ rings[r].recs \in Seq(1 .. MaxRecord)
<1>1. Len(rings) \in Nat /\ Ring = 1 .. Len(rings)
  BY DEF RingsTyped, Ring
<1>2. \A r \in Ring : rings[r] \in RingRec
  BY DEF RingsTyped, Ring
<1>. QED
  BY <1>1, <1>2, RecIs DEF NoRing

\* What a change of references leaves alone.
RefsOnly ==
    /\ Ring' = Ring
    /\ \A r \in Ring : /\ rings'[r].cnx = rings[r].cnx
                       /\ rings'[r].owner = rings[r].owner
                       /\ rings'[r].armed = rings[r].armed
                       /\ rings'[r].recs = rings[r].recs

RingSeq == Seq(RingRec)

\* What aiopquic_dgram_buf_addref changes.
LEMMA RefTo ==
    ASSUME NEW rs \in RingSeq, NEW r \in DOMAIN rs \cup {NoRing},
           NEW us, us = AddRef(rs, r, 1)
    PROVE  /\ us \in RingSeq /\ DOMAIN us = DOMAIN rs
           /\ \A q \in DOMAIN rs :
                /\ us[q].cnx = rs[q].cnx /\ us[q].owner = rs[q].owner
                /\ us[q].armed = rs[q].armed /\ us[q].recs = rs[q].recs
                /\ us[q].refs = rs[q].refs + B(q = r)
                /\ rs[q].refs \in Int
<1>. rs \in Seq(RingRec)
  BY DEF RingSeq
<1>. DOMAIN rs = 1 .. Len(rs) /\ Len(rs) \in Nat /\ NoRing \notin DOMAIN rs
  BY DEF NoRing
<1>t. \A q \in DOMAIN rs : rs[q] \in RingRec
  OBVIOUS
<1>i. \A q \in DOMAIN rs : rs[q].refs \in Int
  BY <1>t, RecIs
<1>1. CASE r = NoRing
  <2>1. us = rs /\ \A q \in DOMAIN rs : q # r
    BY <1>1 DEF AddRef
  <2>. QED
    BY <2>1, <1>i DEF B
<1>2. CASE r # NoRing
  <2>. DEFINE e == [rs[r] EXCEPT !.refs = rs[r].refs + 1]
  <2>0. r \in DOMAIN rs /\ rs[r] \in RingRec
    BY <1>2
  <2>1. us = [rs EXCEPT ![r] = e]
    <3>1. us = [rs EXCEPT ![r].refs = @ + (1)]
      BY <1>2 DEF AddRef
    <3>2. rs[r].refs + (1) = rs[r].refs + 1
      BY <2>0, <1>i
    <3>. QED
      BY <3>1, <3>2
  <2>2. e \in RingRec /\ e.refs = rs[r].refs + 1 /\ e.cnx = rs[r].cnx
        /\ e.owner = rs[r].owner /\ e.armed = rs[r].armed /\ e.recs = rs[r].recs
    <3>1. rs[r].refs + 1 \in Int
      BY <2>0, RecIs
    <3>. QED
      BY <2>0, <3>1, RecRefs
  <2>. HIDE DEF e
  <2>3. DOMAIN us = DOMAIN rs /\ us[r] = e /\ \A q \in DOMAIN rs : q # r => us[q] = rs[q]
    BY <2>0, <2>1
  <2>4. us \in RingSeq
    BY <2>0, <2>1, <2>2, <1>t DEF RingSeq
  <2>6. ASSUME NEW q \in DOMAIN rs
        PROVE  /\ us[q].cnx = rs[q].cnx /\ us[q].owner = rs[q].owner
               /\ us[q].armed = rs[q].armed /\ us[q].recs = rs[q].recs
               /\ us[q].refs = rs[q].refs + B(q = r)
    <3>1. CASE q = r
      BY <3>1, <2>2, <2>3 DEF B
    <3>2. CASE q # r
      BY <3>2, <2>3, <1>i DEF B
    <3>. QED
      BY <3>1, <3>2
  <2>. QED
    BY <2>3, <2>4, <2>6, <1>i
<1>. QED
  BY <1>1, <1>2

\* What aiopquic_dgram_buf_unref changes.
LEMMA UnrefTo ==
    ASSUME NEW rs \in RingSeq, NEW r \in DOMAIN rs \cup {NoRing},
           NEW us, us = AddRef(rs, r, -1)
    PROVE  /\ us \in RingSeq /\ DOMAIN us = DOMAIN rs
           /\ \A q \in DOMAIN rs :
                /\ us[q].cnx = rs[q].cnx /\ us[q].owner = rs[q].owner
                /\ us[q].armed = rs[q].armed /\ us[q].recs = rs[q].recs
                /\ us[q].refs = rs[q].refs - B(q = r)
                /\ rs[q].refs \in Int
<1>. rs \in Seq(RingRec)
  BY DEF RingSeq
<1>. DOMAIN rs = 1 .. Len(rs) /\ Len(rs) \in Nat /\ NoRing \notin DOMAIN rs
  BY DEF NoRing
<1>t. \A q \in DOMAIN rs : rs[q] \in RingRec
  OBVIOUS
<1>i. \A q \in DOMAIN rs : rs[q].refs \in Int
  BY <1>t, RecIs
<1>1. CASE r = NoRing
  <2>1. us = rs /\ \A q \in DOMAIN rs : q # r
    BY <1>1 DEF AddRef
  <2>. QED
    BY <2>1, <1>i DEF B
<1>2. CASE r # NoRing
  <2>. DEFINE e == [rs[r] EXCEPT !.refs = rs[r].refs - 1]
  <2>0. r \in DOMAIN rs /\ rs[r] \in RingRec
    BY <1>2
  <2>1. us = [rs EXCEPT ![r] = e]
    <3>1. us = [rs EXCEPT ![r].refs = @ + (-1)]
      BY <1>2 DEF AddRef
    <3>2. rs[r].refs + (-1) = rs[r].refs - 1
      BY <2>0, <1>i
    <3>. QED
      BY <3>1, <3>2
  <2>2. e \in RingRec /\ e.refs = rs[r].refs - 1 /\ e.cnx = rs[r].cnx
        /\ e.owner = rs[r].owner /\ e.armed = rs[r].armed /\ e.recs = rs[r].recs
    <3>1. rs[r].refs - 1 \in Int
      BY <2>0, RecIs
    <3>. QED
      BY <2>0, <3>1, RecRefs
  <2>. HIDE DEF e
  <2>3. DOMAIN us = DOMAIN rs /\ us[r] = e /\ \A q \in DOMAIN rs : q # r => us[q] = rs[q]
    BY <2>0, <2>1
  <2>4. us \in RingSeq
    BY <2>0, <2>1, <2>2, <1>t DEF RingSeq
  <2>6. ASSUME NEW q \in DOMAIN rs
        PROVE  /\ us[q].cnx = rs[q].cnx /\ us[q].owner = rs[q].owner
               /\ us[q].armed = rs[q].armed /\ us[q].recs = rs[q].recs
               /\ us[q].refs = rs[q].refs - B(q = r)
    <3>1. CASE q = r
      BY <3>1, <2>2, <2>3 DEF B
    <3>2. CASE q # r
      BY <3>2, <2>3, <1>i DEF B
    <3>. QED
      BY <3>1, <3>2
  <2>. QED
    BY <2>3, <2>4, <2>6, <1>i
<1>. QED
  BY <1>1, <1>2

\* What a removal from the table leaves.
LEMMA OnRemove ==
    ASSUME NEW R, NoRing \notin R, NEW t \in Seq(Slot(R)), Sound(t), NEW c \in Addr,
           NEW db
    PROVE  LET x == Removed(t, c, db)
               u == TableRemove(t, c, db)
           IN  /\ u \in Seq(Slot(R)) /\ Sound(u) /\ x \in R \cup {NoRing}
               /\ x # NoRing => Has(t, c, x) /\ db \in {NoRing, x}
               /\ \A b \in Addr, r \in R :
                      Has(u, b, r) <=> Has(t, b, r) /\ ~(b = c /\ r = x)
<1>. DEFINE x == Removed(t, c, db)
            u == TableRemove(t, c, db)
            v == EndOfWalk(t, c)
            e == [cnx |-> Tomb, db |-> NoRing]
<1>1. CASE x = NoRing
  BY <1>1 DEF TableRemove
<1>2. CASE x # NoRing
  <2>1. IsIn(t, c) /\ x = TableGet(t, c) /\ db \in {NoRing, x}
    BY <1>2 DEF Removed
  <2>2. v \in DOMAIN t /\ t[v].cnx = c
    BY <2>1, WalkFinds
  <2>3. x = t[v].db
    BY <2>1, <2>2, WalkFinds
  <2>4. t[v] \in Slot(R)
    BY <2>2
  <2>5. x \in R
    BY <2>3, <2>4, <1>2 DEF Slot
  <2>6. u = [t EXCEPT ![v] = e]
    BY <1>2 DEF TableRemove
  <2>7. u \in Seq(Slot(R)) /\ Sound(u)
    BY <2>2, <2>6, Tombed
  <2>8. DOMAIN u = DOMAIN t /\ u[v] = e /\ \A i \in DOMAIN t : i # v => u[i] = t[i]
    BY <2>2, <2>6
  <2>9. \A i \in DOMAIN t : t[i].cnx = c => i = v
    BY <2>2, WalkFinds
  <2>10. \A b \in Addr : b # e.cnx
    BY TableAssumption
  <2>11. ASSUME NEW b \in Addr, NEW r \in R
         PROVE  Has(u, b, r) <=> Has(t, b, r) /\ ~(b = c /\ r = x)
    <3>. HIDE DEF e, u, v, x
    <3>1. CASE b = c
      <4>1. ~Has(u, b, r)
        BY <3>1, <2>8, <2>9, <2>10 DEF Has
      <4>2. Has(t, b, r) => r = x
        BY <3>1, <2>3, <2>9 DEF Has
      <4>. QED
        BY <3>1, <4>1, <4>2
    <3>2. CASE b # c
      BY <3>2, <2>2, <2>8, <2>10 DEF Has
    <3>. QED
      BY <3>1, <3>2
  <2>12. Has(t, c, x)
    BY <2>2, <2>3 DEF Has
  <2>. HIDE DEF u, x
  <2>13. QED
    BY <2>1, <2>5, <2>7, <2>11, <2>12 DEF u, x
<1>. QED
  BY <1>1, <1>2

\* What a put leaves, in the table or in a larger one.
LEMMA OnPut ==
    ASSUME NEW R, NoRing \notin R, NEW t \in Seq(Slot(R)), Sound(t), NEW c \in Addr,
           NEW r \in R
    PROVE  LET u == TablePut(Ready(t), c, r)
           IN  /\ u \in Seq(Slot(R)) /\ Sound(u)
               /\ IsIn(Ready(t), c) <=> \E q \in R : Has(t, c, q)
               /\ \A b \in Addr, q \in R :
                      Has(u, b, q) <=>
                          Has(t, b, q) \/ (~IsIn(Ready(t), c) /\ b = c /\ q = r)
<1>. DEFINE y == Ready(t)
            u == TablePut(y, c, r)
            v == Vacant(y, c)
            e == [cnx |-> c, db |-> r]
<1>1. y \in Seq(Slot(R)) /\ Sound(y) /\ Cap(y) # 0 /\ Loaded(y, 1)
      /\ \A b \in Addr, q \in R : Has(y, b, q) <=> Has(t, b, q)
  <2>1. CASE MustGrow(t)
    <3>1. y = Grow(t)
      BY <2>1 DEF Ready
    <3>. QED
      BY <3>1, Grown
  <2>2. CASE ~MustGrow(t)
    <3>1. y = t
      BY <2>2 DEF Ready
    <3>2. Cap(t) # 0 /\ ~((Used(t) + 1) * 10 >= Cap(t) * 7)
      BY <2>2 DEF MustGrow
    <3>3. Cap(t) \in Nat /\ Used(t) \in Nat
      <4>1. Cap(t) \in Nat
        BY DEF Cap
      <4>. QED
        BY <4>1, UsedType
    <3>4. Loaded(t, 1)
      BY <3>2, <3>3 DEF Sound, Loaded
    <3>. QED
      BY <3>1, <3>2, <3>4
  <2>. QED
    BY <2>1, <2>2
<1>. HIDE DEF y
<1>2. IsIn(y, c) <=> \E q \in R : Has(y, c, q)
  <2>1. ASSUME IsIn(y, c)
        PROVE  \E q \in R : Has(y, c, q)
    <3>. DEFINE i == EndOfWalk(y, c)
    <3>1. i \in DOMAIN y /\ y[i].cnx = c
      BY <2>1, <1>1, WalkFinds
    <3>. HIDE DEF i
    <3>2. y[i].db # NoRing /\ y[i] \in Slot(R)
      BY <3>1, <1>1 DEF Sound, Filled
    <3>3. y[i].db \in R
      BY <3>2 DEF Slot
    <3>. QED
      BY <3>1, <3>3 DEF Has
  <2>2. ASSUME NEW q \in R, Has(y, c, q)
        PROVE  IsIn(y, c)
    BY <2>2, <1>1, WalkFinds DEF Has
  <2>. QED
    BY <2>1, <2>2
<1>3. CASE IsIn(y, c)
  <2>1. u = y
    BY <1>3 DEF TablePut
  <2>. HIDE DEF u
  <2>. QED
    BY <1>1, <1>2, <1>3, <2>1 DEF u, y
<1>4. CASE ~IsIn(y, c)
  <2>1. u = [y EXCEPT ![v] = e]
    BY <1>4 DEF TablePut
  <2>2. v \in DOMAIN y /\ y[v].cnx \notin Addr /\ u \in Seq(Slot(R)) /\ Sound(u)
    <3>. DEFINE x == [y EXCEPT ![v] = e]
    <3>1. v \in DOMAIN y /\ y[v].cnx \notin Addr /\ x \in Seq(Slot(R)) /\ Sound(x)
      BY <1>1, <1>4, Entered
    <3>. HIDE DEF x, u, v
    <3>. QED
      BY <3>1, <2>1 DEF x
  <2>3. DOMAIN u = DOMAIN y /\ u[v] = e /\ \A i \in DOMAIN y : i # v => u[i] = y[i]
    BY <2>1, <2>2
  <2>4. ASSUME NEW b \in Addr, NEW q \in R
        PROVE  Has(u, b, q) <=> Has(y, b, q) \/ (b = c /\ q = r)
    <3>0. e.cnx = c /\ e.db = r
      OBVIOUS
    <3>. HIDE DEF e, u, v
    <3>1. ASSUME Has(u, b, q) PROVE Has(y, b, q) \/ (b = c /\ q = r)
      BY <3>0, <3>1, <2>3 DEF Has
    <3>2. ASSUME Has(y, b, q) PROVE Has(u, b, q)
      BY <3>2, <2>2, <2>3 DEF Has
    <3>3. ASSUME b = c, q = r PROVE Has(u, b, q)
      BY <3>0, <3>3, <2>2, <2>3 DEF Has
    <3>. QED
      BY <3>1, <3>2, <3>3
  <2>. HIDE DEF u
  <2>. QED
    BY <1>1, <1>2, <1>4, <2>2, <2>4 DEF u, y
<1>. QED
  BY <1>3, <1>4

\* The entries that hold a ring, of which there is at most one.
LEMMA RefsInTable ==
    ASSUME NEW R, NoRing \notin R, NEW t \in Seq(Slot(R)), Sound(t), NEW r \in R,
           NEW c \in Addr, \A a \in Addr : Has(t, a, r) => a = c
    PROVE  TableRefs(t, r) = B(Has(t, c, r))
<1>. DEFINE S == {i \in DOMAIN t : t[i].db = r}
<1>1. \A i \in S : t[i].cnx \in Addr
  BY DEF Sound, Filled
<1>2. \A i \in S : Has(t, t[i].cnx, r)
  BY DEF Has
<1>3. \A i \in S : t[i].cnx = c
  BY <1>1, <1>2
<1>4. \A i, j \in S : i = j
  BY <1>1, <1>3 DEF Sound, OnePer
<1>5. S # {} <=> Has(t, c, r)
  BY <1>3 DEF Has
<1>6. TableRefs(t, r) = Cardinality(S)
  BY DEF TableRefs
<1>. HIDE DEF S
<1>. QED
  BY <1>4, <1>5, <1>6, AtMostOne DEF B

\* A ring without records has room.
LEMMA FullHolds ==
    ASSUME NEW ring \in RingRec, NEW len \in 1 .. MaxRecord + 1, ~HasRoom(ring, len)
    PROVE  ring.recs # <<>>
<1>. SUFFICES ASSUME ring.recs = <<>> PROVE FALSE
  OBVIOUS
<1>1. Len(ring.recs) = 0
  OBVIOUS
<1>. DEFINE F(f) == [i \in 0 .. Len(ring.recs) |->
                        IF i = 0 THEN 0 ELSE f[i - 1] + Hdr + ring.recs[i]]
            z == [i \in 0 .. Len(ring.recs) |-> 0]
            b == CHOOSE f : f = F(f)
<1>2. z = F(z)
  BY <1>1
<1>3. b = F(b)
  <2>. HIDE DEF F, z
  <2>. QED
    BY <1>2
<1>4. RingBytes(ring) = b[Len(ring.recs)]
  BY DEF RingBytes
<1>. HIDE DEF b
<1>5. F(b)[0] = 0
  BY <1>1
<1>6. RingBytes(ring) = 0
  BY <1>1, <1>3, <1>4, <1>5
<1>. QED
  BY <1>6, BoundsAssumption DEF HasRoom, Capacity

\* The engine's connections.
LEMMA ConnIs ==
    ASSUME NEW R, NEW c \in {NoConn} \cup ConnRec(R)
    PROVE  /\ c # NoConn <=> c \in ConnRec(R)
           /\ c \in ConnRec(R) =>
                /\ c.gen \in Nat \ {0} /\ c.ring \in R \cup {NoRing}
                /\ c.markOwed \in BOOLEAN /\ c.parked \in BOOLEAN /\ c.closed \in BOOLEAN
                /\ c.markOwed \/ c.parked => c.ring # NoRing
  BY DEF NoConn, ConnRec

\* The fields of a connection the engine knows.
LEMMA KnownIs ==
    ASSUME LoopTyped, NEW a \in Addr
    PROVE  /\ conn[a] \in {NoConn} \cup ConnRec(Ring)
           /\ Known(a) <=> conn[a] \in ConnRec(Ring)
           /\ Known(a) =>
                /\ conn[a].gen \in Nat \ {0} /\ conn[a].ring \in Ring \cup {NoRing}
                /\ conn[a].markOwed \in BOOLEAN /\ conn[a].parked \in BOOLEAN
                /\ conn[a].closed \in BOOLEAN
                /\ conn[a].markOwed \/ conn[a].parked => conn[a].ring # NoRing
<1>1. conn[a] \in {NoConn} \cup ConnRec(Ring)
  BY DEF LoopTyped
<1>. QED
  BY <1>1, ConnIs DEF Known

\* Any fields of these types make a connection.
LEMMA IsConn ==
    ASSUME NEW R, NEW g \in Nat \ {0}, NEW r \in R \cup {NoRing}, NEW m \in BOOLEAN,
           NEW k \in BOOLEAN, NEW d \in BOOLEAN, m \/ k => r # NoRing
    PROVE  LET c == [gen |-> g, ring |-> r, markOwed |-> m, parked |-> k, closed |-> d]
           IN  /\ c \in ConnRec(R) /\ c # NoConn /\ c.gen = g /\ c.ring = r
               /\ c.markOwed = m /\ c.parked = k /\ c.closed = d
  BY DEF ConnRec, NoConn

\* A connection field by field, as each of its updates leaves it.
LEMMA ConnFields ==
    ASSUME NEW R, NEW c \in ConnRec(R)
    PROVE  /\ c = [gen |-> c.gen, ring |-> c.ring, markOwed |-> c.markOwed,
                   parked |-> c.parked, closed |-> c.closed]
           /\ \A r : [c EXCEPT !.ring = r] =
                  [gen |-> c.gen, ring |-> r, markOwed |-> c.markOwed,
                   parked |-> c.parked, closed |-> c.closed]
           /\ \A m : [c EXCEPT !.markOwed = m] =
                  [gen |-> c.gen, ring |-> c.ring, markOwed |-> m,
                   parked |-> c.parked, closed |-> c.closed]
           /\ \A k : [c EXCEPT !.parked = k] =
                  [gen |-> c.gen, ring |-> c.ring, markOwed |-> c.markOwed,
                   parked |-> k, closed |-> c.closed]
           /\ \A d : [c EXCEPT !.closed = d] =
                  [gen |-> c.gen, ring |-> c.ring, markOwed |-> c.markOwed,
                   parked |-> c.parked, closed |-> d]
           /\ \A m, k : [c EXCEPT !.parked = k, !.markOwed = m] =
                  [gen |-> c.gen, ring |-> c.ring, markOwed |-> m,
                   parked |-> k, closed |-> c.closed]
<1>1. c = [gen |-> c.gen, ring |-> c.ring, markOwed |-> c.markOwed,
           parked |-> c.parked, closed |-> c.closed]
  BY DEF ConnRec
<1>2. ASSUME NEW r
      PROVE  [c EXCEPT !.ring = r] =
                  [gen |-> c.gen, ring |-> r, markOwed |-> c.markOwed,
                   parked |-> c.parked, closed |-> c.closed]
  BY DEF ConnRec
<1>3. ASSUME NEW m
      PROVE  [c EXCEPT !.markOwed = m] =
                  [gen |-> c.gen, ring |-> c.ring, markOwed |-> m,
                   parked |-> c.parked, closed |-> c.closed]
  BY DEF ConnRec
<1>4. ASSUME NEW k
      PROVE  [c EXCEPT !.parked = k] =
                  [gen |-> c.gen, ring |-> c.ring, markOwed |-> c.markOwed,
                   parked |-> k, closed |-> c.closed]
  BY DEF ConnRec
<1>5. ASSUME NEW d
      PROVE  [c EXCEPT !.closed = d] =
                  [gen |-> c.gen, ring |-> c.ring, markOwed |-> c.markOwed,
                   parked |-> c.parked, closed |-> d]
  BY DEF ConnRec
<1>6. ASSUME NEW m, NEW k
      PROVE  [c EXCEPT !.parked = k, !.markOwed = m] =
                  [gen |-> c.gen, ring |-> c.ring, markOwed |-> m,
                   parked |-> k, closed |-> c.closed]
  <2>. DEFINE d == [c EXCEPT !.parked = k]
  <2>1. [c EXCEPT !.parked = k, !.markOwed = m] = [d EXCEPT !.markOwed = m]
    BY DEF ConnRec
  <2>2. d = [gen |-> c.gen, ring |-> c.ring, markOwed |-> c.markOwed,
             parked |-> k, closed |-> c.closed]
    BY <1>4
  <2>. HIDE DEF d
  <2>3. [d EXCEPT !.markOwed = m] = [gen |-> c.gen, ring |-> c.ring, markOwed |-> m,
                                     parked |-> k, closed |-> c.closed]
    BY <2>2
  <2>. QED
    BY <2>1, <2>3
<1>. QED
  BY <1>1, <1>2, <1>3, <1>4, <1>5, <1>6, Zenon

\* A step that changes one connection's record for another record.
LEMMA ConnStep ==
    ASSUME LoopTyped, NEW a \in Addr, NEW c, conn' = [conn EXCEPT ![a] = c]
    PROVE  /\ conn'[a] = c /\ \A b \in Addr : b # a => conn'[b] = conn[b]
           /\ \A R : c \in {NoConn} \cup ConnRec(R) /\ Ring \subseteq R =>
                  conn' \in [Addr -> {NoConn} \cup ConnRec(R)]
<1>1. conn \in [Addr -> {NoConn} \cup ConnRec(Ring)]
  BY DEF LoopTyped
<1>2. ASSUME NEW R, Ring \subseteq R
      PROVE  ConnRec(Ring) \subseteq ConnRec(R)
  BY <1>2 DEF ConnRec
<1>3. conn'[a] = c /\ \A b \in Addr : b # a => conn'[b] = conn[b]
  BY <1>1
<1>4. ASSUME NEW R, c \in {NoConn} \cup ConnRec(R), Ring \subseteq R
      PROVE  conn' \in [Addr -> {NoConn} \cup ConnRec(R)]
  <2>. HIDE DEF NoConn
  <2>1. \A b \in Addr : conn[b] \in {NoConn} \cup ConnRec(R)
    BY <1>1, <1>2, <1>4
  <2>. QED
    BY <2>1, <1>1, <1>4
<1>. QED
  BY <1>3, <1>4

-----------------------------------------------------------------------------
(* The parts of the invariant, kept by the kinds of steps there are.       *)

\* The worker posts an event.
LEMMA RxPosted ==
    ASSUME RxTyped, NEW e \in RxRec, rxQ' = Append(rxQ, e), batch' = batch
    PROVE  /\ RxTyped'
           /\ Len(rxQ) \in Nat /\ DOMAIN rxQ = 1 .. Len(rxQ)
           /\ DOMAIN rxQ' = 1 .. Len(rxQ) + 1 /\ rxQ'[Len(rxQ) + 1] = e
           /\ \A i \in DOMAIN rxQ : rxQ'[i] = rxQ[i]
           /\ \A a \in Addr : Wake(a) => Wake(a)'
           /\ e.kind \in {"DRAINED"} \cup Closes => WakeIn(rxQ', e.cnx)
           /\ \A i, a, g : ClosedIn(rxQ, i, a, g) => ClosedIn(rxQ', i, a, g)
           /\ \A i \in 0 .. Len(rxQ) : \A a, g :
                  e = [kind |-> "CLOSE", cnx |-> a, gen |-> g] => ClosedIn(rxQ', i, a, g)
<1>0. rxQ \in Seq(RxRec)
  BY DEF RxTyped
<1>1. /\ RxTyped' /\ Len(rxQ) \in Nat /\ DOMAIN rxQ = 1 .. Len(rxQ)
      /\ DOMAIN rxQ' = 1 .. Len(rxQ) + 1 /\ rxQ'[Len(rxQ) + 1] = e
      /\ \A i \in DOMAIN rxQ : rxQ'[i] = rxQ[i]
  <2>. HIDE DEF RxRec
  <2>1. /\ rxQ' \in Seq(RxRec) /\ Len(rxQ) \in Nat /\ DOMAIN rxQ = 1 .. Len(rxQ)
        /\ DOMAIN rxQ' = 1 .. Len(rxQ) + 1 /\ rxQ'[Len(rxQ) + 1] = e
        /\ \A i \in DOMAIN rxQ : rxQ'[i] = rxQ[i]
    BY <1>0, OnAppend
  <2>. QED
    BY <2>1 DEF RxTyped
<1>2. \A a \in Addr : Wake(a) => Wake(a)'
  BY <1>1 DEF Wake, WakeIn
<1>3. e.kind \in {"DRAINED"} \cup Closes => WakeIn(rxQ', e.cnx)
  BY <1>1 DEF Wake, WakeIn
<1>4. ASSUME NEW i, NEW a, NEW g, ClosedIn(rxQ, i, a, g)
      PROVE  ClosedIn(rxQ', i, a, g)
  BY <1>1, <1>4 DEF ClosedIn
<1>5. ASSUME NEW i \in 0 .. Len(rxQ), NEW a, NEW g,
             e = [kind |-> "CLOSE", cnx |-> a, gen |-> g]
      PROVE  ClosedIn(rxQ', i, a, g)
  <2>1. Len(rxQ) + 1 \in DOMAIN rxQ' /\ Len(rxQ) + 1 > i
    BY <1>1
  <2>. QED
    BY <2>1, <1>1, <1>5 DEF ClosedIn
<1>. QED
  BY <1>1, <1>2, <1>3, <1>4, <1>5

\* A connection the engine still has afterwards it had before.
FewerKnown == \A a \in Addr : Known(a)' => Known(a) /\ conn'[a].gen = conn[a].gen

\* Some batch or some queue of events, one by one.
LEMMA EventIs ==
    ASSUME RxTyped
    PROVE  /\ \A i \in DOMAIN batch : /\ batch[i] \in EventRec /\ batch[i].cnx \in Addr
                                      /\ batch[i].gen \in Nat \ {0}
           /\ \A i \in DOMAIN rxQ : /\ rxQ[i] \in RxRec
                                    /\ rxQ[i].kind # "RING_DRAINED" => rxQ[i] \in EventRec
                                    /\ rxQ[i].kind # "RING_DRAINED" \/ rxQ[i].cnx \in Addr =>
                                         rxQ[i].cnx \in Addr /\ rxQ[i].gen \in Nat \ {0}
<1>1. ASSUME NEW i \in DOMAIN batch
      PROVE  /\ batch[i] \in EventRec /\ batch[i].cnx \in Addr
             /\ batch[i].gen \in Nat \ {0}
  <2>1. batch[i] \in EventRec
    BY DEF RxTyped
  <2>. QED
    BY <2>1 DEF EventRec
<1>2. ASSUME NEW i \in DOMAIN rxQ
      PROVE  /\ rxQ[i] \in RxRec
             /\ rxQ[i].kind # "RING_DRAINED" => rxQ[i] \in EventRec
             /\ rxQ[i].kind # "RING_DRAINED" \/ rxQ[i].cnx \in Addr =>
                  rxQ[i].cnx \in Addr /\ rxQ[i].gen \in Nat \ {0}
  <2>1. rxQ[i] \in RxRec
    BY DEF RxTyped
  <2>2. rxQ[i].kind # "RING_DRAINED" => rxQ[i] \in EventRec
    BY <2>1 DEF RxRec
  <2>3. rxQ[i].kind = "RING_DRAINED" => rxQ[i].cnx \notin Addr
    BY <2>1, TableAssumption DEF RxRec, EventRec, Null
  <2>. QED
    BY <2>1, <2>2, <2>3 DEF EventRec
<1>. QED
  BY <1>1, <1>2

\* An event is posted: Ends, if it ends whatever is no longer live.
LEMMA EndsPosted ==
    ASSUME RxTyped, LoopTyped, Ends, batch' = batch, FewerKnown,
           phase' = "run" => phase = "run",
           NEW e \in RxRec, rxQ' = Append(rxQ, e),
           e.kind \in Data => Live(cnx', gen', reset', e.cnx, e.gen),
           \A a \in Addr, g \in Nat : IsLive(a, g) =>
               Live(cnx', gen', reset', a, g) \/ e = [kind |-> "CLOSE", cnx |-> a, gen |-> g]
    PROVE  Ends'
<1>. DEFINE n == Len(rxQ)
<1>1. /\ RxTyped' /\ n \in Nat /\ DOMAIN rxQ = 1 .. n
      /\ DOMAIN rxQ' = 1 .. n + 1 /\ rxQ'[n + 1] = e
      /\ \A i \in DOMAIN rxQ : rxQ'[i] = rxQ[i]
      /\ \A i, a, g : ClosedIn(rxQ, i, a, g) => ClosedIn(rxQ', i, a, g)
      /\ \A i \in 0 .. n : \A a, g :
             e = [kind |-> "CLOSE", cnx |-> a, gen |-> g] => ClosedIn(rxQ', i, a, g)
  BY RxPosted
<1>. HIDE DEF n
<1>. SUFFICES ASSUME phase' = "run", phase = "run" PROVE Ends'
  BY DEF Ends
<1>2. ASSUME NEW a \in Addr, Known(a)'
      PROVE  Live(cnx', gen', reset', a, conn'[a].gen) \/ ClosedIn(batch', 0, a, conn'[a].gen)
               \/ ClosedIn(rxQ', 0, a, conn'[a].gen)
  <2>. DEFINE g == conn[a].gen
  <2>1. Known(a) /\ conn'[a].gen = g /\ g \in Nat
    BY <1>2, KnownIs DEF FewerKnown
  <2>2. IsLive(a, g) \/ ClosedIn(batch, 0, a, g) \/ ClosedIn(rxQ, 0, a, g)
    BY <2>1 DEF Ends
  <2>. HIDE DEF g
  <2>3. 0 \in 0 .. n
    BY <1>1
  <2>4. Live(cnx', gen', reset', a, g) \/ ClosedIn(batch', 0, a, g) \/ ClosedIn(rxQ', 0, a, g)
    BY <2>1, <2>2, <2>3, <1>1
  <2>. QED
    BY <2>1, <2>4
<1>3. ASSUME NEW i \in DOMAIN batch, batch[i].kind \in Data
      PROVE  Live(cnx', gen', reset', batch[i].cnx, batch[i].gen)
               \/ ClosedIn(batch', i, batch[i].cnx, batch[i].gen)
               \/ ClosedIn(rxQ', 0, batch[i].cnx, batch[i].gen)
  <2>. DEFINE a == batch[i].cnx
              g == batch[i].gen
  <2>1. a \in Addr /\ g \in Nat
    BY EventIs
  <2>2. IsLive(a, g) \/ ClosedIn(batch, i, a, g) \/ ClosedIn(rxQ, 0, a, g)
    BY <1>3 DEF Ends
  <2>3. 0 \in 0 .. n
    BY <1>1
  <2>. HIDE DEF a, g
  <2>7. \/ Live(cnx', gen', reset', a, g)
        \/ ClosedIn(batch, i, a, g) \/ ClosedIn(rxQ', 0, a, g)
    BY <2>1, <2>2, <2>3, <1>1
  <2>. QED
    BY <2>7 DEF a, g
<1>4. ASSUME NEW i \in DOMAIN rxQ', rxQ'[i].kind \in Data
      PROVE  Live(cnx', gen', reset', rxQ'[i].cnx, rxQ'[i].gen)
               \/ ClosedIn(rxQ', i, rxQ'[i].cnx, rxQ'[i].gen)
  <2>1. CASE i = n + 1
    BY <2>1, <1>1, <1>4
  <2>2. CASE i # n + 1
    <3>1. i \in DOMAIN rxQ /\ rxQ'[i] = rxQ[i] /\ i \in 0 .. n
      BY <2>2, <1>1
    <3>2. rxQ[i] \in RxRec
      BY <3>1 DEF RxTyped
    <3>. DEFINE a == rxQ[i].cnx
                g == rxQ[i].gen
    <3>3. a \in Addr /\ g \in Nat
      BY <3>1, <1>4, EventIs DEF Data
    <3>4. IsLive(a, g) \/ ClosedIn(rxQ, i, a, g)
      BY <3>1, <1>4 DEF Ends
    <3>. HIDE DEF a, g
    <3>7. Live(cnx', gen', reset', a, g) \/ ClosedIn(rxQ', i, a, g)
      BY <3>1, <3>3, <3>4, <1>1
    <3>. QED
      BY <3>7, <3>1 DEF a, g
  <2>. QED
    BY <2>1, <2>2
<1>. QED
  BY <1>2, <1>3, <1>4 DEF Ends, IsLive

\* No event, or none at all of the worker's.
LEMMA EndsKept ==
    ASSUME RxTyped, LoopTyped, Ends, batch' = batch, rxQ' = rxQ, FewerKnown,
           phase' = "run" => phase = "run",
           \A a \in Addr, g \in Nat : IsLive(a, g) => Live(cnx', gen', reset', a, g)
    PROVE  Ends'
<1>. SUFFICES ASSUME phase' = "run", phase = "run" PROVE Ends'
  BY DEF Ends
<1>2. ASSUME NEW a \in Addr, Known(a)'
      PROVE  Live(cnx', gen', reset', a, conn'[a].gen) \/ ClosedIn(batch', 0, a, conn'[a].gen)
               \/ ClosedIn(rxQ', 0, a, conn'[a].gen)
  <2>. DEFINE g == conn[a].gen
  <2>1. Known(a) /\ conn'[a].gen = g /\ g \in Nat
    BY <1>2, KnownIs DEF FewerKnown
  <2>2. IsLive(a, g) \/ ClosedIn(batch, 0, a, g) \/ ClosedIn(rxQ, 0, a, g)
    BY <2>1 DEF Ends
  <2>. HIDE DEF g
  <2>. QED
    BY <2>1, <2>2
<1>3. ASSUME NEW i \in DOMAIN batch, batch[i].kind \in Data
      PROVE  Live(cnx', gen', reset', batch[i].cnx, batch[i].gen)
               \/ ClosedIn(batch', i, batch[i].cnx, batch[i].gen)
               \/ ClosedIn(rxQ', 0, batch[i].cnx, batch[i].gen)
  <2>1. batch[i].cnx \in Addr /\ batch[i].gen \in Nat
    BY EventIs
  <2>. QED
    BY <2>1, <1>3 DEF Ends
<1>4. ASSUME NEW i \in DOMAIN rxQ, rxQ[i].kind \in Data
      PROVE  Live(cnx', gen', reset', rxQ[i].cnx, rxQ[i].gen) \/ ClosedIn(rxQ', i, rxQ[i].cnx, rxQ[i].gen)
  <2>1. rxQ[i] \in RxRec
    BY DEF RxTyped
  <2>2. rxQ[i].cnx \in Addr /\ rxQ[i].gen \in Nat
    BY <1>4, EventIs DEF Data
  <2>. QED
    BY <2>2, <1>4 DEF Ends
<1>. QED
  BY <1>2, <1>3, <1>4 DEF Ends, IsLive

\* No connection is accepted.
LEMMA GensKept ==
    ASSUME Gens, gen' = gen, \A a \in Addr : cnx'[a] # "none" => cnx[a] # "none"
    PROVE  Gens' /\ Born' = Born /\ Reused' = Reused
<1>1. Born' = Born
  BY DEF Born
<1>2. Reused' = Reused
  BY <1>1 DEF Reused
<1>. HIDE DEF Born
<1>. QED
  BY <1>1, <1>2 DEF Gens

\* Events, connections and rings come from what was there.
IsEvent(e) == (\E i \in DOMAIN batch : batch[i] = e) \/ (\E i \in DOMAIN rxQ : rxQ[i] = e)

\* Agree, for events and connections that come from earlier ones.
LEMMA AgreeKept ==
    ASSUME RxTyped, Agree, gen' = gen,
           \A i \in DOMAIN batch' : batch'[i].cnx \in Addr /\ IsEvent(batch'[i]),
           \A i \in DOMAIN rxQ' : rxQ'[i].cnx \in Addr =>
               IsEvent(rxQ'[i]) \/ rxQ'[i].gen = gen[rxQ'[i].cnx],
           \A a \in Addr : Known(a)' =>
               \/ Known(a) /\ conn'[a].gen = conn[a].gen
               \/ \E i \in DOMAIN batch : batch[i].cnx = a /\ batch[i].gen = conn'[a].gen,
           \A r \in Ring' :
               \/ /\ r \in Ring /\ rings'[r].cnx = rings[r].cnx
                  /\ rings'[r].owner = rings[r].owner
               \/ /\ rings'[r].cnx \in Addr /\ Known(rings'[r].cnx)
                  /\ rings'[r].owner = conn[rings'[r].cnx].gen
    PROVE  Agree'
<1>1. Reused' = Reused
  BY DEF Reused, Born
<1>. SUFFICES ASSUME ~Reused PROVE Agree'
  BY <1>1 DEF Agree
<1>2. \A e : e.cnx \in Addr /\ IsEvent(e) => e.gen = gen[e.cnx]
  BY DEF Agree, IsEvent
<1>3. \A i \in DOMAIN batch' : batch'[i].gen = gen[batch'[i].cnx]
  BY <1>2
<1>4. \A i \in DOMAIN rxQ' : rxQ'[i].cnx \in Addr => rxQ'[i].gen = gen[rxQ'[i].cnx]
  BY <1>2
<1>5. ASSUME NEW a \in Addr, Known(a)' PROVE conn'[a].gen = gen[a]
  BY <1>5 DEF Agree
<1>6. ASSUME NEW r \in Ring' PROVE rings'[r].owner = gen[rings'[r].cnx]
  <2>1. CASE r \in Ring /\ rings'[r].cnx = rings[r].cnx /\ rings'[r].owner = rings[r].owner
    BY <2>1 DEF Agree
  <2>2. CASE /\ rings'[r].cnx \in Addr /\ Known(rings'[r].cnx)
             /\ rings'[r].owner = conn[rings'[r].cnx].gen
    BY <2>2 DEF Agree
  <2>. QED
    BY <2>1, <2>2
<1>. QED
  BY <1>3, <1>4, <1>5, <1>6 DEF Agree

\* Steps of which none moves an event.
LEMMA AgreeStill ==
    ASSUME RxTyped, Agree, gen' = gen, batch' = batch,
           \/ rxQ' = rxQ
           \/ \E e \in RxRec : /\ rxQ' = Append(rxQ, e)
                               /\ e.cnx \in Addr => e.gen = gen[e.cnx],
           FewerKnown,
           Ring' = Ring, \A r \in Ring : rings'[r].cnx = rings[r].cnx
                                         /\ rings'[r].owner = rings[r].owner
    PROVE  Agree'
<1>1. \A i \in DOMAIN batch' : batch'[i].cnx \in Addr /\ IsEvent(batch'[i])
  BY EventIs DEF IsEvent
<1>2. ASSUME NEW i \in DOMAIN rxQ', rxQ'[i].cnx \in Addr
      PROVE  IsEvent(rxQ'[i]) \/ rxQ'[i].gen = gen[rxQ'[i].cnx]
  <2>1. CASE rxQ' = rxQ
    BY <2>1 DEF IsEvent
  <2>2. ASSUME NEW e \in RxRec, rxQ' = Append(rxQ, e),
               e.cnx \in Addr => e.gen = gen[e.cnx]
        PROVE  IsEvent(rxQ'[i]) \/ rxQ'[i].gen = gen[rxQ'[i].cnx]
    <3>1. /\ Len(rxQ) \in Nat /\ DOMAIN rxQ = 1 .. Len(rxQ)
          /\ DOMAIN rxQ' = 1 .. Len(rxQ) + 1 /\ rxQ'[Len(rxQ) + 1] = e
          /\ \A j \in DOMAIN rxQ : rxQ'[j] = rxQ[j]
      BY <2>2, RxPosted
    <3>2. CASE i = Len(rxQ) + 1
      BY <3>1, <3>2, <2>2, <1>2
    <3>3. CASE i # Len(rxQ) + 1
      <4>1. i \in DOMAIN rxQ
        BY <3>1, <3>3
      <4>. QED
        BY <3>1, <4>1 DEF IsEvent
    <3>. QED
      BY <3>2, <3>3
  <2>. QED
    BY <2>1, <2>2
<1>3. \A a \in Addr : Known(a)' => Known(a) /\ conn'[a].gen = conn[a].gen
  BY DEF FewerKnown
<1>. QED
  BY <1>1, <1>2, <1>3, AgreeKept

\* A writer stays as it was.
LEMMA ParkedKept ==
    ASSUME Parked, \A a \in Addr : Wake(a) => Wake(a)',
           \A a \in Addr : Known(a)' /\ conn'[a].parked =>
               Known(a) /\ conn[a].parked /\ conn'[a].ring = conn[a].ring,
           \A a \in Addr : Known(a) /\ conn[a].parked => conn[a].ring \in Ring,
           \A r \in Ring : PopToCome(r) => PopToCome(r)',
           \/ p' = Idle \/ p'.at # "recheck"
           \/ /\ p' = p /\ (p # Idle => p.cnx \in Addr)
              /\ p # Idle => /\ conn[p.cnx].ring \in Ring
                             /\ conn'[p.cnx].ring = conn[p.cnx].ring
              /\ \A r \in Ring : rings[r].armed => rings'[r].armed
    PROVE  Parked'
<1>1. ASSUME NEW a \in Addr, Known(a)', conn'[a].parked
      PROVE  PopToCome(conn[a].ring)' \/ Wake(a)'
  <2>. DEFINE r == conn[a].ring
  <2>1. Known(a) /\ conn[a].parked /\ conn'[a].ring = r
    BY <1>1
  <2>2. PopToCome(r) \/ Wake(a)
    BY <2>1 DEF Parked
  <2>3. PopToCome(r) => PopToCome(r)'
    <3>1. r \in Ring
      BY <2>1
    <3>2. \A q \in Ring : PopToCome(q) =>
              /\ rings'[q].armed
              /\ rings'[q].recs # <<>> \/ (w' # Idle /\ w'.at = "take" /\ w'.db = q) \/ failed'
      BY DEF PopToCome
    <3>3. PopToCome(r) =>
              /\ rings'[r].armed
              /\ rings'[r].recs # <<>> \/ (w' # Idle /\ w'.at = "take" /\ w'.db = r) \/ failed'
      BY <3>1, <3>2
    <3>. QED
      BY <3>3, <2>1 DEF PopToCome
  <2>. QED
    BY <2>2, <2>3
<1>2. ASSUME p' # Idle, p'.at = "recheck"
      PROVE  rings'[conn'[p'.cnx].ring].armed \/ Wake(p.cnx)'
  BY <1>2 DEF Parked, Wake
<1>. QED
  BY <1>1, <1>2 DEF Parked

\* Without a change of arms or records, a pop to come stays to come.
LEMMA PopKept ==
    ASSUME RefsOnly, w' = w \/ w = Idle, failed => failed'
    PROVE  /\ \A r \in Ring : PopToCome(r) => PopToCome(r)'
           /\ \A r \in Ring : rings[r].armed => rings'[r].armed
<1>1. ASSUME NEW r \in Ring, PopToCome(r)
      PROVE  /\ rings'[r].armed
             /\ rings'[r].recs # <<>> \/ (w' # Idle /\ w'.at = "take" /\ w'.db = r) \/ failed'
  BY <1>1 DEF RefsOnly, PopToCome
<1>. QED
  BY <1>1 DEF RefsOnly, PopToCome

\* Whoever is parked or sends has a ring.
LEMMA RingsInUse ==
    ASSUME LoopTyped, Busy
    PROVE  /\ \A a \in Addr : Known(a) /\ conn[a].parked => conn[a].ring \in Ring
           /\ p # Idle => /\ p \in PRec /\ p.cnx \in Addr /\ conn[p.cnx].ring \in Ring
                          /\ Known(p.cnx) /\ p.len \in 1 .. MaxRecord + 1
<1>1. p # Idle => p \in PRec
  BY DEF LoopTyped
<1>2. p # Idle => p.cnx \in Addr /\ p.len \in 1 .. MaxRecord + 1
  BY <1>1 DEF PRec
<1>. QED
  BY <1>1, <1>2, KnownIs DEF Busy

\* The loop does nothing.
LEMMA ParkedStill ==
    ASSUME Parked, LoopTyped, Busy, conn' = conn, p' = p,
           \A a \in Addr : Wake(a) => Wake(a)',
           RefsOnly, w' = w \/ w = Idle, failed => failed'
    PROVE  Parked'
<1>1. \A a \in Addr : Known(a)' /\ conn'[a].parked =>
          Known(a) /\ conn[a].parked /\ conn'[a].ring = conn[a].ring
  BY DEF Known
<1>. QED
  BY <1>1, PopKept, RingsInUse, ParkedKept

-----------------------------------------------------------------------------
(* The claims, and the queue they travel in.                               *)

\* What these are about stays: rings and who owns them.
RingsHome == Ring' = Ring /\ \A r \in Ring : rings'[r].cnx = rings[r].cnx
ConnSame ==
    \A a \in Addr : /\ Known(a)' <=> Known(a)
                    /\ Known(a) => conn'[a].ring = conn[a].ring
Running == phase' \in {"run", "stopping"} => phase \in {"run", "stopping"}

\* Connections and rings that keep each other keep their claims.
LEMMA OwnsSame ==
    ASSUME RingsTyped, RingsHome, ConnSame
    PROVE  \A r \in Ring : Owns(r)' <=> Owns(r)
<1>. SUFFICES ASSUME NEW r \in Ring PROVE Owns(r)' <=> Owns(r)
  OBVIOUS
<1>. DEFINE a == rings[r].cnx
<1>1. a \in Addr /\ rings'[r].cnx = a
  BY RingsAre DEF RingsHome
<1>2. (Known(a) /\ conn'[a].ring = r) = (Known(a) /\ conn[a].ring = r)
  BY <1>1 DEF ConnSame
<1>3. conn'[a] # NoConn <=> Known(a)
  BY <1>1 DEF ConnSame, Known
<1>. HIDE DEF a
<1>4. Owns(r)' <=> conn'[a] # NoConn /\ conn'[a].ring = r
  BY <1>1 DEF Owns, Known
<1>5. Owns(r) <=> Known(a) /\ conn[a].ring = r
  BY DEF Owns, a
<1>. QED
  BY <1>2, <1>3, <1>4, <1>5

\* A command.
LEMMA CmdIs ==
    ASSUME NEW R, NEW c \in CmdRec(R)
    PROVE  /\ c.kind \in TxKinds /\ c.cnx \in Addr \cup {Null} /\ c.db \in R \cup {NoRing}
           /\ c.kind # "OTHER" => c.cnx \in Addr
           /\ c.kind = "MARK" => c.db \in R
  BY DEF CmdRec

\* The fields of a command that is made.
LEMMA IsCmd ==
    ASSUME NEW R, NEW k \in TxKinds, NEW a \in Addr \cup {Null}, NEW r \in R \cup {NoRing},
           k # "OTHER" => a \in Addr, k = "MARK" => r # NoRing
    PROVE  /\ Cmd(k, a, r) \in CmdRec(R) /\ Cmd(k, a, r).kind = k
           /\ Cmd(k, a, r).cnx = a /\ Cmd(k, a, r).db = r
  BY DEF Cmd, CmdRec

\* Where the connections, the debts and the queue name rings.
ConnHome ==
    \A a \in Addr : Known(a) /\ conn[a].ring # NoRing => rings[conn[a].ring].cnx = a
QueueHome ==
    \A i \in DOMAIN txQ : txQ[i].db # NoRing => rings[txQ[i].db].cnx = txQ[i].cnx
OwedHome == \A i \in DOMAIN owed : rings[owed[i].db].cnx = owed[i].cnx

\* Home, in the three parts that different steps disturb.
LEMMA HomeIs == Home <=> ConnHome /\ QueueHome /\ OwedHome
  BY DEF Home, ConnHome, QueueHome, OwedHome

\* The part about connections is kept.
LEMMA ConnHomeKept ==
    ASSUME LoopTyped, RingsHome, ConnSame, ConnHome
    PROVE  ConnHome'
<1>. SUFFICES ASSUME NEW a \in Addr, Known(a)', conn'[a].ring # NoRing
              PROVE  rings'[conn'[a].ring].cnx = a
  BY DEF ConnHome
<1>1. Known(a) /\ conn'[a].ring = conn[a].ring
  BY DEF ConnSame
<1>2. conn[a].ring \in Ring
  BY <1>1, KnownIs
<1>. QED
  BY <1>1, <1>2 DEF ConnHome, RingsHome

\* The debts, one by one.
LEMMA OwedIs ==
    ASSUME LoopTyped
    PROVE  /\ Len(owed) \in Nat /\ DOMAIN owed = 1 .. Len(owed)
           /\ \A i \in DOMAIN owed : owed[i].cnx \in Addr /\ owed[i].db \in Ring
<1>. DEFINE T == [cnx : Addr, db : Ring]
<1>1. owed \in Seq(T)
  BY DEF LoopTyped
<1>2. \A d \in T : d.cnx \in Addr /\ d.db \in Ring
  OBVIOUS
<1>. HIDE DEF T
<1>. QED
  BY <1>1, <1>2

\* The part about debts is kept.
LEMMA OwedHomeKept ==
    ASSUME LoopTyped, RingsHome, owed' = owed, OwedHome
    PROVE  OwedHome'
  BY OwedIs DEF OwedHome, RingsHome

QueueOne == \A r \in Ring, i, j \in DOMAIN txQ : ReleaseAt(i, r) /\ ReleaseAt(j, r) => i = j

\* What is in the queue does not change, a command other than a RELEASE is
\* posted, or one is popped.
LEMMA QueueSame ==
    ASSUME TxTyped, RingsTyped, RingsHome, QueueHome, QueueOne, txQ' = txQ
    PROVE  /\ QueueHome' /\ QueueOne'
           /\ \A r \in Ring : Queued(r)' <=> Queued(r)
           /\ \A i \in DOMAIN txQ, r \in Ring : Behind(i, r)' <=> Behind(i, r)
<1>1. QueueHome'
  <2>. SUFFICES ASSUME NEW i \in DOMAIN txQ, txQ[i].db # NoRing
                PROVE  rings'[txQ[i].db].cnx = txQ[i].cnx
    BY DEF QueueHome
  <2>1. txQ[i] \in CmdRec(Ring)
    BY DEF TxTyped
  <2>2. txQ[i].db \in Ring
    BY <2>1, CmdIs
  <2>. QED
    BY <2>2 DEF QueueHome, RingsHome
<1>2. QueueOne'
  BY DEF QueueOne, ReleaseAt, RingsHome
<1>. QED
  BY <1>1, <1>2 DEF Queued, Behind, ReleaseAt

\* A command other than a RELEASE is posted.
LEMMA QueuePosted ==
    ASSUME TxTyped, RingsTyped, RingsHome, QueueHome, QueueOne,
           NEW c \in CmdRec(Ring), c.db # NoRing => rings[c.db].cnx = c.cnx,
           c.kind # "RELEASE", ~TxFull, txQ' = Append(txQ, c), txArmed' \in BOOLEAN
    PROVE  /\ TxTyped' /\ QueueHome' /\ QueueOne'
           /\ \A r \in Ring : Queued(r)' <=> Queued(r)
           /\ \A i \in DOMAIN txQ, r \in Ring : Behind(i, r)' <=> Behind(i, r)
           /\ \A i \in DOMAIN txQ' : txQ'[i] = c \/ (i \in DOMAIN txQ /\ txQ'[i] = txQ[i])
<1>. DEFINE n == Len(txQ)
<1>0. txQ \in Seq(CmdRec(Ring))
  BY DEF TxTyped
<1>1. /\ txQ' \in Seq(CmdRec(Ring)) /\ n \in Nat /\ DOMAIN txQ = 1 .. n /\ Len(txQ') = n + 1
      /\ DOMAIN txQ' = 1 .. n + 1 /\ txQ'[n + 1] = c
      /\ \A i \in DOMAIN txQ : txQ'[i] = txQ[i]
  BY <1>0, OnAppend
<1>. HIDE DEF n
<1>2. \A i \in DOMAIN txQ' : (i = n + 1 /\ txQ'[i] = c) \/ (i \in DOMAIN txQ /\ txQ'[i] = txQ[i])
  BY <1>1
<1>3. TxTyped'
  <2>1. n <= TxCap /\ n # TxCap
    BY DEF TxTyped, TxFull, n
  <2>2. Len(txQ') <= TxCap
    BY <2>1, <1>1, BoundsAssumption
  <2>. QED
    BY <2>2, <1>1 DEF TxTyped, RingsHome
<1>4. QueueHome'
  <2>. SUFFICES ASSUME NEW i \in DOMAIN txQ', txQ'[i].db # NoRing
                PROVE  rings'[txQ'[i].db].cnx = txQ'[i].cnx
    BY DEF QueueHome
  <2>1. txQ'[i] \in CmdRec(Ring)
    BY <1>1
  <2>2. txQ'[i].db \in Ring
    BY <2>1, CmdIs
  <2>3. rings[txQ'[i].db].cnx = txQ'[i].cnx
    BY <1>2 DEF QueueHome
  <2>. QED
    BY <2>2, <2>3 DEF RingsHome
<1>5. \A r \in Ring, i \in DOMAIN txQ' :
          ReleaseAt(i, r)' <=> i \in DOMAIN txQ /\ ReleaseAt(i, r)
  <2>. SUFFICES ASSUME NEW r \in Ring, NEW i \in DOMAIN txQ'
                PROVE  ReleaseAt(i, r)' <=> i \in DOMAIN txQ /\ ReleaseAt(i, r)
    OBVIOUS
  <2>1. n + 1 \notin DOMAIN txQ
    BY <1>1
  <2>. QED
    BY <1>2, <2>1 DEF ReleaseAt
<1>6. DOMAIN txQ \subseteq DOMAIN txQ'
  BY <1>1
<1>7. QueueOne'
  <2>. SUFFICES ASSUME NEW r \in Ring, NEW i \in DOMAIN txQ', NEW j \in DOMAIN txQ',
                       ReleaseAt(i, r)', ReleaseAt(j, r)'
                PROVE  i = j
    BY DEF QueueOne, RingsHome
  <2>. QED
    BY <1>5 DEF QueueOne
<1>8. \A r \in Ring : Queued(r)' <=> Queued(r)
  <2>. SUFFICES ASSUME NEW r \in Ring PROVE Queued(r)' <=> Queued(r)
    OBVIOUS
  <2>. QED
    BY <1>5, <1>6 DEF Queued
<1>9. ASSUME NEW i \in DOMAIN txQ, NEW r \in Ring
      PROVE  Behind(i, r)' <=> Behind(i, r)
  BY <1>5, <1>6 DEF Behind
<1>. QED
  BY <1>2, <1>3, <1>4, <1>7, <1>8, <1>9

\* A command is popped.
LEMMA QueuePopped ==
    ASSUME TxTyped, RingsTyped, RingsHome, QueueHome, QueueOne,
           txQ # <<>>, txQ' = Tail(txQ), txArmed' \in BOOLEAN
    PROVE  /\ TxTyped' /\ QueueHome' /\ QueueOne'
           /\ 1 \in DOMAIN txQ /\ txQ[1] \in CmdRec(Ring)
           /\ \A r \in Ring : Queued(r)' <=> Queued(r) /\ ~ReleaseAt(1, r)
           /\ \A i \in DOMAIN txQ', r \in Ring :
                  /\ i + 1 \in DOMAIN txQ /\ txQ'[i] = txQ[i + 1]
                  /\ Behind(i, r)' <=> Behind(i + 1, r)
<1>. DEFINE n == Len(txQ)
<1>0. txQ \in Seq(CmdRec(Ring))
  BY DEF TxTyped
<1>1. /\ txQ' \in Seq(CmdRec(Ring)) /\ n \in Nat \ {0} /\ DOMAIN txQ = 1 .. n
      /\ Len(txQ') = n - 1 /\ DOMAIN txQ' = 1 .. n - 1 /\ txQ[1] \in CmdRec(Ring)
      /\ \A i \in DOMAIN txQ' : txQ'[i] = txQ[i + 1]
  BY <1>0, OnTail
<1>. HIDE DEF n
<1>2. \A i \in DOMAIN txQ' : i + 1 \in DOMAIN txQ /\ txQ'[i] = txQ[i + 1] /\ i + 1 # 1
  BY <1>1
<1>3. TxTyped'
  <2>1. n <= TxCap
    BY DEF TxTyped, n
  <2>2. Len(txQ') <= TxCap
    BY <2>1, <1>1, BoundsAssumption
  <2>. QED
    BY <2>2, <1>1 DEF TxTyped, RingsHome
<1>4. QueueHome'
  <2>. SUFFICES ASSUME NEW i \in DOMAIN txQ', txQ'[i].db # NoRing
                PROVE  rings'[txQ'[i].db].cnx = txQ'[i].cnx
    BY DEF QueueHome
  <2>1. txQ'[i] \in CmdRec(Ring)
    BY <1>1
  <2>2. txQ'[i].db \in Ring
    BY <2>1, CmdIs
  <2>3. rings[txQ'[i].db].cnx = txQ'[i].cnx
    BY <1>2 DEF QueueHome
  <2>. QED
    BY <2>2, <2>3 DEF RingsHome
<1>5. \A r \in Ring, i \in DOMAIN txQ' : ReleaseAt(i, r)' <=> ReleaseAt(i + 1, r)
  BY <1>2 DEF ReleaseAt
<1>6. \A j \in DOMAIN txQ : j # 1 => j - 1 \in DOMAIN txQ' /\ (j - 1) + 1 = j
  BY <1>1
<1>7. QueueOne'
  <2>. SUFFICES ASSUME NEW r \in Ring, NEW i \in DOMAIN txQ', NEW j \in DOMAIN txQ',
                       ReleaseAt(i, r)', ReleaseAt(j, r)'
                PROVE  i = j
    BY DEF QueueOne, RingsHome
  <2>1. i + 1 = j + 1
    BY <1>2, <1>5 DEF QueueOne
  <2>. QED
    BY <2>1, <1>1
<1>8. ASSUME NEW r \in Ring
      PROVE  Queued(r)' <=> Queued(r) /\ ~ReleaseAt(1, r)
  <2>1. ASSUME Queued(r)' PROVE Queued(r) /\ ~ReleaseAt(1, r)
    <3>1. PICK i \in DOMAIN txQ' : ReleaseAt(i, r)'
      BY <2>1 DEF Queued
    <3>2. i + 1 \in DOMAIN txQ /\ ReleaseAt(i + 1, r) /\ i + 1 # 1 /\ 1 \in DOMAIN txQ
      BY <3>1, <1>1, <1>2, <1>5
    <3>. QED
      BY <3>2 DEF Queued, QueueOne
  <2>2. ASSUME Queued(r), ~ReleaseAt(1, r) PROVE Queued(r)'
    <3>1. PICK j \in DOMAIN txQ : ReleaseAt(j, r)
      BY <2>2 DEF Queued
    <3>2. j # 1
      BY <3>1, <2>2
    <3>3. j - 1 \in DOMAIN txQ' /\ ReleaseAt(j - 1, r)'
      BY <3>1, <3>2, <1>5, <1>6
    <3>. QED
      BY <3>3 DEF Queued
  <2>. QED
    BY <2>1, <2>2
<1>9. ASSUME NEW i \in DOMAIN txQ', NEW r \in Ring
      PROVE  Behind(i, r)' <=> Behind(i + 1, r)
  <2>1. ASSUME Behind(i, r)' PROVE Behind(i + 1, r)
    <3>1. PICK j \in DOMAIN txQ' : j > i /\ ReleaseAt(j, r)'
      BY <2>1 DEF Behind
    <3>2. j + 1 \in DOMAIN txQ /\ ReleaseAt(j + 1, r) /\ j + 1 > i + 1
      BY <3>1, <1>1, <1>2, <1>5
    <3>. QED
      BY <3>2 DEF Behind
  <2>2. ASSUME Behind(i + 1, r) PROVE Behind(i, r)'
    <3>1. PICK j \in DOMAIN txQ : j > i + 1 /\ ReleaseAt(j, r)
      BY <2>2 DEF Behind
    <3>2. j # 1 /\ j - 1 > i
      BY <3>1, <1>1
    <3>3. j - 1 \in DOMAIN txQ' /\ ReleaseAt(j - 1, r)'
      BY <3>1, <3>2, <1>5, <1>6
    <3>. QED
      BY <3>2, <3>3 DEF Behind
  <2>. QED
    BY <2>1, <2>2
<1>10. 1 \in DOMAIN txQ
  BY <1>1
<1>. QED
  BY <1>1, <1>2, <1>3, <1>4, <1>7, <1>8, <1>9, <1>10

\* A ring has one RELEASE in the queue at most.
LEMMA ClaimsAre == Claims => QueueOne
  BY DEF Claims, Single, QueueOne

\* Claims stay with their owners, or a queued one goes.
LEMMA ClaimsKept ==
    ASSUME Claims, Ring' = Ring, QueueOne', owed' = owed, leaked' = leaked,
           \A r \in Ring : Owns(r)' <=> Owns(r),
           \A r \in Ring : Queued(r)' => Queued(r)
    PROVE  /\ Claims'
           /\ \A r \in Ring : Owing(r)' <=> Owing(r)
           /\ \A r \in Ring : (Queued(r)' <=> Queued(r)) => (Claimed(r)' <=> Claimed(r))
           /\ \A r \in Ring : ~Queued(r)' /\ Queued(r) => Claimed(r) /\ ~Claimed(r)'
<1>1. \A r \in Ring : Owing(r)' <=> Owing(r)
  BY DEF Owing
<1>2. ASSUME NEW r \in Ring PROVE Single(r)'
  <2>1. \A i, j \in DOMAIN txQ' : ReleaseAt(i, r)' /\ ReleaseAt(j, r)' => i = j
    BY DEF QueueOne
  <2>2. \A i, j \in DOMAIN owed' : owed'[i].db = r /\ owed'[j].db = r => i = j
    BY DEF Claims, Single
  <2>3. Single(r)
    BY DEF Claims
  <2>. QED
    BY <2>1, <2>2, <2>3, <1>1 DEF Single
<1>3. ASSUME NEW r \in Ring PROVE (Queued(r)' <=> Queued(r)) => (Claimed(r)' <=> Claimed(r))
  BY <1>1 DEF Claimed
<1>4. ASSUME NEW r \in Ring, ~Queued(r)', Queued(r) PROVE Claimed(r) /\ ~Claimed(r)'
  BY <1>1, <1>4 DEF Claimed, Claims, Single
<1>. QED
  BY <1>1, <1>2, <1>3, <1>4 DEF Claims

\* Where nothing is released, posted, owed or given up.
LEMMA RefsStill ==
    ASSUME LoopTyped, TxTyped, RingsTyped, Home, Claims, Marks,
           RingsHome, ConnSame, Running, owed' = owed, leaked' = leaked, txQ' = txQ
    PROVE  Home' /\ Claims' /\ Marks' /\ \A r \in Ring : Claimed(r)' <=> Claimed(r)
<1>1. ConnHome' /\ OwedHome' /\ \A r \in Ring : Owns(r)' <=> Owns(r)
  BY HomeIs, ConnHomeKept, OwedHomeKept, OwnsSame
<1>2. /\ QueueHome' /\ QueueOne'
      /\ \A r \in Ring : Queued(r)' <=> Queued(r)
      /\ \A i \in DOMAIN txQ, r \in Ring : Behind(i, r)' <=> Behind(i, r)
  BY QueueSame, ClaimsAre, HomeIs
<1>3. Home'
  BY <1>1, <1>2 DEF Home, ConnHome, OwedHome, QueueHome
<1>4. Ring' = Ring
  BY DEF RingsHome
<1>5. /\ Claims' /\ (\A r \in Ring : Owing(r)' <=> Owing(r))
      /\ (\A r \in Ring : Claimed(r)' <=> Claimed(r))
  BY <1>1, <1>2, <1>4, ClaimsKept
<1>6. Marks'
  BY <1>1, <1>2, <1>4, <1>5 DEF Marks, Running
<1>. QED
  BY <1>3, <1>5, <1>6

\* References, when a command other than a RELEASE is posted.
LEMMA RefsPosted ==
    ASSUME LoopTyped, TxTyped, RingsTyped, Home, Claims, Marks,
           RingsHome, ConnSame, Running, owed' = owed, leaked' = leaked,
           NEW c \in CmdRec(Ring), c.kind # "RELEASE",
           IF c.kind = "MARK" THEN Known(c.cnx) /\ conn[c.cnx].ring = c.db
           ELSE c.db = NoRing,
           ~TxFull, txQ' = Append(txQ, c), txArmed' \in BOOLEAN
    PROVE  /\ TxTyped' /\ Home' /\ Claims' /\ Marks'
           /\ \A r \in Ring : Claimed(r)' <=> Claimed(r)
<1>0. c.db # NoRing => /\ c.cnx \in Addr /\ c.db \in Ring /\ rings[c.db].cnx = c.cnx
                       /\ Owns(c.db)
  <2>1. c.db # NoRing => c.kind = "MARK" /\ c.cnx \in Addr /\ c.db \in Ring
    BY CmdIs
  <2>2. c.db # NoRing => rings[c.db].cnx = c.cnx
    BY <2>1 DEF Home
  <2>. QED
    BY <2>1, <2>2 DEF Owns
<1>1. ConnHome' /\ OwedHome' /\ \A r \in Ring : Owns(r)' <=> Owns(r)
  BY HomeIs, ConnHomeKept, OwedHomeKept, OwnsSame
<1>2. /\ TxTyped' /\ QueueHome' /\ QueueOne'
      /\ \A r \in Ring : Queued(r)' <=> Queued(r)
      /\ \A i \in DOMAIN txQ, r \in Ring : Behind(i, r)' <=> Behind(i, r)
      /\ \A i \in DOMAIN txQ' : txQ'[i] = c \/ (i \in DOMAIN txQ /\ txQ'[i] = txQ[i])
  BY <1>0, QueuePosted, ClaimsAre, HomeIs
<1>3. Home'
  BY <1>1, <1>2 DEF Home, ConnHome, OwedHome, QueueHome
<1>4. Ring' = Ring
  BY DEF RingsHome
<1>5. /\ Claims' /\ (\A r \in Ring : Owing(r)' <=> Owing(r))
      /\ (\A r \in Ring : Claimed(r)' <=> Claimed(r))
  BY <1>1, <1>2, <1>4, ClaimsKept
<1>6. Marks'
  <2>. SUFFICES ASSUME phase' \in {"run", "stopping"}, NEW i \in DOMAIN txQ', NEW r \in Ring,
                       txQ'[i].kind = "MARK", txQ'[i].db = r
                PROVE  Owns(r)' \/ Behind(i, r)' \/ Owing(r)' \/ r \in leaked'
    BY <1>4 DEF Marks
  <2>1. CASE txQ'[i] = c
    <3>1. r # NoRing
      BY RingsAre
    <3>. QED
      BY <2>1, <3>1, <1>0, <1>1
  <2>2. CASE i \in DOMAIN txQ /\ txQ'[i] = txQ[i]
    <3>1. Owns(r) \/ Behind(i, r) \/ Owing(r) \/ r \in leaked
      BY <2>2 DEF Marks, Running
    <3>. QED
      BY <3>1, <2>2, <1>1, <1>2, <1>5
  <2>. QED
    BY <2>1, <2>2, <1>2
<1>. QED
  BY <1>2, <1>3, <1>5, <1>6

\* References, when a command is popped: a RELEASE takes its claim with it.
LEMMA RefsPopped ==
    ASSUME LoopTyped, TxTyped, RingsTyped, Home, Claims, Marks,
           RingsHome, ConnSame, Running, owed' = owed, leaked' = leaked,
           txQ # <<>>, txQ' = Tail(txQ), txArmed' \in BOOLEAN
    PROVE  /\ TxTyped' /\ Home' /\ Claims' /\ Marks' /\ txQ[1] \in CmdRec(Ring)
           /\ txQ[1].db # NoRing => rings[txQ[1].db].cnx = txQ[1].cnx
           /\ \A r \in Ring : Claimed(r)' <=> Claimed(r) /\ ~ReleaseAt(1, r)
           /\ \A r \in Ring : ReleaseAt(1, r) => Claimed(r)
<1>1. ConnHome' /\ OwedHome' /\ \A r \in Ring : Owns(r)' <=> Owns(r)
  BY HomeIs, ConnHomeKept, OwedHomeKept, OwnsSame
<1>2. /\ TxTyped' /\ QueueHome' /\ QueueOne'
      /\ 1 \in DOMAIN txQ /\ txQ[1] \in CmdRec(Ring)
      /\ \A r \in Ring : Queued(r)' <=> Queued(r) /\ ~ReleaseAt(1, r)
      /\ \A i \in DOMAIN txQ', r \in Ring :
             /\ i + 1 \in DOMAIN txQ /\ txQ'[i] = txQ[i + 1]
             /\ Behind(i, r)' <=> Behind(i + 1, r)
  BY QueuePopped, ClaimsAre, HomeIs
<1>3. Home'
  BY <1>1, <1>2 DEF Home, ConnHome, OwedHome, QueueHome
<1>4. Ring' = Ring
  BY DEF RingsHome
<1>5. /\ Claims' /\ (\A r \in Ring : Owing(r)' <=> Owing(r))
      /\ (\A r \in Ring : (Queued(r)' <=> Queued(r)) => (Claimed(r)' <=> Claimed(r)))
      /\ (\A r \in Ring : ~Queued(r)' /\ Queued(r) => Claimed(r) /\ ~Claimed(r)')
  BY <1>1, <1>2, <1>4, ClaimsKept
<1>6. Marks'
  <2>. SUFFICES ASSUME phase' \in {"run", "stopping"}, NEW i \in DOMAIN txQ', NEW r \in Ring,
                       txQ'[i].kind = "MARK", txQ'[i].db = r
                PROVE  Owns(r)' \/ Behind(i, r)' \/ Owing(r)' \/ r \in leaked'
    BY <1>4 DEF Marks
  <2>1. i + 1 \in DOMAIN txQ /\ txQ'[i] = txQ[i + 1]
    BY <1>2
  <2>2. Owns(r) \/ Behind(i + 1, r) \/ Owing(r) \/ r \in leaked
    BY <2>1 DEF Marks, Running
  <2>. QED
    BY <2>2, <1>1, <1>2, <1>5
<1>7. \A r \in Ring : ReleaseAt(1, r) => Queued(r)
  BY <1>2 DEF Queued
<1>8. ASSUME NEW r \in Ring PROVE Claimed(r)' <=> Claimed(r) /\ ~ReleaseAt(1, r)
  BY <1>2, <1>5, <1>7
<1>9. txQ[1].db # NoRing => rings[txQ[1].db].cnx = txQ[1].cnx
  BY <1>2 DEF Home
<1>. QED
  BY <1>2, <1>3, <1>5, <1>6, <1>7, <1>8, <1>9 DEF Claimed

-----------------------------------------------------------------------------
(* The table, and the counts.                                              *)

\* Counts, when neither claims, nor entries, nor counts change.
LEMMA CountsKept ==
    ASSUME RingsHome, TableTyped, TableHome, Counts, table' = table,
           \A r \in Ring : Claimed(r)' <=> Claimed(r),
           \A r \in Ring : rings'[r].refs = rings[r].refs
    PROVE  TableTyped' /\ TableHome' /\ Counts'
<1>1. TableTyped'
  BY DEF TableTyped, RingsHome
<1>2. TableHome'
  BY DEF TableHome, RingsHome
<1>3. ASSUME NEW r \in Ring
      PROVE  rings'[r].refs = B(Claimed(r))' + B(Has(table, rings'[r].cnx, r))
  BY DEF Counts, RingsHome, B
<1>. QED
  BY <1>1, <1>2, <1>3 DEF Counts, RingsHome

\* An entry goes, or none: the ring it held has one reference less.
LEMMA EntryGone ==
    ASSUME RingsTyped, TableTyped, TableHome, RingsHome, NEW a \in Addr, NEW db,
           table' = TableRemove(table, a, db)
    PROVE  /\ TableTyped' /\ TableHome'
           /\ Removed(table, a, db) \in Ring \cup {NoRing}
           /\ \A r \in Ring : r = Removed(table, a, db) => Has(table, rings[r].cnx, r)
           /\ \A r \in Ring : Has(table', rings'[r].cnx, r) <=>
                  Has(table, rings[r].cnx, r) /\ r # Removed(table, a, db)
<1>. DEFINE x == Removed(table, a, db)
<1>0. NoRing \notin Ring /\ table \in Seq(Slot(Ring)) /\ Sound(table)
  BY RingsAre DEF TableTyped
<1>1. /\ table' \in Seq(Slot(Ring)) /\ Sound(table') /\ x \in Ring \cup {NoRing}
      /\ x # NoRing => Has(table, a, x)
      /\ \A b \in Addr, r \in Ring :
             Has(table', b, r) <=> Has(table, b, r) /\ ~(b = a /\ r = x)
  <2>. DEFINE u == TableRemove(table, a, db)
  <2>1. /\ u \in Seq(Slot(Ring)) /\ Sound(u) /\ x \in Ring \cup {NoRing}
        /\ x # NoRing => Has(table, a, x)
        /\ \A b \in Addr, r \in Ring :
               Has(u, b, r) <=> Has(table, b, r) /\ ~(b = a /\ r = x)
    BY <1>0, OnRemove
  <2>. HIDE DEF u, x
  <2>. QED
    BY <2>1 DEF u
<1>. HIDE DEF x
<1>2. TableTyped'
  BY <1>1 DEF TableTyped, RingsHome
<1>3. TableHome'
  BY <1>1 DEF TableHome, RingsHome
<1>4. ASSUME NEW r \in Ring
      PROVE  /\ r = x => Has(table, rings[r].cnx, r)
             /\ Has(table', rings'[r].cnx, r) <=> Has(table, rings[r].cnx, r) /\ r # x
  <2>1. rings[r].cnx \in Addr /\ rings'[r].cnx = rings[r].cnx
    BY RingsAre DEF RingsHome
  <2>2. r = x => rings[r].cnx = a /\ Has(table, a, r)
    BY <1>0, <1>1 DEF TableHome
  <2>. QED
    BY <2>1, <2>2, <1>1
<1>. QED
  BY <1>1, <1>2, <1>3, <1>4 DEF x

-----------------------------------------------------------------------------
(* The worker's callbacks.                                                 *)

Inputs == {"cnx", "sends", "cmds", "dgrams", "ends", "closes", "resets", "fails"}

\* An input is spent.
LEMMA SpendIs ==
    ASSUME left \in [Inputs -> Nat], NEW f \in Inputs, Spend(f)
    PROVE  left' \in [Inputs -> Nat]
<1>1. left[f] \in Nat /\ left[f] > 0 /\ left' = [left EXCEPT ![f] = left[f] - 1]
  BY DEF Spend
<1>2. left[f] - 1 \in Nat
  BY <1>1
<1>. HIDE DEF Inputs
<1>. QED
  BY <1>1, <1>2

\* An allocation fails.
LEMMA FailIs ==
    ASSUME left \in [Inputs -> Nat], Fail
    PROVE  left' \in [Inputs -> Nat] /\ failed' = TRUE
  BY SpendIs DEF Fail, Inputs

\* The type of the worker's variables, with a name for the inputs.
LEMMA WorkerIs ==
    WorkerTyped <=>
        /\ cnx \in [Addr -> {"none", "up", "closing", "final"}]
        /\ gen \in [Addr -> Nat] /\ active \subseteq Addr /\ reset \subseteq Nat
        /\ w \in {Idle} \cup WRec(Ring) /\ failed \in BOOLEAN /\ left \in [Inputs -> Nat]
  BY DEF WorkerTyped, Inputs

\* The loop is elsewhere: its variables and the queue of commands stay.
LEMMA LoopStays ==
    ASSUME IInv, UNCHANGED loopState, RingsHome
    PROVE  /\ LoopTyped' /\ TxTyped' /\ ConnSame /\ FewerKnown
           /\ Home' /\ Claims' /\ Marks' /\ \A r \in Ring : Claimed(r)' <=> Claimed(r)
<1>. USE DEF IInv, Typed, Refs
<1>1. LoopTyped'
  BY DEF LoopTyped, loopState, RingsHome
<1>2. TxTyped'
  BY DEF TxTyped, loopState, RingsHome
<1>3. ConnSame /\ FewerKnown /\ Running
  BY DEF ConnSame, FewerKnown, loopState, Known, Running
<1>4. owed' = owed /\ leaked' = leaked /\ txQ' = txQ
  BY DEF loopState
<1>. QED
  BY <1>1, <1>2, <1>3, <1>4, RefsStill

\* Rings and table stay as well.
LEMMA RingsStay ==
    ASSUME IInv, UNCHANGED <<rings, table, loopState>>
    PROVE  /\ LoopTyped' /\ TxTyped' /\ RingsTyped' /\ TableTyped' /\ Refs'
           /\ RingsHome /\ RefsOnly /\ FewerKnown
<1>1. RingsHome /\ RefsOnly /\ RingsTyped'
  BY DEF RingsHome, RefsOnly, Ring, IInv, Typed, RingsTyped
<1>2. /\ LoopTyped' /\ TxTyped' /\ FewerKnown
      /\ Home' /\ Claims' /\ Marks' /\ \A r \in Ring : Claimed(r)' <=> Claimed(r)
  BY <1>1, LoopStays
<1>3. TableTyped' /\ TableHome' /\ Counts'
  BY <1>1, <1>2, CountsKept DEF IInv, Typed, Refs
<1>. QED
  BY <1>1, <1>2, <1>3 DEF Refs

\* Busy, when the worker was idle and stays so.
LEMMA WorkerRests ==
    ASSUME Busy, WorkerIdle, w' = w, UNCHANGED <<p, toClose, phase, conn>>
    PROVE  Busy'
  BY DEF Busy, WorkerIdle, Known

\* A connection's number is that of its event.
LEMMA EventOf ==
    ASSUME IInv, NEW a \in Addr, cnx[a] # "none", NEW k \in RxKinds \ {"RING_DRAINED"}
    PROVE  /\ Event(k, a) = [kind |-> k, cnx |-> a, gen |-> gen[a]]
           /\ Event(k, a) \in RxRec /\ Event(k, a).gen = gen[a]
           /\ Event(k, a).cnx = a /\ Event(k, a).kind = k
<1>1. a # Null
  BY TableAssumption
<1>2. Event(k, a) = [kind |-> k, cnx |-> a, gen |-> gen[a]]
  BY <1>1 DEF Event
<1>3. gen[a] \in Nat \ {0}
  BY DEF IInv, Typed, WorkerTyped, Gens
<1>4. [kind |-> k, cnx |-> a, gen |-> gen[a]] \in EventRec
  BY <1>3 DEF EventRec
<1>. QED
  BY <1>2, <1>4 DEF RxRec

\* A new connection: its address may have been another's before.
LEMMA AcceptStep ==
    ASSUME IInv, NEW a \in Addr, Accept(a)
    PROVE  IInv'
<1>. USE DEF IInv, Typed
<1>. DEFINE n == Born + 1
            e == [kind |-> "READY", cnx |-> a, gen |-> n]
<1>1. /\ WorkerIdle /\ cnx[a] = "none" /\ Spend("cnx") /\ phase = "run"
      /\ cnx' = [cnx EXCEPT ![a] = "up"] /\ gen' = [gen EXCEPT ![a] = n]
      /\ rxQ' = Append(rxQ, e)
      /\ UNCHANGED <<active, table, rings, w, failed, reset, loopState>>
  BY DEF Accept
<1>2. Born \in Nat /\ n \in Nat \ {0}
  BY DEF Gens
<1>3. e \in RxRec /\ e.gen = n /\ e.cnx = a /\ e.kind = "READY"
  <2>1. e \in EventRec
    BY <1>2 DEF EventRec, RxKinds
  <2>. QED
    BY <2>1 DEF RxRec
<1>4. /\ LoopTyped' /\ TxTyped' /\ RingsTyped' /\ TableTyped' /\ Refs'
      /\ RingsHome /\ RefsOnly /\ FewerKnown
  BY <1>1, RingsStay
<1>5. UNCHANGED <<batch, conn, p, toClose, phase, owed>> /\ w' = w /\ failed' = failed
      /\ reset' = reset /\ rings' = rings
  BY <1>1 DEF loopState
<1>. DEFINE C == {"none", "up", "closing", "final"}
<1>6. cnx \in [Addr -> C] /\ gen \in [Addr -> Nat]
  BY DEF WorkerTyped
<1>7. /\ cnx' \in [Addr -> C] /\ gen' \in [Addr -> Nat]
      /\ cnx'[a] = "up" /\ gen'[a] = n
      /\ \A b \in Addr : b # a => cnx'[b] = cnx[b] /\ gen'[b] = gen[b]
  <2>. HIDE DEF n
  <2>1. cnx' \in [Addr -> C] /\ cnx'[a] = "up" /\ \A b \in Addr : b # a => cnx'[b] = cnx[b]
    BY <1>1, <1>6
  <2>2. gen' \in [Addr -> Nat] /\ gen'[a] = n /\ \A b \in Addr : b # a => gen'[b] = gen[b]
    BY <1>1, <1>2, <1>6
  <2>. QED
    BY <2>1, <2>2
<1>8. WorkerTyped'
  <2>1. left' \in [Inputs -> Nat]
    BY <1>1, WorkerIs, SpendIs DEF Inputs
  <2>2. Ring' = Ring
    BY <1>4 DEF RingsHome
  <2>3. active' = active /\ reset' = reset /\ w' = w /\ failed' = failed
    BY <1>1
  <2>. QED
    BY <2>1, <2>2, <2>3, <1>7 DEF WorkerTyped, Inputs
<1>9. RxTyped' /\ \A b \in Addr : Wake(b) => Wake(b)'
  BY <1>1, <1>3, <1>5, RxPosted
<1>10. Busy'
  BY <1>1, <1>5, WorkerRests
<1>11. Born' = n /\ \A b \in Addr : gen'[b] <= n
  <2>. DEFINE T == {gen'[b] : b \in Addr}
  <2>1. \A b \in Addr : gen[b] <= Born /\ gen[b] \in Nat
    BY <1>6 DEF Gens
  <2>2. \A b \in Addr : gen'[b] <= n
    BY <2>1, <1>2, <1>7
  <2>3. T \in SUBSET Nat /\ n \in T /\ \A m \in T : m <= n
    BY <2>2, <1>7
  <2>4. Max(T) = n
    BY <2>3, MaxIs
  <2>. QED
    BY <2>2, <2>4 DEF Born
<1>. DEFINE S == {b \in Addr : gen[b] # 0}
            U == {b \in Addr : gen'[b] # 0}
<1>12. /\ Cardinality(S) \in Nat /\ Cardinality(S) <= Born
       /\ Cardinality(U) = IF gen[a] = 0 THEN Cardinality(S) + 1 ELSE Cardinality(S)
  <2>1. IsFiniteSet(S) /\ Cardinality(S) \in Nat /\ Cardinality(S) <= Born
    <3>1. IsFiniteSet(S)
      BY TableAssumption, FS_Subset
    <3>. QED
      BY <3>1, FS_CardinalityType DEF Gens
  <2>2. U = S \cup {a}
    BY <1>2, <1>7
  <2>3. Cardinality(S \cup {a}) = IF a \in S THEN Cardinality(S) ELSE Cardinality(S) + 1
    BY <2>1, FS_AddElement
  <2>4. a \in S <=> gen[a] # 0
    OBVIOUS
  <2>. HIDE DEF S, U
  <2>. QED
    BY <2>1, <2>2, <2>3, <2>4
<1>13. Gens'
  <2>1. Cardinality(U) <= n
    BY <1>12, <1>2
  <2>2. \A b \in Addr : cnx'[b] # "none" => gen'[b] # 0
    BY <1>7, <1>2 DEF Gens
  <2>3. Born' \in Nat /\ \A b \in Addr : gen'[b] <= Born'
    BY <1>11, <1>2
  <2>. QED
    BY <2>1, <2>2, <2>3, <1>11 DEF Gens
<1>14. Parked'
  BY <1>4, <1>5, <1>9, ParkedStill
<1>15. Ends'
  <2>1. ASSUME NEW b \in Addr, NEW g \in Nat, IsLive(b, g)
        PROVE  Live(cnx', gen', reset', b, g)
    BY <2>1, <1>1, <1>5, <1>7 DEF IsLive, Live
  <2>2. Live(cnx', gen', reset', e.cnx, e.gen)
    BY <1>3, <1>7 DEF Live
  <2>. HIDE DEF e
  <2>. QED
    BY <2>1, <2>2, <1>1, <1>3, <1>4, <1>5, EndsPosted
<1>16. Agree'
  <2>. SUFFICES ASSUME ~Reused' PROVE Agree'
    BY DEF Agree
  <2>1. Cardinality(U) = n
    BY <1>11 DEF Reused
  <2>2. gen[a] = 0 /\ Cardinality(S) = Born
    BY <2>1, <1>12, <1>2
  <2>3. ~Reused
    BY <2>2 DEF Reused
  <2>4. \A i \in DOMAIN batch : batch'[i].gen = gen'[batch'[i].cnx]
    BY <2>2, <2>3, <1>5, <1>7, EventIs DEF Agree
  <2>5. ASSUME NEW i \in DOMAIN rxQ', rxQ'[i].cnx \in Addr
        PROVE  rxQ'[i].gen = gen'[rxQ'[i].cnx]
    <3>1. /\ Len(rxQ) \in Nat /\ DOMAIN rxQ = 1 .. Len(rxQ)
          /\ DOMAIN rxQ' = 1 .. Len(rxQ) + 1 /\ rxQ'[Len(rxQ) + 1] = e
          /\ \A j \in DOMAIN rxQ : rxQ'[j] = rxQ[j]
      BY <1>1, <1>3, <1>5, RxPosted
    <3>2. CASE i = Len(rxQ) + 1
      BY <3>1, <3>2, <1>3, <1>7
    <3>3. CASE i # Len(rxQ) + 1
      <4>1. i \in DOMAIN rxQ /\ rxQ'[i] = rxQ[i]
        BY <3>1, <3>3
      <4>2. rxQ[i].gen # 0 /\ rxQ[i].gen = gen[rxQ[i].cnx]
        BY <4>1, <2>3, <2>5, EventIs DEF Agree
      <4>. QED
        BY <4>1, <4>2, <2>2, <2>5, <1>7
    <3>. QED
      BY <3>2, <3>3
  <2>6. ASSUME NEW b \in Addr, Known(b)' PROVE conn'[b].gen = gen'[b]
    <3>1. Known(b) /\ conn'[b].gen = conn[b].gen
      BY <2>6, <1>4 DEF FewerKnown
    <3>2. conn[b].gen = gen[b] /\ conn[b].gen # 0
      BY <3>1, <2>3, KnownIs DEF Agree
    <3>. QED
      BY <3>1, <3>2, <2>2, <1>7
  <2>7. ASSUME NEW r \in Ring PROVE rings'[r].owner = gen'[rings'[r].cnx]
    <3>1. rings[r].owner = gen[rings[r].cnx] /\ rings[r].owner # 0 /\ rings[r].cnx \in Addr
      BY <2>3, RingsAre DEF Agree
    <3>. QED
      BY <3>1, <2>2, <1>5, <1>7
  <2>. QED
    BY <2>4, <2>5, <2>6, <2>7, <1>4, <1>5 DEF Agree, RingsHome
<1>. QED
  BY <1>4, <1>8, <1>9, <1>10, <1>13, <1>14, <1>15, <1>16

\* An event that changes nothing else, or a change of picoquic's alone.
LEMMA RecvDatagramStep ==
    ASSUME IInv, NEW a \in Addr, RecvDatagram(a)
    PROVE  IInv'
<1>. USE DEF IInv, Typed
<1>. DEFINE e == Event("DGRAM", a)
<1>1. /\ WorkerIdle /\ cnx[a] \in {"up", "closing"} /\ Spend("dgrams")
      /\ rxQ' = Append(rxQ, e)
      /\ UNCHANGED <<cnx, gen, active, table, rings, w, failed, reset, loopState>>
  BY DEF RecvDatagram
<1>2. UNCHANGED <<batch, conn, p, toClose, phase, owed>> /\ w' = w /\ failed' = failed
      /\ reset' = reset /\ rings' = rings /\ cnx' = cnx /\ gen' = gen
  BY <1>1 DEF loopState
<1>3. e \in RxRec /\ e.gen = gen[a] /\ e.cnx = a /\ e.kind = "DGRAM"
  BY <1>1, EventOf DEF RxKinds
<1>. HIDE DEF e
<1>4. /\ LoopTyped' /\ TxTyped' /\ RingsTyped' /\ TableTyped' /\ Refs'
      /\ RingsHome /\ RefsOnly /\ FewerKnown
  BY <1>1, RingsStay
<1>5. WorkerTyped'
  <2>1. left' \in [Inputs -> Nat]
    BY <1>1, WorkerIs, SpendIs DEF Inputs
  <2>2. Ring' = Ring
    BY <1>4 DEF RingsHome
  <2>. QED
    BY <2>1, <2>2, <1>1 DEF WorkerTyped, Inputs
<1>6. RxTyped' /\ \A b \in Addr : Wake(b) => Wake(b)'
  BY <1>1, <1>2, <1>3, RxPosted
<1>7. Busy'
  BY <1>1, <1>2, WorkerRests
<1>8. Gens'
  BY <1>2, GensKept
<1>9. Parked'
  BY <1>2, <1>4, <1>6, ParkedStill
<1>10. Ends'
  <2>1. \A b \in Addr, g \in Nat : IsLive(b, g) => Live(cnx', gen', reset', b, g)
    BY <1>2 DEF IsLive
  <2>2. Live(cnx', gen', reset', e.cnx, e.gen)
    BY <1>1, <1>2, <1>3 DEF Live
  <2>. QED
    BY <2>1, <2>2, <1>1, <1>2, <1>3, <1>4, EndsPosted
<1>11. Agree'
  BY <1>1, <1>2, <1>3, <1>4, AgreeStill DEF RefsOnly
<1>. QED
  BY <1>4, <1>5, <1>6, <1>7, <1>8, <1>9, <1>10, <1>11

\* The worker forgets connection a's ring: its entry and its reference go.
LEMMA EntryDropped ==
    ASSUME IInv, UNCHANGED loopState, NEW a \in Addr,
           table' = TableRemove(table, a, NoRing),
           rings' = AddRef(rings, Removed(table, a, NoRing), -1)
    PROVE  /\ LoopTyped' /\ TxTyped' /\ RingsTyped' /\ TableTyped' /\ Refs'
           /\ RingsHome /\ RefsOnly /\ FewerKnown
<1>. USE DEF IInv, Typed
<1>. DEFINE x == Removed(table, a, NoRing)
<1>0. NoRing \notin Ring /\ table \in Seq(Slot(Ring)) /\ Sound(table) /\ rings \in RingSeq
  BY RingsAre DEF TableTyped, RingsTyped, RingSeq
<1>1. x \in Ring \cup {NoRing}
  BY <1>0, OnRemove
<1>. HIDE DEF x
<1>2. /\ rings' \in RingSeq /\ Ring' = Ring
      /\ \A q \in Ring :
           /\ rings'[q].cnx = rings[q].cnx /\ rings'[q].owner = rings[q].owner
           /\ rings'[q].armed = rings[q].armed /\ rings'[q].recs = rings[q].recs
           /\ rings'[q].refs = rings[q].refs - B(q = x)
  <2>. DEFINE us == rings'
  <2>1. us = AddRef(rings, x, -1) /\ x \in DOMAIN rings \cup {NoRing}
    BY <1>1 DEF x, Ring
  <2>. HIDE DEF us
  <2>2. /\ us \in RingSeq /\ DOMAIN us = DOMAIN rings
        /\ \A q \in DOMAIN rings :
             /\ us[q].cnx = rings[q].cnx /\ us[q].owner = rings[q].owner
             /\ us[q].armed = rings[q].armed /\ us[q].recs = rings[q].recs
             /\ us[q].refs = rings[q].refs - B(q = x) /\ rings[q].refs \in Int
    BY <2>1, <1>0, UnrefTo
  <2>. QED
    BY <2>2 DEF us, Ring
<1>3. RingsHome /\ RefsOnly /\ RingsTyped'
  BY <1>2 DEF RingsHome, RefsOnly, RingsTyped, RingSeq
<1>4. /\ LoopTyped' /\ TxTyped' /\ FewerKnown
      /\ Home' /\ Claims' /\ Marks' /\ \A r \in Ring : Claimed(r)' <=> Claimed(r)
  BY <1>3, LoopStays
<1>5. /\ TableTyped' /\ TableHome'
      /\ \A r \in Ring : r = x => Has(table, rings[r].cnx, r)
      /\ \A r \in Ring : Has(table', rings'[r].cnx, r) <=> Has(table, rings[r].cnx, r) /\ r # x
  BY <1>3, EntryGone DEF Refs, x
<1>6. Counts'
  <2>1. ASSUME NEW r \in Ring
        PROVE  rings'[r].refs = B(Claimed(r))' + B(Has(table', rings'[r].cnx, r))
    <3>1. rings[r].refs = B(Claimed(r)) + B(Has(table, rings[r].cnx, r))
      BY DEF Refs, Counts
    <3>2. Claimed(r)' <=> Claimed(r)
      BY <1>4
    <3>. QED
      BY <3>1, <3>2, <1>2, <1>5 DEF B
  <2>. QED
    BY <2>1, <1>2 DEF Counts
<1>. QED
  BY <1>3, <1>4, <1>5, <1>6 DEF Refs

\* Either close callback.
LEMMA CloseCallbackStep ==
    ASSUME IInv, NEW a \in Addr, cnx[a] \in {"up", "closing"}, WorkerIdle,
           NEW k \in Closes, NEW next \in {"closing", "final"},
           CloseCallback(a, k, next), left' \in [Inputs -> Nat],
           k = "CLOSE" \/ next = "closing"
    PROVE  IInv'
<1>. USE DEF IInv, Typed
<1>. DEFINE e == Event(k, a)
<1>1. /\ cnx' = [cnx EXCEPT ![a] = next] /\ active' = active \ {a}
      /\ rxQ' = Append(rxQ, e)
      /\ table' = TableRemove(table, a, NoRing)
      /\ rings' = AddRef(rings, Removed(table, a, NoRing), -1)
      /\ UNCHANGED <<gen, w, failed, reset, loopState>>
  BY DEF CloseCallback
<1>2. UNCHANGED <<batch, conn, p, toClose, phase, owed>> /\ w' = w /\ failed' = failed
      /\ reset' = reset /\ gen' = gen
  BY <1>1 DEF loopState
<1>3. /\ e = [kind |-> k, cnx |-> a, gen |-> gen[a]]
      /\ e \in RxRec /\ e.gen = gen[a] /\ e.cnx = a /\ e.kind = k /\ k \notin Data
  BY EventOf DEF RxKinds, Closes, Data
<1>. HIDE DEF e
<1>4. /\ LoopTyped' /\ TxTyped' /\ RingsTyped' /\ TableTyped' /\ Refs'
      /\ RingsHome /\ RefsOnly /\ FewerKnown
  BY <1>1, EntryDropped
<1>. DEFINE C == {"none", "up", "closing", "final"}
<1>5. /\ cnx' \in [Addr -> C] /\ cnx'[a] = next /\ \A b \in Addr : b # a => cnx'[b] = cnx[b]
  BY <1>1 DEF WorkerTyped
<1>6. WorkerTyped'
  <2>2. Ring' = Ring
    BY <1>4 DEF RingsHome
  <2>3. active' \subseteq Addr
    BY <1>1 DEF WorkerTyped
  <2>. QED
    BY <2>2, <2>3, <1>1, <1>5 DEF WorkerTyped, Inputs
<1>7. RxTyped' /\ \A b \in Addr : Wake(b) => Wake(b)'
  BY <1>1, <1>2, <1>3, RxPosted
<1>8. Busy'
  BY <1>2, WorkerRests
<1>9. Gens'
  BY <1>2, <1>5, GensKept
<1>10. Parked'
  BY <1>2, <1>4, <1>7, ParkedStill
<1>11. Ends'
  <2>1. ASSUME NEW b \in Addr, NEW g \in Nat, IsLive(b, g)
        PROVE  Live(cnx', gen', reset', b, g) \/ e = [kind |-> "CLOSE", cnx |-> b, gen |-> g]
    BY <2>1, <1>2, <1>3, <1>5 DEF IsLive, Live
  <2>2. phase' = "run" => phase = "run"
    BY <1>2
  <2>. QED
    BY <2>1, <2>2, <1>1, <1>2, <1>3, <1>4, EndsPosted
<1>12. Agree'
  BY <1>1, <1>2, <1>3, <1>4, AgreeStill DEF RefsOnly
<1>. QED
  BY <1>4, <1>6, <1>7, <1>8, <1>9, <1>10, <1>11, <1>12

\* The peer's close and the last callback.
LEMMA CloseSteps ==
    ASSUME IInv, NEW a \in Addr, PeerClose(a) \/ FinalClose(a)
    PROVE  IInv'
<1>0. left \in [Inputs -> Nat]
  BY WorkerIs DEF IInv, Typed
<1>1. CASE PeerClose(a)
  <2>1. WorkerIdle /\ cnx[a] = "up" /\ Spend("ends") /\ CloseCallback(a, "APP_CLOSE", "closing")
    BY <1>1 DEF PeerClose
  <2>2. left' \in [Inputs -> Nat]
    BY <1>0, <2>1, SpendIs DEF Inputs
  <2>. QED
    BY <2>1, <2>2, CloseCallbackStep DEF Closes
<1>2. CASE FinalClose(a)
  <2>1. /\ WorkerIdle /\ cnx[a] \in {"up", "closing"} /\ left' = left
        /\ CloseCallback(a, "CLOSE", "final")
    BY <1>2 DEF FinalClose
  <2>. QED
    BY <1>0, <2>1, CloseCallbackStep DEF Closes
<1>. QED
  BY <1>1, <1>2

\* A connection picoquic loses without an event, or frees.
LEMMA SilentStep ==
    ASSUME IInv, NEW a \in Addr, StatelessReset(a) \/ FreeCnx(a)
    PROVE  IInv'
<1>. USE DEF IInv, Typed
<1>1. /\ WorkerIdle /\ UNCHANGED <<gen, table, rings, rxQ, w, failed, loopState>>
      /\ \E s \in {"none", "final"} : cnx' = [cnx EXCEPT ![a] = s]
      /\ active' \subseteq active /\ cnx[a] # "none"
      /\ reset \subseteq reset' /\ reset' \subseteq reset \cup {gen[a]}
      /\ cnx[a] \in {"up", "closing"} => gen[a] \in reset'
      /\ left' = left \/ Spend("resets")
  BY DEF StatelessReset, FreeCnx
<1>2. UNCHANGED <<batch, conn, p, toClose, phase, owed>> /\ w' = w /\ failed' = failed
      /\ gen' = gen /\ rxQ' = rxQ /\ rings' = rings
  BY <1>1 DEF loopState
<1>4. /\ LoopTyped' /\ TxTyped' /\ RingsTyped' /\ TableTyped' /\ Refs'
      /\ RingsHome /\ RefsOnly /\ FewerKnown
  BY <1>1, RingsStay
<1>. DEFINE C == {"none", "up", "closing", "final"}
<1>5. cnx' \in [Addr -> C] /\ \A b \in Addr : b # a => cnx'[b] = cnx[b]
  BY <1>1 DEF WorkerTyped
<1>6. WorkerTyped'
  <2>1. left' \in [Inputs -> Nat]
    BY <1>1, WorkerIs, SpendIs DEF Inputs
  <2>2. Ring' = Ring
    BY <1>4 DEF RingsHome
  <2>3. active' \subseteq Addr /\ reset' \subseteq Nat
    BY <1>1 DEF WorkerTyped
  <2>. QED
    BY <2>1, <2>2, <2>3, <1>2, <1>5 DEF WorkerTyped, Inputs
<1>7. RxTyped' /\ \A b \in Addr : Wake(b) => Wake(b)'
  BY <1>2 DEF RxTyped, Wake, WakeIn
<1>8. Busy'
  BY <1>1, <1>2, WorkerRests
<1>9. Gens'
  BY <1>1, <1>2, <1>5, GensKept
<1>10. Parked'
  BY <1>2, <1>4, <1>7, ParkedStill
<1>11. Ends'
  <2>1. ASSUME NEW b \in Addr, NEW g \in Nat, IsLive(b, g)
        PROVE  Live(cnx', gen', reset', b, g)
    BY <2>1, <1>1, <1>2, <1>5 DEF IsLive, Live
  <2>2. phase' = "run" => phase = "run"
    BY <1>2
  <2>. QED
    BY <2>1, <2>2, <1>2, <1>4, EndsKept
<1>12. Agree'
  BY <1>2, <1>4, AgreeStill DEF RefsOnly
<1>. QED
  BY <1>4, <1>6, <1>7, <1>8, <1>9, <1>10, <1>11, <1>12

-----------------------------------------------------------------------------
(* prepare_datagram.                                                       *)

\* One ring's records or arm change.
LEMMA RingStep ==
    ASSUME RingsTyped, NEW r \in Ring, NEW c \in RingRec, rings' = [rings EXCEPT ![r] = c],
           c.cnx = rings[r].cnx, c.owner = rings[r].owner, c.refs = rings[r].refs
    PROVE  /\ RingsTyped' /\ RingsHome /\ rings'[r] = c
           /\ \A q \in Ring : q # r => rings'[q] = rings[q]
           /\ \A q \in Ring : /\ rings'[q].refs = rings[q].refs
                              /\ rings'[q].cnx = rings[q].cnx
                              /\ rings'[q].owner = rings[q].owner
<1>1. rings \in Seq(RingRec) /\ r \in DOMAIN rings
  BY DEF RingsTyped, Ring
<1>2. rings' \in Seq(RingRec) /\ DOMAIN rings' = DOMAIN rings
  BY <1>1
<1>3. rings'[r] = c /\ \A q \in Ring : q # r => rings'[q] = rings[q]
  BY <1>1 DEF Ring
<1>4. \A q \in Ring : /\ rings'[q].refs = rings[q].refs /\ rings'[q].cnx = rings[q].cnx
                      /\ rings'[q].owner = rings[q].owner
  BY <1>3
<1>. QED
  BY <1>2, <1>3, <1>4 DEF RingsTyped, RingsHome, Ring

\* A ring of which the worker changes no reference.
LEMMA RefsStay ==
    ASSUME IInv, UNCHANGED <<table, loopState>>, RingsHome,
           \A q \in Ring : rings'[q].refs = rings[q].refs
    PROVE  LoopTyped' /\ TxTyped' /\ TableTyped' /\ Refs' /\ FewerKnown
<1>2. /\ LoopTyped' /\ TxTyped' /\ FewerKnown
      /\ Home' /\ Claims' /\ Marks' /\ \A r \in Ring : Claimed(r)' <=> Claimed(r)
  BY LoopStays
<1>3. TableTyped' /\ TableHome' /\ Counts'
  BY <1>2, CountsKept DEF IInv, Typed, Refs
<1>. QED
  BY <1>2, <1>3 DEF Refs

\* The step of a prepare_datagram that is under way.
LEMMA InPrepare ==
    ASSUME IInv, w.at \in {"pop", "take"}
    PROVE  /\ w # Idle /\ w \in WRec(Ring) /\ w.cnx \in Addr /\ w.db \in Ring
           /\ phase \in {"run", "stopping"} /\ cnx[w.cnx] = "up"
           /\ Has(table, w.cnx, w.db) /\ rings[w.db].cnx = w.cnx
           /\ w = [at |-> w.at, cnx |-> w.cnx, db |-> w.db]
<1>1. w # Idle
  BY DEF Idle
<1>2. w \in WRec(Ring)
  BY <1>1 DEF IInv, Typed, WorkerTyped
<1>3. w.cnx \in Addr /\ w.db \in Ring /\ w = [at |-> w.at, cnx |-> w.cnx, db |-> w.db]
  BY <1>2 DEF WRec
<1>4. phase \in {"run", "stopping"} /\ cnx[w.cnx] = "up" /\ Has(table, w.cnx, w.db)
  BY <1>1 DEF IInv, Busy
<1>5. rings[w.db].cnx = w.cnx
  BY <1>3, <1>4 DEF IInv, Refs, TableHome
<1>. QED
  BY <1>1, <1>2, <1>3, <1>4, <1>5

\* The head record is asked for.
LEMMA PrepareReadStep ==
    ASSUME IInv, NEW a \in Addr, PrepareRead(a)
    PROVE  IInv'
<1>. USE DEF IInv, Typed
<1>. DEFINE db == TableGet(table, a)
            v == [at |-> "pop", cnx |-> a, db |-> db]
<1>1. /\ WorkerIdle /\ cnx[a] = "up" /\ active' \subseteq active
      /\ w' = Idle \/ (PeekLen(db) # 0 /\ w' = v)
      /\ UNCHANGED <<rings, rxQ, stillFed, prepareIdle>>
  BY DEF PrepareRead
<1>2. /\ UNCHANGED <<batch, conn, p, toClose, phase, owed, loopState>> /\ failed' = failed
      /\ gen' = gen /\ rxQ' = rxQ /\ rings' = rings /\ table' = table /\ cnx' = cnx
      /\ left' = left /\ reset' = reset
  BY <1>1 DEF loopState, prepareIdle, stillFed
<1>3. PeekLen(db) # 0 => /\ db \in Ring /\ Has(table, a, db) /\ rings[db].recs # <<>>
  <2>. SUFFICES ASSUME PeekLen(db) # 0
                PROVE  db \in Ring /\ Has(table, a, db) /\ rings[db].recs # <<>>
    OBVIOUS
  <2>1. db # NoRing /\ rings[db].recs # <<>>
    BY DEF PeekLen
  <2>2. table \in Seq(Slot(Ring)) /\ Sound(table)
    BY DEF TableTyped
  <2>3. IsIn(table, a)
    BY <2>1, <2>2, WalkFinds
  <2>. DEFINE i == EndOfWalk(table, a)
  <2>4. i \in DOMAIN table /\ table[i].cnx = a
    BY <2>2, <2>3, WalkFinds
  <2>5. db = table[i].db
    BY <2>2, <2>4, WalkFinds
  <2>6. table[i] \in Slot(Ring)
    BY <2>2, <2>4
  <2>. HIDE DEF i, db
  <2>7. db \in Ring
    BY <2>1, <2>5, <2>6 DEF Slot
  <2>. QED
    BY <2>1, <2>4, <2>5, <2>7 DEF Has
<1>. HIDE DEF db
<1>4. /\ LoopTyped' /\ TxTyped' /\ RingsTyped' /\ TableTyped' /\ Refs'
      /\ RingsHome /\ RefsOnly /\ FewerKnown
  BY <1>2, RingsStay
<1>5. WorkerTyped'
  <2>1. Ring' = Ring
    BY <1>4 DEF RingsHome
  <2>2. w' \in {Idle} \cup WRec(Ring)
    BY <1>1, <1>3 DEF WRec
  <2>. QED
    BY <2>1, <2>2, <1>1, <1>2 DEF WorkerTyped
<1>6. RxTyped' /\ \A b \in Addr : Wake(b) => Wake(b)'
  BY <1>2 DEF RxTyped, Wake, WakeIn
<1>7. w' # Idle => /\ phase' \in {"run", "stopping"} /\ cnx'[w'.cnx] = "up"
                   /\ Has(table', w'.cnx, w'.db) /\ rings'[w'.db].recs # <<>>
  BY <1>1, <1>2, <1>3 DEF WorkerIdle
<1>8. Busy'
  BY <1>2, <1>7 DEF Busy, Known
<1>9. Gens'
  BY <1>2, GensKept
<1>10. Parked'
  <2>1. w' = w \/ w = Idle
    BY <1>1 DEF WorkerIdle
  <2>. QED
    BY <2>1, <1>2, <1>4, <1>6, ParkedStill
<1>11. Ends'
  <2>1. \A b \in Addr, g \in Nat : IsLive(b, g) => Live(cnx', gen', reset', b, g)
    BY <1>2 DEF IsLive
  <2>2. phase' = "run" => phase = "run"
    BY <1>2
  <2>. QED
    BY <2>1, <2>2, <1>2, <1>4, EndsKept
<1>12. Agree'
  BY <1>2, <1>4, AgreeStill DEF RefsOnly
<1>. QED
  BY <1>4, <1>5, <1>6, <1>8, <1>9, <1>10, <1>11, <1>12

\* The record leaves the ring the table had for the connection.
LEMMA PreparePopStep ==
    ASSUME IInv, PreparePop
    PROVE  /\ IInv' /\ w.cnx \in Addr /\ w.db \in Ring /\ Ring' = Ring
           /\ \A r \in Ring : r # w.db => rings'[r] = rings[r]
           /\ rings[w.db].cnx = w.cnx
<1>. USE DEF IInv, Typed
<1>0. /\ w.at = "pop" /\ rings' = [rings EXCEPT ![w.db].recs = Tail(@)]
      /\ w' = [w EXCEPT !.at = "take"]
      /\ UNCHANGED <<active, rxQ, stillFed, prepareIdle>>
  BY DEF PreparePop
<1>1. /\ UNCHANGED <<batch, conn, p, toClose, phase, owed, loopState>> /\ failed' = failed
      /\ gen' = gen /\ rxQ' = rxQ /\ table' = table /\ cnx' = cnx /\ active' = active
      /\ left' = left /\ reset' = reset
  BY <1>0 DEF loopState, prepareIdle, stillFed
<1>2. /\ w # Idle /\ w \in WRec(Ring) /\ w.cnx \in Addr /\ w.db \in Ring
      /\ phase \in {"run", "stopping"} /\ cnx[w.cnx] = "up"
      /\ Has(table, w.cnx, w.db) /\ rings[w.db].cnx = w.cnx
      /\ w = [at |-> w.at, cnx |-> w.cnx, db |-> w.db]
  BY <1>0, InPrepare
<1>3. w' \in WRec(Ring) /\ w' # Idle /\ w'.at = "take" /\ w'.cnx = w.cnx /\ w'.db = w.db
  BY <1>0, <1>2 DEF WRec, Idle
<1>. DEFINE r == w.db
            c == [rings[r] EXCEPT !.recs = Tail(rings[r].recs)]
<1>4. rings[r].recs # <<>> /\ rings[r].recs \in Seq(1 .. MaxRecord) /\ rings[r] \in RingRec
  BY <1>0, <1>2, RingsAre DEF Busy
<1>5. /\ c \in RingRec /\ c.cnx = rings[r].cnx /\ c.owner = rings[r].owner
      /\ c.refs = rings[r].refs /\ c.armed = rings[r].armed
  <2>1. Tail(rings[r].recs) \in Seq(1 .. MaxRecord)
    BY <1>4, OnTail
  <2>. QED
    BY <2>1, <1>4, RecRecs
<1>6. rings' = [rings EXCEPT ![r] = c]
  BY <1>0
<1>. HIDE DEF c, r
<1>7. /\ RingsTyped' /\ RingsHome /\ rings'[r] = c
      /\ \A q \in Ring : q # r => rings'[q] = rings[q]
      /\ \A q \in Ring : /\ rings'[q].refs = rings[q].refs /\ rings'[q].cnx = rings[q].cnx
                         /\ rings'[q].owner = rings[q].owner
  <2>1. r \in Ring
    BY <1>2 DEF r
  <2>. QED
    BY <2>1, <1>5, <1>6, RingStep
<1>8. LoopTyped' /\ TxTyped' /\ TableTyped' /\ Refs' /\ FewerKnown
  BY <1>1, <1>7, RefsStay
<1>9. Ring' = Ring
  BY <1>7 DEF RingsHome
<1>10. WorkerTyped'
  BY <1>1, <1>3, <1>9 DEF WorkerTyped
<1>11. RxTyped' /\ \A b \in Addr : Wake(b) => Wake(b)'
  BY <1>1 DEF RxTyped, Wake, WakeIn
<1>12. Busy'
  BY <1>1, <1>2, <1>3 DEF Busy, Known
<1>13. Gens'
  BY <1>1, GensKept
<1>14. Parked'
  <2>1. \A q \in Ring : rings'[q].armed = rings[q].armed
    BY <1>5, <1>7
  <2>2. ASSUME NEW q \in Ring, PopToCome(q)
        PROVE  /\ rings'[q].armed
               /\ rings'[q].recs # <<>> \/ (w' # Idle /\ w'.at = "take" /\ w'.db = q) \/ failed'
    BY <2>1, <2>2, <1>0, <1>1, <1>3, <1>7 DEF PopToCome, r
  <2>3. \A q \in Ring : PopToCome(q) => PopToCome(q)'
    BY <2>2 DEF PopToCome
  <2>4. \A b \in Addr : Known(b)' /\ conn'[b].parked =>
            Known(b) /\ conn[b].parked /\ conn'[b].ring = conn[b].ring
    BY <1>1 DEF Known
  <2>. QED
    BY <2>1, <2>3, <2>4, <1>1, <1>11, RingsInUse, ParkedKept
<1>15. Ends'
  <2>1. \A b \in Addr, g \in Nat : IsLive(b, g) => Live(cnx', gen', reset', b, g)
    BY <1>1 DEF IsLive
  <2>2. phase' = "run" => phase = "run"
    BY <1>1
  <2>. QED
    BY <2>1, <2>2, <1>1, <1>8, EndsKept
<1>16. Agree'
  BY <1>1, <1>7, <1>8, <1>9, AgreeStill
<1>. QED
  BY <1>2, <1>7, <1>8, <1>9, <1>10, <1>11, <1>12, <1>13, <1>14, <1>15, <1>16 DEF r

\* The arm is taken: the wake is then in the queue.
LEMMA PrepareTakeStep ==
    ASSUME IInv, PrepareTake
    PROVE  IInv' /\ Ring' = Ring /\ \A r \in Ring : rings'[r].recs = rings[r].recs
<1>. USE DEF IInv, Typed
<1>. DEFINE r == w.db
            e == Event("DRAINED", w.cnx)
            c == [rings[r] EXCEPT !.armed = FALSE]
<1>0. /\ w.at = "take" /\ w' = Idle
      /\ \/ /\ rings[r].armed /\ rings' = [rings EXCEPT ![w.db].armed = FALSE]
            /\ rxQ' = Append(rxQ, e) /\ UNCHANGED stillFed
         \/ rings[r].armed /\ Fail /\ UNCHANGED <<rings, rxQ>>
         \/ ~rings[r].armed /\ UNCHANGED <<rings, rxQ, stillFed>>
      /\ UNCHANGED <<active, prepareIdle>>
  BY DEF PrepareTake
<1>1. /\ UNCHANGED <<batch, conn, p, toClose, phase, owed, loopState>>
      /\ gen' = gen /\ table' = table /\ cnx' = cnx /\ active' = active /\ reset' = reset
  BY <1>0 DEF loopState, prepareIdle
<1>2. /\ w # Idle /\ w \in WRec(Ring) /\ w.cnx \in Addr /\ r \in Ring
      /\ phase \in {"run", "stopping"} /\ cnx[w.cnx] = "up"
      /\ Has(table, w.cnx, r) /\ rings[r].cnx = w.cnx
  BY <1>0, InPrepare
<1>3. Busy'
  BY <1>0, <1>1 DEF Busy, Known
<1>4. Gens'
  BY <1>1, GensKept
<1>5. \A b \in Addr, g \in Nat : IsLive(b, g) => Live(cnx', gen', reset', b, g)
  BY <1>1 DEF IsLive
<1>6. \A b \in Addr : Known(b)' /\ conn'[b].parked =>
          Known(b) /\ conn[b].parked /\ conn'[b].ring = conn[b].ring
  BY <1>1 DEF Known
<1>7. left \in [Inputs -> Nat] /\ failed \in BOOLEAN
  BY WorkerIs
<1>8. CASE rings[r].armed /\ rings' = [rings EXCEPT ![w.db].armed = FALSE]
           /\ rxQ' = Append(rxQ, e) /\ UNCHANGED stillFed
  <2>0. failed' = failed /\ left' = left
    BY <1>8 DEF stillFed
  <2>1. e \in RxRec /\ e.gen = gen[w.cnx] /\ e.cnx = w.cnx /\ e.kind = "DRAINED"
    BY <1>2, EventOf DEF RxKinds
  <2>2. /\ c \in RingRec /\ c.cnx = rings[r].cnx /\ c.owner = rings[r].owner
        /\ c.refs = rings[r].refs /\ c.recs = rings[r].recs
    BY <1>2, RingsAre, RecArmed
  <2>3. rings' = [rings EXCEPT ![r] = c]
    BY <1>8
  <2>. HIDE DEF c, r, e
  <2>4. /\ RingsTyped' /\ RingsHome /\ rings'[r] = c
        /\ \A q \in Ring : q # r => rings'[q] = rings[q]
        /\ \A q \in Ring : /\ rings'[q].refs = rings[q].refs /\ rings'[q].cnx = rings[q].cnx
                           /\ rings'[q].owner = rings[q].owner
    BY <1>2, <2>2, <2>3, RingStep
  <2>5. LoopTyped' /\ TxTyped' /\ TableTyped' /\ Refs' /\ FewerKnown
    BY <1>1, <2>4, RefsStay
  <2>6. Ring' = Ring /\ \A q \in Ring : rings'[q].recs = rings[q].recs
    BY <2>2, <2>4 DEF RingsHome
  <2>7. WorkerTyped'
    BY <1>0, <1>1, <2>0, <2>6 DEF WorkerTyped
  <2>. DEFINE a == w.cnx
  <2>8. RxTyped' /\ (\A b \in Addr : Wake(b) => Wake(b)') /\ WakeIn(rxQ', a)
    BY <1>1, <1>8, <2>1, RxPosted
  <2>. HIDE DEF a
  <2>9. Parked'
    <3>1. \A b \in Addr : Wake(b)' <=> WakeIn(batch', b) \/ WakeIn(rxQ', b)
      BY DEF Wake, WakeIn
    <3>2. ASSUME NEW b \in Addr, Known(b), conn[b].ring = r
          PROVE  Wake(b)'
      <4>1. b = a
        BY <3>2, <1>2, RingsAre DEF Refs, Home, a
      <4>. QED
        BY <4>1, <3>1, <2>8
    <3>3. ASSUME NEW b \in Addr, Known(b)', conn'[b].parked
          PROVE  \/ /\ rings'[conn'[b].ring].armed
                    /\ rings'[conn'[b].ring].recs # <<>> \/ failed'
                 \/ Wake(b)'
      <4>. DEFINE q == conn[b].ring
      <4>1. Known(b) /\ conn[b].parked /\ conn'[b].ring = q
        BY <1>6, <3>3
      <4>2. q \in Ring /\ (PopToCome(q) \/ Wake(b))
        BY <4>1, RingsInUse DEF Parked
      <4>3. CASE q = r
        BY <4>1, <4>3, <3>2
      <4>4. CASE q # r
        <5>. HIDE DEF q
        <5>1. rings'[q] = rings[q] /\ w.db # q
          BY <4>2, <4>4, <2>4 DEF r
        <5>. QED
          BY <5>1, <4>1, <4>2, <2>0, <2>8 DEF PopToCome
      <4>. QED
        BY <4>3, <4>4
    <3>4. ASSUME p' # Idle, p'.at = "recheck"
          PROVE  rings'[conn'[p'.cnx].ring].armed \/ Wake(p.cnx)'
      <4>. DEFINE b == p.cnx
                  q == conn[b].ring
      <4>1. /\ b \in Addr /\ Known(b) /\ q \in Ring /\ p'.cnx = b /\ conn'[b].ring = q
            /\ rings[q].armed \/ Wake(b)
        BY <1>1, <3>4, RingsInUse DEF Parked
      <4>2. Wake(p.cnx)' <=> WakeIn(batch', b) \/ WakeIn(rxQ', b)
        BY <1>1 DEF Wake, WakeIn
      <4>. HIDE DEF b, q
      <4>3. CASE q = r
        BY <4>1, <4>2, <4>3, <3>1, <3>2 DEF q
      <4>4. CASE q # r
        BY <4>1, <4>2, <4>4, <3>1, <2>4, <2>8
      <4>. QED
        BY <4>3, <4>4
    <3>. QED
      BY <3>3, <3>4 DEF Parked, PopToCome
  <2>10. Ends'
    <3>1. Live(cnx', gen', reset', e.cnx, e.gen)
      BY <1>1, <1>2, <2>1 DEF Live
    <3>2. phase' = "run" => phase = "run"
      BY <1>1
    <3>. QED
      BY <3>1, <3>2, <1>1, <1>5, <1>8, <2>1, <2>5, EndsPosted
  <2>11. Agree'
    BY <1>1, <1>8, <2>1, <2>4, <2>5, <2>6, AgreeStill
  <2>. QED
    BY <1>3, <1>4, <2>4, <2>5, <2>6, <2>7, <2>8, <2>9, <2>10, <2>11
<1>9. CASE /\ rings' = rings /\ rxQ' = rxQ
           /\ \/ rings[r].armed /\ Fail
              \/ ~rings[r].armed /\ UNCHANGED stillFed
  <2>0. failed' \in BOOLEAN /\ left' \in [Inputs -> Nat] /\ (failed => failed')
        /\ (rings[r].armed => failed')
    BY <1>7, <1>9, FailIs DEF stillFed
  <2>1. /\ LoopTyped' /\ TxTyped' /\ RingsTyped' /\ TableTyped' /\ Refs'
        /\ RingsHome /\ RefsOnly /\ FewerKnown
    BY <1>1, <1>9, RingsStay
  <2>2. WorkerTyped'
    BY <1>0, <1>1, <2>0, <2>1 DEF WorkerTyped, RingsHome, Inputs
  <2>3. RxTyped' /\ \A b \in Addr : Wake(b) => Wake(b)'
    BY <1>1, <1>9 DEF RxTyped, Wake, WakeIn
  <2>4. Parked'
    <3>1. ASSUME NEW q \in Ring, PopToCome(q)
          PROVE  rings'[q].armed /\ (rings'[q].recs # <<>> \/ failed')
      BY <3>1, <1>9, <2>0 DEF PopToCome
    <3>2. \A q \in Ring : PopToCome(q) => PopToCome(q)'
      BY <3>1 DEF PopToCome
    <3>. QED
      BY <3>2, <1>1, <1>6, <1>9, <2>3, RingsInUse, ParkedKept
  <2>5. Ends'
    <3>2. phase' = "run" => phase = "run"
      BY <1>1
    <3>. QED
      BY <3>2, <1>1, <1>5, <1>9, <2>1, EndsKept
  <2>6. Agree'
    BY <1>1, <1>9, <2>1, AgreeStill DEF RefsOnly
  <2>. QED
    BY <1>3, <1>4, <1>9, <2>1, <2>2, <2>3, <2>4, <2>5, <2>6 DEF RefsOnly
<1>. QED
  BY <1>0, <1>8, <1>9

-----------------------------------------------------------------------------
(* Commands.                                                               *)

\* What the pop of a command leaves in order, whatever the command does to
\* the table and to references.
LEMMA Popped ==
    ASSUME IInv, WorkerIdle, txQ # <<>>, PopCmd, RefsOnly, failed => failed',
           \A a \in Addr : /\ cnx'[a] = "none" <=> cnx[a] = "none"
                           /\ cnx[a] \in {"up", "closing"} => cnx'[a] \in {"up", "closing"}
    PROVE  /\ LoopTyped' /\ TxTyped' /\ RxTyped' /\ Busy' /\ Gens' /\ Home' /\ Claims'
           /\ Marks' /\ Parked' /\ Ends' /\ Agree' /\ RingsHome
           /\ txQ[1] \in CmdRec(Ring)
           /\ txQ[1].db # NoRing => rings[txQ[1].db].cnx = txQ[1].cnx
           /\ \A r \in Ring : Claimed(r)' <=> Claimed(r) /\ ~ReleaseAt(1, r)
           /\ \A r \in Ring : ReleaseAt(1, r) => Claimed(r)
<1>. USE DEF IInv, Typed
<1>. DEFINE e == Event("RING_DRAINED", Null)
<1>1. /\ txQ' = Tail(txQ) /\ txArmed' \in BOOLEAN
      /\ rxQ' = rxQ \/ rxQ' = Append(rxQ, e)
      /\ UNCHANGED <<gen, py, batch, owed, conn, w, p, toClose, phase, leaked, reset>>
  BY DEF PopCmd
<1>2. RingsHome /\ Ring' = Ring /\ ConnSame /\ FewerKnown /\ Running
  BY <1>1 DEF RefsOnly, RingsHome, ConnSame, FewerKnown, Running, Known
<1>3. /\ TxTyped' /\ Home' /\ Claims' /\ Marks' /\ txQ[1] \in CmdRec(Ring)
      /\ txQ[1].db # NoRing => rings[txQ[1].db].cnx = txQ[1].cnx
      /\ \A r \in Ring : Claimed(r)' <=> Claimed(r) /\ ~ReleaseAt(1, r)
      /\ \A r \in Ring : ReleaseAt(1, r) => Claimed(r)
  BY <1>1, <1>2, RefsPopped DEF Refs
<1>4. LoopTyped'
  BY <1>1, <1>2 DEF LoopTyped
<1>5. e \in RxRec /\ e.cnx \notin Addr /\ e.kind = "RING_DRAINED"
  BY TableAssumption DEF Event, RxRec, Null
<1>. HIDE DEF e
<1>6. RxTyped' /\ \A b \in Addr : Wake(b) => Wake(b)'
  <2>1. CASE rxQ' = rxQ
    BY <1>1, <2>1 DEF RxTyped, Wake, WakeIn
  <2>2. CASE rxQ' = Append(rxQ, e)
    BY <1>1, <1>5, <2>2, RxPosted
  <2>. QED
    BY <1>1, <2>1, <2>2
<1>7. Busy'
  BY <1>1, WorkerRests
<1>8. Gens'
  BY <1>1, GensKept
<1>9. Parked'
  BY <1>1, <1>6, ParkedStill
<1>10. Ends'
  <2>0. \A b \in Addr, g \in Nat : IsLive(b, g) => Live(cnx', gen', reset', b, g)
    BY <1>1 DEF IsLive, Live
  <2>1. phase' = "run" => phase = "run"
    BY <1>1
  <2>2. CASE rxQ' = rxQ
    BY <2>0, <2>1, <2>2, <1>1, <1>2, EndsKept
  <2>3. CASE rxQ' = Append(rxQ, e)
    <3>1. e.kind \notin Data
      BY <1>5 DEF Data
    <3>. QED
      BY <3>1, <2>0, <2>1, <2>3, <1>1, <1>2, <1>5, EndsPosted
  <2>. QED
    BY <1>1, <2>2, <2>3
<1>11. Agree'
  <2>1. \A r \in Ring : rings'[r].cnx = rings[r].cnx /\ rings'[r].owner = rings[r].owner
    BY DEF RefsOnly
  <2>. QED
    BY <2>1, <1>1, <1>2, <1>5, AgreeStill
<1>. QED
  BY <1>2, <1>3, <1>4, <1>6, <1>7, <1>8, <1>9, <1>10, <1>11

\* A MARK: the table takes a reference the first time.
LEMMA MarkStep ==
    ASSUME IInv, Mark
    PROVE  IInv' /\ RefsOnly
<1>. USE DEF IInv, Typed
<1>. DEFINE t == Ready(table)
            a == txQ[1].cnx
            r == txQ[1].db
<1>1. /\ WorkerIdle /\ txQ # <<>> /\ txQ[1].kind = "MARK" /\ PopCmd /\ cnx' = cnx
      /\ \/ /\ active' = active \cup {a} /\ table' = TablePut(t, a, r)
            /\ rings' = PutRefs(rings, t, a, r) /\ UNCHANGED stillFed
         \/ active' = active \cup {a} /\ Fail /\ UNCHANGED <<table, rings>>
         \/ UNCHANGED <<active, table, rings, stillFed>>
  BY DEF Mark, Commanded, Cur
<1>2. a \in Addr /\ r \in Ring /\ rings[r].cnx = a /\ ~\E q \in Ring : ReleaseAt(1, q)
  <2>1. 1 \in DOMAIN txQ
    BY <1>1, OnTail DEF TxTyped
  <2>2. txQ[1] \in CmdRec(Ring)
    BY <2>1 DEF TxTyped
  <2>3. a \in Addr /\ r \in Ring
    BY <1>1, <2>2, CmdIs
  <2>4. rings[r].cnx = a
    BY <2>1, <2>3, RingsAre DEF Refs, Home
  <2>. QED
    BY <2>3, <2>4, <1>1 DEF ReleaseAt
<1>. HIDE DEF a, r
<1>3. active' \subseteq Addr /\ failed' \in BOOLEAN /\ left' \in [Inputs -> Nat]
      /\ (failed => failed')
  <2>1. active \subseteq Addr /\ failed \in BOOLEAN /\ left \in [Inputs -> Nat]
    BY WorkerIs
  <2>2. active' \subseteq Addr
    BY <1>1, <1>2, <2>1
  <2>3. failed' \in BOOLEAN /\ left' \in [Inputs -> Nat] /\ (failed => failed')
    BY <1>1, <2>1, FailIs DEF stillFed
  <2>. QED
    BY <2>2, <2>3
<1>4. gen' = gen /\ w' = w /\ reset' = reset /\ phase' = phase
  BY <1>1 DEF PopCmd
<1>0. NoRing \notin Ring /\ table \in Seq(Slot(Ring)) /\ Sound(table) /\ rings \in RingSeq
  BY RingsAre DEF TableTyped, RingsTyped, RingSeq
<1>5. CASE table' = TablePut(t, a, r) /\ rings' = PutRefs(rings, t, a, r)
  <2>. DEFINE u == TablePut(t, a, r)
              new == ~IsIn(t, a)
  <2>1. /\ u \in Seq(Slot(Ring)) /\ Sound(u)
        /\ new <=> ~\E q \in Ring : Has(table, a, q)
        /\ \A b \in Addr, q \in Ring :
               Has(u, b, q) <=> Has(table, b, q) \/ (new /\ b = a /\ q = r)
    BY <1>0, <1>2, OnPut
  <2>. DEFINE d == IF new THEN r ELSE NoRing
              us == AddRef(rings, d, 1)
  <2>2. rings' = us
    BY <1>5 DEF PutRefs, AddRef
  <2>3. /\ us \in RingSeq /\ DOMAIN us = Ring
        /\ \A q \in Ring :
             /\ us[q].cnx = rings[q].cnx /\ us[q].owner = rings[q].owner
             /\ us[q].armed = rings[q].armed /\ us[q].recs = rings[q].recs
             /\ us[q].refs = rings[q].refs + B(q = d) /\ rings[q].refs \in Int
    <3>1. d \in DOMAIN rings \cup {NoRing}
      BY <1>2 DEF Ring
    <3>2. us = AddRef(rings, d, 1)
      OBVIOUS
    <3>. HIDE DEF d, us
    <3>3. /\ us \in RingSeq /\ DOMAIN us = DOMAIN rings
          /\ \A q \in DOMAIN rings :
               /\ us[q].cnx = rings[q].cnx /\ us[q].owner = rings[q].owner
               /\ us[q].armed = rings[q].armed /\ us[q].recs = rings[q].recs
               /\ us[q].refs = rings[q].refs + B(q = d) /\ rings[q].refs \in Int
      BY <3>1, <3>2, <1>0, RefTo
    <3>. QED
      BY <3>3 DEF Ring
  <2>. HIDE DEF u, us, new, t
  <2>4. RefsOnly /\ RingsTyped' /\ Ring' = Ring
    BY <2>2, <2>3 DEF RefsOnly, RingsTyped, Ring, RingSeq
  <2>5. /\ LoopTyped' /\ TxTyped' /\ RxTyped' /\ Busy' /\ Gens' /\ Home' /\ Claims'
        /\ Marks' /\ Parked' /\ Ends' /\ Agree' /\ RingsHome
        /\ \A q \in Ring : Claimed(q)' <=> Claimed(q) /\ ~ReleaseAt(1, q)
    BY <1>1, <1>3, <2>4, Popped
  <2>6. WorkerTyped'
    BY <1>1, <1>3, <1>4, <2>4 DEF WorkerTyped, Inputs
  <2>7. table' = u
    BY <1>5 DEF u
  <2>8. TableTyped'
    BY <2>1, <2>4, <2>7 DEF TableTyped
  <2>9. TableHome'
    BY <2>1, <2>2, <2>3, <2>4, <2>7, <1>2 DEF Refs, TableHome
  <2>10. Counts'
    <3>1. ASSUME NEW q \in Ring
          PROVE  rings'[q].refs = B(Claimed(q))' + B(Has(table', rings'[q].cnx, q))
      <4>. DEFINE b == rings[q].cnx
      <4>1. rings[q].refs = B(Claimed(q)) + B(Has(table, b, q))
        BY DEF Refs, Counts
      <4>2. Claimed(q)' <=> Claimed(q)
        BY <1>2, <2>5
      <4>3. b \in Addr /\ rings'[q].cnx = b
            /\ rings'[q].refs = rings[q].refs + B(q = d)
        BY <2>2, <2>3, RingsAre
      <4>4. q = d <=> new /\ q = r
        BY <1>0
      <4>5. q = r => b = a
        BY <1>2
      <4>. HIDE DEF b, d
      <4>6. Has(table', b, q) <=> Has(table, b, q) \/ q = d
        BY <2>1, <2>7, <4>3, <4>4, <4>5
      <4>7. q = d => ~Has(table, b, q)
        BY <2>1, <4>4, <4>5
      <4>. QED
        BY <4>1, <4>2, <4>3, <4>6, <4>7 DEF B
    <3>. QED
      BY <3>1, <2>4 DEF Counts
  <2>. QED
    BY <2>4, <2>5, <2>6, <2>8, <2>9, <2>10 DEF Refs
<1>6. CASE UNCHANGED <<table, rings>>
  <2>1. RefsOnly /\ RingsTyped' /\ Ring' = Ring
    BY <1>6 DEF RefsOnly, RingsTyped, Ring
  <2>2. /\ LoopTyped' /\ TxTyped' /\ RxTyped' /\ Busy' /\ Gens' /\ Home' /\ Claims'
        /\ Marks' /\ Parked' /\ Ends' /\ Agree' /\ RingsHome
        /\ \A q \in Ring : Claimed(q)' <=> Claimed(q) /\ ~ReleaseAt(1, q)
    BY <1>1, <1>3, <2>1, Popped
  <2>3. WorkerTyped'
    BY <1>1, <1>3, <1>4, <2>1 DEF WorkerTyped, Inputs
  <2>4. TableTyped' /\ TableHome' /\ Counts'
    BY <1>2, <1>6, <2>2, CountsKept DEF Refs
  <2>. QED
    BY <2>1, <2>2, <2>3, <2>4 DEF Refs
<1>. QED
  BY <1>1, <1>5, <1>6

\* The two references DropRefs gives up.
LEMMA Dropped ==
    ASSUME RingsTyped, TableTyped, NEW a \in Addr, NEW db \in Ring \cup {NoRing},
           rings' = DropRefs(rings, table, a, db)
    PROVE  /\ RingsTyped' /\ RefsOnly /\ RingsHome
           /\ \A q \in Ring :
                rings'[q].refs = rings[q].refs - B(q = Removed(table, a, db)) - B(q = db)
<1>. DEFINE x == Removed(table, a, db)
            vs == AddRef(rings, x, -1)
            us == AddRef(vs, db, -1)
<1>0. NoRing \notin Ring /\ table \in Seq(Slot(Ring)) /\ Sound(table) /\ rings \in RingSeq
  BY RingsAre DEF TableTyped, RingsTyped, RingSeq
<1>1. x \in Ring \cup {NoRing}
  BY <1>0, OnRemove
<1>. HIDE DEF x
<1>2. /\ vs \in RingSeq /\ DOMAIN vs = DOMAIN rings
      /\ \A q \in DOMAIN rings :
           /\ vs[q].cnx = rings[q].cnx /\ vs[q].owner = rings[q].owner
           /\ vs[q].armed = rings[q].armed /\ vs[q].recs = rings[q].recs
           /\ vs[q].refs = rings[q].refs - B(q = x) /\ rings[q].refs \in Int
  <2>1. x \in DOMAIN rings \cup {NoRing}
    BY <1>1 DEF Ring
  <2>2. vs = AddRef(rings, x, -1)
    OBVIOUS
  <2>. HIDE DEF vs
  <2>. QED
    BY <2>1, <2>2, <1>0, UnrefTo
<1>. HIDE DEF vs
<1>3. /\ us \in RingSeq /\ DOMAIN us = DOMAIN vs
      /\ \A q \in DOMAIN vs :
           /\ us[q].cnx = vs[q].cnx /\ us[q].owner = vs[q].owner
           /\ us[q].armed = vs[q].armed /\ us[q].recs = vs[q].recs
           /\ us[q].refs = vs[q].refs - B(q = db) /\ vs[q].refs \in Int
  <2>1. db \in DOMAIN vs \cup {NoRing}
    BY <1>2 DEF Ring
  <2>2. us = AddRef(vs, db, -1)
    OBVIOUS
  <2>. HIDE DEF us
  <2>. QED
    BY <2>1, <2>2, <1>2, UnrefTo
<1>4. rings' = us
  BY DEF DropRefs, us, vs, x
<1>. HIDE DEF us
<1>5. RingsTyped' /\ RefsOnly /\ RingsHome
  BY <1>2, <1>3, <1>4 DEF RingsTyped, RefsOnly, RingsHome, Ring, RingSeq
<1>6. ASSUME NEW q \in Ring PROVE rings'[q].refs = rings[q].refs - B(q = x) - B(q = db)
  <2>1. rings[q].refs \in Int
    BY RingsAre
  <2>. QED
    BY <2>1, <1>2, <1>3, <1>4 DEF B, Ring
<1>. QED
  BY <1>5, <1>6 DEF x

\* A RELEASE: the claim and the entry go together.
LEMMA ReleaseStep ==
    ASSUME IInv, Release
    PROVE  IInv' /\ RefsOnly
<1>. USE DEF IInv, Typed
<1>. DEFINE a == txQ[1].cnx
            r == txQ[1].db
            x == Removed(table, a, r)
<1>1. /\ WorkerIdle /\ txQ # <<>> /\ txQ[1].kind = "RELEASE" /\ PopCmd /\ cnx' = cnx
      /\ active' = active /\ failed' = failed /\ left' = left
      /\ table' = TableRemove(table, a, r) /\ rings' = DropRefs(rings, table, a, r)
  BY DEF Release, Commanded, Cur, DropTable, stillFed
<1>2. a \in Addr /\ r \in Ring \cup {NoRing} /\ \A q \in Ring : ReleaseAt(1, q) <=> q = r
  <2>1. 1 \in DOMAIN txQ
    BY <1>1, OnTail DEF TxTyped
  <2>2. txQ[1] \in CmdRec(Ring)
    BY <2>1 DEF TxTyped
  <2>. QED
    BY <1>1, <2>2, CmdIs DEF ReleaseAt
<1>3. gen' = gen /\ w' = w /\ reset' = reset /\ phase' = phase
  BY <1>1 DEF PopCmd
<1>. HIDE DEF a, r
<1>4. /\ RingsTyped' /\ RefsOnly /\ RingsHome
      /\ \A q \in Ring : rings'[q].refs = rings[q].refs - B(q = x) - B(q = r)
  BY <1>1, <1>2, Dropped
<1>5. /\ LoopTyped' /\ TxTyped' /\ RxTyped' /\ Busy' /\ Gens' /\ Home' /\ Claims'
      /\ Marks' /\ Parked' /\ Ends' /\ Agree'
      /\ \A q \in Ring : Claimed(q)' <=> Claimed(q) /\ ~ReleaseAt(1, q)
      /\ \A q \in Ring : ReleaseAt(1, q) => Claimed(q)
  BY <1>1, <1>4, Popped
<1>6. WorkerTyped'
  BY <1>1, <1>3, <1>4 DEF WorkerTyped, RingsHome
<1>7. /\ TableTyped' /\ TableHome'
      /\ \A q \in Ring : q = x => Has(table, rings[q].cnx, q)
      /\ \A q \in Ring : Has(table', rings'[q].cnx, q) <=> Has(table, rings[q].cnx, q) /\ q # x
  BY <1>1, <1>2, <1>4, EntryGone DEF Refs
<1>. HIDE DEF x
<1>8. Counts'
  <2>1. ASSUME NEW q \in Ring
        PROVE  rings'[q].refs = B(Claimed(q))' + B(Has(table', rings'[q].cnx, q))
    <3>1. rings[q].refs = B(Claimed(q)) + B(Has(table, rings[q].cnx, q))
      BY DEF Refs, Counts
    <3>2. (Claimed(q)' <=> Claimed(q) /\ q # r) /\ (q = r => Claimed(q))
      BY <1>2, <1>5
    <3>. QED
      BY <3>1, <3>2, <1>4, <1>7 DEF B
  <2>. QED
    BY <2>1, <1>4 DEF Counts, RingsHome
<1>. QED
  BY <1>4, <1>5, <1>6, <1>7, <1>8 DEF Refs

\* A command that touches no ring.
LEMMA OtherStep ==
    ASSUME IInv, CloseCnx \/ OtherCmd
    PROVE  IInv' /\ RefsOnly
<1>. USE DEF IInv, Typed
<1>. DEFINE a == txQ[1].cnx
            C == {"none", "up", "closing", "final"}
<1>1. /\ WorkerIdle /\ txQ # <<>> /\ txQ[1].kind # "RELEASE" /\ PopCmd
      /\ UNCHANGED <<table, rings, stillFed>> /\ active' \subseteq active
      /\ \/ cnx' = cnx
         \/ /\ txQ[1].kind = "CLOSE" /\ cnx[a] = "up"
            /\ cnx' = [cnx EXCEPT ![a] = "closing"]
  BY DEF CloseCnx, OtherCmd, Commanded, Cur
<1>2. ~\E q \in Ring : ReleaseAt(1, q)
  BY <1>1 DEF ReleaseAt
<1>3. gen' = gen /\ w' = w /\ reset' = reset /\ failed' = failed /\ left' = left
  BY <1>1 DEF PopCmd, stillFed
<1>4. /\ cnx' \in [Addr -> C]
      /\ \A b \in Addr : /\ cnx'[b] = "none" <=> cnx[b] = "none"
                         /\ cnx[b] \in {"up", "closing"} => cnx'[b] \in {"up", "closing"}
  BY <1>1 DEF WorkerTyped
<1>5. RefsOnly /\ RingsTyped' /\ Ring' = Ring
  BY <1>1 DEF RefsOnly, RingsTyped, Ring
<1>6. /\ LoopTyped' /\ TxTyped' /\ RxTyped' /\ Busy' /\ Gens' /\ Home' /\ Claims'
      /\ Marks' /\ Parked' /\ Ends' /\ Agree' /\ RingsHome
      /\ \A q \in Ring : Claimed(q)' <=> Claimed(q) /\ ~ReleaseAt(1, q)
  BY <1>1, <1>3, <1>4, <1>5, Popped
<1>7. WorkerTyped'
  BY <1>1, <1>3, <1>4, <1>5 DEF WorkerTyped
<1>8. TableTyped' /\ TableHome' /\ Counts'
  <2>1. table' = table /\ rings' = rings
    BY <1>1
  <2>. QED
    BY <2>1, <1>2, <1>6, CountsKept DEF Refs
<1>. QED
  BY <1>5, <1>6, <1>7, <1>8 DEF Refs

-----------------------------------------------------------------------------
(* Asyncio: sends, and the steps that post no RELEASE.                     *)

\* Rings keep their references, records and arms, or gain some.
RingsGain ==
    /\ Ring' = Ring
    /\ \A r \in Ring : /\ rings'[r].cnx = rings[r].cnx /\ rings'[r].owner = rings[r].owner
                       /\ rings'[r].refs = rings[r].refs
                       /\ rings[r].armed => rings'[r].armed
                       /\ rings[r].recs # <<>> => rings'[r].recs # <<>>

\* The queue stays, or gains a command for a connection that is known.
Posts ==
    /\ txArmed' \in BOOLEAN
    /\ \/ txQ' = txQ
       \/ /\ ~TxFull
          /\ \E c \in CmdRec(Ring) :
                /\ txQ' = Append(txQ, c) /\ c.kind # "RELEASE"
                /\ IF c.kind = "MARK" THEN Known(c.cnx) /\ conn[c.cnx].ring = c.db
                   ELSE c.db = NoRing

\* What any step of asyncio but a drain or a route leaves in order.
LEMMA LoopStep ==
    ASSUME IInv, UNCHANGED workerState, RingsTyped', RingsGain, Posts,
           conn' \in [Addr -> {NoConn} \cup ConnRec(Ring)], ConnSame, FewerKnown,
           batch' = batch, owed' = owed, leaked' = leaked,
           py' \in {"idle", "drain", "route"}, py' = "route" => batch # <<>>,
           failed' = failed, left' \in [Inputs -> Nat],
           p' \in {Idle} \cup PRec,
           p' # Idle => phase' = "run" /\ Known(p'.cnx) /\ conn[p'.cnx].ring # NoRing,
           toClose' \subseteq Addr, toClose' # {} => phase' = "stopping",
           \A a \in toClose' : Known(a),
           phase' \in {"run", "stopping", "stopped", "freed"},
           phase' = phase \/ w = Idle \/ phase' \in {"run", "stopping"},
           phase' = "run" => phase = "run", Running, Parked'
    PROVE  IInv'
<1>. USE DEF IInv, Typed
<1>1. /\ cnx' = cnx /\ gen' = gen /\ active' = active /\ table' = table /\ rxQ' = rxQ
      /\ w' = w /\ reset' = reset
  BY DEF workerState
<1>2. Ring' = Ring /\ RingsHome /\ \A r \in Ring : rings'[r].refs = rings[r].refs
  BY DEF RingsGain, RingsHome
<1>3. WorkerTyped'
  BY <1>1, <1>2 DEF WorkerTyped, Inputs
<1>4. RxTyped'
  BY <1>1 DEF RxTyped
<1>5. LoopTyped'
  BY <1>2 DEF LoopTyped
<1>6. /\ TxTyped' /\ Home' /\ Claims' /\ Marks'
      /\ \A r \in Ring : Claimed(r)' <=> Claimed(r)
  <2>1. CASE txQ' = txQ
    <3>1. TxTyped'
      BY <2>1, <1>2 DEF TxTyped, Posts
    <3>. QED
      BY <3>1, <2>1, <1>2, RefsStill DEF Refs
  <2>2. CASE txQ' # txQ
    <3>1. PICK c \in CmdRec(Ring) :
              /\ txQ' = Append(txQ, c) /\ c.kind # "RELEASE"
              /\ IF c.kind = "MARK" THEN Known(c.cnx) /\ conn[c.cnx].ring = c.db
                 ELSE c.db = NoRing
      BY <2>2 DEF Posts
    <3>2. ~TxFull /\ txArmed' \in BOOLEAN
      BY <2>2 DEF Posts
    <3>. QED
      BY <3>1, <3>2, <1>2, RefsPosted DEF Refs
  <2>. QED
    BY <2>1, <2>2
<1>7. TableTyped' /\ TableHome' /\ Counts'
  BY <1>1, <1>2, <1>6, CountsKept DEF Refs
<1>8. Busy'
  <2>1. p' # Idle => phase' = "run" /\ Known(p.cnx)' /\ conn'[p'.cnx].ring # NoRing
    <3>. SUFFICES ASSUME p' # Idle
                  PROVE  phase' = "run" /\ conn'[p'.cnx] # NoConn /\ conn'[p'.cnx].ring # NoRing
      BY DEF Known
    <3>1. p'.cnx \in Addr
      BY DEF PRec
    <3>2. Known(p'.cnx) /\ conn[p'.cnx].ring # NoRing /\ phase' = "run"
      OBVIOUS
    <3>3. \A a \in Addr : Known(a) => conn'[a] # NoConn /\ conn'[a].ring = conn[a].ring
      BY DEF ConnSame, Known
    <3>. QED
      BY <3>1, <3>2, <3>3
  <2>2. \A a \in toClose' : Known(a)'
    BY DEF ConnSame
  <2>3. w # Idle => /\ phase' \in {"run", "stopping"} /\ cnx[w.cnx] = "up"
                    /\ Has(table, w.cnx, w.db)
                    /\ w.at = "pop" => rings'[w.db].recs # <<>>
    <3>. SUFFICES ASSUME w # Idle
                  PROVE  /\ phase' \in {"run", "stopping"} /\ cnx[w.cnx] = "up"
                         /\ Has(table, w.cnx, w.db)
                         /\ w.at = "pop" => rings'[w.db].recs # <<>>
      OBVIOUS
    <3>1. w.db \in Ring
      BY DEF WorkerTyped, WRec
    <3>. QED
      BY <3>1 DEF Busy, RingsGain
  <2>. QED
    BY <2>1, <2>2, <2>3, <1>1 DEF Busy
<1>9. Gens'
  BY <1>1, GensKept
<1>10. Ends'
  <2>1. \A b \in Addr, g \in Nat : IsLive(b, g) => Live(cnx', gen', reset', b, g)
    BY <1>1 DEF IsLive
  <2>. QED
    BY <2>1, <1>1, EndsKept
<1>11. Agree'
  <2>1. \A r \in Ring : rings'[r].cnx = rings[r].cnx /\ rings'[r].owner = rings[r].owner
    BY DEF RingsGain
  <2>. QED
    BY <2>1, <1>1, <1>2, AgreeStill
<1>. QED
  BY <1>3, <1>4, <1>5, <1>6, <1>7, <1>8, <1>9, <1>10, <1>11 DEF Refs

\* Where no writer parks.
LEMMA ParkedLoop ==
    ASSUME IInv, UNCHANGED <<workerState, batch>>, failed' = failed, RingsGain,
           \A a \in Addr : Known(a)' /\ conn'[a].parked =>
               Known(a) /\ conn[a].parked /\ conn'[a].ring = conn[a].ring,
           \/ p' = Idle \/ p'.at # "recheck"
           \/ p' = p /\ (p # Idle => conn'[p.cnx].ring = conn[p.cnx].ring)
    PROVE  Parked'
<1>. USE DEF IInv, Typed
<1>1. \A a \in Addr : Wake(a) => Wake(a)'
  BY DEF Wake, WakeIn, workerState
<1>2. ASSUME NEW r \in Ring, PopToCome(r)
      PROVE  /\ rings'[r].armed
             /\ rings'[r].recs # <<>> \/ (w' # Idle /\ w'.at = "take" /\ w'.db = r) \/ failed'
  BY <1>2 DEF PopToCome, RingsGain, workerState
<1>3. \A r \in Ring : PopToCome(r) => PopToCome(r)'
  BY <1>2 DEF PopToCome
<1>4. \A r \in Ring : rings[r].armed => rings'[r].armed
  BY DEF RingsGain
<1>. QED
  BY <1>1, <1>3, <1>4, RingsInUse, ParkedKept

\* The rings stay.
LEMMA RingsSame ==
    ASSUME RingsTyped, rings' = rings
    PROVE  RingsTyped' /\ RingsGain /\ Ring' = Ring
  BY DEF RingsTyped, RingsGain, Ring

\* One connection's flags change.
LEMMA FlagStep ==
    ASSUME LoopTyped, NEW a \in Addr, Known(a), NEW c \in ConnRec(Ring),
           conn' = [conn EXCEPT ![a] = c], c.gen = conn[a].gen, c.ring = conn[a].ring
    PROVE  /\ conn' \in [Addr -> {NoConn} \cup ConnRec(Ring)] /\ ConnSame /\ FewerKnown
           /\ conn'[a] = c /\ \A b \in Addr : b # a => conn'[b] = conn[b]
           /\ (c.parked => conn[a].parked) =>
                \A b \in Addr : Known(b)' /\ conn'[b].parked =>
                    Known(b) /\ conn[b].parked /\ conn'[b].ring = conn[b].ring
<1>1. /\ conn'[a] = c /\ \A b \in Addr : b # a => conn'[b] = conn[b]
      /\ \A R : c \in {NoConn} \cup ConnRec(R) /\ Ring \subseteq R =>
             conn' \in [Addr -> {NoConn} \cup ConnRec(R)]
  BY ConnStep
<1>2. c # NoConn
  BY ConnIs
<1>3. conn' \in [Addr -> {NoConn} \cup ConnRec(Ring)]
  BY <1>1
<1>. QED
  BY <1>1, <1>2, <1>3 DEF ConnSame, FewerKnown, Known

\* A payload pushed into ring r of rs.
LEMMA PushIs ==
    ASSUME NEW rs \in RingSeq, NEW r \in DOMAIN rs, NEW a \in Addr,
           NEW len \in 1 .. MaxRecord + 1, Push(rs, r, a, len)
    PROVE  /\ rings' \in RingSeq /\ DOMAIN rings' = DOMAIN rs
           /\ \A q \in DOMAIN rs : q # r => rings'[q] = rs[q]
           /\ \A q \in DOMAIN rs :
                /\ rings'[q].cnx = rs[q].cnx /\ rings'[q].owner = rs[q].owner
                /\ rings'[q].refs = rs[q].refs /\ rings'[q].armed = rs[q].armed
                /\ rs[q].recs # <<>> => rings'[q].recs # <<>>
                /\ Len(rs[q].recs) <= Len(rings'[q].recs)
           /\ \/ p' = Idle
              \/ p' \in PRec /\ p'.cnx = a /\ p'.at \in {"mark", "arm"}
<1>0. rs \in Seq(RingRec) /\ rs[r] \in RingRec /\ rs[r].recs \in Seq(1 .. MaxRecord)
  BY RecIs DEF RingSeq
<1>i. \A q \in DOMAIN rs : Len(rs[q].recs) \in Nat
  <2>1. \A q \in DOMAIN rs : rs[q] \in RingRec
    BY <1>0
  <2>2. \A q \in DOMAIN rs : rs[q].recs \in Seq(1 .. MaxRecord)
    BY <2>1, RecIs
  <2>. QED
    BY <2>2
<1>1. \/ p' = Idle
      \/ p' \in PRec /\ p'.cnx = a /\ p'.at \in {"mark", "arm"}
  BY DEF Push, PRec
<1>2. CASE rings' = rs
  BY <1>1, <1>2, <1>i
<1>3. CASE rings' # rs
  <2>. DEFINE s == Append(rs[r].recs, len)
              c == [rs[r] EXCEPT !.recs = s]
  <2>1. ~Oversize(len) /\ rings' = [rs EXCEPT ![r].recs = Append(@, len)]
    BY <1>3 DEF Push
  <2>2. len \in 1 .. MaxRecord
    BY <2>1, BoundsAssumption DEF Oversize
  <2>3. s \in Seq(1 .. MaxRecord) /\ s # <<>> /\ Len(s) = Len(rs[r].recs) + 1
        /\ Len(rs[r].recs) \in Nat
    BY <1>0, <2>2
  <2>4. /\ c \in RingRec /\ c.recs = s /\ c.cnx = rs[r].cnx /\ c.owner = rs[r].owner
        /\ c.refs = rs[r].refs /\ c.armed = rs[r].armed
    BY <1>0, <2>3, RecRecs
  <2>5. rings' = [rs EXCEPT ![r] = c]
    BY <2>1
  <2>. HIDE DEF c, s
  <2>6. rings' \in Seq(RingRec) /\ DOMAIN rings' = DOMAIN rs
    BY <1>0, <2>4, <2>5
  <2>7. rings'[r] = c /\ \A q \in DOMAIN rs : q # r => rings'[q] = rs[q]
    BY <2>5
  <2>8. ASSUME NEW q \in DOMAIN rs
        PROVE  /\ rings'[q].cnx = rs[q].cnx /\ rings'[q].owner = rs[q].owner
               /\ rings'[q].refs = rs[q].refs /\ rings'[q].armed = rs[q].armed
               /\ rs[q].recs # <<>> => rings'[q].recs # <<>>
               /\ Len(rs[q].recs) <= Len(rings'[q].recs)
    <3>1. CASE q = r
      BY <3>1, <2>3, <2>4, <2>7
    <3>2. CASE q # r
      BY <3>2, <2>7, <1>i
    <3>. QED
      BY <3>1, <3>2
  <2>. QED
    BY <1>1, <2>6, <2>7, <2>8 DEF RingSeq
<1>. QED
  BY <1>2, <1>3

\* A push into the ring connection a has.
LEMMA PushStep ==
    ASSUME IInv, NEW a \in Addr, Known(a), conn[a].ring # NoRing, phase = "run",
           NEW len \in 1 .. MaxRecord + 1, Push(rings, conn[a].ring, a, len),
           conn' = conn, UNCHANGED <<txQ, txArmed, pushIdle>>, left' \in [Inputs -> Nat]
    PROVE  /\ IInv' /\ Ring' = Ring
           /\ \A r \in Ring : Len(rings[r].recs) <= Len(rings'[r].recs)
<1>. USE DEF IInv, Typed
<1>1. /\ UNCHANGED workerState /\ batch' = batch /\ owed' = owed /\ leaked' = leaked
      /\ py' = py /\ failed' = failed /\ toClose' = toClose /\ phase' = phase
      /\ txQ' = txQ /\ txArmed' = txArmed
  BY DEF pushIdle
<1>2. conn[a].ring \in Ring
  BY KnownIs
<1>. DEFINE r == conn[a].ring
<1>3. rings \in RingSeq /\ r \in DOMAIN rings
  BY <1>2 DEF RingsTyped, RingSeq, Ring
<1>. HIDE DEF r
<1>4. /\ rings' \in RingSeq /\ DOMAIN rings' = DOMAIN rings
      /\ \A q \in DOMAIN rings :
           /\ rings'[q].cnx = rings[q].cnx /\ rings'[q].owner = rings[q].owner
           /\ rings'[q].refs = rings[q].refs /\ rings'[q].armed = rings[q].armed
           /\ rings[q].recs # <<>> => rings'[q].recs # <<>>
           /\ Len(rings[q].recs) <= Len(rings'[q].recs)
      /\ p' = Idle \/ (p' \in PRec /\ p'.cnx = a /\ p'.at \in {"mark", "arm"})
  <2>1. Push(rings, r, a, len)
    BY DEF r
  <2>. QED
    BY <2>1, <1>3, PushIs
<1>5. RingsTyped' /\ RingsGain
  BY <1>4 DEF RingsTyped, RingsGain, RingSeq, Ring
<1>6. ConnSame /\ FewerKnown /\ Running /\ Posts
  BY <1>1 DEF ConnSame, FewerKnown, Known, Running, Posts, TxTyped
<1>7. /\ conn' \in [Addr -> {NoConn} \cup ConnRec(Ring)]
      /\ py' \in {"idle", "drain", "route"} /\ (py' = "route" => batch # <<>>)
      /\ toClose' \subseteq Addr /\ phase' \in {"run", "stopping", "stopped", "freed"}
  BY <1>1 DEF LoopTyped
<1>8. Parked'
  <2>1. \A b \in Addr : Known(b)' /\ conn'[b].parked =>
            Known(b) /\ conn[b].parked /\ conn'[b].ring = conn[b].ring
    BY DEF Known
  <2>2. p' = Idle \/ p'.at # "recheck"
    BY <1>4
  <2>. QED
    BY <2>1, <2>2, <1>1, <1>5, ParkedLoop
<1>9. /\ p' \in {Idle} \cup PRec
      /\ p' # Idle => phase' = "run" /\ Known(p'.cnx) /\ conn[p'.cnx].ring # NoRing
  BY <1>1, <1>4
<1>10. (toClose' # {} => phase' = "stopping") /\ \A b \in toClose' : Known(b)
  BY <1>1 DEF Busy
<1>11. IInv'
  BY <1>1, <1>5, <1>6, <1>7, <1>8, <1>9, <1>10, LoopStep
<1>. QED
  BY <1>11, <1>4 DEF Ring

\* A step of the loop that leaves the rings alone and parks nobody.
LEMMA QuietStep ==
    ASSUME IInv, UNCHANGED <<workerState, rings, batch, owed, leaked, failed>>, Posts,
           conn' \in [Addr -> {NoConn} \cup ConnRec(Ring)], ConnSame, FewerKnown,
           \A a \in Addr : Known(a)' /\ conn'[a].parked =>
               Known(a) /\ conn[a].parked /\ conn'[a].ring = conn[a].ring,
           py' \in {"idle", "drain", "route"}, py' = "route" => batch # <<>>,
           left' \in [Inputs -> Nat],
           p' \in {Idle} \cup PRec, p' = Idle \/ p'.at # "recheck",
           p' # Idle => phase' = "run" /\ Known(p'.cnx) /\ conn[p'.cnx].ring # NoRing,
           toClose' \subseteq Addr, toClose' # {} => phase' = "stopping",
           \A a \in toClose' : Known(a),
           phase' \in {"run", "stopping", "stopped", "freed"},
           phase' = phase \/ w = Idle \/ phase' \in {"run", "stopping"},
           phase' = "run" => phase = "run", Running
    PROVE  IInv'
<1>1. RingsTyped' /\ RingsGain
  BY RingsSame DEF IInv, Typed
<1>2. Parked'
  BY <1>1, ParkedLoop
<1>. QED
  BY <1>1, <1>2, LoopStep

\* Asyncio between two calls.
LEMMA LoopIdles ==
    ASSUME IInv
    PROVE  /\ LoopTyped /\ TxTyped /\ left \in [Inputs -> Nat]
           /\ py \in {"idle", "drain", "route"} /\ (py = "route" => batch # <<>>)
           /\ conn \in [Addr -> {NoConn} \cup ConnRec(Ring)]
           /\ p \in {Idle} \cup PRec /\ toClose \subseteq Addr
           /\ phase \in {"run", "stopping", "stopped", "freed"}
           /\ (phase = "run" => toClose = {}) /\ (\A a \in toClose : Known(a))
           /\ (p # Idle => phase = "run") /\ txArmed \in BOOLEAN
  BY WorkerIs DEF IInv, Typed, LoopTyped, TxTyped, Busy

\* The connections stay.
LEMMA ConnStays ==
    ASSUME conn' = conn
    PROVE  /\ ConnSame /\ FewerKnown
           /\ \A a \in Addr : Known(a)' /\ conn'[a].parked =>
                Known(a) /\ conn[a].parked /\ conn'[a].ring = conn[a].ring
  BY DEF ConnSame, FewerKnown, Known

\* Another command.
LEMMA PostOtherStep ==
    ASSUME IInv, PostOther
    PROVE  IInv' /\ rings' = rings
<1>. DEFINE c == Cmd("OTHER", Null, NoRing)
<1>1. /\ phase = "run" /\ p = Idle /\ ~TxFull /\ Spend("cmds") /\ txQ' = Append(txQ, c)
      /\ UNCHANGED <<workerState, rings, batch, owed, leaked, failed>>
      /\ txArmed' = txArmed /\ py' = py /\ conn' = conn /\ p' = p /\ toClose' = toClose
      /\ phase' = phase
  BY DEF PostOther, LoopIdle
<1>2. c \in CmdRec(Ring) /\ c.kind = "OTHER" /\ c.db = NoRing
  BY IsCmd DEF TxKinds
<1>. HIDE DEF c
<1>3. Posts
  BY <1>1, <1>2, LoopIdles DEF Posts
<1>4. left' \in [Inputs -> Nat]
  <2>1. "cmds" \in Inputs
    BY DEF Inputs
  <2>. QED
    BY <1>1, <2>1, LoopIdles, SpendIs
<1>5. Running
  BY <1>1 DEF Running
<1>6. IInv'
  BY <1>1, <1>3, <1>4, <1>5, LoopIdles, ConnStays, QuietStep
<1>. QED
  BY <1>1, <1>6

\* A connection is closed.
LEMMA ClosedConn ==
    ASSUME LoopTyped, NEW a \in Addr, Known(a), conn' = [conn EXCEPT ![a].closed = TRUE]
    PROVE  /\ conn' \in [Addr -> {NoConn} \cup ConnRec(Ring)] /\ ConnSame /\ FewerKnown
           /\ \A b \in Addr : Known(b)' /\ conn'[b].parked =>
                Known(b) /\ conn[b].parked /\ conn'[b].ring = conn[b].ring
<1>. DEFINE c == [conn[a] EXCEPT !.closed = TRUE]
<1>1. conn[a] \in ConnRec(Ring)
  BY KnownIs
<1>2. c = [gen |-> conn[a].gen, ring |-> conn[a].ring, markOwed |-> conn[a].markOwed,
           parked |-> conn[a].parked, closed |-> TRUE]
  BY <1>1, ConnFields
<1>3. conn' = [conn EXCEPT ![a] = c]
  OBVIOUS
<1>. HIDE DEF c
<1>4. /\ c \in ConnRec(Ring) /\ c.gen = conn[a].gen /\ c.ring = conn[a].ring
      /\ c.parked = conn[a].parked
  BY <1>2, KnownIs, IsConn
<1>. QED
  BY <1>3, <1>4, FlagStep

\* QuicConnection.close().
LEMMA LocalCloseStep ==
    ASSUME IInv, NEW a \in Addr, LocalClose(a)
    PROVE  IInv' /\ rings' = rings
<1>. DEFINE c == Cmd("CLOSE", a, NoRing)
<1>1. /\ phase = "run" /\ p = Idle /\ ~TxFull /\ Spend("closes") /\ txQ' = Append(txQ, c)
      /\ Known(a) /\ conn' = [conn EXCEPT ![a].closed = TRUE]
      /\ UNCHANGED <<workerState, rings, batch, owed, leaked, failed>>
      /\ txArmed' = txArmed /\ py' = py /\ p' = p /\ toClose' = toClose
      /\ phase' = phase
  BY DEF LocalClose, LoopIdle
<1>2. c \in CmdRec(Ring) /\ c.kind = "CLOSE" /\ c.db = NoRing
  BY IsCmd DEF TxKinds
<1>. HIDE DEF c
<1>3. Posts
  BY <1>1, <1>2, LoopIdles DEF Posts
<1>4. left' \in [Inputs -> Nat]
  <2>1. "closes" \in Inputs
    BY DEF Inputs
  <2>. QED
    BY <1>1, <2>1, LoopIdles, SpendIs
<1>5. Running
  BY <1>1 DEF Running
<1>6. /\ conn' \in [Addr -> {NoConn} \cup ConnRec(Ring)] /\ ConnSame /\ FewerKnown
      /\ \A b \in Addr : Known(b)' /\ conn'[b].parked =>
           Known(b) /\ conn[b].parked /\ conn'[b].ring = conn[b].ring
  BY <1>1, LoopIdles, ClosedConn
<1>7. IInv'
  BY <1>1, <1>3, <1>4, <1>5, <1>6, LoopIdles, QuietStep
<1>. QED
  BY <1>1, <1>7

\* The queue is drained.
LEMMA DrainEndStep ==
    ASSUME IInv, DrainEnd
    PROVE  IInv' /\ rings' = rings
<1>1. /\ phase = "run" /\ p = Idle /\ txQ' = txQ
      /\ UNCHANGED <<workerState, rings, batch, owed, leaked, failed>>
      /\ txArmed' = txArmed /\ conn' = conn /\ p' = p /\ toClose' = toClose
      /\ phase' = phase /\ left' = left
      /\ py' \in {"idle", "drain", "route"} /\ (py' = "route" => batch # <<>>)
  BY DEF DrainEnd, LoopIdle, stillFed
<1>2. Posts /\ Running
  BY <1>1, LoopIdles DEF Posts, Running
<1>3. IInv'
  BY <1>1, <1>2, LoopIdles, ConnStays, QuietStep
<1>. QED
  BY <1>1, <1>3

\* QuicEngine.close() begins.
LEMMA EngineCloseStep ==
    ASSUME IInv, EngineClose
    PROVE  IInv' /\ rings' = rings
<1>1. /\ phase = "run" /\ p = Idle /\ txQ' = txQ /\ Spend("closes")
      /\ UNCHANGED <<workerState, rings, batch, owed, leaked, failed>>
      /\ txArmed' = txArmed /\ py' = py /\ conn' = conn /\ p' = p
      /\ phase' = "stopping" /\ toClose' \subseteq Addr /\ \A a \in toClose' : Known(a)
  BY DEF EngineClose, LoopIdle
<1>2. Posts /\ Running
  BY <1>1, LoopIdles DEF Posts, Running
<1>3. left' \in [Inputs -> Nat]
  <2>1. "closes" \in Inputs
    BY DEF Inputs
  <2>. QED
    BY <1>1, <2>1, LoopIdles, SpendIs
<1>4. IInv'
  BY <1>1, <1>2, <1>3, LoopIdles, ConnStays, QuietStep
<1>. QED
  BY <1>1, <1>4

\* It closes one connection, or passes it over.
LEMMA CloseNextStep ==
    ASSUME IInv, NEW a \in Addr, CloseNext(a)
    PROVE  IInv' /\ rings' = rings
<1>. DEFINE c == Cmd("CLOSE", a, NoRing)
<1>1. /\ phase = "stopping" /\ a \in toClose /\ toClose' = toClose \ {a}
      /\ UNCHANGED <<workerState, rings, batch, owed, leaked, failed>>
      /\ txArmed' = txArmed /\ py' = py /\ p' = p /\ phase' = phase /\ left' = left
      /\ \/ txQ' = txQ /\ conn' = conn
         \/ /\ ~TxFull /\ txQ' = Append(txQ, c)
            /\ conn' = [conn EXCEPT ![a].closed = TRUE]
  BY DEF CloseNext, stillFed
<1>2. c \in CmdRec(Ring) /\ c.kind = "CLOSE" /\ c.db = NoRing
  BY IsCmd DEF TxKinds
<1>. HIDE DEF c
<1>3. Posts
  BY <1>1, <1>2, LoopIdles DEF Posts
<1>4. Running /\ p = Idle /\ Known(a)
  BY <1>1, LoopIdles DEF Running
<1>5. /\ conn' \in [Addr -> {NoConn} \cup ConnRec(Ring)] /\ ConnSame /\ FewerKnown
      /\ \A b \in Addr : Known(b)' /\ conn'[b].parked =>
           Known(b) /\ conn[b].parked /\ conn'[b].ring = conn[b].ring
  BY <1>1, <1>4, LoopIdles, ClosedConn, ConnStays
<1>6. toClose' \subseteq Addr /\ \A b \in toClose' : Known(b)
  BY <1>1, LoopIdles
<1>7. IInv'
  BY <1>1, <1>3, <1>4, <1>5, <1>6, LoopIdles, QuietStep
<1>. QED
  BY <1>1, <1>7

\* The worker has ended.
LEMMA JoinStep ==
    ASSUME IInv, Join
    PROVE  IInv' /\ rings' = rings
<1>1. /\ phase = "stopping" /\ w = Idle /\ phase' = "stopped" /\ txQ' = txQ
      /\ UNCHANGED <<workerState, rings, batch, owed, leaked, failed>>
      /\ txArmed' = txArmed /\ py' = py /\ conn' = conn /\ p' = p /\ left' = left
      /\ toClose = {} /\ toClose' = toClose
  BY DEF Join, stillFed
<1>2. Posts /\ Running /\ p = Idle
  BY <1>1, LoopIdles DEF Posts, Running
<1>3. IInv'
  BY <1>1, <1>2, LoopIdles, ConnStays, QuietStep
<1>. QED
  BY <1>1, <1>3

\* A mark for a connection's ring.
LEMMA MarkPosts ==
    ASSUME IInv, NEW a \in Addr, Known(a), conn[a].ring # NoRing, PushMark(a, conn[a].ring)
    PROVE  Posts
<1>. DEFINE c == Cmd("MARK", a, conn[a].ring)
<1>1. conn[a].ring \in Ring
  BY LoopIdles, KnownIs
<1>2. c \in CmdRec(Ring) /\ c.kind = "MARK" /\ c.db = conn[a].ring /\ c.cnx = a
  <2>. DEFINE r == conn[a].ring
  <2>1. r \in Ring \cup {NoRing} /\ r # NoRing /\ "MARK" \in TxKinds
    BY <1>1 DEF TxKinds
  <2>. HIDE DEF r
  <2>2. /\ Cmd("MARK", a, r) \in CmdRec(Ring) /\ Cmd("MARK", a, r).kind = "MARK"
        /\ Cmd("MARK", a, r).cnx = a /\ Cmd("MARK", a, r).db = r
    BY <2>1, IsCmd
  <2>. QED
    BY <2>2 DEF r
<1>3. (TxFull /\ txArmed' = TRUE /\ txQ' = txQ)
      \/ (~TxFull /\ txQ' = Append(txQ, c) /\ txArmed' = txArmed)
  BY DEF PushMark
<1>. HIDE DEF c
<1>. QED
  BY <1>2, <1>3, LoopIdles DEF Posts

\* The debt of one is noted.
LEMMA MarkedConn ==
    ASSUME LoopTyped, NEW a \in Addr, Known(a), conn[a].ring # NoRing, NEW m \in BOOLEAN,
           conn' = [conn EXCEPT ![a].markOwed = m]
    PROVE  /\ conn' \in [Addr -> {NoConn} \cup ConnRec(Ring)] /\ ConnSame /\ FewerKnown
           /\ \A b \in Addr : Known(b)' /\ conn'[b].parked =>
                Known(b) /\ conn[b].parked /\ conn'[b].ring = conn[b].ring
<1>. DEFINE c == [conn[a] EXCEPT !.markOwed = m]
<1>1. conn[a] \in ConnRec(Ring)
  BY KnownIs
<1>2. c = [gen |-> conn[a].gen, ring |-> conn[a].ring, markOwed |-> m,
           parked |-> conn[a].parked, closed |-> conn[a].closed]
  BY <1>1, ConnFields
<1>3. conn' = [conn EXCEPT ![a] = c]
  OBVIOUS
<1>. HIDE DEF c
<1>4. /\ c \in ConnRec(Ring) /\ c.gen = conn[a].gen /\ c.ring = conn[a].ring
      /\ c.parked = conn[a].parked
  BY <1>2, KnownIs, IsConn
<1>. QED
  BY <1>3, <1>4, FlagStep

\* The mark at the end of a send.
LEMMA SendMarkStep ==
    ASSUME IInv, SendMark
    PROVE  IInv' /\ rings' = rings
<1>1. p # Idle
  BY DEF SendMark, Idle
<1>2. /\ p.cnx \in Addr /\ Known(p.cnx) /\ conn[p.cnx].ring # NoRing /\ phase = "run"
  BY <1>1, RingsInUse DEF IInv, Typed, Busy
<1>. DEFINE a == p.cnx
            m == conn[a].markOwed \/ TxFull
<1>3. /\ PushMark(a, conn[a].ring) /\ conn' = [conn EXCEPT ![a].markOwed = m]
      /\ UNCHANGED <<workerState, rings, batch, owed, leaked, failed>>
      /\ py' = py /\ p' = Idle /\ toClose' = toClose /\ phase' = phase /\ left' = left
  BY DEF SendMark, pushIdle
<1>4. m \in BOOLEAN
  BY <1>2, LoopIdles, KnownIs
<1>. HIDE DEF a, m
<1>5. a \in Addr /\ Known(a) /\ conn[a].ring # NoRing
  BY <1>2 DEF a
<1>6. /\ conn' \in [Addr -> {NoConn} \cup ConnRec(Ring)] /\ ConnSame /\ FewerKnown
      /\ \A b \in Addr : Known(b)' /\ conn'[b].parked =>
           Known(b) /\ conn[b].parked /\ conn'[b].ring = conn[b].ring
  BY <1>3, <1>4, <1>5, LoopIdles, MarkedConn
<1>7. Posts /\ Running
  BY <1>3, <1>5, MarkPosts DEF Running
<1>8. IInv'
  BY <1>2, <1>3, <1>6, <1>7, LoopIdles, QuietStep
<1>. QED
  BY <1>3, <1>8

\* A send that owes a mark.
LEMMA SendRepostStep ==
    ASSUME IInv, NEW a \in Addr, NEW len \in 0 .. MaxRecord + 1, SendRepost(a, len)
    PROVE  IInv' /\ rings' = rings
<1>1. /\ phase = "run" /\ Known(a) /\ conn[a].markOwed /\ len # 0 /\ Spend("sends")
      /\ PushMark(a, conn[a].ring) /\ conn' = [conn EXCEPT ![a].markOwed = TxFull]
      /\ UNCHANGED <<workerState, rings, batch, owed, leaked, failed>>
      /\ py' = py /\ toClose' = toClose /\ phase' = phase
      /\ p' = [at |-> "push", cnx |-> a, len |-> len]
  BY DEF SendRepost, MaySend, LoopIdle, pushIdle
<1>2. conn[a].ring # NoRing
  BY <1>1, LoopIdles, KnownIs
<1>3. /\ conn' \in [Addr -> {NoConn} \cup ConnRec(Ring)] /\ ConnSame /\ FewerKnown
      /\ \A b \in Addr : Known(b)' /\ conn'[b].parked =>
           Known(b) /\ conn[b].parked /\ conn'[b].ring = conn[b].ring
  <2>. DEFINE m == TxFull
  <2>1. m \in BOOLEAN /\ conn' = [conn EXCEPT ![a].markOwed = m]
    BY <1>1 DEF TxFull
  <2>. HIDE DEF m
  <2>. QED
    BY <2>1, <1>1, <1>2, LoopIdles, MarkedConn
<1>4. Posts /\ Running
  BY <1>1, <1>2, MarkPosts DEF Running
<1>5. left' \in [Inputs -> Nat]
  <2>1. "sends" \in Inputs
    BY DEF Inputs
  <2>. QED
    BY <1>1, <2>1, LoopIdles, SpendIs
<1>6. p' \in PRec /\ p'.at = "push" /\ p'.cnx = a
  <2>1. len \in 1 .. MaxRecord + 1
    BY <1>1, BoundsAssumption
  <2>. QED
    BY <1>1, <2>1 DEF PRec
<1>7. IInv'
  BY <1>1, <1>2, <1>3, <1>4, <1>5, <1>6, LoopIdles, QuietStep
<1>. QED
  BY <1>1, <1>7

\* The push behind it.
LEMMA SendPushStep ==
    ASSUME IInv, SendPush
    PROVE  IInv' /\ Ring' = Ring /\ \A r \in Ring : Len(rings[r].recs) <= Len(rings'[r].recs)
<1>1. p # Idle
  BY DEF SendPush, Idle
<1>. DEFINE a == p.cnx
            len == p.len
<1>2. /\ a \in Addr /\ Known(a) /\ conn[a].ring # NoRing /\ phase = "run"
      /\ len \in 1 .. MaxRecord + 1
  BY <1>1, RingsInUse DEF IInv, Typed, Busy
<1>3. /\ Push(rings, conn[a].ring, a, len) /\ conn' = conn
      /\ UNCHANGED <<txQ, txArmed, pushIdle>> /\ left' \in [Inputs -> Nat]
  BY LoopIdles DEF SendPush
<1>. HIDE DEF a, len
<1>. QED
  BY <1>2, <1>3, PushStep

\* The arm of a push that found no room.
LEMMA PushArmStep ==
    ASSUME IInv, PushArm
    PROVE  IInv' /\ Ring' = Ring /\ \A r \in Ring : rings'[r].recs = rings[r].recs
<1>1. p # Idle
  BY DEF PushArm, Idle
<1>. DEFINE a == p.cnx
            r == conn[a].ring
            c == [rings[r] EXCEPT !.armed = TRUE]
<1>2. /\ a \in Addr /\ Known(a) /\ r # NoRing /\ r \in Ring /\ phase = "run"
      /\ p \in PRec
  BY <1>1, RingsInUse DEF IInv, Typed, Busy
<1>3. /\ rings' = [rings EXCEPT ![r] = c] /\ p' = [p EXCEPT !.at = "recheck"]
      /\ UNCHANGED workerState /\ batch' = batch /\ owed' = owed /\ leaked' = leaked
      /\ failed' = failed
      /\ txQ' = txQ /\ txArmed' = txArmed /\ conn' = conn /\ py' = py
      /\ toClose' = toClose /\ phase' = phase /\ left' = left
  BY DEF PushArm, pushIdle
<1>4. p' \in PRec /\ p'.cnx = a
  BY <1>2, <1>3 DEF PRec
<1>5. rings[r] \in RingRec
  BY <1>2, RingsAre DEF IInv, Typed
<1>6. /\ c \in RingRec /\ c.armed = TRUE /\ c.cnx = rings[r].cnx /\ c.owner = rings[r].owner
      /\ c.refs = rings[r].refs /\ c.recs = rings[r].recs
  BY <1>5, RecArmed
<1>. HIDE DEF a, r, c
<1>7. /\ RingsTyped' /\ RingsHome /\ rings'[r] = c
      /\ \A q \in Ring : q # r => rings'[q] = rings[q]
      /\ \A q \in Ring : /\ rings'[q].refs = rings[q].refs
                         /\ rings'[q].cnx = rings[q].cnx
                         /\ rings'[q].owner = rings[q].owner
  BY <1>2, <1>3, <1>6, RingStep DEF IInv, Typed
<1>8. \A q \in Ring : /\ rings'[q].recs = rings[q].recs
                      /\ rings[q].armed => rings'[q].armed
  BY <1>6, <1>7
<1>9. RingsGain /\ Ring' = Ring
  BY <1>7, <1>8 DEF RingsGain, RingsHome
<1>10. Posts /\ Running
  BY <1>3, LoopIdles DEF Posts, Running
<1>11. Parked'
  <2>1. \A b \in Addr : Wake(b) => Wake(b)'
    BY <1>3 DEF Wake, WakeIn, workerState
  <2>2. \A q \in Ring : PopToCome(q) => PopToCome(q)'
    BY <1>3, <1>8 DEF PopToCome, workerState
  <2>3. \A b \in Addr : Known(b)' /\ conn'[b].parked => PopToCome(conn[b].ring)' \/ Wake(b)'
    <3>1. ASSUME NEW b \in Addr, Known(b), conn[b].parked
          PROVE  PopToCome(conn[b].ring)' \/ Wake(b)'
      <4>1. conn[b].ring \in Ring
        BY <3>1, LoopIdles, KnownIs
      <4>2. PopToCome(conn[b].ring) \/ Wake(b)
        BY <3>1 DEF IInv, Parked
      <4>3. conn'[b].ring = conn[b].ring
        BY <1>3
      <4>4. PopToCome(conn[b].ring) => PopToCome(conn[b].ring)'
        <5>1. PopToCome(conn[b].ring) =>
                /\ rings[conn[b].ring].armed
                /\ rings[conn[b].ring].recs # <<>>
                     \/ (w # Idle /\ w.at = "take" /\ w.db = conn[b].ring) \/ failed
          BY DEF PopToCome
        <5>. QED
          BY <5>1, <4>1, <4>3, <1>3, <1>8 DEF PopToCome, workerState
      <4>. QED
        BY <4>2, <4>4, <2>1
    <3>. QED
      BY <3>1, <1>3 DEF Known
  <2>4. rings'[conn'[p'.cnx].ring].armed
    BY <1>3, <1>4, <1>6, <1>7 DEF r
  <2>. QED
    BY <2>3, <2>4 DEF Parked
<1>12. p' # Idle => phase' = "run" /\ Known(p'.cnx) /\ conn[p'.cnx].ring # NoRing
  BY <1>2, <1>3, <1>4 DEF r
<1>13. /\ conn' \in [Addr -> {NoConn} \cup ConnRec(Ring)] /\ ConnSame /\ FewerKnown
       /\ py' \in {"idle", "drain", "route"} /\ (py' = "route" => batch # <<>>)
       /\ left' \in [Inputs -> Nat]
       /\ toClose' \subseteq Addr /\ (toClose' # {} => phase' = "stopping")
       /\ (\A b \in toClose' : Known(b)) /\ phase' = "run"
  BY <1>2, <1>3, LoopIdles, ConnStays
<1>14. IInv'
  BY <1>2, <1>3, <1>4, <1>7, <1>9, <1>10, <1>11, <1>12, <1>13, LoopStep
<1>. QED
  BY <1>8, <1>9, <1>14

\* The second look: the writer parks on a ring that is armed and not empty.
LEMMA PushRecheckStep ==
    ASSUME IInv, PushRecheck
    PROVE  IInv' /\ Ring' = Ring /\ \A r \in Ring : Len(rings[r].recs) <= Len(rings'[r].recs)
<1>1. p # Idle /\ p.at = "recheck"
  BY DEF PushRecheck, Idle
<1>. DEFINE a == p.cnx
            len == p.len
            r == conn[a].ring
<1>2. /\ a \in Addr /\ Known(a) /\ r # NoRing /\ r \in Ring /\ phase = "run"
      /\ len \in 1 .. MaxRecord + 1
  BY <1>1, RingsInUse DEF IInv, Typed, Busy
<1>3. /\ UNCHANGED <<txQ, txArmed, pushIdle>> /\ left' = left
      /\ \/ Push(rings, r, a, len) /\ conn' = conn
         \/ /\ ~HasRoom(rings[r], len) /\ p' = Idle /\ rings' = rings
            /\ conn' = [conn EXCEPT ![a].parked = TRUE]
  BY DEF PushRecheck
<1>4. CASE Push(rings, r, a, len) /\ conn' = conn
  <2>1. left' \in [Inputs -> Nat] /\ Push(rings, conn[a].ring, a, len)
    BY <1>3, <1>4, LoopIdles
  <2>. HIDE DEF a, len
  <2>. QED
    BY <2>1, <1>2, <1>3, <1>4, PushStep DEF r
<1>5. CASE /\ ~HasRoom(rings[r], len) /\ p' = Idle /\ rings' = rings
           /\ conn' = [conn EXCEPT ![a].parked = TRUE]
  <2>. DEFINE c == [conn[a] EXCEPT !.parked = TRUE]
  <2>1. /\ UNCHANGED workerState /\ batch' = batch /\ owed' = owed /\ leaked' = leaked
        /\ py' = py /\ failed' = failed /\ toClose' = toClose /\ phase' = phase
        /\ txQ' = txQ /\ txArmed' = txArmed /\ conn' = [conn EXCEPT ![a] = c]
    BY <1>3, <1>5 DEF pushIdle
  <2>2. c = [gen |-> conn[a].gen, ring |-> conn[a].ring, markOwed |-> conn[a].markOwed,
             parked |-> TRUE, closed |-> conn[a].closed]
    <3>1. conn[a] \in ConnRec(Ring)
      BY <1>2, LoopIdles, KnownIs
    <3>. QED
      BY <3>1, ConnFields
  <2>3. rings[r].armed \/ Wake(a)
    BY <1>1 DEF IInv, Parked
  <2>4. rings[r] \in RingRec
    BY <1>2, RingsAre DEF IInv, Typed
  <2>. HIDE DEF a, len, c
  <2>5. c \in ConnRec(Ring) /\ c.gen = conn[a].gen /\ c.ring = conn[a].ring
    BY <1>2, <2>2, LoopIdles, KnownIs, IsConn
  <2>6. /\ conn' \in [Addr -> {NoConn} \cup ConnRec(Ring)] /\ ConnSame /\ FewerKnown
        /\ conn'[a] = c /\ \A b \in Addr : b # a => conn'[b] = conn[b]
    BY <1>2, <2>1, <2>5, LoopIdles, FlagStep
  <2>7. rings[r].recs # <<>>
    BY <2>4, <1>2, <1>5, FullHolds
  <2>8. RingsTyped' /\ RingsGain /\ Ring' = Ring
    BY <1>5, RingsSame DEF IInv, Typed
  <2>9. Posts /\ Running
    BY <2>1, LoopIdles DEF Posts, Running
  <2>10. Parked'
    <3>1. ASSUME NEW b \in Addr, Known(b)', conn'[b].parked
          PROVE  PopToCome(conn[b].ring)' \/ Wake(b)'
      <4>1. Wake(b) => Wake(b)'
        BY <2>1 DEF Wake, WakeIn, workerState
      <4>2. PopToCome(conn'[b].ring) => PopToCome(conn[b].ring)'
        BY <2>1, <1>5 DEF PopToCome, workerState
      <4>3. CASE b = a
        <5>1. conn'[b].ring = r
          BY <4>3, <2>5, <2>6
        <5>2. rings[r].armed => PopToCome(conn'[b].ring)
          BY <5>1, <2>7 DEF PopToCome
        <5>. QED
          BY <5>2, <4>1, <4>2, <4>3, <2>3
      <4>4. CASE b # a
        <5>1. Known(b) /\ conn[b].parked /\ conn'[b].ring = conn[b].ring
          BY <3>1, <4>4, <2>6 DEF Known
        <5>. QED
          BY <5>1, <4>1, <4>2 DEF IInv, Parked
      <4>. QED
        BY <4>3, <4>4
    <3>. QED
      BY <3>1, <1>5 DEF Parked
  <2>11. IInv'
    BY <1>2, <1>3, <1>5, <2>1, <2>6, <2>8, <2>9, <2>10, LoopIdles, LoopStep
  <2>12. \A q \in Ring : Len(rings[q].recs) <= Len(rings'[q].recs)
    <3>1. \A q \in Ring : Len(rings[q].recs) \in Nat
      <4>1. \A q \in Ring : rings[q].recs \in Seq(1 .. MaxRecord)
        BY RingsAre DEF IInv, Typed
      <4>. QED
        BY <4>1
    <3>. QED
      BY <3>1, <1>5
  <2>. QED
    BY <2>8, <2>11, <2>12
<1>. QED
  BY <1>3, <1>4, <1>5

\* A ring is made: the new one is nobody else's.
NewRing(a, r) ==
    /\ Ring' = Ring \cup {r} /\ r \notin Ring /\ r # NoRing
    /\ \A q \in Ring : rings'[q] = rings[q]
    /\ rings'[r].cnx = a /\ rings'[r].owner = conn[a].gen /\ rings'[r].refs = 1
    /\ Known(a) /\ conn[a].ring = NoRing
    /\ Known(a)' /\ conn'[a].ring = r /\ conn'[a].gen = conn[a].gen /\ ~conn'[a].parked
    /\ \A b \in Addr : b # a => conn'[b] = conn[b]

\* A first send makes it.
LEMMA RingMade ==
    ASSUME RingsTyped, LoopTyped, NEW a \in Addr, Known(a), conn[a].ring = NoRing,
           ~conn[a].parked, ~conn[a].markOwed, NEW len \in 1 .. MaxRecord + 1,
           Push(RingsFor(a), RingFor(a), a, len),
           conn' = [conn EXCEPT ![a].ring = RingFor(a)]
    PROVE  /\ NewRing(a, RingFor(a)) /\ RingsTyped'
           /\ conn' \in [Addr -> {NoConn} \cup ConnRec(Ring')]
           /\ p' = Idle \/ (p' \in PRec /\ p'.cnx = a /\ p'.at \in {"mark", "arm"})
<1>. DEFINE r == RingFor(a)
            e == [cnx |-> a, owner |-> conn[a].gen, refs |-> 1, armed |-> FALSE,
                  recs |-> <<>>]
            rs == RingsFor(a)
            c == [conn[a] EXCEPT !.ring = r]
<1>1. conn[a] \in ConnRec(Ring) /\ conn[a].gen \in Nat \ {0}
  BY KnownIs
<1>2. /\ e \in RingRec /\ e.cnx = a /\ e.owner = conn[a].gen /\ e.refs = 1
  <2>1. <<>> \in Seq(1 .. MaxRecord)
    OBVIOUS
  <2>2. conn[a].gen \in Nat \ {0} /\ 1 \in Int /\ FALSE \in BOOLEAN
    BY <1>1
  <2>3. e \in RingRec
    BY <2>1, <2>2, IsRec
  <2>. QED
    BY <2>3
<1>3. rs = Append(rings, e) /\ r = Len(rings) + 1 /\ conn' = [conn EXCEPT ![a] = c]
  BY DEF RingsFor, RingFor
<1>4. c = [gen |-> conn[a].gen, ring |-> r, markOwed |-> conn[a].markOwed,
           parked |-> conn[a].parked, closed |-> conn[a].closed]
  BY <1>1, ConnFields
<1>5. Push(rs, r, a, len)
  OBVIOUS
<1>. HIDE DEF r, e, rs, c
<1>6. /\ rs \in RingSeq /\ Len(rings) \in Nat /\ DOMAIN rings = 1 .. Len(rings)
      /\ DOMAIN rs = 1 .. Len(rings) + 1 /\ rs[Len(rings) + 1] = e
      /\ \A q \in DOMAIN rings : rs[q] = rings[q]
  BY <1>2, <1>3, OnAppend DEF RingsTyped, RingSeq
<1>7. DOMAIN rs = Ring \cup {r} /\ r \notin Ring /\ r # NoRing /\ r \in DOMAIN rs /\ rs[r] = e
  BY <1>3, <1>6 DEF Ring, NoRing
<1>8. /\ rings' \in RingSeq /\ DOMAIN rings' = DOMAIN rs
      /\ \A q \in DOMAIN rs : q # r => rings'[q] = rs[q]
      /\ \A q \in DOMAIN rs :
           /\ rings'[q].cnx = rs[q].cnx /\ rings'[q].owner = rs[q].owner
           /\ rings'[q].refs = rs[q].refs
      /\ p' = Idle \/ (p' \in PRec /\ p'.cnx = a /\ p'.at \in {"mark", "arm"})
  BY <1>5, <1>6, <1>7, PushIs
<1>9. Ring' = Ring \cup {r} /\ RingsTyped'
  BY <1>7, <1>8 DEF Ring, RingsTyped, RingSeq
<1>10. /\ \A q \in Ring : rings'[q] = rings[q]
       /\ rings'[r].cnx = a /\ rings'[r].owner = conn[a].gen /\ rings'[r].refs = 1
  BY <1>2, <1>6, <1>7, <1>8 DEF Ring
<1>11. /\ c \in ConnRec(Ring') /\ c # NoConn /\ c.gen = conn[a].gen /\ c.ring = r
       /\ c.parked = conn[a].parked
  <2>1. /\ r \in Ring' \cup {NoRing} /\ conn[a].markOwed \in BOOLEAN
        /\ conn[a].parked \in BOOLEAN /\ conn[a].closed \in BOOLEAN
    BY <1>9, KnownIs
  <2>. QED
    BY <2>1, <1>1, <1>4, <1>7, IsConn
<1>12. /\ conn'[a] = c /\ \A b \in Addr : b # a => conn'[b] = conn[b]
       /\ conn' \in [Addr -> {NoConn} \cup ConnRec(Ring')]
  <2>1. Ring \subseteq Ring'
    BY <1>9
  <2>2. /\ conn'[a] = c /\ \A b \in Addr : b # a => conn'[b] = conn[b]
        /\ \A R : c \in {NoConn} \cup ConnRec(R) /\ Ring \subseteq R =>
               conn' \in [Addr -> {NoConn} \cup ConnRec(R)]
    BY <1>3, ConnStep
  <2>. QED
    BY <2>1, <2>2, <1>11
<1>13. NewRing(a, r)
  BY <1>7, <1>9, <1>10, <1>11, <1>12 DEF NewRing, Known
<1>. QED
  BY <1>8, <1>9, <1>12, <1>13 DEF r

\* Who holds rings, with a new one.
LEMMA RingNamed ==
    ASSUME IInv, NEW a \in Addr, NEW r, NewRing(a, r), RingsTyped',
           UNCHANGED <<txQ, owed, leaked, table, phase>>
    PROVE  Refs'
<1>. USE DEF IInv, Typed, Refs
<1>0. /\ \A i \in DOMAIN txQ : txQ[i].db \in Ring \cup {NoRing}
      /\ \A i \in DOMAIN owed : owed[i].db \in Ring
      /\ leaked \subseteq Ring
      /\ \A b \in Addr : ~Has(table, b, r)
      /\ \A q \in Ring : rings[q].cnx \in Addr
      /\ NoRing \notin Ring
  <2>1. \A i \in DOMAIN txQ : txQ[i] \in CmdRec(Ring)
    BY DEF TxTyped
  <2>2. \A i \in DOMAIN txQ : txQ[i].db \in Ring \cup {NoRing}
    BY <2>1, CmdIs
  <2>3. \A i \in DOMAIN owed : owed[i].db \in Ring
    BY OwedIs
  <2>4. \A i \in DOMAIN table : table[i].db \in Ring \cup {NoRing}
    <3>1. \A i \in DOMAIN table : table[i] \in Slot(Ring)
      BY DEF TableTyped
    <3>. QED
      BY <3>1 DEF Slot
  <2>5. \A b \in Addr : ~Has(table, b, r)
    BY <2>4 DEF Has, NewRing
  <2>6. leaked \subseteq Ring
    BY DEF LoopTyped
  <2>. QED
    BY <2>2, <2>3, <2>5, <2>6, RingsAre
<1>1. /\ Ring' = Ring \cup {r} /\ r \notin Ring /\ r # NoRing
      /\ \A q \in Ring : rings'[q] = rings[q]
      /\ rings'[r].cnx = a /\ rings'[r].refs = 1
  BY DEF NewRing
<1>2. Home'
  <2>1. ConnHome'
    <3>1. ASSUME NEW b \in Addr, Known(b)', conn'[b].ring # NoRing
          PROVE  rings'[conn'[b].ring].cnx = b
      <4>1. CASE b = a
        BY <4>1 DEF NewRing
      <4>2. CASE b # a
        <5>1. Known(b) /\ conn'[b] = conn[b] /\ conn[b].ring # NoRing
          BY <3>1, <4>2 DEF NewRing, Known
        <5>2. conn[b].ring \in Ring
          BY <5>1, KnownIs
        <5>. QED
          BY <5>1, <5>2, <1>1 DEF Home
      <4>. QED
        BY <4>1, <4>2
    <3>. QED
      BY <3>1 DEF ConnHome
  <2>2. QueueHome'
    BY <1>0, <1>1 DEF Home, QueueHome
  <2>3. OwedHome'
    BY <1>0, <1>1 DEF Home, OwedHome
  <2>4. Home' <=> ConnHome' /\ QueueHome' /\ OwedHome'
    BY DEF Home, ConnHome, QueueHome, OwedHome
  <2>. QED
    BY <2>1, <2>2, <2>3, <2>4
<1>3. TableHome'
  BY <1>0, <1>1 DEF TableHome
<1>4. ASSUME NEW q \in Ring
      PROVE  Owns(q)' <=> Owns(q)
  <2>1. rings[q].cnx \in Addr /\ rings'[q].cnx = rings[q].cnx
    BY <1>0, <1>1
  <2>2. Owns(q) <=> conn[rings[q].cnx] # NoConn /\ conn[rings[q].cnx].ring = q
    BY DEF Owns, Known
  <2>3. Owns(q)' <=> conn'[rings[q].cnx] # NoConn /\ conn'[rings[q].cnx].ring = q
    BY <2>1 DEF Owns, Known
  <2>4. CASE rings[q].cnx = a
    BY <2>2, <2>3, <2>4, <1>0, <1>1 DEF NewRing
  <2>5. CASE rings[q].cnx # a
    BY <2>1, <2>2, <2>3, <2>5 DEF NewRing
  <2>. QED
    BY <2>4, <2>5
<1>5. Owns(r)'
  BY DEF Owns, NewRing
<1>6. /\ \A q : (Queued(q)' <=> Queued(q)) /\ (Owing(q)' <=> Owing(q))
      /\ \A i, q : (ReleaseAt(i, q)' <=> ReleaseAt(i, q)) /\ (Behind(i, q)' <=> Behind(i, q))
  BY DEF Queued, Owing, ReleaseAt, Behind
<1>7. ~Queued(r) /\ ~Owing(r) /\ r \notin leaked
  BY <1>0, <1>1 DEF Queued, Owing, ReleaseAt
<1>8. Claims'
  <2>1. ASSUME NEW q \in Ring' PROVE Single(q)'
    <3>1. CASE q \in Ring
      <4>1. Single(q)
        BY <3>1 DEF Claims
      <4>. QED
        BY <4>1, <3>1, <1>4, <1>6 DEF Single
    <3>2. CASE q = r
      <4>1. \A i \in DOMAIN txQ : ~ReleaseAt(i, r)
        BY <1>7 DEF Queued
      <4>2. \A i \in DOMAIN owed : owed[i].db # r
        BY <1>7 DEF Owing
      <4>. QED
        BY <3>2, <4>1, <4>2, <1>6, <1>7 DEF Single
    <3>. QED
      BY <3>1, <3>2, <1>1
  <2>. QED
    BY <2>1 DEF Claims
<1>9. Counts'
  <2>1. ASSUME NEW q \in Ring'
        PROVE  rings'[q].refs = B(Claimed(q)') + B(Has(table', rings'[q].cnx, q))
    <3>1. CASE q \in Ring
      <4>1. Claimed(q)' <=> Claimed(q)
        BY <3>1, <1>4, <1>6 DEF Claimed
      <4>2. rings[q].refs = B(Claimed(q)) + B(Has(table, rings[q].cnx, q))
        BY <3>1 DEF Counts
      <4>3. rings'[q] = rings[q] /\ table' = table
        BY <3>1, <1>1
      <4>. QED
        BY <4>1, <4>2, <4>3 DEF B
    <3>2. CASE q = r
      <4>1. Claimed(q)' /\ ~Has(table', rings'[q].cnx, q)
        BY <3>2, <1>0, <1>1, <1>5 DEF Claimed
      <4>. QED
        BY <4>1, <3>2, <1>1 DEF B
    <3>. QED
      BY <3>1, <3>2, <1>1
  <2>. QED
    BY <2>1 DEF Counts, B
<1>10. Marks'
  <2>. SUFFICES ASSUME phase \in {"run", "stopping"}, NEW i \in DOMAIN txQ, NEW q \in Ring',
                       txQ[i].kind = "MARK", txQ[i].db = q
                PROVE  Owns(q)' \/ Behind(i, q)' \/ Owing(q)' \/ q \in leaked'
    BY DEF Marks
  <2>1. q \in Ring
    BY <1>0, <1>1
  <2>2. Owns(q) \/ Behind(i, q) \/ Owing(q) \/ q \in leaked
    BY <2>1 DEF Marks
  <2>. QED
    BY <2>1, <2>2, <1>4, <1>6
<1>. QED
  BY <1>2, <1>3, <1>8, <1>9, <1>10

\* A send that owes nothing.
LEMMA SendBeginStep ==
    ASSUME IInv, NEW a \in Addr, NEW len \in 0 .. MaxRecord + 1, SendBegin(a, len)
    PROVE  /\ IInv'
           /\ \A r \in Ring : r \in Ring' /\ Len(rings[r].recs) <= Len(rings'[r].recs)
<1>. USE DEF IInv, Typed
<1>1. /\ phase = "run" /\ p = Idle /\ Known(a) /\ ~conn[a].markOwed /\ ~conn[a].parked
      /\ len # 0 /\ Spend("sends") /\ Push(RingsFor(a), RingFor(a), a, len)
      /\ conn' = [conn EXCEPT ![a].ring = RingFor(a)]
      /\ UNCHANGED <<txQ, txArmed, pushIdle>>
  BY DEF SendBegin, MaySend, LoopIdle
<1>2. len \in 1 .. MaxRecord + 1
  BY <1>1, BoundsAssumption
<1>3. left' \in [Inputs -> Nat]
  <2>1. "sends" \in Inputs
    BY DEF Inputs
  <2>. QED
    BY <1>1, <2>1, LoopIdles, SpendIs
<1>4. CASE conn[a].ring # NoRing
  <2>1. RingFor(a) = conn[a].ring /\ RingsFor(a) = rings
    BY <1>4 DEF RingFor, RingsFor
  <2>2. conn' = conn
    <3>1. conn[a] = [conn[a] EXCEPT !.ring = conn[a].ring]
      <4>1. conn[a] \in ConnRec(Ring)
        BY <1>1, LoopIdles, KnownIs
      <4>. QED
        BY <4>1, ConnFields, Zenon
    <3>2. conn' = [conn EXCEPT ![a] = conn[a]]
      BY <1>1, <2>1, <3>1
    <3>3. conn \in [Addr -> {NoConn} \cup ConnRec(Ring)]
      BY DEF LoopTyped
    <3>. QED
      BY <3>2, <3>3
  <2>3. Push(rings, conn[a].ring, a, len)
    BY <1>1, <2>1
  <2>4. /\ IInv' /\ Ring' = Ring
        /\ \A r \in Ring : Len(rings[r].recs) <= Len(rings'[r].recs)
    BY <1>1, <1>2, <1>3, <1>4, <2>2, <2>3, PushStep
  <2>. QED
    BY <2>4
<1>5. CASE conn[a].ring = NoRing
  <2>. DEFINE r == RingFor(a)
  <2>1. /\ NewRing(a, r) /\ RingsTyped'
        /\ conn' \in [Addr -> {NoConn} \cup ConnRec(Ring')]
        /\ p' = Idle \/ (p' \in PRec /\ p'.cnx = a /\ p'.at \in {"mark", "arm"})
    BY <1>1, <1>2, <1>5, RingMade
  <2>. HIDE DEF r
  <2>2. /\ UNCHANGED workerState /\ batch' = batch /\ owed' = owed /\ leaked' = leaked
        /\ py' = py /\ failed' = failed /\ toClose' = toClose /\ phase' = phase
        /\ txQ' = txQ /\ txArmed' = txArmed
    BY <1>1 DEF pushIdle
  <2>3. /\ cnx' = cnx /\ gen' = gen /\ active' = active /\ table' = table /\ rxQ' = rxQ
        /\ w' = w /\ reset' = reset
    BY <2>2 DEF workerState
  <2>4. /\ Ring \subseteq Ring' /\ \A q \in Ring : rings'[q] = rings[q]
    BY <2>1 DEF NewRing
  <2>5. WorkerTyped'
    <3>1. w' \in {Idle} \cup WRec(Ring')
      BY <2>3, <2>4 DEF WorkerTyped, WRec
    <3>. QED
      BY <3>1, <2>2, <2>3, <1>3 DEF WorkerTyped, Inputs
  <2>6. TableTyped'
    <3>1. Slot(Ring) \subseteq Slot(Ring')
      BY <2>4 DEF Slot
    <3>. QED
      BY <3>1, <2>3 DEF TableTyped
  <2>7. TxTyped'
    <3>1. CmdRec(Ring) \subseteq CmdRec(Ring')
      BY <2>4 DEF CmdRec
    <3>. QED
      BY <3>1, <2>2 DEF TxTyped
  <2>8. RxTyped'
    BY <2>2, <2>3 DEF RxTyped
  <2>9. LoopTyped'
    <3>1. owed' \in Seq([cnx : Addr, db : Ring'])
      <4>. DEFINE S == [cnx : Addr, db : Ring]
                  T == [cnx : Addr, db : Ring']
      <4>1. S \subseteq T
        BY <2>4
      <4>2. owed' \in Seq(S)
        BY <2>2 DEF LoopTyped
      <4>. HIDE DEF S, T
      <4>3. owed' \in Seq(T)
        BY <4>1, <4>2
      <4>. QED
        BY <4>3 DEF T
    <3>2. leaked' \subseteq Ring'
      BY <2>2, <2>4 DEF LoopTyped
    <3>. QED
      BY <3>1, <3>2, <2>1, <2>2 DEF LoopTyped
  <2>10. Busy'
    <3>1. p' # Idle => phase' = "run" /\ Known(p.cnx)' /\ conn'[p'.cnx].ring # NoRing
      BY <1>1, <2>1, <2>2 DEF NewRing, Known
    <3>2. toClose' = {}
      BY <1>1, <2>2, LoopIdles
    <3>3. w # Idle => w.db \in Ring
      BY DEF WorkerTyped, WRec
    <3>. QED
      BY <3>1, <3>2, <3>3, <2>2, <2>3, <2>4 DEF Busy
  <2>11. Gens'
    BY <2>3, GensKept
  <2>12. Refs'
    BY <2>1, <2>2, <2>3, RingNamed
  <2>13. FewerKnown
    BY <2>1 DEF NewRing, FewerKnown, Known
  <2>14. Ends'
    <3>1. \A b \in Addr, g \in Nat : IsLive(b, g) => Live(cnx', gen', reset', b, g)
      BY <2>3 DEF IsLive
    <3>. QED
      BY <3>1, <2>2, <2>3, <2>13, EndsKept
  <2>15. Parked'
    <3>1. \A b \in Addr : Wake(b) => Wake(b)'
      BY <2>2, <2>3 DEF Wake, WakeIn
    <3>2. \A b \in Addr : Known(b)' /\ conn'[b].parked =>
              Known(b) /\ conn[b].parked /\ conn'[b].ring = conn[b].ring
      BY <2>1 DEF NewRing, Known
    <3>3. \A q \in Ring : PopToCome(q) => PopToCome(q)'
      BY <2>2, <2>3, <2>4 DEF PopToCome
    <3>4. p' = Idle \/ p'.at # "recheck"
      BY <2>1
    <3>. QED
      BY <3>1, <3>2, <3>3, <3>4, RingsInUse, ParkedKept
  <2>16. Agree'
    <3>1. /\ \A i \in DOMAIN batch' : batch'[i].cnx \in Addr /\ IsEvent(batch'[i])
          /\ \A i \in DOMAIN rxQ' : rxQ'[i].cnx \in Addr =>
               IsEvent(rxQ'[i]) \/ rxQ'[i].gen = gen[rxQ'[i].cnx]
      BY <2>2, <2>3, EventIs DEF IsEvent
    <3>2. \A b \in Addr : Known(b)' => Known(b) /\ conn'[b].gen = conn[b].gen
      BY <2>13 DEF FewerKnown
    <3>3. ASSUME NEW q \in Ring'
          PROVE  \/ /\ q \in Ring /\ rings'[q].cnx = rings[q].cnx
                    /\ rings'[q].owner = rings[q].owner
                 \/ /\ rings'[q].cnx \in Addr /\ Known(rings'[q].cnx)
                    /\ rings'[q].owner = conn[rings'[q].cnx].gen
      BY <2>1 DEF NewRing
    <3>. QED
      BY <3>1, <3>2, <3>3, <2>3, AgreeKept
  <2>17. \A q \in Ring : q \in Ring' /\ Len(rings[q].recs) <= Len(rings'[q].recs)
    <3>1. \A q \in Ring : rings[q].recs \in Seq(1 .. MaxRecord)
      BY RingsAre
    <3>2. \A q \in Ring : Len(rings[q].recs) \in Nat
      BY <3>1
    <3>. QED
      BY <3>2, <2>4
  <2>. QED
    BY <2>1, <2>5, <2>6, <2>7, <2>8, <2>9, <2>10, <2>11, <2>12, <2>14, <2>15, <2>16, <2>17
<1>. QED
  BY <1>4, <1>5

-----------------------------------------------------------------------------
(* Asyncio: the drain of the RX queue.                                     *)

\* The oldest event goes from the queue to the batch, or is dropped.
LEMMA RxMoved ==
    ASSUME RxTyped, rxQ # <<>>, rxQ' = Tail(rxQ), batch' = Collected(rxQ[1])
    PROVE  /\ RxTyped' /\ Len(batch) \in Nat /\ DOMAIN batch = 1 .. Len(batch)
           /\ Len(rxQ) \in Nat \ {0} /\ DOMAIN rxQ = 1 .. Len(rxQ)
           /\ DOMAIN rxQ' = 1 .. Len(rxQ) - 1 /\ \A i \in DOMAIN rxQ' : rxQ'[i] = rxQ[i + 1]
           /\ \A i \in DOMAIN batch : i \in DOMAIN batch' /\ batch'[i] = batch[i]
           /\ \A i \in DOMAIN batch' :
                i \in DOMAIN batch \/ (i = Len(batch) + 1 /\ batch'[i] = rxQ[1])
           /\ rxQ[1].kind # "RING_DRAINED" =>
                Len(batch) + 1 \in DOMAIN batch' /\ batch'[Len(batch) + 1] = rxQ[1]
<1>1. /\ rxQ' \in Seq(RxRec) /\ Len(rxQ) \in Nat \ {0} /\ DOMAIN rxQ = 1 .. Len(rxQ)
      /\ DOMAIN rxQ' = 1 .. Len(rxQ) - 1 /\ (\A i \in DOMAIN rxQ' : rxQ'[i] = rxQ[i + 1])
      /\ rxQ[1] \in RxRec
  BY OnTail DEF RxTyped
<1>2. batch \in Seq(EventRec) /\ Len(batch) \in Nat /\ DOMAIN batch = 1 .. Len(batch)
  BY DEF RxTyped
<1>3. CASE rxQ[1].kind = "RING_DRAINED"
  BY <1>1, <1>2, <1>3 DEF RxTyped, Collected
<1>4. CASE rxQ[1].kind # "RING_DRAINED"
  <2>1. rxQ[1] \in EventRec
    BY <1>1, <1>4 DEF RxRec
  <2>2. batch' = Append(batch, rxQ[1])
    BY <1>4 DEF Collected
  <2>3. /\ batch' \in Seq(EventRec) /\ DOMAIN batch' = 1 .. Len(batch) + 1
        /\ batch'[Len(batch) + 1] = rxQ[1] /\ \A i \in DOMAIN batch : batch'[i] = batch[i]
    BY <2>1, <2>2, <1>2, OnAppend
  <2>. QED
    BY <2>3, <1>1, <1>2 DEF RxTyped
<1>. QED
  BY <1>3, <1>4

\* Wakes and close events are not lost on the way.
LEMMA RxMovedKeeps ==
    ASSUME RxTyped, rxQ # <<>>, rxQ' = Tail(rxQ), batch' = Collected(rxQ[1])
    PROVE  /\ \A a \in Addr : Wake(a) => Wake(a)'
           /\ \A i, a, g : ClosedIn(batch, i, a, g) => ClosedIn(batch', i, a, g)
           /\ \A i \in DOMAIN rxQ' : \A a, g : ClosedIn(rxQ, i + 1, a, g) => ClosedIn(rxQ', i, a, g)
           /\ \A a, g : ClosedIn(rxQ, 1, a, g) => ClosedIn(rxQ', 0, a, g)
           /\ \A i \in 0 .. Len(batch) : \A a, g : ClosedIn(rxQ, 0, a, g) =>
                ClosedIn(batch', i, a, g) \/ ClosedIn(rxQ', 0, a, g)
<1>1. /\ Len(batch) \in Nat /\ DOMAIN batch = 1 .. Len(batch)
      /\ Len(rxQ) \in Nat \ {0} /\ DOMAIN rxQ = 1 .. Len(rxQ)
      /\ DOMAIN rxQ' = 1 .. Len(rxQ) - 1 /\ (\A i \in DOMAIN rxQ' : rxQ'[i] = rxQ[i + 1])
      /\ (\A i \in DOMAIN batch : i \in DOMAIN batch' /\ batch'[i] = batch[i])
      /\ rxQ[1].kind # "RING_DRAINED" =>
           Len(batch) + 1 \in DOMAIN batch' /\ batch'[Len(batch) + 1] = rxQ[1]
  BY RxMoved
<1>2. ASSUME NEW j \in DOMAIN rxQ, j # 1
      PROVE  j - 1 \in DOMAIN rxQ' /\ rxQ'[j - 1] = rxQ[j]
  BY <1>1, <1>2
<1>3. ASSUME NEW a \in Addr, Wake(a) PROVE WakeIn(batch', a) \/ WakeIn(rxQ', a)
  <2>1. CASE WakeIn(batch, a)
    BY <2>1, <1>1 DEF WakeIn
  <2>2. CASE WakeIn(rxQ, a)
    <3>1. PICK j \in DOMAIN rxQ : rxQ[j].cnx = a /\ rxQ[j].kind \in {"DRAINED"} \cup Closes
      BY <2>2 DEF WakeIn
    <3>2. CASE j = 1
      <4>1. rxQ[1].kind # "RING_DRAINED"
        BY <3>1, <3>2 DEF Closes
      <4>. QED
        BY <3>1, <3>2, <4>1, <1>1 DEF WakeIn
    <3>3. CASE j # 1
      BY <3>1, <3>3, <1>2 DEF WakeIn
    <3>. QED
      BY <3>2, <3>3
  <2>. QED
    BY <2>1, <2>2, <1>3 DEF Wake
<1>4. ASSUME NEW i, NEW a, NEW g, ClosedIn(batch, i, a, g)
      PROVE  ClosedIn(batch', i, a, g)
  BY <1>1, <1>4 DEF ClosedIn
<1>5. ASSUME NEW i \in DOMAIN rxQ', NEW a, NEW g, ClosedIn(rxQ, i + 1, a, g)
      PROVE  ClosedIn(rxQ', i, a, g)
  <2>1. PICK j \in DOMAIN rxQ : j > i + 1 /\ rxQ[j] = [kind |-> "CLOSE", cnx |-> a, gen |-> g]
    BY <1>5 DEF ClosedIn
  <2>2. j # 1 /\ j - 1 > i
    BY <2>1, <1>1
  <2>. QED
    BY <2>1, <2>2, <1>2 DEF ClosedIn
<1>6. ASSUME NEW a, NEW g, ClosedIn(rxQ, 1, a, g)
      PROVE  ClosedIn(rxQ', 0, a, g)
  <2>1. PICK j \in DOMAIN rxQ : j > 1 /\ rxQ[j] = [kind |-> "CLOSE", cnx |-> a, gen |-> g]
    BY <1>6 DEF ClosedIn
  <2>2. j # 1 /\ j - 1 > 0
    BY <2>1, <1>1
  <2>. QED
    BY <2>1, <2>2, <1>2 DEF ClosedIn
<1>7. ASSUME NEW i \in 0 .. Len(batch), NEW a, NEW g, ClosedIn(rxQ, 0, a, g)
      PROVE  ClosedIn(batch', i, a, g) \/ ClosedIn(rxQ', 0, a, g)
  <2>1. PICK j \in DOMAIN rxQ : j > 0 /\ rxQ[j] = [kind |-> "CLOSE", cnx |-> a, gen |-> g]
    BY <1>7 DEF ClosedIn
  <2>2. CASE j = 1
    <3>1. rxQ[1].kind # "RING_DRAINED" /\ Len(batch) + 1 > i
      BY <2>1, <2>2, <1>1
    <3>. QED
      BY <2>1, <2>2, <3>1, <1>1 DEF ClosedIn
  <2>3. CASE j # 1
    <3>1. j - 1 > 0
      BY <2>3, <1>1
    <3>. QED
      BY <2>1, <2>3, <3>1, <1>2 DEF ClosedIn
  <2>. QED
    BY <2>2, <2>3
<1>. QED
  BY <1>3, <1>4, <1>5, <1>6, <1>7 DEF Wake

\* Rings and their holders, where none of them changes.
LEMMA RefsSame ==
    ASSUME IInv, UNCHANGED <<rings, table, txQ, owed, leaked, conn, phase>>
    PROVE  Refs'
<1>. USE DEF IInv, Typed
<1>1. RingsHome /\ ConnSame /\ Running /\ \A r \in Ring : rings'[r].refs = rings[r].refs
  BY DEF RingsHome, ConnSame, Running, Ring, Known
<1>2. Home' /\ Claims' /\ Marks' /\ \A r \in Ring : Claimed(r)' <=> Claimed(r)
  BY <1>1, RefsStill DEF Refs
<1>3. TableHome' /\ Counts'
  <2>1. table' = table
    OBVIOUS
  <2>. QED
    BY <2>1, <1>1, <1>2, CountsKept DEF Refs
<1>. QED
  BY <1>2, <1>3 DEF Refs

\* An event is taken from the queue into the batch.
LEMMA DrainPopStep ==
    ASSUME IInv, DrainPop
    PROVE  IInv' /\ rings' = rings
<1>. USE DEF IInv, Typed
<1>1. /\ phase = "run" /\ p = Idle /\ py = "drain" /\ rxQ # <<>> /\ rxQ' = Tail(rxQ)
      /\ batch' = Collected(rxQ[1])
      /\ UNCHANGED <<rings, table, txQ, owed, leaked, conn, phase>>
      /\ UNCHANGED <<cnx, gen, active, txArmed, py, w, p, toClose, reset, failed, left>>
  BY DEF DrainPop, LoopIdle, stillFed
<1>2. /\ RxTyped' /\ Len(batch) \in Nat /\ DOMAIN batch = 1 .. Len(batch)
      /\ Len(rxQ) \in Nat \ {0} /\ DOMAIN rxQ = 1 .. Len(rxQ)
      /\ DOMAIN rxQ' = 1 .. Len(rxQ) - 1 /\ (\A i \in DOMAIN rxQ' : rxQ'[i] = rxQ[i + 1])
      /\ (\A i \in DOMAIN batch : i \in DOMAIN batch' /\ batch'[i] = batch[i])
      /\ \A i \in DOMAIN batch' :
           i \in DOMAIN batch \/ (i = Len(batch) + 1 /\ batch'[i] = rxQ[1])
  BY <1>1, RxMoved
<1>3. Refs'
  BY <1>1, RefsSame
<1>4. WorkerTyped' /\ RingsTyped' /\ TableTyped' /\ TxTyped' /\ LoopTyped'
  <2>1. Ring' = Ring
    BY <1>1 DEF Ring
  <2>. QED
    BY <1>1, <2>1 DEF WorkerTyped, RingsTyped, TableTyped, TxTyped, LoopTyped
<1>5. Busy'
  BY <1>1 DEF Busy, Known
<1>6. Gens'
  BY <1>1, GensKept
<1>7. Parked'
  <2>1. \A a \in Addr : Wake(a) => Wake(a)'
    BY <1>1, RxMovedKeeps
  <2>2. RefsOnly
    BY <1>1 DEF RefsOnly, Ring
  <2>. QED
    BY <1>1, <2>1, <2>2, ParkedStill
<1>8. Ends'
  <2>1. /\ \A i, a, g : ClosedIn(batch, i, a, g) => ClosedIn(batch', i, a, g)
        /\ \A i \in DOMAIN rxQ' : \A a, g : ClosedIn(rxQ, i + 1, a, g) => ClosedIn(rxQ', i, a, g)
        /\ \A a, g : ClosedIn(rxQ, 1, a, g) => ClosedIn(rxQ', 0, a, g)
        /\ \A i \in 0 .. Len(batch) : \A a, g : ClosedIn(rxQ, 0, a, g) =>
             ClosedIn(batch', i, a, g) \/ ClosedIn(rxQ', 0, a, g)
    BY <1>1, RxMovedKeeps
  <2>2. \A a, g : IsLive(a, g)' <=> IsLive(a, g)
    BY <1>1 DEF IsLive, Live
  <2>3. ASSUME NEW a \in Addr, Known(a)
        PROVE  IsLive(a, conn[a].gen) \/ ClosedIn(batch', 0, a, conn[a].gen)
                 \/ ClosedIn(rxQ', 0, a, conn[a].gen)
    BY <2>1, <2>3, <1>1, <1>2 DEF Ends
  <2>4. ASSUME NEW i \in DOMAIN batch', batch'[i].kind \in Data
        PROVE  IsLive(batch'[i].cnx, batch'[i].gen)
                 \/ ClosedIn(batch', i, batch'[i].cnx, batch'[i].gen)
                 \/ ClosedIn(rxQ', 0, batch'[i].cnx, batch'[i].gen)
    <3>1. CASE i \in DOMAIN batch
      <4>1. i \in 0 .. Len(batch) /\ batch'[i] = batch[i]
        BY <3>1, <1>2
      <4>2. IsLive(batch[i].cnx, batch[i].gen)
              \/ ClosedIn(batch, i, batch[i].cnx, batch[i].gen)
              \/ ClosedIn(rxQ, 0, batch[i].cnx, batch[i].gen)
        BY <2>4, <3>1, <4>1, <1>1 DEF Ends
      <4>. QED
        BY <4>1, <4>2, <2>1
    <3>2. CASE batch'[i] = rxQ[1]
      <4>1. 1 \in DOMAIN rxQ
        BY <1>2
      <4>2. IsLive(rxQ[1].cnx, rxQ[1].gen) \/ ClosedIn(rxQ, 1, rxQ[1].cnx, rxQ[1].gen)
        BY <2>4, <3>2, <4>1, <1>1 DEF Ends
      <4>. QED
        BY <3>2, <4>2, <2>1
    <3>. QED
      BY <3>1, <3>2, <1>2
  <2>5. ASSUME NEW i \in DOMAIN rxQ', rxQ'[i].kind \in Data
        PROVE  IsLive(rxQ'[i].cnx, rxQ'[i].gen)
                 \/ ClosedIn(rxQ', i, rxQ'[i].cnx, rxQ'[i].gen)
    <3>1. rxQ'[i] = rxQ[i + 1] /\ i + 1 \in DOMAIN rxQ
      BY <1>2
    <3>2. IsLive(rxQ[i + 1].cnx, rxQ[i + 1].gen)
            \/ ClosedIn(rxQ, i + 1, rxQ[i + 1].cnx, rxQ[i + 1].gen)
      BY <2>5, <3>1, <1>1 DEF Ends
    <3>. QED
      BY <3>1, <3>2, <2>1
  <2>6. \A a \in Addr : Known(a)' => Known(a) /\ conn'[a].gen = conn[a].gen
    BY <1>1 DEF Known
  <2>. QED
    BY <2>2, <2>3, <2>4, <2>5, <2>6 DEF Ends
<1>9. Agree'
  <2>1. \A i \in DOMAIN batch' : batch'[i].cnx \in Addr /\ IsEvent(batch'[i])
    <3>1. 1 \in DOMAIN rxQ
      BY <1>2
    <3>2. \A i \in DOMAIN batch' : IsEvent(batch'[i])
      BY <3>1, <1>2 DEF IsEvent
    <3>3. \A i \in DOMAIN batch' : batch'[i].cnx \in Addr
      <4>1. \A i \in DOMAIN batch' : batch'[i] \in EventRec
        BY <1>2 DEF RxTyped
      <4>. QED
        BY <4>1 DEF EventRec
    <3>. QED
      BY <3>2, <3>3
  <2>2. \A i \in DOMAIN rxQ' : IsEvent(rxQ'[i])
    <3>1. \A i \in DOMAIN rxQ' : i + 1 \in DOMAIN rxQ
      BY <1>2
    <3>. QED
      BY <3>1, <1>2 DEF IsEvent
  <2>3. \A a \in Addr : Known(a)' => Known(a) /\ conn'[a].gen = conn[a].gen
    BY <1>1 DEF Known
  <2>4. \A r \in Ring' : /\ r \in Ring /\ rings'[r].cnx = rings[r].cnx
                         /\ rings'[r].owner = rings[r].owner
    BY <1>1 DEF Ring
  <2>. QED
    BY <2>1, <2>2, <2>3, <2>4, <1>1, AgreeKept
<1>. QED
  BY <1>1, <1>2, <1>3, <1>4, <1>5, <1>6, <1>7, <1>8, <1>9

\* What a flush of the debts o leaves: n of them are posted, in order.
OwedRec == [cnx : Addr, db : Ring]
Flushed(o, n) ==
    /\ n \in 0 .. Len(o) /\ Len(o) \in Nat /\ Len(txQ) \in Nat
    /\ DOMAIN txQ = 1 .. Len(txQ) /\ DOMAIN o = 1 .. Len(o)
    /\ DOMAIN txQ' = 1 .. Len(txQ) + n /\ DOMAIN owed' = 1 .. Len(o) - n
    /\ \A i \in DOMAIN txQ : txQ'[i] = txQ[i]
    /\ \A i \in 1 .. n : txQ'[Len(txQ) + i] = Cmd("RELEASE", o[i].cnx, o[i].db)
    /\ \A i \in DOMAIN owed' : owed'[i] = o[n + i]

\* What a flush of the debts o does.
LEMMA FlushIs ==
    ASSUME TxTyped, NEW o \in Seq(OwedRec), Flush(txQ, o)
    PROVE  /\ Flushed(o, Fits(txQ, o)) /\ (TxFull => Fits(txQ, o) = 0)
           /\ txQ' \in Seq(CmdRec(Ring)) /\ Len(txQ') <= TxCap /\ txArmed' \in BOOLEAN
           /\ owed' \in Seq(OwedRec)
<1>. DEFINE n == Fits(txQ, o)
            s == SubSeq(o, 1, n)
            rs == Releases(s)
<1>1. txQ \in Seq(CmdRec(Ring)) /\ Len(txQ) \in Nat /\ Len(txQ) <= TxCap /\ TxCap \in Nat
      /\ DOMAIN txQ = 1 .. Len(txQ)
  BY BoundsAssumption DEF TxTyped
<1>2. Len(o) \in Nat /\ DOMAIN o = 1 .. Len(o) /\ \A i \in DOMAIN o : o[i] \in OwedRec
  OBVIOUS
<1>3. n \in 0 .. Len(o) /\ Len(txQ) + n <= TxCap /\ (TxFull => n = 0)
  <2>. DEFINE L == Len(o)
              M == Len(txQ)
  <2>1. L \in Nat /\ M \in Nat /\ M <= TxCap /\ TxCap \in Nat
    BY <1>1, <1>2
  <2>2. n = (IF L <= TxCap - M THEN L ELSE TxCap - M) /\ (TxFull <=> M = TxCap)
    BY DEF Fits, TxFull
  <2>. HIDE DEF L, M, n
  <2>3. n \in 0 .. L /\ M + n <= TxCap /\ (TxFull => n = 0)
    BY <2>1, <2>2
  <2>. QED
    BY <2>3 DEF L, M
<1>4. txQ' = txQ \o rs /\ owed' = SubSeq(o, n + 1, Len(o))
      /\ txArmed' = (txArmed \/ owed' # <<>>)
  BY DEF Flush
<1>5. txArmed' \in BOOLEAN
  BY <1>4 DEF TxTyped
<1>. HIDE DEF n
<1>6. /\ s \in Seq(OwedRec) /\ Len(s) = n /\ DOMAIN s = 1 .. n
      /\ \A i \in 1 .. n : s[i] = o[i]
  BY <1>2, <1>3
<1>. HIDE DEF s
<1>7. /\ DOMAIN rs = 1 .. n
      /\ \A i \in 1 .. n : rs[i] = Cmd("RELEASE", o[i].cnx, o[i].db) /\ rs[i] \in CmdRec(Ring)
  <2>1. DOMAIN rs = 1 .. n /\ \A i \in 1 .. n : rs[i] = Cmd("RELEASE", s[i].cnx, s[i].db)
    BY <1>6 DEF Releases
  <2>2. ASSUME NEW i \in 1 .. n
        PROVE  rs[i] = Cmd("RELEASE", o[i].cnx, o[i].db) /\ rs[i] \in CmdRec(Ring)
    <3>1. o[i] \in OwedRec /\ s[i] = o[i]
      BY <1>2, <1>3, <1>6
    <3>2. o[i].cnx \in Addr /\ o[i].db \in Ring
      BY <3>1 DEF OwedRec
    <3>3. Cmd("RELEASE", o[i].cnx, o[i].db) \in CmdRec(Ring)
      BY <3>2 DEF Cmd, CmdRec, TxKinds
    <3>. QED
      BY <3>1, <3>3, <2>1
  <2>. QED
    BY <2>1, <2>2
<1>8. rs \in Seq(CmdRec(Ring)) /\ Len(rs) = n
  <2>1. rs = [i \in 1 .. n |-> rs[i]]
    BY <1>7 DEF Releases
  <2>. HIDE DEF rs
  <2>2. rs \in Seq(CmdRec(Ring))
    BY <2>1, <1>3, <1>7
  <2>. QED
    BY <2>2, <1>3, <1>7
<1>. HIDE DEF rs
<1>9. /\ txQ' \in Seq(CmdRec(Ring)) /\ Len(txQ') = Len(txQ) + n
      /\ DOMAIN txQ' = 1 .. Len(txQ) + n
      /\ (\A i \in 1 .. Len(txQ) : txQ'[i] = txQ[i])
      /\ \A i \in 1 .. n : txQ'[Len(txQ) + i] = rs[i]
  <2>. DEFINE T == CmdRec(Ring)
  <2>1. txQ \in Seq(T) /\ rs \in Seq(T)
    BY <1>1, <1>8
  <2>. HIDE DEF T
  <2>2. /\ txQ \o rs \in Seq(T) /\ Len(txQ \o rs) = Len(txQ) + n
        /\ DOMAIN (txQ \o rs) = 1 .. Len(txQ) + n
        /\ (\A i \in 1 .. Len(txQ) : (txQ \o rs)[i] = txQ[i])
    BY <2>1, <1>1, <1>3, <1>8
  <2>3. ASSUME NEW i \in 1 .. n PROVE (txQ \o rs)[Len(txQ) + i] = rs[i]
    <3>1. Len(txQ) + i \in 1 .. Len(txQ) + Len(rs) /\ ~(Len(txQ) + i <= Len(txQ))
          /\ Len(txQ) + i - Len(txQ) = i
      BY <1>1, <1>3, <1>8
    <3>. QED
      BY <3>1, <2>1, <1>1, <1>8
  <2>. QED
    BY <2>2, <2>3, <1>4 DEF T
<1>10. /\ owed' \in Seq(OwedRec) /\ DOMAIN owed' = 1 .. Len(o) - n
       /\ \A i \in DOMAIN owed' : owed'[i] = o[n + i]
  <2>1. CASE n = Len(o)
    <3>1. owed' = <<>>
      BY <2>1, <1>2, <1>3, <1>4
    <3>. QED
      BY <3>1, <2>1, <1>2
  <2>2. CASE n < Len(o)
    <3>1. n + 1 \in 1 .. Len(o) /\ n + 1 <= Len(o)
      BY <2>2, <1>2, <1>3
    <3>2. /\ owed' \in Seq(OwedRec) /\ Len(owed') = Len(o) - n
          /\ DOMAIN owed' = 1 .. Len(o) - n
      BY <3>1, <1>2, <1>3, <1>4
    <3>3. ASSUME NEW i \in 1 .. Len(o) - n PROVE owed'[i] = o[n + i]
      BY <3>1, <1>2, <1>3, <1>4
    <3>. QED
      BY <3>2, <3>3
  <2>3. n = Len(o) \/ n < Len(o)
    <3>. DEFINE L == Len(o)
    <3>1. L \in Nat /\ n \in 0 .. L
      BY <1>2, <1>3
    <3>. HIDE DEF L
    <3>2. n = L \/ n < L
      BY <3>1
    <3>. QED
      BY <3>2 DEF L
  <2>. QED
    BY <2>1, <2>2, <2>3
<1>11. Flushed(o, n)
  BY <1>1, <1>2, <1>3, <1>7, <1>9, <1>10 DEF Flushed
<1>. QED
  BY <1>1, <1>3, <1>5, <1>9, <1>10, <1>11 DEF n

\* Debts that are posted keep their claims, and come behind every mark.
LEMMA FlushKeeps ==
    ASSUME IInv, UNCHANGED <<rings, table, leaked, conn, phase>>, NEW n, Flushed(owed, n)
    PROVE  Refs'
<1>. USE DEF IInv, Typed, Refs
<1>. DEFINE m == Len(txQ)
<1>1. /\ n \in 0 .. Len(owed) /\ Len(owed) \in Nat /\ m \in Nat
      /\ DOMAIN txQ = 1 .. m /\ DOMAIN owed = 1 .. Len(owed)
      /\ DOMAIN txQ' = 1 .. m + n /\ DOMAIN owed' = 1 .. Len(owed) - n
      /\ \A i \in DOMAIN txQ : txQ'[i] = txQ[i]
      /\ \A i \in 1 .. n : /\ txQ'[m + i].kind = "RELEASE" /\ txQ'[m + i].cnx = owed[i].cnx
                           /\ txQ'[m + i].db = owed[i].db
      /\ \A i \in DOMAIN owed' : owed'[i] = owed[n + i]
  <2>1. \A a, r : /\ Cmd("RELEASE", a, r).kind = "RELEASE" /\ Cmd("RELEASE", a, r).cnx = a
                  /\ Cmd("RELEASE", a, r).db = r
    BY DEF Cmd
  <2>2. \A i \in 1 .. n : txQ'[Len(txQ) + i] = Cmd("RELEASE", owed[i].cnx, owed[i].db)
    BY DEF Flushed
  <2>3. \A i \in 1 .. n : /\ txQ'[Len(txQ) + i].kind = "RELEASE"
                          /\ txQ'[Len(txQ) + i].cnx = owed[i].cnx
                          /\ txQ'[Len(txQ) + i].db = owed[i].db
    BY <2>1, <2>2
  <2>. QED
    BY <2>3 DEF Flushed
<1>2. Ring' = Ring /\ RingsHome /\ ConnSame /\ \A q \in Ring : rings'[q] = rings[q]
  BY DEF Ring, RingsHome, ConnSame, Known
<1>. HIDE DEF m
<1>. DEFINE At(k) == m + k
            P == 1 .. n
<1>a1. \A i \in DOMAIN txQ' : i \in DOMAIN txQ \/ \E k \in P : i = At(k)
  <2>1. ASSUME NEW i \in DOMAIN txQ', i \notin DOMAIN txQ
        PROVE  \E k \in P : i = At(k)
    <3>1. i - m \in 1 .. n /\ i = m + (i - m)
      BY <1>1, <2>1
    <3>. QED
      BY <3>1
  <2>. QED
    BY <2>1
<1>a2. /\ \A k \in P : k \in DOMAIN owed /\ At(k) \in DOMAIN txQ' /\ At(k) \notin DOMAIN txQ
       /\ \A k \in P, i \in DOMAIN txQ : At(k) > i
       /\ \A i \in DOMAIN txQ : i \in DOMAIN txQ'
  BY <1>1
<1>a3. \A i \in DOMAIN owed' : n + i \in DOMAIN owed /\ n + i \notin P
  BY <1>1
<1>a4. \A k \in DOMAIN owed : k \in P \/ (k - n \in DOMAIN owed' /\ owed'[k - n] = owed[k])
  <2>1. ASSUME NEW k \in DOMAIN owed, k \notin P
        PROVE  k - n \in DOMAIN owed' /\ owed'[k - n] = owed[k]
    <3>1. k - n \in 1 .. Len(owed) - n /\ n + (k - n) = k
      BY <1>1, <2>1
    <3>. QED
      BY <3>1, <1>1
  <2>. QED
    BY <2>1
<1>b. /\ \A i \in DOMAIN txQ : txQ'[i] = txQ[i]
      /\ \A k \in P : /\ txQ'[At(k)].kind = "RELEASE" /\ txQ'[At(k)].cnx = owed[k].cnx
                      /\ txQ'[At(k)].db = owed[k].db
      /\ \A i \in DOMAIN owed' : owed'[i] = owed[n + i]
  BY <1>1
<1>. HIDE DEF At, P
<1>3. Home'
  <2>1. ConnHome'
    BY <1>2, HomeIs, ConnHomeKept
  <2>2. QueueHome'
    <3>1. ASSUME NEW i \in DOMAIN txQ', txQ'[i].db # NoRing
          PROVE  rings'[txQ'[i].db].cnx = txQ'[i].cnx
      <4>1. CASE i \in DOMAIN txQ
        BY <3>1, <4>1, <1>b DEF Home
      <4>2. CASE \E k \in P : i = At(k)
        <5>1. PICK k \in P : i = At(k)
          BY <4>2
        <5>2. k \in DOMAIN owed /\ txQ'[i].cnx = owed[k].cnx /\ txQ'[i].db = owed[k].db
          BY <5>1, <1>a1, <1>a2, <1>a3, <1>a4, <1>b
        <5>. QED
          BY <5>2 DEF Home
      <4>. QED
        BY <4>1, <4>2, <1>a1, <1>a2, <1>a3, <1>a4
    <3>. QED
      BY <3>1 DEF QueueHome
  <2>3. OwedHome'
    BY <1>a1, <1>a2, <1>a3, <1>a4, <1>b DEF Home, OwedHome
  <2>4. Home' <=> ConnHome' /\ QueueHome' /\ OwedHome'
    BY DEF Home, ConnHome, QueueHome, OwedHome
  <2>. QED
    BY <2>1, <2>2, <2>3, <2>4
<1>4. \A q \in Ring : Owns(q)' <=> Owns(q)
  BY <1>2, OwnsSame
<1>. DEFINE Rel(i, q) == txQ'[i].kind = "RELEASE" /\ txQ'[i].db = q
<1>5. /\ \A q, i : i \in DOMAIN txQ => (Rel(i, q) <=> ReleaseAt(i, q))
      /\ \A q, k : k \in P => (Rel(At(k), q) <=> owed[k].db = q)
      /\ \A q, i : ReleaseAt(i, q)' <=> Rel(i, q)
  BY <1>b DEF ReleaseAt
<1>. HIDE DEF Rel
<1>6. ASSUME NEW q \in Ring
      PROVE  /\ Queued(q)' <=> Queued(q) \/ \E k \in P : owed[k].db = q
             /\ Owing(q)' <=> \E k \in DOMAIN owed : k \notin P /\ owed[k].db = q
             /\ Single(q)' /\ (Claimed(q)' <=> Claimed(q))
  <2>0. Single(q)
    BY DEF Claims
  <2>1. Queued(q)' <=> Queued(q) \/ \E k \in P : owed[k].db = q
    <3>1. Queued(q)' <=> \E i \in DOMAIN txQ' : Rel(i, q)
      BY <1>5 DEF Queued
    <3>2. Queued(q) <=> \E i \in DOMAIN txQ : ReleaseAt(i, q)
      BY DEF Queued
    <3>. QED
      BY <3>1, <3>2, <1>5, <1>a1, <1>a2, <1>a3, <1>a4
  <2>2. Owing(q)' <=> \E k \in DOMAIN owed : k \notin P /\ owed[k].db = q
    <3>1. \A i \in DOMAIN owed' : n + i \notin P
      BY <1>a1, <1>a2, <1>a3, <1>a4
    <3>2. Owing(q)' <=> \E i \in DOMAIN owed' : owed'[i].db = q
      BY DEF Owing
    <3>3. \A i \in DOMAIN owed' : owed'[i] = owed[n + i] /\ n + i \in DOMAIN owed
      BY <1>a1, <1>a2, <1>a3, <1>a4, <1>b
    <3>. QED
      BY <3>1, <3>2, <3>3, <1>a1, <1>a2, <1>a3, <1>a4
  <2>3. Owing(q) <=> \E k \in DOMAIN owed : owed[k].db = q
    BY DEF Owing
  <2>4. \A k, l \in DOMAIN owed : owed[k].db = q /\ owed[l].db = q => k = l
    BY <2>0 DEF Single
  <2>5. /\ ~(Owns(q) /\ Queued(q)) /\ ~(Owns(q) /\ Owing(q)) /\ ~(Owns(q) /\ q \in leaked)
        /\ ~(Queued(q) /\ Owing(q)) /\ ~(Queued(q) /\ q \in leaked)
        /\ ~(Owing(q) /\ q \in leaked)
        /\ \A i, j \in DOMAIN txQ : ReleaseAt(i, q) /\ ReleaseAt(j, q) => i = j
    BY <2>0 DEF Single
  <2>6. \A k \in P : k \in DOMAIN owed
    BY <1>a1, <1>a2, <1>a3, <1>a4
  <2>7. ASSUME NEW i \in DOMAIN txQ', NEW j \in DOMAIN txQ', ReleaseAt(i, q)', ReleaseAt(j, q)'
        PROVE  i = j
    <3>1. CASE i \in DOMAIN txQ /\ j \in DOMAIN txQ
      BY <2>5, <2>7, <3>1, <1>5
    <3>2. CASE i \in DOMAIN txQ /\ j \notin DOMAIN txQ
      BY <2>3, <2>5, <2>6, <2>7, <3>2, <1>5, <1>a1, <1>a2, <1>a3, <1>a4 DEF Queued
    <3>3. CASE i \notin DOMAIN txQ /\ j \in DOMAIN txQ
      BY <2>3, <2>5, <2>6, <2>7, <3>3, <1>5, <1>a1, <1>a2, <1>a3, <1>a4 DEF Queued
    <3>4. CASE i \notin DOMAIN txQ /\ j \notin DOMAIN txQ
      BY <2>4, <2>6, <2>7, <3>4, <1>5, <1>a1, <1>a2, <1>a3, <1>a4
    <3>. QED
      BY <3>1, <3>2, <3>3, <3>4
  <2>8. ASSUME NEW i \in DOMAIN owed', NEW j \in DOMAIN owed', owed'[i].db = q, owed'[j].db = q
        PROVE  i = j
    <3>1. n + i = n + j
      BY <2>4, <2>8, <1>a1, <1>a2, <1>a3, <1>a4, <1>b
    <3>. QED
      BY <3>1, <1>1
  <2>9. /\ ~(Owns(q)' /\ Queued(q)') /\ ~(Owns(q)' /\ Owing(q)')
        /\ ~(Owns(q)' /\ q \in leaked') /\ ~(Queued(q)' /\ Owing(q)')
        /\ ~(Queued(q)' /\ q \in leaked') /\ ~(Owing(q)' /\ q \in leaked')
    BY <2>1, <2>2, <2>3, <2>4, <2>5, <2>6, <1>4
  <2>10. Single(q)'
    BY <2>7, <2>8, <2>9 DEF Single
  <2>11. Claimed(q)' <=> Claimed(q)
    BY <2>1, <2>2, <2>3, <2>6, <1>4 DEF Claimed
  <2>. QED
    BY <2>1, <2>2, <2>10, <2>11
<1>7. Claims'
  BY <1>2, <1>6 DEF Claims
<1>8. TableHome' /\ Counts'
  <2>1. table' = table /\ \A q \in Ring : rings'[q].refs = rings[q].refs
    BY <1>2
  <2>. QED
    BY <2>1, <1>2, <1>6, CountsKept
<1>9. Marks'
  <2>. SUFFICES ASSUME phase \in {"run", "stopping"}, NEW i \in DOMAIN txQ', NEW q \in Ring,
                       txQ'[i].kind = "MARK", txQ'[i].db = q
                PROVE  Owns(q)' \/ Behind(i, q)' \/ Owing(q)' \/ q \in leaked'
    BY <1>2 DEF Marks
  <2>1. i \in DOMAIN txQ
    BY <1>a1, <1>a2, <1>a3, <1>a4, <1>b
  <2>2. Owns(q) \/ Behind(i, q) \/ Owing(q) \/ q \in leaked
    BY <2>1, <1>b DEF Marks
  <2>3. Behind(i, q) => Behind(i, q)'
    BY <1>5, <1>a1, <1>a2, <1>a3, <1>a4 DEF Behind
  <2>4. ASSUME NEW k \in P, owed[k].db = q PROVE Behind(i, q)'
    <3>1. At(k) \in DOMAIN txQ' /\ At(k) > i
      BY <2>1, <1>a1, <1>a2, <1>a3, <1>a4
    <3>2. Rel(At(k), q)
      BY <2>4, <1>5
    <3>3. Behind(i, q)' <=> \E j \in DOMAIN txQ' : j > i /\ Rel(j, q)
      BY <1>5 DEF Behind
    <3>. QED
      BY <3>1, <3>2, <3>3
  <2>5. Owing(q) => Owing(q)' \/ Behind(i, q)'
    BY <2>4, <1>6 DEF Owing
  <2>. QED
    BY <2>2, <2>3, <2>5, <1>4
<1>. QED
  BY <1>3, <1>7, <1>8, <1>9

\* The drain begins with a flush.
LEMMA BeginDrainStep ==
    ASSUME IInv, BeginDrain
    PROVE  IInv' /\ rings' = rings
<1>. USE DEF IInv, Typed
<1>1. /\ phase = "run" /\ p = Idle /\ Flush(txQ, owed) /\ py' = "drain"
      /\ UNCHANGED <<rings, table, leaked, conn, phase>>
      /\ UNCHANGED <<workerState, batch, p, toClose, failed, left>>
  BY DEF BeginDrain, LoopIdle, stillFed, workerState
<1>2. /\ cnx' = cnx /\ gen' = gen /\ active' = active /\ table' = table /\ rxQ' = rxQ
      /\ w' = w /\ reset' = reset /\ Ring' = Ring /\ FewerKnown
  BY <1>1 DEF workerState, Ring, FewerKnown, Known
<1>. DEFINE n == Fits(txQ, owed)
<1>3. /\ Flushed(owed, n) /\ txQ' \in Seq(CmdRec(Ring)) /\ Len(txQ') <= TxCap
      /\ txArmed' \in BOOLEAN /\ owed' \in Seq(OwedRec)
  <2>1. owed \in Seq(OwedRec)
    BY DEF LoopTyped, OwedRec
  <2>. QED
    BY <2>1, <1>1, FlushIs
<1>. HIDE DEF n
<1>4. Refs'
  BY <1>1, <1>3, FlushKeeps
<1>5. TxTyped'
  BY <1>2, <1>3 DEF TxTyped
<1>6. LoopTyped'
  <2>1. owed' \in Seq([cnx : Addr, db : Ring'])
    BY <1>2, <1>3 DEF OwedRec
  <2>. QED
    BY <2>1, <1>1, <1>2 DEF LoopTyped
<1>7. WorkerTyped' /\ RingsTyped' /\ TableTyped' /\ RxTyped'
  BY <1>1, <1>2 DEF WorkerTyped, RingsTyped, TableTyped, RxTyped
<1>8. Busy'
  BY <1>1, <1>2 DEF Busy, Known
<1>9. Gens'
  BY <1>2, GensKept
<1>10. Parked'
  <2>1. RingsGain
    BY <1>1, RingsSame
  <2>2. \A a \in Addr : Known(a)' /\ conn'[a].parked =>
            Known(a) /\ conn[a].parked /\ conn'[a].ring = conn[a].ring
    BY <1>1, ConnStays
  <2>. QED
    BY <2>1, <2>2, <1>1, ParkedLoop
<1>11. Ends'
  <2>1. \A b \in Addr, g \in Nat : IsLive(b, g) => Live(cnx', gen', reset', b, g)
    BY <1>2 DEF IsLive
  <2>. QED
    BY <2>1, <1>1, <1>2, EndsKept
<1>12. Agree'
  BY <1>1, <1>2, AgreeStill
<1>. QED
  BY <1>1, <1>4, <1>5, <1>6, <1>7, <1>8, <1>9, <1>10, <1>11, <1>12

-----------------------------------------------------------------------------
(* Asyncio: routing.                                                       *)

\* What every routed event has in common.
LEMMA RoutesIs ==
    ASSUME IInv, NEW K, Routes(K)
    PROVE  /\ phase = "run" /\ p = Idle /\ p' = Idle /\ toClose = {} /\ toClose' = {}
           /\ phase' = "run" /\ UNCHANGED workerState /\ rings' = rings
           /\ batch # <<>> /\ batch' = Tail(batch) /\ RxTyped'
           /\ batch[1].kind \in K /\ batch[1].cnx \in Addr /\ batch[1].gen \in Nat \ {0}
           /\ py' \in {"idle", "drain", "route"} /\ (py' = "route" => batch' # <<>>)
           /\ 1 \in DOMAIN batch /\ Ring' = Ring
           /\ \A i \in DOMAIN batch' : i + 1 \in DOMAIN batch /\ batch'[i] = batch[i + 1]
           /\ \A j \in DOMAIN batch : j # 1 =>
                  j - 1 \in DOMAIN batch' /\ batch'[j - 1] = batch[j] /\ j - 1 \in Nat
<1>1. /\ phase = "run" /\ p = Idle /\ py = "route" /\ batch[1].kind \in K
      /\ batch' = Tail(batch) /\ py' = (IF Len(batch) = 1 THEN "idle" ELSE "route")
      /\ UNCHANGED workerState /\ rings' = rings /\ p' = p /\ toClose' = toClose
      /\ phase' = phase
  BY DEF Routes, LoopIdle, Ev
<1>2. batch # <<>> /\ batch \in Seq(EventRec) /\ toClose = {}
  BY <1>1, LoopIdles DEF IInv, Typed, RxTyped
<1>3. /\ Tail(batch) \in Seq(EventRec) /\ Len(Tail(batch)) = Len(batch) - 1
      /\ Len(batch) \in Nat \ {0}
      /\ DOMAIN batch = 1 .. Len(batch) /\ DOMAIN Tail(batch) = 1 .. Len(batch) - 1
      /\ batch[1] \in EventRec /\ \A i \in DOMAIN Tail(batch) : Tail(batch)[i] = batch[i + 1]
  BY <1>2, OnTail
<1>4. batch[1].cnx \in Addr /\ batch[1].gen \in Nat \ {0}
  BY <1>3 DEF EventRec
<1>5. RxTyped'
  BY <1>1, <1>3 DEF IInv, Typed, RxTyped, workerState
<1>6. 1 \in DOMAIN batch /\ \A i \in DOMAIN batch' : i + 1 \in DOMAIN batch
  BY <1>1, <1>3
<1>7. py' = "route" => batch' # <<>>
  <2>1. Len(batch) # 1 => Len(Tail(batch)) # 0
    BY <1>3
  <2>2. Len(<<>>) = 0
    OBVIOUS
  <2>. QED
    BY <1>1, <2>1, <2>2
<1>8. Ring' = Ring
  BY <1>1 DEF Ring
<1>9. ASSUME NEW j \in DOMAIN batch, j # 1
      PROVE  j - 1 \in DOMAIN batch' /\ batch'[j - 1] = batch[j] /\ j - 1 \in Nat
  <2>1. j - 1 \in 1 .. Len(batch) - 1 /\ (j - 1) + 1 = j
    BY <1>3, <1>9
  <2>. QED
    BY <2>1, <1>1, <1>3
<1>. QED
  BY <1>1, <1>2, <1>3, <1>4, <1>5, <1>6, <1>7, <1>8, <1>9

\* Events behind the routed one stay behind it.
LEMMA RouteKeeps ==
    ASSUME IInv, NEW K, Routes(K)
    PROVE  /\ \A b \in Addr : Wake(b) =>
                Wake(b)' \/ (b = batch[1].cnx /\ batch[1].kind \in {"DRAINED"} \cup Closes)
           /\ \A b, g : ClosedIn(batch, 0, b, g) =>
                \/ ClosedIn(batch', 0, b, g)
                \/ b = batch[1].cnx /\ batch[1].kind = "CLOSE"
           /\ \A b, g : ClosedIn(batch, 1, b, g) => ClosedIn(batch', 0, b, g)
           /\ \A i \in DOMAIN batch' : \A b, g :
                ClosedIn(batch, i + 1, b, g) => ClosedIn(batch', i, b, g)
<1>1. /\ UNCHANGED workerState /\ batch # <<>> /\ 1 \in DOMAIN batch
      /\ \A i \in DOMAIN batch' : i + 1 \in DOMAIN batch /\ batch'[i] = batch[i + 1]
      /\ \A j \in DOMAIN batch : j # 1 =>
             j - 1 \in DOMAIN batch' /\ batch'[j - 1] = batch[j] /\ j - 1 \in Nat
  BY RoutesIs
<1>2. rxQ' = rxQ
  BY <1>1 DEF workerState
<1>3. DOMAIN batch \subseteq Nat \ {0} /\ DOMAIN batch' \subseteq Nat \ {0}
  <2>1. batch \in Seq(EventRec) /\ batch' \in Seq(EventRec)
    BY RoutesIs DEF IInv, Typed, RxTyped
  <2>. QED
    BY <2>1
<1>4. ASSUME NEW b \in Addr, Wake(b)
      PROVE  Wake(b)' \/ (b = batch[1].cnx /\ batch[1].kind \in {"DRAINED"} \cup Closes)
  <2>1. CASE WakeIn(rxQ, b)
    BY <2>1, <1>2 DEF Wake
  <2>2. CASE WakeIn(batch, b)
    <3>1. PICK j \in DOMAIN batch : batch[j].cnx = b /\ batch[j].kind \in {"DRAINED"} \cup Closes
      BY <2>2 DEF WakeIn
    <3>2. CASE j = 1
      BY <3>1, <3>2
    <3>3. CASE j # 1
      BY <3>1, <3>3, <1>1 DEF Wake, WakeIn
    <3>. QED
      BY <3>2, <3>3
  <2>. QED
    BY <1>4, <2>1, <2>2 DEF Wake
<1>5. ASSUME NEW b, NEW g, ClosedIn(batch, 0, b, g)
      PROVE  ClosedIn(batch', 0, b, g) \/ (b = batch[1].cnx /\ batch[1].kind = "CLOSE")
  <2>1. PICK j \in DOMAIN batch : batch[j] = [kind |-> "CLOSE", cnx |-> b, gen |-> g]
    BY <1>5 DEF ClosedIn
  <2>2. CASE j = 1
    BY <2>1, <2>2
  <2>3. CASE j # 1
    <3>1. j - 1 \in DOMAIN batch' /\ batch'[j - 1] = batch[j] /\ j - 1 > 0
      BY <2>3, <1>1, <1>3
    <3>. QED
      BY <2>1, <3>1 DEF ClosedIn
  <2>. QED
    BY <2>2, <2>3
<1>6. ASSUME NEW b, NEW g, NEW i \in Nat, ClosedIn(batch, i + 1, b, g)
      PROVE  ClosedIn(batch', i, b, g)
  <2>1. PICK j \in DOMAIN batch : j > i + 1 /\ batch[j] = [kind |-> "CLOSE", cnx |-> b, gen |-> g]
    BY <1>6 DEF ClosedIn
  <2>2. j # 1 /\ j - 1 > i
    BY <2>1, <1>3
  <2>. QED
    BY <2>1, <2>2, <1>1 DEF ClosedIn
<1>7. \A b, g : ClosedIn(batch, 1, b, g) => ClosedIn(batch', 0, b, g)
  <2>1. 0 \in Nat /\ 0 + 1 = 1
    OBVIOUS
  <2>. QED
    BY <2>1, <1>6
<1>. QED
  BY <1>3, <1>4, <1>5, <1>6, <1>7

\* The rest of a routed event: what its connection becomes is given.
LEMMA RouteStep ==
    ASSUME IInv, NEW K, Routes(K), NEW a, a = batch[1].cnx,
           failed' \in BOOLEAN, failed => failed', left' \in [Inputs -> Nat],
           conn' \in [Addr -> {NoConn} \cup ConnRec(Ring)],
           \A b \in Addr : b # a => conn'[b] = conn[b],
           conn'[a] # NoConn =>
               /\ batch[1].kind \in Data
               /\ conn'[a].gen = IF Known(a) THEN conn[a].gen ELSE batch[1].gen,
           conn'[a] # NoConn /\ conn'[a].parked =>
               /\ batch[1].kind # "DRAINED" /\ Known(a) /\ conn[a].parked
               /\ conn'[a].ring = conn[a].ring,
           TxTyped', owed' \in Seq(OwedRec), leaked' \subseteq Ring, Refs'
    PROVE  IInv'
<1>. USE DEF IInv, Typed
<1>1. /\ phase = "run" /\ p = Idle /\ p' = Idle /\ toClose = {} /\ toClose' = {}
      /\ phase' = "run" /\ UNCHANGED workerState /\ rings' = rings
      /\ batch # <<>> /\ batch' = Tail(batch) /\ RxTyped'
      /\ a \in Addr /\ batch[1].gen \in Nat \ {0}
      /\ py' \in {"idle", "drain", "route"} /\ (py' = "route" => batch' # <<>>)
      /\ 1 \in DOMAIN batch /\ Ring' = Ring
      /\ \A i \in DOMAIN batch' : i + 1 \in DOMAIN batch /\ batch'[i] = batch[i + 1]
  BY RoutesIs
<1>2. /\ cnx' = cnx /\ gen' = gen /\ active' = active /\ table' = table /\ rxQ' = rxQ
      /\ w' = w /\ reset' = reset
  BY <1>1 DEF workerState
<1>3. WorkerTyped' /\ RingsTyped' /\ TableTyped'
  BY <1>1, <1>2 DEF WorkerTyped, RingsTyped, TableTyped, Inputs
<1>4. LoopTyped'
  <2>1. owed' \in Seq([cnx : Addr, db : Ring'])
    BY <1>1 DEF OwedRec
  <2>. QED
    BY <2>1, <1>1 DEF LoopTyped
<1>5. Busy'
  BY <1>1, <1>2 DEF Busy
<1>6. Gens'
  BY <1>2, GensKept
<1>7. Parked'
  <2>1. \A b \in Addr : Wake(b) =>
            Wake(b)' \/ (b = a /\ batch[1].kind \in {"DRAINED"} \cup Closes)
    BY RouteKeeps
  <2>2. ASSUME NEW b \in Addr, Known(b)', conn'[b].parked
        PROVE  PopToCome(conn[b].ring)' \/ Wake(b)'
    <3>1. Known(b) /\ conn[b].parked /\ conn'[b].ring = conn[b].ring
      BY <2>2 DEF Known
    <3>2. PopToCome(conn[b].ring) \/ Wake(b)
      BY <3>1 DEF Parked
    <3>3. b = a => batch[1].kind \notin {"DRAINED"} \cup Closes
      BY <2>2 DEF Data, Closes, Known
    <3>4. PopToCome(conn[b].ring) => PopToCome(conn[b].ring)'
      BY <3>1, <1>1, <1>2 DEF PopToCome
    <3>. QED
      BY <3>2, <3>3, <3>4, <2>1
  <2>. QED
    BY <2>2, <1>1 DEF Parked
<1>8. Ends'
  <2>1. /\ \A b, g : ClosedIn(batch, 0, b, g) =>
             ClosedIn(batch', 0, b, g) \/ (b = a /\ batch[1].kind = "CLOSE")
        /\ \A b, g : ClosedIn(batch, 1, b, g) => ClosedIn(batch', 0, b, g)
        /\ \A i \in DOMAIN batch' : \A b, g :
             ClosedIn(batch, i + 1, b, g) => ClosedIn(batch', i, b, g)
    BY RouteKeeps
  <2>2. \A b, g : IsLive(b, g)' <=> IsLive(b, g)
    BY <1>2 DEF IsLive, Live
  <2>3. ASSUME NEW b \in Addr, Known(b)'
        PROVE  IsLive(b, conn'[b].gen) \/ ClosedIn(batch', 0, b, conn'[b].gen)
                 \/ ClosedIn(rxQ, 0, b, conn'[b].gen)
    <3>1. CASE Known(b)
      <4>1. conn'[b].gen = conn[b].gen /\ ~(b = a /\ batch[1].kind = "CLOSE")
        BY <2>3, <3>1 DEF Data, Known
      <4>2. IsLive(b, conn[b].gen) \/ ClosedIn(batch, 0, b, conn[b].gen)
              \/ ClosedIn(rxQ, 0, b, conn[b].gen)
        BY <3>1, <1>1 DEF Ends
      <4>. QED
        BY <4>1, <4>2, <2>1
    <3>2. CASE ~Known(b)
      <4>1. b = a /\ batch[1].kind \in Data /\ conn'[b].gen = batch[1].gen
        BY <2>3, <3>2 DEF Known
      <4>2. IsLive(b, batch[1].gen) \/ ClosedIn(batch, 1, b, batch[1].gen)
              \/ ClosedIn(rxQ, 0, b, batch[1].gen)
        BY <4>1, <1>1 DEF Ends
      <4>. QED
        BY <4>1, <4>2, <2>1
    <3>. QED
      BY <3>1, <3>2
  <2>4. ASSUME NEW i \in DOMAIN batch', batch'[i].kind \in Data
        PROVE  IsLive(batch'[i].cnx, batch'[i].gen)
                 \/ ClosedIn(batch', i, batch'[i].cnx, batch'[i].gen)
                 \/ ClosedIn(rxQ, 0, batch'[i].cnx, batch'[i].gen)
    <3>1. i + 1 \in DOMAIN batch /\ batch'[i] = batch[i + 1]
      BY <1>1
    <3>2. IsLive(batch[i + 1].cnx, batch[i + 1].gen)
            \/ ClosedIn(batch, i + 1, batch[i + 1].cnx, batch[i + 1].gen)
            \/ ClosedIn(rxQ, 0, batch[i + 1].cnx, batch[i + 1].gen)
      BY <2>4, <3>1, <1>1 DEF Ends
    <3>. QED
      BY <3>1, <3>2, <2>1
  <2>5. \A i \in DOMAIN rxQ : rxQ[i].kind \in Data =>
               IsLive(rxQ[i].cnx, rxQ[i].gen) \/ ClosedIn(rxQ, i, rxQ[i].cnx, rxQ[i].gen)
    BY <1>1 DEF Ends
  <2>. QED
    BY <2>2, <2>3, <2>4, <2>5, <1>2 DEF Ends
<1>9. Agree'
  <2>1. \A i \in DOMAIN batch' : batch'[i].cnx \in Addr /\ IsEvent(batch'[i])
    BY <1>1, EventIs DEF IsEvent
  <2>2. \A i \in DOMAIN rxQ' : IsEvent(rxQ'[i])
    BY <1>2 DEF IsEvent
  <2>3. \A b \in Addr : Known(b)' =>
               \/ Known(b) /\ conn'[b].gen = conn[b].gen
               \/ \E i \in DOMAIN batch : batch[i].cnx = b /\ batch[i].gen = conn'[b].gen
    BY <1>1 DEF Known
  <2>4. \A r \in Ring' : /\ r \in Ring /\ rings'[r].cnx = rings[r].cnx
                         /\ rings'[r].owner = rings[r].owner
    BY <1>1
  <2>. QED
    BY <2>1, <2>2, <2>3, <2>4, <1>2, AgreeKept
<1>. QED
  BY <1>1, <1>3, <1>4, <1>5, <1>6, <1>7, <1>8, <1>9

\* A connection that has no ring comes or goes.
LEMMA RefsApart ==
    ASSUME IInv, NEW a \in Addr, ~Known(a) \/ conn[a].ring = NoRing,
           conn'[a] = NoConn \/ conn'[a].ring = NoRing, \A b \in Addr : b # a => conn'[b] = conn[b],
           UNCHANGED <<rings, table, txQ, owed, leaked, phase>>
    PROVE  Refs'
<1>. USE DEF IInv, Typed, Refs
<1>1. RingsHome /\ Ring' = Ring /\ \A r \in Ring : rings'[r] = rings[r]
  BY DEF RingsHome, Ring
<1>2. NoRing \notin Ring /\ \A r \in Ring : rings[r].cnx \in Addr
  BY RingsAre
<1>3. ASSUME NEW q \in Ring PROVE Owns(q)' <=> Owns(q)
  <2>1. rings[q].cnx \in Addr /\ rings'[q].cnx = rings[q].cnx
    BY <1>1, <1>2
  <2>2. Owns(q) <=> conn[rings[q].cnx] # NoConn /\ conn[rings[q].cnx].ring = q
    BY DEF Owns, Known
  <2>3. Owns(q)' <=> conn'[rings[q].cnx] # NoConn /\ conn'[rings[q].cnx].ring = q
    BY <2>1 DEF Owns, Known
  <2>4. q # NoRing
    BY <1>2
  <2>. QED
    BY <2>1, <2>2, <2>3, <2>4 DEF Known
<1>4. /\ QueueHome' /\ QueueOne' /\ (\A r \in Ring : Queued(r)' <=> Queued(r))
      /\ \A i \in DOMAIN txQ, r \in Ring : Behind(i, r)' <=> Behind(i, r)
  BY <1>1, HomeIs, ClaimsAre, QueueSame
<1>5. Home'
  <2>1. ConnHome'
    BY DEF Home, ConnHome, Known
  <2>2. OwedHome'
    BY <1>1, HomeIs, OwedHomeKept
  <2>3. Home' <=> ConnHome' /\ QueueHome' /\ OwedHome'
    BY DEF Home, ConnHome, QueueHome, OwedHome
  <2>. QED
    BY <2>1, <2>2, <2>3, <1>4
<1>6. /\ Claims' /\ (\A r \in Ring : Owing(r)' <=> Owing(r))
      /\ \A r \in Ring : Claimed(r)' <=> Claimed(r)
  BY <1>1, <1>3, <1>4, ClaimsKept
<1>7. TableHome' /\ Counts'
  <2>1. table' = table /\ \A r \in Ring : rings'[r].refs = rings[r].refs
    BY <1>1
  <2>. QED
    BY <2>1, <1>1, <1>6, CountsKept
<1>8. Marks'
  BY <1>1, <1>3, <1>4, <1>6 DEF Marks
<1>. QED
  BY <1>5, <1>6, <1>7, <1>8

\* A mark is posted, or not.
LEMMA PostsKeep ==
    ASSUME IInv, UNCHANGED <<rings, table, owed, leaked, phase>>, ConnSame, Posts
    PROVE  TxTyped' /\ Refs'
<1>. USE DEF IInv, Typed
<1>1. RingsHome /\ Ring' = Ring /\ Running /\ \A r \in Ring : rings'[r].refs = rings[r].refs
  BY DEF RingsHome, Ring, Running
<1>2. /\ TxTyped' /\ Home' /\ Claims' /\ Marks'
      /\ \A r \in Ring : Claimed(r)' <=> Claimed(r)
  <2>1. CASE txQ' = txQ
    <3>1. TxTyped'
      BY <2>1, <1>1 DEF TxTyped, Posts
    <3>. QED
      BY <3>1, <2>1, <1>1, RefsStill DEF Refs
  <2>2. CASE txQ' # txQ
    <3>1. PICK c \in CmdRec(Ring) :
              /\ txQ' = Append(txQ, c) /\ c.kind # "RELEASE"
              /\ IF c.kind = "MARK" THEN Known(c.cnx) /\ conn[c.cnx].ring = c.db
                 ELSE c.db = NoRing
      BY <2>2 DEF Posts
    <3>2. ~TxFull /\ txArmed' \in BOOLEAN
      BY <2>2 DEF Posts
    <3>. QED
      BY <3>1, <3>2, <1>1, RefsPosted DEF Refs
  <2>. QED
    BY <2>1, <2>2
<1>3. TableHome' /\ Counts'
  <2>1. table' = table
    OBVIOUS
  <2>. QED
    BY <2>1, <1>1, <1>2, CountsKept DEF Refs
<1>. QED
  BY <1>2, <1>3 DEF Refs

\* A connection route_event makes.
LEMMA NewConnIs ==
    ASSUME NEW g \in Nat \ {0}, NEW R
    PROVE  /\ NewConn(g) \in ConnRec(R) /\ NewConn(g) # NoConn /\ NewConn(g).gen = g
           /\ NewConn(g).ring = NoRing /\ ~NewConn(g).markOwed /\ ~NewConn(g).parked
<1>. DEFINE no == FALSE
            c == [gen |-> g, ring |-> NoRing, markOwed |-> no, parked |-> no, closed |-> no]
<1>1. NewConn(g) = c
  BY DEF NewConn
<1>2. NoRing \in R \cup {NoRing} /\ no \in BOOLEAN /\ ~no
  OBVIOUS
<1>. HIDE DEF no
<1>3. /\ c \in ConnRec(R) /\ c # NoConn /\ c.gen = g /\ c.ring = NoRing
      /\ c.markOwed = no /\ c.parked = no
  BY <1>2, IsConn
<1>. HIDE DEF c
<1>. QED
  BY <1>1, <1>2, <1>3

\* READY or DGRAM: a connection may be made anew.
LEMMA RouteDataStep ==
    ASSUME IInv, RouteData
    PROVE  IInv' /\ rings' = rings
<1>. USE DEF IInv, Typed
<1>. DEFINE K == {"READY", "DGRAM"}
            a == batch[1].cnx
            g == batch[1].gen
            c == Routed(a)
<1>1. /\ Routes(K) /\ conn' = [conn EXCEPT ![a] = c] /\ UNCHANGED <<txQ, txArmed, owed, leaked>>
      /\ failed' = failed /\ left' = left
  BY DEF RouteData, Ev, stillFed
<1>2. /\ phase' = phase /\ UNCHANGED workerState /\ rings' = rings /\ Ring' = Ring
      /\ batch[1].kind \in K /\ a \in Addr /\ g \in Nat \ {0}
  BY <1>1, RoutesIs
<1>3. c = IF Known(a) THEN conn[a] ELSE NewConn(g)
  BY DEF Routed, Ev
<1>4. batch[1].kind \in Data /\ batch[1].kind # "DRAINED"
  BY <1>2 DEF Data
<1>. HIDE DEF a, g, c, K
<1>5. c \in ConnRec(Ring) /\ c # NoConn /\ c.gen = IF Known(a) THEN conn[a].gen ELSE g
  BY <1>2, <1>3, KnownIs, NewConnIs, ConnIs
<1>6. /\ conn'[a] = c /\ (\A b \in Addr : b # a => conn'[b] = conn[b])
      /\ conn' \in [Addr -> {NoConn} \cup ConnRec(Ring)]
  <2>1. /\ conn'[a] = c /\ (\A b \in Addr : b # a => conn'[b] = conn[b])
        /\ \A R : c \in {NoConn} \cup ConnRec(R) /\ Ring \subseteq R =>
               conn' \in [Addr -> {NoConn} \cup ConnRec(R)]
    BY <1>1, <1>2, ConnStep
  <2>. QED
    BY <2>1, <1>5
<1>7. conn'[a] # NoConn => /\ batch[1].kind \in Data
                   /\ conn'[a].gen = IF Known(a) THEN conn[a].gen ELSE batch[1].gen
  BY <1>4, <1>5, <1>6 DEF g
<1>8. conn'[a] # NoConn /\ conn'[a].parked =>
          /\ batch[1].kind # "DRAINED" /\ Known(a) /\ conn[a].parked
          /\ conn'[a].ring = conn[a].ring
  BY <1>2, <1>3, <1>4, <1>6, NewConnIs
<1>9. Refs' /\ TxTyped'
  <2>1. UNCHANGED <<rings, table, txQ, owed, leaked, phase>>
    BY <1>1, <1>2 DEF workerState
  <2>2. TxTyped'
    BY <1>1, <1>2 DEF TxTyped
  <2>3. CASE Known(a)
    <3>1. conn' = conn
      <4>1. conn' = [conn EXCEPT ![a] = conn[a]]
        BY <1>1, <1>3, <2>3
      <4>2. conn \in [Addr -> {NoConn} \cup ConnRec(Ring)]
        BY DEF LoopTyped
      <4>. QED
        BY <4>1, <4>2
    <3>. QED
      BY <3>1, <2>1, <2>2, RefsSame
  <2>4. CASE ~Known(a)
    <3>1. conn'[a].ring = NoRing
      BY <2>4, <1>2, <1>3, <1>6, NewConnIs
    <3>. QED
      BY <3>1, <2>1, <2>2, <2>4, <1>2, <1>6, RefsApart
  <2>. QED
    BY <2>3, <2>4
<1>10. /\ owed' \in Seq(OwedRec) /\ leaked' \subseteq Ring /\ failed' \in BOOLEAN
       /\ left' \in [Inputs -> Nat]
  BY <1>1, LoopIdles DEF LoopTyped, OwedRec, WorkerTyped
<1>11. IInv'
  <2>1. a = batch[1].cnx
    BY DEF a
  <2>2. failed => failed'
    BY <1>1
  <2>. QED
    BY <2>1, <2>2, <1>1, <1>6, <1>7, <1>8, <1>9, <1>10, RouteStep
<1>. QED
  BY <1>2, <1>11

\* DRAINED: the writer wakes, an owed mark is posted.
LEMMA RouteDrainedStep ==
    ASSUME IInv, RouteDrained
    PROVE  IInv' /\ rings' = rings
<1>. USE DEF IInv, Typed
<1>. DEFINE K == {"DRAINED"}
            a == batch[1].cnx
            g == batch[1].gen
            c == Routed(a)
            repost == c.markOwed /\ c.ring # NoRing
            m == c.markOwed /\ (TxFull \/ ~repost)
            no == FALSE
            d == [c EXCEPT !.parked = no, !.markOwed = m]
<1>1. /\ Routes(K) /\ conn' = [conn EXCEPT ![a] = d] /\ UNCHANGED <<owed, leaked>>
      /\ failed' = failed /\ left' = left
      /\ IF repost THEN PushMark(a, c.ring) ELSE UNCHANGED <<txQ, txArmed>>
  BY DEF RouteDrained, Ev, stillFed
<1>2. /\ phase' = phase /\ UNCHANGED workerState /\ rings' = rings /\ Ring' = Ring
      /\ batch[1].kind \in K /\ a \in Addr /\ g \in Nat \ {0}
  BY <1>1, RoutesIs
<1>3. c = IF Known(a) THEN conn[a] ELSE NewConn(g)
  BY DEF Routed, Ev
<1>4. batch[1].kind \in Data
  BY <1>2 DEF Data
<1>. HIDE DEF a, g, c, K
<1>5. /\ c \in ConnRec(Ring) /\ c.gen = (IF Known(a) THEN conn[a].gen ELSE g)
      /\ c.gen \in Nat \ {0} /\ c.ring \in Ring \cup {NoRing} /\ c.closed \in BOOLEAN
      /\ c.markOwed \in BOOLEAN /\ (c.markOwed => c.ring # NoRing)
      /\ ~Known(a) => c.ring = NoRing /\ ~c.markOwed
  <2>1. c \in ConnRec(Ring) /\ c.gen = IF Known(a) THEN conn[a].gen ELSE g
    BY <1>2, <1>3, KnownIs, NewConnIs
  <2>2. ~Known(a) => c.ring = NoRing /\ ~c.markOwed
    BY <1>2, <1>3, NewConnIs
  <2>. QED
    BY <2>1, <2>2, ConnIs
<1>6. m \in BOOLEAN /\ (m => c.ring # NoRing)
  BY <1>5
<1>7. d = [gen |-> c.gen, ring |-> c.ring, markOwed |-> m, parked |-> no,
           closed |-> c.closed]
  <2>. HIDE DEF m, no
  <2>1. c \in ConnRec(Ring)
    BY <1>5
  <2>2. \A mm, kk : [c EXCEPT !.parked = kk, !.markOwed = mm] =
                  [gen |-> c.gen, ring |-> c.ring, markOwed |-> mm,
                   parked |-> kk, closed |-> c.closed]
    BY <2>1, ConnFields, Zenon
  <2>. QED
    BY <2>2, Zenon
<1>n. no \in BOOLEAN /\ ~no
  OBVIOUS
<1>. HIDE DEF m, d, no
<1>8. d \in ConnRec(Ring) /\ d # NoConn /\ d.gen = c.gen /\ d.ring = c.ring /\ ~d.parked
  <2>. DEFINE e == [gen |-> c.gen, ring |-> c.ring, markOwed |-> m, parked |-> no,
                    closed |-> c.closed]
  <2>1. /\ e \in ConnRec(Ring) /\ e # NoConn /\ e.gen = c.gen /\ e.ring = c.ring
        /\ e.parked = no
    BY <1>5, <1>6, <1>n, IsConn
  <2>2. d = e
    BY <1>7
  <2>. HIDE DEF e
  <2>. QED
    BY <2>1, <2>2, <1>n
<1>9. /\ conn'[a] = d /\ (\A b \in Addr : b # a => conn'[b] = conn[b])
      /\ conn' \in [Addr -> {NoConn} \cup ConnRec(Ring)]
  <2>1. /\ conn'[a] = d /\ (\A b \in Addr : b # a => conn'[b] = conn[b])
        /\ \A R : d \in {NoConn} \cup ConnRec(R) /\ Ring \subseteq R =>
               conn' \in [Addr -> {NoConn} \cup ConnRec(R)]
    BY <1>1, <1>2, ConnStep
  <2>. QED
    BY <2>1, <1>8
<1>10. conn'[a] # NoConn => /\ batch[1].kind \in Data
                    /\ conn'[a].gen = IF Known(a) THEN conn[a].gen ELSE batch[1].gen
  BY <1>4, <1>5, <1>8, <1>9 DEF g
<1>11. ~conn'[a].parked
  BY <1>8, <1>9
<1>12. Refs' /\ TxTyped'
  <2>1. UNCHANGED <<rings, table, owed, leaked, phase>>
    BY <1>1, <1>2 DEF workerState
  <2>2. CASE Known(a)
    <3>1. ConnSame
      BY <2>2, <1>3, <1>8, <1>9 DEF ConnSame, Known
    <3>2. Posts
      <4>1. CASE repost
        <5>1. conn[a].ring # NoRing /\ PushMark(a, conn[a].ring)
          BY <4>1, <2>2, <1>1, <1>3
        <5>. QED
          BY <5>1, <2>2, <1>2, MarkPosts
      <4>2. CASE ~repost
        BY <4>2, <1>1, LoopIdles DEF Posts
      <4>. QED
        BY <4>1, <4>2
    <3>. QED
      BY <3>1, <3>2, <2>1, PostsKeep
  <2>3. CASE ~Known(a)
    <3>1. UNCHANGED <<txQ, txArmed>> /\ conn'[a].ring = NoRing
      BY <2>3, <1>1, <1>5, <1>8, <1>9
    <3>2. TxTyped'
      BY <3>1, <1>2 DEF TxTyped
    <3>3. UNCHANGED <<rings, table, txQ, owed, leaked, phase>>
      BY <2>1, <3>1
    <3>. QED
      BY <3>1, <3>2, <3>3, <2>3, <1>2, <1>9, RefsApart
  <2>. QED
    BY <2>2, <2>3
<1>13. /\ owed' \in Seq(OwedRec) /\ leaked' \subseteq Ring /\ failed' \in BOOLEAN
       /\ left' \in [Inputs -> Nat]
  BY <1>1, LoopIdles DEF LoopTyped, OwedRec, WorkerTyped
<1>14. IInv'
  <2>1. a = batch[1].cnx
    BY DEF a
  <2>2. failed => failed'
    BY <1>1
  <2>. QED
    BY <2>1, <2>2, <1>1, <1>9, <1>10, <1>11, <1>12, <1>13, RouteStep
<1>. QED
  BY <1>2, <1>14

\* Connection a gives its ring r up: a RELEASE has it, posted or owed, or
\* nobody.
LEMMA RingPassedOn ==
    ASSUME IInv, NEW a \in Addr, NEW r \in Ring, Known(a), conn[a].ring = r,
           conn'[a] = NoConn, \A b \in Addr : b # a => conn'[b] = conn[b],
           UNCHANGED <<rings, table, phase>>,
           QueueHome', OwedHome', QueueOne',
           \A q \in Ring, i, j \in DOMAIN owed' : owed'[i].db = q /\ owed'[j].db = q => i = j,
           \A q \in Ring : q # r => /\ Queued(q)' <=> Queued(q)
                                    /\ Owing(q)' <=> Owing(q)
                                    /\ q \in leaked' <=> q \in leaked,
           Queued(r)' \/ Owing(r)' \/ r \in leaked',
           ~(Queued(r)' /\ Owing(r)'), ~(Queued(r)' /\ r \in leaked'),
           ~(Owing(r)' /\ r \in leaked'),
           \A i \in DOMAIN txQ', q \in Ring : txQ'[i].kind = "MARK" /\ txQ'[i].db = q =>
               /\ i \in DOMAIN txQ /\ txQ[i].kind = "MARK" /\ txQ[i].db = q
               /\ Behind(i, q) => Behind(i, q)'
               /\ q = r /\ Queued(r)' => Behind(i, r)'
    PROVE  Refs'
<1>. USE DEF IInv, Typed, Refs
<1>1. /\ RingsHome /\ Ring' = Ring /\ (\A q \in Ring : rings'[q] = rings[q])
      /\ NoRing \notin Ring /\ \A q \in Ring : rings[q].cnx \in Addr
  BY RingsAre DEF RingsHome, Ring
<1>2. rings[r].cnx = a
  BY <1>1 DEF Home
<1>3. Owns(r) /\ ~Owns(r)'
  BY <1>1, <1>2 DEF Owns, Known
<1>4. ASSUME NEW q \in Ring, q # r PROVE Owns(q)' <=> Owns(q)
  <2>1. rings[q].cnx \in Addr /\ rings'[q].cnx = rings[q].cnx
    BY <1>1
  <2>2. Owns(q) <=> conn[rings[q].cnx] # NoConn /\ conn[rings[q].cnx].ring = q
    BY DEF Owns, Known
  <2>3. Owns(q)' <=> conn'[rings[q].cnx] # NoConn /\ conn'[rings[q].cnx].ring = q
    BY <2>1 DEF Owns, Known
  <2>. QED
    BY <1>4, <2>1, <2>2, <2>3
<1>5. Home'
  <2>1. ConnHome'
    BY DEF Home, ConnHome, Known
  <2>2. Home' <=> ConnHome' /\ QueueHome' /\ OwedHome'
    BY DEF Home, ConnHome, QueueHome, OwedHome
  <2>. QED
    BY <2>1, <2>2
<1>6. Claims'
  <2>1. ASSUME NEW q \in Ring PROVE Single(q)'
    <3>1. /\ \A i, j \in DOMAIN txQ' : ReleaseAt(i, q)' /\ ReleaseAt(j, q)' => i = j
          /\ \A i, j \in DOMAIN owed' : owed'[i].db = q /\ owed'[j].db = q => i = j
      BY <1>1 DEF QueueOne
    <3>2. CASE q = r
      BY <3>1, <3>2, <1>3 DEF Single
    <3>3. CASE q # r
      <4>1. Single(q)
        BY DEF Claims
      <4>2. /\ ~(Owns(q) /\ Queued(q)) /\ ~(Owns(q) /\ Owing(q)) /\ ~(Owns(q) /\ q \in leaked)
            /\ ~(Queued(q) /\ Owing(q)) /\ ~(Queued(q) /\ q \in leaked)
            /\ ~(Owing(q) /\ q \in leaked)
        BY <4>1 DEF Single
      <4>3. /\ Queued(q)' <=> Queued(q)
            /\ Owing(q)' <=> Owing(q)
            /\ q \in leaked' <=> q \in leaked
            /\ Owns(q)' <=> Owns(q)
        BY <3>3, <1>4
      <4>. QED
        BY <3>1, <3>3, <4>2, <4>3, <1>4 DEF Single
    <3>. QED
      BY <3>2, <3>3
  <2>. QED
    BY <2>1, <1>1 DEF Claims
<1>7. \A q \in Ring : Claimed(q)' <=> Claimed(q)
  BY <1>3, <1>4 DEF Claimed
<1>8. TableHome' /\ Counts'
  <2>1. table' = table /\ \A q \in Ring : rings'[q].refs = rings[q].refs
    BY <1>1
  <2>. QED
    BY <2>1, <1>1, <1>7, CountsKept
<1>9. Marks'
  <2>. SUFFICES ASSUME phase \in {"run", "stopping"}, NEW i \in DOMAIN txQ', NEW q \in Ring,
                       txQ'[i].kind = "MARK", txQ'[i].db = q
                PROVE  Owns(q)' \/ Behind(i, q)' \/ Owing(q)' \/ q \in leaked'
    BY <1>1 DEF Marks
  <2>1. /\ i \in DOMAIN txQ /\ txQ[i].kind = "MARK" /\ txQ[i].db = q
        /\ Behind(i, q) => Behind(i, q)'
        /\ q = r /\ Queued(r)' => Behind(i, r)'
    OBVIOUS
  <2>2. CASE q = r
    BY <2>1, <2>2
  <2>3. CASE q # r
    <3>1. Owns(q) \/ Behind(i, q) \/ Owing(q) \/ q \in leaked
      BY <2>1 DEF Marks
    <3>. QED
      BY <2>1, <2>3, <3>1, <1>4
  <2>. QED
    BY <2>2, <2>3
<1>. QED
  BY <1>5, <1>6, <1>8, <1>9

\* The ring a connection has is in nobody else's hands.
LEMMA OwnedAlone ==
    ASSUME IInv, NEW a \in Addr, NEW r \in Ring, Known(a), conn[a].ring = r
    PROVE  /\ ~Queued(r) /\ ~Owing(r) /\ r \notin leaked /\ rings[r].cnx = a
           /\ QueueHome /\ OwedHome /\ QueueOne
           /\ \A q \in Ring, i, j \in DOMAIN owed : owed[i].db = q /\ owed[j].db = q => i = j
<1>. USE DEF IInv, Typed, Refs
<1>1. rings[r].cnx = a
  BY RingsAre DEF Home
<1>2. Owns(r)
  BY <1>1 DEF Owns
<1>3. Single(r)
  BY DEF Claims
<1>4. ~Queued(r) /\ ~Owing(r) /\ r \notin leaked
  BY <1>2, <1>3 DEF Single
<1>5. \A q \in Ring, i, j \in DOMAIN owed : owed[i].db = q /\ owed[j].db = q => i = j
  BY DEF Claims, Single
<1>. QED
  BY <1>1, <1>4, <1>5, HomeIs, ClaimsAre

\* The RELEASE is posted,
LEMMA ReleasePosted ==
    ASSUME IInv, NEW a \in Addr, NEW r \in Ring, Known(a), conn[a].ring = r,
           conn'[a] = NoConn, \A b \in Addr : b # a => conn'[b] = conn[b],
           UNCHANGED <<rings, table, phase, owed, leaked, txArmed>>, ~TxFull,
           txQ' = Append(txQ, Cmd("RELEASE", a, r))
    PROVE  TxTyped' /\ Refs'
<1>. USE DEF IInv, Typed, Refs
<1>. DEFINE c == Cmd("RELEASE", a, r)
            n == Len(txQ) + 1
<1>1. c \in CmdRec(Ring) /\ c.kind = "RELEASE" /\ c.cnx = a /\ c.db = r
  BY IsCmd DEF TxKinds
<1>2. /\ ~Queued(r) /\ ~Owing(r) /\ r \notin leaked /\ rings[r].cnx = a
      /\ QueueHome /\ OwedHome /\ QueueOne
      /\ \A q \in Ring, i, j \in DOMAIN owed : owed[i].db = q /\ owed[j].db = q => i = j
  BY OwnedAlone
<1>3. Ring' = Ring /\ RingsHome /\ (\A q \in Ring : rings'[q] = rings[q]) /\ r # NoRing
  BY RingsAre DEF Ring, RingsHome
<1>4. /\ txQ' \in Seq(CmdRec(Ring)) /\ Len(txQ) \in Nat /\ DOMAIN txQ = 1 .. Len(txQ)
      /\ Len(txQ') = Len(txQ) + 1 /\ DOMAIN txQ' = 1 .. Len(txQ) + 1
      /\ txQ'[n] = c /\ \A i \in DOMAIN txQ : txQ'[i] = txQ[i]
  <2>1. txQ \in Seq(CmdRec(Ring)) /\ txQ' = Append(txQ, c)
    BY DEF TxTyped
  <2>. HIDE DEF c
  <2>. QED
    BY <2>1, <1>1, OnAppend
<1>. HIDE DEF c
<1>5. TxTyped'
  <2>1. Len(txQ) + 1 <= TxCap
    <3>. DEFINE L == Len(txQ)
    <3>1. L \in Nat /\ L <= TxCap /\ L # TxCap /\ TxCap \in Nat
      BY <1>4, BoundsAssumption DEF TxTyped, TxFull
    <3>. HIDE DEF L
    <3>2. L + 1 <= TxCap
      BY <3>1
    <3>. QED
      BY <3>2 DEF L
  <2>. QED
    BY <2>1, <1>3, <1>4 DEF TxTyped
<1>6. /\ \A i \in DOMAIN txQ' : i \in DOMAIN txQ \/ i = n
      /\ n \in DOMAIN txQ' /\ n \notin DOMAIN txQ /\ \A i \in DOMAIN txQ : i \in DOMAIN txQ' /\ n > i
  BY <1>4
<1>7. PICK k : k = n
  OBVIOUS
<1>8. /\ \A i \in DOMAIN txQ' : i \in DOMAIN txQ \/ i = k
      /\ k \in DOMAIN txQ' /\ k \notin DOMAIN txQ
      /\ \A i \in DOMAIN txQ : i \in DOMAIN txQ' /\ k > i /\ txQ'[i] = txQ[i]
      /\ txQ'[k].kind = "RELEASE" /\ txQ'[k].cnx = a /\ txQ'[k].db = r
  BY <1>1, <1>4, <1>6, <1>7
<1>. HIDE DEF n
<1>9. /\ \A q, i : i \in DOMAIN txQ => (ReleaseAt(i, q)' <=> ReleaseAt(i, q))
      /\ \A q : ReleaseAt(k, q)' <=> q = r
  BY <1>8 DEF ReleaseAt
<1>10. \A q \in Ring : Queued(q)' <=> Queued(q) \/ q = r
  BY <1>8, <1>9 DEF Queued
<1>11. QueueOne'
  <2>1. ASSUME NEW q \in Ring, NEW i \in DOMAIN txQ', NEW j \in DOMAIN txQ',
               ReleaseAt(i, q)', ReleaseAt(j, q)'
        PROVE  i = j
    <3>1. CASE q = r
      BY <2>1, <3>1, <1>2, <1>8, <1>9 DEF Queued
    <3>2. CASE q # r
      BY <2>1, <3>2, <1>2, <1>8, <1>9 DEF QueueOne
    <3>. QED
      BY <3>1, <3>2
  <2>. QED
    BY <2>1, <1>3 DEF QueueOne
<1>12. QueueHome'
  <2>1. ASSUME NEW i \in DOMAIN txQ', txQ'[i].db # NoRing
        PROVE  rings'[txQ'[i].db].cnx = txQ'[i].cnx
    <3>1. CASE i = k
      BY <3>1, <1>2, <1>8
    <3>2. CASE i # k
      BY <2>1, <3>2, <1>2, <1>8 DEF QueueHome
    <3>. QED
      BY <3>1, <3>2
  <2>. QED
    BY <2>1 DEF QueueHome
<1>13. OwedHome' /\ \A q \in Ring : Owing(q)' <=> Owing(q)
  BY <1>2 DEF OwedHome, Owing
<1>14. ASSUME NEW i \in DOMAIN txQ', NEW q \in Ring, txQ'[i].kind = "MARK", txQ'[i].db = q
       PROVE  /\ i \in DOMAIN txQ /\ txQ[i].kind = "MARK" /\ txQ[i].db = q
              /\ Behind(i, q) => Behind(i, q)'
              /\ q = r /\ Queued(r)' => Behind(i, r)'
  <2>1. i \in DOMAIN txQ /\ txQ[i].kind = "MARK" /\ txQ[i].db = q /\ k > i
    BY <1>8, <1>14
  <2>2. Behind(i, q) => Behind(i, q)'
    BY <1>8, <1>9 DEF Behind
  <2>3. Behind(i, r)'
    BY <2>1, <1>8, <1>9 DEF Behind
  <2>. QED
    BY <2>1, <2>2, <2>3
<1>15. /\ \A q \in Ring : q # r => /\ Queued(q)' <=> Queued(q)
                                   /\ Owing(q)' <=> Owing(q)
                                   /\ q \in leaked' <=> q \in leaked
       /\ Queued(r)' /\ ~Owing(r)' /\ r \notin leaked'
       /\ \A q \in Ring, i, j \in DOMAIN owed' : owed'[i].db = q /\ owed'[j].db = q => i = j
  BY <1>2, <1>10, <1>13
<1>16. Refs'
  <2>1. UNCHANGED <<rings, table, phase>>
    OBVIOUS
  <2>. QED
    BY <2>1, <1>11, <1>12, <1>13, <1>14, <1>15, RingPassedOn
<1>. QED
  BY <1>5, <1>16

\* or owed,
LEMMA ReleaseOwed ==
    ASSUME IInv, NEW a \in Addr, NEW r \in Ring, Known(a), conn[a].ring = r,
           conn'[a] = NoConn, \A b \in Addr : b # a => conn'[b] = conn[b],
           UNCHANGED <<rings, table, phase, txQ, leaked>>,
           owed' = Append(owed, [cnx |-> a, db |-> r])
    PROVE  owed' \in Seq(OwedRec) /\ Refs'
<1>. USE DEF IInv, Typed, Refs
<1>. DEFINE c == [cnx |-> a, db |-> r]
            n == Len(owed) + 1
<1>1. c \in OwedRec /\ c.cnx = a /\ c.db = r
  BY DEF OwedRec
<1>2. /\ ~Queued(r) /\ ~Owing(r) /\ r \notin leaked /\ rings[r].cnx = a
      /\ QueueHome /\ OwedHome /\ QueueOne
      /\ \A q \in Ring, i, j \in DOMAIN owed : owed[i].db = q /\ owed[j].db = q => i = j
  BY OwnedAlone
<1>3. Ring' = Ring /\ RingsHome /\ (\A q \in Ring : rings'[q] = rings[q])
  BY DEF Ring, RingsHome
<1>4. /\ owed' \in Seq(OwedRec) /\ Len(owed) \in Nat /\ DOMAIN owed = 1 .. Len(owed)
      /\ DOMAIN owed' = 1 .. Len(owed) + 1
      /\ owed'[n] = c /\ \A i \in DOMAIN owed : owed'[i] = owed[i]
  <2>1. owed \in Seq(OwedRec) /\ owed' = Append(owed, c)
    BY DEF LoopTyped, OwedRec
  <2>. HIDE DEF c
  <2>. QED
    BY <2>1, <1>1, OnAppend
<1>. HIDE DEF c
<1>5. /\ \A i \in DOMAIN owed' : i \in DOMAIN owed \/ i = n
      /\ n \in DOMAIN owed' /\ n \notin DOMAIN owed /\ \A i \in DOMAIN owed : i \in DOMAIN owed'
  BY <1>4
<1>6. PICK k : k = n
  OBVIOUS
<1>7. /\ \A i \in DOMAIN owed' : i \in DOMAIN owed \/ i = k
      /\ k \in DOMAIN owed' /\ k \notin DOMAIN owed
      /\ \A i \in DOMAIN owed : i \in DOMAIN owed' /\ owed'[i] = owed[i]
      /\ owed'[k].cnx = a /\ owed'[k].db = r
  BY <1>1, <1>4, <1>5, <1>6
<1>. HIDE DEF n
<1>8. \A q \in Ring : Owing(q)' <=> Owing(q) \/ q = r
  BY <1>7 DEF Owing
<1>9. OwedHome'
  <2>1. ASSUME NEW i \in DOMAIN owed' PROVE rings'[owed'[i].db].cnx = owed'[i].cnx
    <3>1. CASE i = k
      BY <3>1, <1>2, <1>7
    <3>2. CASE i # k
      BY <3>2, <1>2, <1>7 DEF OwedHome
    <3>. QED
      BY <3>1, <3>2
  <2>. QED
    BY <2>1 DEF OwedHome
<1>10. ASSUME NEW q \in Ring, NEW i \in DOMAIN owed', NEW j \in DOMAIN owed',
              owed'[i].db = q, owed'[j].db = q
       PROVE  i = j
  <2>1. CASE q = r
    BY <2>1, <1>2, <1>7, <1>10 DEF Owing
  <2>2. CASE q # r
    BY <2>2, <1>2, <1>7, <1>10
  <2>. QED
    BY <2>1, <2>2
<1>11. /\ QueueHome' /\ QueueOne' /\ (\A q \in Ring : Queued(q)' <=> Queued(q))
       /\ \A i \in DOMAIN txQ, q \in Ring : Behind(i, q)' <=> Behind(i, q)
  BY <1>2, <1>3, QueueSame
<1>12. /\ \A q \in Ring : q # r => /\ Queued(q)' <=> Queued(q)
                                   /\ Owing(q)' <=> Owing(q)
                                   /\ q \in leaked' <=> q \in leaked
       /\ ~Queued(r)' /\ Owing(r)' /\ r \notin leaked'
  BY <1>2, <1>8, <1>11
<1>13. Refs'
  <2>1. UNCHANGED <<rings, table, phase>> /\ txQ' = txQ
    OBVIOUS
  <2>. QED
    BY <2>1, <1>9, <1>10, <1>11, <1>12, RingPassedOn
<1>. QED
  BY <1>4, <1>13

\* or nobody's.
LEMMA ReleaseLost ==
    ASSUME IInv, NEW a \in Addr, NEW r \in Ring, Known(a), conn[a].ring = r,
           conn'[a] = NoConn, \A b \in Addr : b # a => conn'[b] = conn[b],
           UNCHANGED <<rings, table, phase, txQ, owed>>, leaked' = leaked \cup {r}
    PROVE  leaked' \subseteq Ring /\ Refs'
<1>. USE DEF IInv, Typed, Refs
<1>1. leaked' \subseteq Ring
  BY DEF LoopTyped
<1>2. /\ ~Queued(r) /\ ~Owing(r) /\ r \notin leaked /\ rings[r].cnx = a
      /\ QueueHome /\ OwedHome /\ QueueOne
      /\ \A q \in Ring, i, j \in DOMAIN owed : owed[i].db = q /\ owed[j].db = q => i = j
  BY OwnedAlone
<1>3. Ring' = Ring /\ RingsHome
  BY DEF Ring, RingsHome
<1>4. /\ QueueHome' /\ QueueOne' /\ (\A q \in Ring : Queued(q)' <=> Queued(q))
      /\ \A i \in DOMAIN txQ, q \in Ring : Behind(i, q)' <=> Behind(i, q)
  BY <1>2, <1>3, QueueSame
<1>5. OwedHome' /\ \A q \in Ring : Owing(q)' <=> Owing(q)
  BY <1>2 DEF OwedHome, Owing
<1>6. /\ \A q \in Ring : q # r => /\ Queued(q)' <=> Queued(q)
                                  /\ Owing(q)' <=> Owing(q)
                                  /\ q \in leaked' <=> q \in leaked
      /\ ~Queued(r)' /\ ~Owing(r)' /\ r \in leaked'
      /\ \A q \in Ring, i, j \in DOMAIN owed' : owed'[i].db = q /\ owed'[j].db = q => i = j
  BY <1>2, <1>4, <1>5
<1>7. Refs'
  <2>1. UNCHANGED <<rings, table, phase>> /\ txQ' = txQ
    OBVIOUS
  <2>. QED
    BY <2>1, <1>4, <1>5, <1>6, RingPassedOn
<1>. QED
  BY <1>1, <1>7

\* A sequence is its elements.
LEMMA SeqSame ==
    ASSUME NEW T, NEW s \in Seq(T), NEW u \in Seq(T), DOMAIN s = DOMAIN u,
           \A i \in DOMAIN s : s[i] = u[i]
    PROVE  s = u
  OBVIOUS

\* A full ring takes nothing: the flush leaves the debts as they are.
LEMMA FullFlush ==
    ASSUME TxTyped, NEW o \in Seq(OwedRec), Flush(txQ, o), TxFull
    PROVE  txQ' = txQ /\ owed' = o /\ txArmed' \in BOOLEAN
<1>1. /\ Flushed(o, Fits(txQ, o)) /\ Fits(txQ, o) = 0
      /\ txQ' \in Seq(CmdRec(Ring)) /\ txArmed' \in BOOLEAN /\ owed' \in Seq(OwedRec)
  BY FlushIs
<1>2. Flushed(o, 0)
  BY <1>1
<1>3. /\ Len(o) \in Nat /\ Len(txQ) \in Nat
      /\ DOMAIN txQ = 1 .. Len(txQ) /\ DOMAIN o = 1 .. Len(o)
      /\ DOMAIN txQ' = 1 .. Len(txQ) + 0 /\ DOMAIN owed' = 1 .. Len(o) - 0
      /\ \A i \in DOMAIN txQ : txQ'[i] = txQ[i]
      /\ \A i \in DOMAIN owed' : owed'[i] = o[0 + i]
  BY <1>2 DEF Flushed
<1>4. DOMAIN txQ' = DOMAIN txQ /\ DOMAIN owed' = DOMAIN o /\ \A i \in DOMAIN owed' : owed'[i] = o[i]
  BY <1>3
<1>5. txQ \in Seq(CmdRec(Ring))
  BY DEF TxTyped
<1>6. txQ' = txQ
  BY <1>1, <1>3, <1>4, <1>5, SeqSame
<1>7. owed' = o
  BY <1>1, <1>4, SeqSame
<1>. QED
  BY <1>1, <1>6, <1>7

\* A close event: the ring is released, owed or lost.
LEMMA RouteCloseStep ==
    ASSUME IInv, RouteClose
    PROVE  IInv' /\ rings' = rings
<1>. USE DEF IInv, Typed
<1>1. /\ Routes(Closes) /\ conn' = [conn EXCEPT ![batch[1].cnx] = NoConn]
      /\ ReleaseRing(batch[1].cnx, IF Known(batch[1].cnx) THEN conn[batch[1].cnx].ring ELSE NoRing)
  BY DEF RouteClose, Ev
<1>2. /\ phase' = phase /\ UNCHANGED workerState /\ rings' = rings /\ Ring' = Ring
      /\ batch[1].cnx \in Addr
  BY <1>1, RoutesIs
<1>3. PICK a \in Addr : a = batch[1].cnx
  BY <1>2
<1>4. PICK r : r = IF Known(a) THEN conn[a].ring ELSE NoRing
  OBVIOUS
<1>5. conn' = [conn EXCEPT ![a] = NoConn] /\ ReleaseRing(a, r)
  BY <1>1, <1>3, <1>4
<1>6. /\ conn'[a] = NoConn /\ (\A b \in Addr : b # a => conn'[b] = conn[b])
      /\ conn' \in [Addr -> {NoConn} \cup ConnRec(Ring)]
  <2>1. /\ conn'[a] = NoConn /\ (\A b \in Addr : b # a => conn'[b] = conn[b])
        /\ \A R : NoConn \in {NoConn} \cup ConnRec(R) /\ Ring \subseteq R =>
               conn' \in [Addr -> {NoConn} \cup ConnRec(R)]
    BY <1>5, ConnStep
  <2>. QED
    BY <2>1
<1>7. /\ UNCHANGED <<rings, table, phase>> /\ (r # NoRing => r \in Ring /\ Known(a) /\ conn[a].ring = r)
      /\ (r = NoRing => ~Known(a) \/ conn[a].ring = NoRing)
  BY <1>2, <1>4, LoopIdles, KnownIs DEF workerState
<1>8. /\ TxTyped' /\ owed' \in Seq(OwedRec) /\ leaked' \subseteq Ring /\ Refs'
      /\ failed' \in BOOLEAN /\ (failed => failed') /\ left' \in [Inputs -> Nat]
  <2>0. /\ owed \in Seq(OwedRec) /\ leaked \subseteq Ring /\ failed \in BOOLEAN
        /\ left \in [Inputs -> Nat]
    BY LoopIdles DEF LoopTyped, OwedRec, WorkerTyped
  <2>1. CASE r = NoRing /\ UNCHANGED <<txQ, txArmed, owed, leaked, stillFed>>
    <3>1. UNCHANGED <<rings, table, txQ, owed, leaked, phase>> /\ TxTyped'
      BY <2>1, <1>2, <1>7 DEF TxTyped
    <3>2. Refs'
      BY <3>1, <2>1, <1>6, <1>7, RefsApart
    <3>. QED
      BY <2>0, <2>1, <3>1, <3>2 DEF stillFed
  <2>2. CASE /\ r # NoRing /\ ~TxFull /\ ReleasePost(a, r)
             /\ UNCHANGED <<txArmed, owed, leaked, stillFed>>
    <3>1. /\ txQ' = Append(txQ, Cmd("RELEASE", a, r))
          /\ UNCHANGED <<rings, table, phase, owed, leaked, txArmed>>
      BY <2>2, <1>7 DEF ReleasePost
    <3>2. TxTyped' /\ Refs'
      BY <3>1, <2>2, <1>6, <1>7, ReleasePosted
    <3>. QED
      BY <2>0, <2>2, <3>2 DEF stillFed
  <2>3. CASE /\ r # NoRing /\ TxFull /\ Flush(txQ, Append(owed, [cnx |-> a, db |-> r]))
             /\ UNCHANGED <<leaked, stillFed>>
    <3>. DEFINE c == [cnx |-> a, db |-> r]
                o == Append(owed, c)
    <3>1. c \in OwedRec
      BY <2>3, <1>7 DEF OwedRec
    <3>2. Flush(txQ, o)
      BY <2>3
    <3>. HIDE DEF c
    <3>3. o \in Seq(OwedRec)
      BY <2>0, <3>1
    <3>. HIDE DEF o
    <3>4. txQ' = txQ /\ owed' = o /\ txArmed' \in BOOLEAN
      BY <2>3, <3>2, <3>3, FullFlush
    <3>5. owed' = Append(owed, [cnx |-> a, db |-> r])
      BY <3>4 DEF o, c
    <3>6. UNCHANGED <<rings, table, phase, txQ, leaked>>
      BY <2>3, <3>4, <1>7
    <3>7. owed' \in Seq(OwedRec) /\ Refs'
      BY <3>5, <3>6, <2>3, <1>6, <1>7, ReleaseOwed
    <3>8. TxTyped'
      BY <3>4, <1>2 DEF TxTyped
    <3>. QED
      BY <2>0, <2>3, <3>7, <3>8 DEF stillFed
  <2>4. CASE /\ r # NoRing /\ TxFull /\ Fail /\ leaked' = leaked \cup {r}
             /\ UNCHANGED <<txQ, txArmed, owed>>
    <3>1. UNCHANGED <<rings, table, phase, txQ, owed>> /\ TxTyped'
      BY <2>4, <1>2, <1>7 DEF TxTyped
    <3>2. leaked' \subseteq Ring /\ Refs'
      BY <3>1, <2>4, <1>6, <1>7, ReleaseLost
    <3>3. left' \in [Inputs -> Nat] /\ failed' = TRUE
      BY <2>0, <2>4, FailIs
    <3>. QED
      BY <2>0, <2>4, <3>1, <3>2, <3>3
  <2>. QED
    BY <1>5, <2>1, <2>2, <2>3, <2>4 DEF ReleaseRing
<1>9. IInv'
  BY <1>1, <1>3, <1>6, <1>8, RouteStep
<1>. QED
  BY <1>2, <1>9

-----------------------------------------------------------------------------
(* The release of the transport, after the worker.                         *)

\* What one of its steps leaves in order.
LEMMA StopStep ==
    ASSUME IInv, phase = "stopped", phase' \in {"stopped", "freed"},
           UNCHANGED <<gen, w, reset, txArmed, py, batch, p, toClose, leaked, failed, left>>,
           cnx' \in [Addr -> {"none", "up", "closing", "final"}], active' \subseteq Addr,
           \A b \in Addr : cnx'[b] # "none" => cnx[b] # "none",
           \/ rxQ' = rxQ
           \/ \E e \in RxRec : /\ rxQ' = Append(rxQ, e)
                               /\ e.cnx \in Addr => e.gen = gen[e.cnx],
           RefsOnly, RingsTyped', TableTyped', TxTyped', owed' \in Seq(OwedRec),
           conn' \in [Addr -> {NoConn} \cup ConnRec(Ring)],
           \A b \in Addr : conn'[b] = conn[b] \/ conn'[b] = NoConn,
           Home', TableHome', Claims', Counts'
    PROVE  IInv'
<1>. USE DEF IInv, Typed
<1>1. p = Idle /\ w = Idle /\ toClose = {} /\ Ring' = Ring
  BY DEF Busy, RefsOnly
<1>2. RxTyped' /\ \A b \in Addr : Wake(b) => Wake(b)'
  <2>1. CASE rxQ' = rxQ
    BY <2>1 DEF RxTyped, Wake, WakeIn
  <2>2. CASE \E e \in RxRec : rxQ' = Append(rxQ, e)
    <3>1. PICK e \in RxRec : rxQ' = Append(rxQ, e)
      BY <2>2
    <3>. QED
      BY <3>1, RxPosted
  <2>. QED
    BY <2>1, <2>2
<1>3. WorkerTyped'
  BY <1>1 DEF WorkerTyped
<1>4. LoopTyped'
  <2>1. owed' \in Seq([cnx : Addr, db : Ring'])
    BY <1>1 DEF OwedRec
  <2>. QED
    BY <2>1, <1>1 DEF LoopTyped
<1>5. Busy'
  BY <1>1 DEF Busy
<1>6. Gens'
  BY GensKept
<1>7. Marks' /\ Ends'
  BY DEF Marks, Ends
<1>8. FewerKnown
  BY DEF FewerKnown, Known
<1>9. Parked'
  <2>1. /\ \A r \in Ring : PopToCome(r) => PopToCome(r)'
        /\ \A r \in Ring : rings[r].armed => rings'[r].armed
    BY PopKept
  <2>2. \A b \in Addr : Known(b)' /\ conn'[b].parked =>
            Known(b) /\ conn[b].parked /\ conn'[b].ring = conn[b].ring
    BY DEF Known
  <2>3. p' = Idle
    BY <1>1
  <2>. QED
    BY <2>1, <2>2, <2>3, <1>2, RingsInUse, ParkedKept
<1>10. Agree'
  <2>1. \A r \in Ring : rings'[r].cnx = rings[r].cnx /\ rings'[r].owner = rings[r].owner
    BY DEF RefsOnly
  <2>. QED
    BY <2>1, <1>1, <1>8, AgreeStill
<1>. QED
  BY <1>2, <1>3, <1>4, <1>5, <1>6, <1>7, <1>9, <1>10 DEF Refs

\* A release takes the claim on r and its entry.
LEMMA ClaimDropped ==
    ASSUME IInv, NEW a \in Addr, NEW r \in Ring, table' = TableRemove(table, a, r),
           rings' = DropRefs(rings, table, a, r), Claimed(r),
           \A q \in Ring : Claimed(q)' <=> Claimed(q) /\ q # r
    PROVE  RingsTyped' /\ RefsOnly /\ RingsHome /\ TableTyped' /\ TableHome' /\ Counts'
<1>. USE DEF IInv, Typed
<1>. DEFINE x == Removed(table, a, r)
<1>1. /\ RingsTyped' /\ RefsOnly /\ RingsHome
      /\ \A q \in Ring : rings'[q].refs = rings[q].refs - B(q = x) - B(q = r)
  BY Dropped
<1>2. /\ TableTyped' /\ TableHome'
      /\ \A q \in Ring : q = x => Has(table, rings[q].cnx, q)
      /\ \A q \in Ring : Has(table', rings'[q].cnx, q) <=> Has(table, rings[q].cnx, q) /\ q # x
  BY <1>1, EntryGone DEF Refs
<1>. HIDE DEF x
<1>3. Counts'
  <2>1. ASSUME NEW q \in Ring
        PROVE  rings'[q].refs = B(Claimed(q))' + B(Has(table', rings'[q].cnx, q))
    <3>1. rings[q].refs = B(Claimed(q)) + B(Has(table, rings[q].cnx, q))
      BY DEF Refs, Counts
    <3>2. (Claimed(q)' <=> Claimed(q) /\ q # r) /\ (q = r => Claimed(q))
      OBVIOUS
    <3>. QED
      BY <3>1, <3>2, <1>1, <1>2 DEF B
  <2>. QED
    BY <2>1, <1>1 DEF Counts, RingsHome
<1>. QED
  BY <1>1, <1>2, <1>3

\* The RELEASE the worker did not come to, in turn.
LEMMA SweepQueuedStep ==
    ASSUME IInv, SweepQueued
    PROVE  IInv' /\ RefsOnly
<1>. USE DEF IInv, Typed, Refs
<1>1. Len(txQ) \in Nat /\ DOMAIN txQ = 1 .. Len(txQ) /\ \A i \in DOMAIN txQ : txQ[i] \in CmdRec(Ring)
  BY DEF TxTyped
<1>2. Min(Undrained) \in Undrained
  <2>1. Undrained \in SUBSET Nat /\ Undrained # {}
    BY <1>1 DEF Undrained, SweepQueued
  <2>. QED
    BY <2>1, MinIs
<1>3. PICK i \in DOMAIN txQ : i = Min(Undrained)
  BY <1>2 DEF Undrained
<1>4. txQ[i].kind = "RELEASE" /\ txQ[i].db # NoRing
  BY <1>2, <1>3 DEF Undrained
<1>5. txQ[i].cnx \in Addr /\ txQ[i].db \in Ring
  BY <1>1, <1>4, CmdIs
<1>6. PICK a \in Addr, r \in Ring : a = txQ[i].cnx /\ r = txQ[i].db
  BY <1>5
<1>. DEFINE c == [txQ[i] EXCEPT !.db = NoRing]
<1>7. /\ phase = "stopped" /\ table' = TableRemove(table, a, r)
      /\ rings' = DropRefs(rings, table, a, r) /\ txQ' = [txQ EXCEPT ![i] = c]
      /\ UNCHANGED <<cnx, active, rxQ, owed, conn, stopIdle>>
  <2>1. /\ table' = DropTable(table, txQ[i].cnx, txQ[i].db)
        /\ rings' = DropRefs(rings, table, txQ[i].cnx, txQ[i].db)
        /\ txQ' = [txQ EXCEPT ![i].db = NoRing]
    BY <1>3 DEF SweepQueued
  <2>2. phase = "stopped" /\ UNCHANGED <<cnx, active, rxQ, owed, conn, stopIdle>>
    BY DEF SweepQueued
  <2>. QED
    BY <2>1, <2>2, <1>6 DEF DropTable
<1>8. /\ UNCHANGED <<gen, w, reset, txArmed, py, batch, p, toClose, leaked, failed, left>>
      /\ phase' = phase /\ cnx' = cnx /\ active' = active /\ rxQ' = rxQ /\ owed' = owed
      /\ conn' = conn
  BY <1>7 DEF stopIdle, stillFed
<1>9. c \in CmdRec(Ring) /\ c.kind = "RELEASE" /\ c.db = NoRing
  <2>1. txQ[i] \in CmdRec(Ring)
    BY <1>1
  <2>. QED
    BY <2>1, <1>4, <1>5 DEF CmdRec
<1>. HIDE DEF c
<1>10. /\ txQ' \in Seq(CmdRec(Ring)) /\ Len(txQ') = Len(txQ) /\ DOMAIN txQ' = DOMAIN txQ
       /\ txQ'[i] = c /\ \A j \in DOMAIN txQ : j # i => txQ'[j] = txQ[j]
  BY <1>7, <1>9 DEF TxTyped
<1>11. QueueOne /\ ConnHome /\ QueueHome /\ OwedHome /\ Claimed(r)
  BY <1>4, <1>6, HomeIs, ClaimsAre DEF Claimed, Queued, ReleaseAt
<1>12. \A j \in DOMAIN txQ, q \in Ring : ReleaseAt(j, q)' <=> ReleaseAt(j, q) /\ j # i
  <2>1. NoRing \notin Ring
    BY RingsAre
  <2>. QED
    BY <2>1, <1>9, <1>10 DEF ReleaseAt
<1>13. ReleaseAt(i, r) /\ \A q \in Ring : ReleaseAt(i, q) => q = r
  BY <1>4, <1>6 DEF ReleaseAt
<1>14. \A q \in Ring : Queued(q)' <=> Queued(q) /\ q # r
  <2>1. ASSUME NEW q \in Ring PROVE Queued(q)' <=> Queued(q) /\ q # r
    <3>1. Queued(q)' <=> \E j \in DOMAIN txQ : ReleaseAt(j, q) /\ j # i
      BY <1>10, <1>12 DEF Queued
    <3>. QED
      BY <3>1, <1>11, <1>13 DEF Queued, QueueOne
  <2>. QED
    BY <2>1
<1>15. RingsHome /\ Ring' = Ring /\ RefsOnly
  BY <1>6, <1>7, Dropped DEF RefsOnly
<1>16. ConnSame
  BY <1>8 DEF ConnSame, Known
<1>17. \A q \in Ring : Owns(q)' <=> Owns(q)
  BY <1>15, <1>16, OwnsSame
<1>18. QueueOne'
  BY <1>10, <1>11, <1>12, <1>15 DEF QueueOne
<1>19. /\ Claims' /\ \A q \in Ring : Owing(q)' <=> Owing(q)
  BY <1>8, <1>14, <1>15, <1>17, <1>18, ClaimsKept
<1>20. \A q \in Ring : Claimed(q)' <=> Claimed(q) /\ q # r
  <2>1. ASSUME NEW q \in Ring PROVE Claimed(q)' <=> Claimed(q) /\ q # r
    <3>1. CASE q = r
      <4>1. Single(r) /\ Queued(r)
        BY <1>13 DEF Claims, Queued
      <4>2. ~Owns(r) /\ ~Owing(r) /\ r \notin leaked
        BY <4>1 DEF Single
      <4>. QED
        BY <3>1, <4>2, <1>8, <1>14, <1>17, <1>19 DEF Claimed
    <3>2. CASE q # r
      BY <3>2, <1>8, <1>14, <1>17, <1>19 DEF Claimed
    <3>. QED
      BY <3>1, <3>2
  <2>. QED
    BY <2>1
<1>21. RingsTyped' /\ TableTyped' /\ TableHome' /\ Counts'
  BY <1>7, <1>11, <1>20, ClaimDropped
<1>22. Home'
  <2>1. ConnHome'
    BY <1>11, <1>15, <1>16, ConnHomeKept
  <2>2. OwedHome'
    BY <1>8, <1>11, <1>15, OwedHomeKept
  <2>3. QueueHome'
    <3>1. ASSUME NEW j \in DOMAIN txQ', txQ'[j].db # NoRing
          PROVE  rings'[txQ'[j].db].cnx = txQ'[j].cnx
      <4>1. j \in DOMAIN txQ /\ j # i /\ txQ'[j] = txQ[j]
        BY <3>1, <1>9, <1>10
      <4>2. txQ[j].db \in Ring
        BY <3>1, <4>1, <1>1, CmdIs
      <4>. QED
        BY <3>1, <4>1, <4>2, <1>11, <1>15 DEF QueueHome, RingsHome
    <3>. QED
      BY <3>1 DEF QueueHome
  <2>4. Home' <=> ConnHome' /\ QueueHome' /\ OwedHome'
    BY DEF Home, ConnHome, QueueHome, OwedHome
  <2>. QED
    BY <2>1, <2>2, <2>3, <2>4
<1>23. TxTyped'
  BY <1>8, <1>10, <1>15 DEF TxTyped
<1>24. /\ owed' \in Seq(OwedRec) /\ conn' \in [Addr -> {NoConn} \cup ConnRec(Ring)]
       /\ cnx' \in [Addr -> {"none", "up", "closing", "final"}] /\ active' \subseteq Addr
       /\ \A b \in Addr : cnx'[b] # "none" => cnx[b] # "none"
       /\ \A b \in Addr : conn'[b] = conn[b] \/ conn'[b] = NoConn
       /\ phase' \in {"stopped", "freed"}
  BY <1>7, <1>8 DEF LoopTyped, WorkerTyped, OwedRec
<1>25. IInv'
  BY <1>7, <1>8, <1>15, <1>19, <1>21, <1>22, <1>23, <1>24, StopStep
<1>. QED
  BY <1>15, <1>25

\* A RELEASE that was still owed.
LEMMA SweepOwedStep ==
    ASSUME IInv, SweepOwed
    PROVE  IInv' /\ RefsOnly
<1>. USE DEF IInv, Typed, Refs
<1>1. /\ phase = "stopped" /\ owed # <<>> /\ owed' = Tail(owed)
      /\ table' = TableRemove(table, owed[1].cnx, owed[1].db)
      /\ rings' = DropRefs(rings, table, owed[1].cnx, owed[1].db)
      /\ UNCHANGED <<gen, w, reset, txArmed, py, batch, p, toClose, leaked, failed, left>>
      /\ phase' = phase /\ cnx' = cnx /\ active' = active /\ rxQ' = rxQ /\ txQ' = txQ
      /\ conn' = conn
  BY DEF SweepOwed, DropTable, stopIdle, stillFed
<1>2. /\ owed' \in Seq(OwedRec) /\ Len(owed) \in Nat \ {0}
      /\ DOMAIN owed = 1 .. Len(owed) /\ DOMAIN owed' = 1 .. Len(owed) - 1
      /\ owed[1] \in OwedRec /\ \A i \in DOMAIN owed' : owed'[i] = owed[i + 1]
  <2>1. owed \in Seq(OwedRec)
    BY DEF LoopTyped, OwedRec
  <2>. QED
    BY <2>1, <1>1, OnTail
<1>3. owed[1].cnx \in Addr /\ owed[1].db \in Ring
  BY <1>2 DEF OwedRec
<1>4. PICK a \in Addr, r \in Ring : a = owed[1].cnx /\ r = owed[1].db
  BY <1>3
<1>5. table' = TableRemove(table, a, r) /\ rings' = DropRefs(rings, table, a, r)
  BY <1>1, <1>4
<1>6. /\ 1 \in DOMAIN owed /\ \A i \in DOMAIN owed' : i + 1 \in DOMAIN owed /\ i + 1 # 1
      /\ \A j \in DOMAIN owed : j # 1 => j - 1 \in DOMAIN owed' /\ owed'[j - 1] = owed[j]
  <2>1. ASSUME NEW j \in DOMAIN owed, j # 1
        PROVE  j - 1 \in DOMAIN owed' /\ owed'[j - 1] = owed[j]
    <3>1. j - 1 \in 1 .. Len(owed) - 1 /\ (j - 1) + 1 = j
      BY <1>2, <2>1
    <3>. QED
      BY <3>1, <1>2
  <2>2. 1 \in DOMAIN owed /\ \A i \in DOMAIN owed' : i + 1 \in DOMAIN owed /\ i + 1 # 1
    BY <1>2
  <2>. QED
    BY <2>1, <2>2
<1>7. QueueOne /\ ConnHome /\ QueueHome /\ OwedHome
  BY HomeIs, ClaimsAre
<1>8. Owing(r) /\ Claimed(r)
  BY <1>4, <1>6 DEF Owing, Claimed
<1>9. RingsHome /\ Ring' = Ring /\ RefsOnly
  BY <1>4, <1>5, Dropped DEF RefsOnly
<1>10. ConnSame
  BY <1>1 DEF ConnSame, Known
<1>11. \A q \in Ring : Owns(q)' <=> Owns(q)
  BY <1>9, <1>10, OwnsSame
<1>12. ASSUME NEW q \in Ring PROVE Owing(q)' <=> Owing(q) /\ q # r
  <2>1. Single(q)
    BY DEF Claims
  <2>2. \A i, j \in DOMAIN owed : owed[i].db = q /\ owed[j].db = q => i = j
    BY <2>1 DEF Single
  <2>. QED
    BY <2>2, <1>2, <1>4, <1>6 DEF Owing
<1>13. /\ QueueHome' /\ QueueOne' /\ \A q \in Ring : Queued(q)' <=> Queued(q)
  BY <1>1, <1>7, <1>9, QueueSame
<1>14. Claims'
  <2>1. ASSUME NEW q \in Ring PROVE Single(q)'
    <3>1. Single(q)
      BY DEF Claims
    <3>2. /\ ~(Owns(q) /\ Queued(q)) /\ ~(Owns(q) /\ Owing(q)) /\ ~(Owns(q) /\ q \in leaked)
          /\ ~(Queued(q) /\ Owing(q)) /\ ~(Queued(q) /\ q \in leaked)
          /\ ~(Owing(q) /\ q \in leaked)
          /\ \A i, j \in DOMAIN owed : owed[i].db = q /\ owed[j].db = q => i = j
      BY <3>1 DEF Single
    <3>3. \A i, j \in DOMAIN txQ' : ReleaseAt(i, q)' /\ ReleaseAt(j, q)' => i = j
      BY <1>9, <1>13 DEF QueueOne
    <3>4. ASSUME NEW i \in DOMAIN owed', NEW j \in DOMAIN owed', owed'[i].db = q, owed'[j].db = q
          PROVE  i = j
      <4>1. i + 1 = j + 1
        BY <3>2, <3>4, <1>2, <1>6
      <4>. QED
        BY <4>1, <1>2
    <3>. QED
      BY <3>2, <3>3, <3>4, <1>1, <1>11, <1>12, <1>13 DEF Single
  <2>. QED
    BY <2>1, <1>9 DEF Claims
<1>15. \A q \in Ring : Claimed(q)' <=> Claimed(q) /\ q # r
  <2>1. ASSUME NEW q \in Ring PROVE Claimed(q)' <=> Claimed(q) /\ q # r
    <3>1. CASE q = r
      <4>1. Single(r)
        BY DEF Claims
      <4>2. ~Owns(r) /\ ~Queued(r) /\ r \notin leaked
        BY <4>1, <1>8 DEF Single
      <4>. QED
        BY <3>1, <4>2, <1>1, <1>11, <1>12, <1>13 DEF Claimed
    <3>2. CASE q # r
      BY <3>2, <1>1, <1>11, <1>12, <1>13 DEF Claimed
    <3>. QED
      BY <3>1, <3>2
  <2>. QED
    BY <2>1
<1>16. RingsTyped' /\ TableTyped' /\ TableHome' /\ Counts'
  BY <1>5, <1>8, <1>15, ClaimDropped
<1>17. Home'
  <2>1. ConnHome'
    BY <1>7, <1>9, <1>10, ConnHomeKept
  <2>2. OwedHome'
    <3>1. ASSUME NEW i \in DOMAIN owed' PROVE rings'[owed'[i].db].cnx = owed'[i].cnx
      <4>1. owed'[i] = owed[i + 1] /\ i + 1 \in DOMAIN owed
        BY <1>2, <1>6
      <4>2. owed[i + 1].db \in Ring
        BY <4>1, OwedIs
      <4>. QED
        BY <4>1, <4>2, <1>7, <1>9 DEF OwedHome, RingsHome
    <3>. QED
      BY <3>1 DEF OwedHome
  <2>3. Home' <=> ConnHome' /\ QueueHome' /\ OwedHome'
    BY DEF Home, ConnHome, QueueHome, OwedHome
  <2>. QED
    BY <2>1, <2>2, <2>3, <1>13
<1>18. TxTyped'
  BY <1>1, <1>9 DEF TxTyped
<1>19. /\ conn' \in [Addr -> {NoConn} \cup ConnRec(Ring)]
       /\ cnx' \in [Addr -> {"none", "up", "closing", "final"}] /\ active' \subseteq Addr
       /\ \A b \in Addr : cnx'[b] # "none" => cnx[b] # "none"
       /\ \A b \in Addr : conn'[b] = conn[b] \/ conn'[b] = NoConn
       /\ phase' \in {"stopped", "freed"}
  BY <1>1 DEF LoopTyped, WorkerTyped
<1>20. IInv'
  BY <1>1, <1>2, <1>9, <1>14, <1>16, <1>17, <1>18, <1>19, StopStep
<1>. QED
  BY <1>9, <1>20

\* picoquic_free.
LEMMA FreeStep ==
    ASSUME IInv, NEW a \in Addr, Free(a)
    PROVE  IInv' /\ RefsOnly
<1>. USE DEF IInv, Typed
<1>1. /\ phase = "stopped" /\ phase' = phase /\ cnx[a] # "none"
      /\ cnx' = [cnx EXCEPT ![a] = "none"] /\ active' = active \ {a}
      /\ UNCHANGED <<gen, w, reset, txArmed, py, batch, p, toClose, leaked, failed, left>>
      /\ UNCHANGED loopState /\ owed' = owed /\ conn' = conn
  BY DEF Free, Swept, stopIdle, stillFed, loopState
<1>2. /\ LoopTyped' /\ TxTyped' /\ RingsTyped' /\ TableTyped' /\ Refs' /\ RefsOnly
  <2>1. CASE cnx[a] = "final"
    <3>1. UNCHANGED <<rings, table>>
      BY <2>1 DEF Free
    <3>. QED
      BY <3>1, <1>1, RingsStay
  <2>2. CASE cnx[a] # "final"
    <3>1. /\ table' = TableRemove(table, a, NoRing)
          /\ rings' = AddRef(rings, Removed(table, a, NoRing), -1)
      BY <2>2 DEF Free
    <3>. QED
      BY <3>1, <1>1, EntryDropped
  <2>. QED
    BY <2>1, <2>2
<1>3. \/ rxQ' = rxQ
      \/ \E e \in RxRec : /\ rxQ' = Append(rxQ, e)
                          /\ e.cnx \in Addr => e.gen = gen[e.cnx]
  <2>1. CASE cnx[a] = "final"
    BY <2>1 DEF Free
  <2>2. CASE cnx[a] # "final"
    <3>1. rxQ' = Append(rxQ, Event("CLOSE", a))
      BY <2>2 DEF Free
    <3>2. /\ Event("CLOSE", a) \in RxRec /\ Event("CLOSE", a).gen = gen[a]
          /\ Event("CLOSE", a).cnx = a
      <4>1. "CLOSE" \in RxKinds \ {"RING_DRAINED"}
        BY DEF RxKinds
      <4>. QED
        BY <4>1, <1>1, EventOf
    <3>. QED
      BY <3>1, <3>2
  <2>. QED
    BY <2>1, <2>2
<1>4. /\ owed' \in Seq(OwedRec) /\ conn' \in [Addr -> {NoConn} \cup ConnRec(Ring)]
      /\ cnx' \in [Addr -> {"none", "up", "closing", "final"}] /\ active' \subseteq Addr
      /\ \A b \in Addr : cnx'[b] # "none" => cnx[b] # "none"
      /\ \A b \in Addr : conn'[b] = conn[b] \/ conn'[b] = NoConn
      /\ phase' \in {"stopped", "freed"}
  BY <1>1 DEF LoopTyped, WorkerTyped, OwedRec
<1>5. Home' /\ TableHome' /\ Claims' /\ Counts'
  BY <1>2 DEF Refs
<1>6. IInv'
  BY <1>1, <1>2, <1>3, <1>4, <1>5, StopStep
<1>. QED
  BY <1>2, <1>6

\* The ring a connection owns, if any, is given up without a RELEASE.
LEMMA RingGivenUp ==
    ASSUME IInv, NEW a \in Addr, NEW r \in Ring \cup {NoRing}, Known(a), conn[a].ring = r,
           conn'[a] = NoConn, \A b \in Addr : b # a => conn'[b] = conn[b],
           rings' = AddRef(rings, r, -1), UNCHANGED <<table, txQ, owed, leaked, phase>>
    PROVE  /\ RingsTyped' /\ RefsOnly /\ TableTyped' /\ Home' /\ TableHome' /\ Claims'
           /\ Counts'
<1>. USE DEF IInv, Typed, Refs
<1>1. /\ RingsTyped' /\ RefsOnly /\ RingsHome
      /\ \A q \in Ring : rings'[q].refs = rings[q].refs - B(q = r)
  <2>1. rings \in RingSeq /\ r \in DOMAIN rings \cup {NoRing}
    BY DEF RingsTyped, RingSeq, Ring
  <2>2. /\ rings' \in RingSeq /\ DOMAIN rings' = DOMAIN rings
        /\ \A q \in DOMAIN rings :
             /\ rings'[q].cnx = rings[q].cnx /\ rings'[q].owner = rings[q].owner
             /\ rings'[q].armed = rings[q].armed /\ rings'[q].recs = rings[q].recs
             /\ rings'[q].refs = rings[q].refs - B(q = r)
    BY <2>1, UnrefTo
  <2>. QED
    BY <2>2 DEF RingsTyped, RingSeq, RefsOnly, RingsHome, Ring
<1>2. QueueOne /\ ConnHome /\ QueueHome /\ OwedHome
  BY HomeIs, ClaimsAre
<1>3. /\ NoRing \notin Ring /\ \A q \in Ring : rings[q].cnx \in Addr /\ rings[q].refs \in Int
  BY RingsAre
<1>4. ~Known(a)' /\ \A b \in Addr : b # a => (Known(b)' <=> Known(b))
  BY DEF Known
<1>5. ASSUME NEW q \in Ring PROVE Owns(q)' <=> Owns(q) /\ q # r
  <2>1. PICK b \in Addr : b = rings[q].cnx
    BY <1>3
  <2>2. rings'[q].cnx = b
    BY <1>1, <2>1 DEF RingsHome
  <2>3. (Owns(q) <=> Known(b) /\ conn[b].ring = q)
    BY <2>1 DEF Owns
  <2>4. Owns(q)' <=> conn'[b] # NoConn /\ conn'[b].ring = q
    BY <2>2 DEF Owns, Known
  <2>5. q = r => b = a
    BY <1>2, <1>3, <2>1 DEF ConnHome
  <2>. QED
    BY <2>3, <2>4, <2>5 DEF Known
<1>6. /\ QueueHome' /\ QueueOne' /\ \A q \in Ring : Queued(q)' <=> Queued(q)
  BY <1>1, <1>2, QueueSame
<1>7. Ring' = Ring /\ owed' = owed /\ leaked' = leaked
  BY <1>1 DEF RefsOnly
<1>8. \A q \in Ring : Owing(q)' <=> Owing(q)
  BY <1>7 DEF Owing
<1>9. Claims'
  <2>1. ASSUME NEW q \in Ring PROVE Single(q)'
    <3>1. Single(q)
      BY DEF Claims
    <3>2. /\ ~(Owns(q) /\ Queued(q)) /\ ~(Owns(q) /\ Owing(q)) /\ ~(Owns(q) /\ q \in leaked)
          /\ ~(Queued(q) /\ Owing(q)) /\ ~(Queued(q) /\ q \in leaked)
          /\ ~(Owing(q) /\ q \in leaked)
          /\ \A i, j \in DOMAIN owed : owed[i].db = q /\ owed[j].db = q => i = j
      BY <3>1 DEF Single
    <3>3. \A i, j \in DOMAIN txQ' : ReleaseAt(i, q)' /\ ReleaseAt(j, q)' => i = j
      BY <1>6, <1>7 DEF QueueOne
    <3>4. \A i, j \in DOMAIN owed' : owed'[i].db = q /\ owed'[j].db = q => i = j
      BY <3>2, <1>7
    <3>. QED
      BY <3>2, <3>3, <3>4, <1>5, <1>6, <1>7, <1>8 DEF Single
  <2>. QED
    BY <2>1, <1>7 DEF Claims
<1>10. ASSUME NEW q \in Ring PROVE Claimed(q)' <=> Claimed(q) /\ q # r
  <2>1. CASE q = r
    <3>1. r \in Ring
      BY <2>1
    <3>2. ~Queued(r) /\ ~Owing(r) /\ r \notin leaked
      BY <3>1, OwnedAlone
    <3>. QED
      BY <2>1, <3>1, <3>2, <1>5, <1>6, <1>7, <1>8 DEF Claimed
  <2>2. CASE q # r
    BY <2>2, <1>5, <1>6, <1>7, <1>8 DEF Claimed
  <2>. QED
    BY <2>1, <2>2
<1>11. ASSUME NEW q \in Ring, q = r PROVE Claimed(q)
  <2>1. rings[q].cnx = a
    BY <1>11, <1>2, <1>3 DEF ConnHome
  <2>2. Owns(q)
    BY <1>11, <2>1 DEF Owns
  <2>. QED
    BY <2>2 DEF Claimed
<1>12. TableTyped' /\ TableHome'
  BY <1>1, <1>7 DEF TableTyped, TableHome, RingsHome
<1>13. Counts'
  <2>1. ASSUME NEW q \in Ring
        PROVE  rings'[q].refs = B(Claimed(q))' + B(Has(table', rings'[q].cnx, q))
    <3>1. rings[q].refs = B(Claimed(q)) + B(Has(table, rings[q].cnx, q))
      BY DEF Counts
    <3>2. (Claimed(q)' <=> Claimed(q) /\ q # r) /\ (q = r => Claimed(q))
      BY <1>10, <1>11
    <3>3. Has(table', rings'[q].cnx, q) <=> Has(table, rings[q].cnx, q)
      BY <1>1 DEF RingsHome
    <3>. QED
      BY <3>1, <3>2, <3>3, <1>1 DEF B
  <2>. QED
    BY <2>1, <1>7 DEF Counts
<1>14. Home'
  <2>1. ConnHome'
    <3>1. ASSUME NEW b \in Addr, Known(b)', conn'[b].ring # NoRing
          PROVE  rings'[conn'[b].ring].cnx = b
      <4>1. b # a /\ conn'[b] = conn[b] /\ Known(b)
        BY <3>1, <1>4
      <4>2. conn[b].ring \in Ring
        BY <3>1, <4>1, KnownIs
      <4>. QED
        BY <3>1, <4>1, <4>2, <1>1, <1>2 DEF ConnHome, RingsHome
    <3>. QED
      BY <3>1 DEF ConnHome
  <2>2. OwedHome'
    BY <1>1, <1>2, <1>7, OwedHomeKept
  <2>3. Home' <=> ConnHome' /\ QueueHome' /\ OwedHome'
    BY DEF Home, ConnHome, QueueHome, OwedHome
  <2>. QED
    BY <2>1, <2>2, <2>3, <1>6
<1>. QED
  BY <1>1, <1>9, <1>12, <1>13, <1>14

\* The engine gives up a connection.
LEMMA ForgetStep ==
    ASSUME IInv, NEW a \in Addr, Forget(a)
    PROVE  IInv' /\ RefsOnly
<1>. USE DEF IInv, Typed
<1>1. /\ phase = "stopped" /\ phase' = phase /\ Known(a)
      /\ rings' = AddRef(rings, conn[a].ring, -1) /\ conn' = [conn EXCEPT ![a] = NoConn]
      /\ UNCHANGED <<gen, w, reset, txArmed, py, batch, p, toClose, leaked, failed, left>>
      /\ cnx' = cnx /\ active' = active /\ table' = table /\ rxQ' = rxQ /\ txQ' = txQ
      /\ owed' = owed
  BY DEF Forget, Swept, stopIdle, stillFed
<1>2. PICK r \in Ring \cup {NoRing} : r = conn[a].ring
  BY <1>1, KnownIs
<1>3. conn'[a] = NoConn /\ \A b \in Addr : b # a => conn'[b] = conn[b]
  BY <1>1 DEF LoopTyped
<1>4. /\ RingsTyped' /\ RefsOnly /\ TableTyped' /\ Home' /\ TableHome' /\ Claims' /\ Counts'
  BY <1>1, <1>2, <1>3, RingGivenUp
<1>5. Ring' = Ring
  BY <1>4 DEF RefsOnly
<1>6. TxTyped'
  BY <1>1, <1>5 DEF TxTyped
<1>7. /\ owed' \in Seq(OwedRec) /\ conn' \in [Addr -> {NoConn} \cup ConnRec(Ring)]
      /\ cnx' \in [Addr -> {"none", "up", "closing", "final"}] /\ active' \subseteq Addr
      /\ \A b \in Addr : cnx'[b] # "none" => cnx[b] # "none"
      /\ \A b \in Addr : conn'[b] = conn[b] \/ conn'[b] = NoConn
      /\ phase' \in {"stopped", "freed"}
  BY <1>1, <1>3 DEF LoopTyped, WorkerTyped, OwedRec
<1>8. IInv'
  BY <1>1, <1>4, <1>6, <1>7, StopStep
<1>. QED
  BY <1>4, <1>8

\* aiopquic_ctx_destroy.
LEMMA DestroyStep ==
    ASSUME IInv, Destroy
    PROVE  IInv' /\ RefsOnly
<1>. USE DEF IInv, Typed, Refs
<1>1. /\ phase = "stopped" /\ phase' = "freed"
      /\ rings' = [r \in DOMAIN rings |->
                     [rings[r] EXCEPT !.refs = rings[r].refs - TableRefs(table, r)]]
      /\ table' = EmptyTable(0)
      /\ UNCHANGED <<gen, w, reset, txArmed, py, batch, p, toClose, leaked, failed, left>>
      /\ cnx' = cnx /\ active' = active /\ rxQ' = rxQ /\ txQ' = txQ /\ owed' = owed
      /\ conn' = conn
  BY DEF Destroy, Swept, stillFed
<1>2. /\ Len(rings) \in Nat /\ Ring = 1 .. Len(rings) /\ NoRing \notin Ring
      /\ \A r \in Ring : rings[r] \in RingRec /\ rings[r].refs \in Int /\ rings[r].cnx \in Addr
  BY RingsAre
<1>3. ASSUME NEW r \in Ring
      PROVE  TableRefs(table, r) = B(Has(table, rings[r].cnx, r))
  <2>1. \A a \in Addr : Has(table, a, r) => a = rings[r].cnx
    BY DEF TableHome
  <2>2. rings[r].cnx \in Addr /\ table \in Seq(Slot(Ring)) /\ Sound(table)
    BY <1>2 DEF TableTyped
  <2>. QED
    BY <2>1, <2>2, <1>2, RefsInTable
<1>4. ASSUME NEW r \in Ring
      PROVE  /\ rings'[r] \in RingRec
             /\ rings'[r].refs = rings[r].refs - B(Has(table, rings[r].cnx, r))
             /\ rings'[r].cnx = rings[r].cnx /\ rings'[r].owner = rings[r].owner
             /\ rings'[r].armed = rings[r].armed /\ rings'[r].recs = rings[r].recs
  <2>. DEFINE n == rings[r].refs - TableRefs(table, r)
  <2>1. rings'[r] = [rings[r] EXCEPT !.refs = n]
    BY <1>1 DEF Ring
  <2>2. n \in Int /\ n = rings[r].refs - B(Has(table, rings[r].cnx, r))
    BY <1>2, <1>3 DEF B
  <2>. HIDE DEF n
  <2>3. rings[r] \in RingRec
    BY <1>2
  <2>. QED
    BY <2>1, <2>2, <2>3, RecRefs
<1>5. DOMAIN rings' = 1 .. Len(rings)
  BY <1>1, <1>2 DEF Ring
<1>6. RingsTyped'
  <2>. DEFINE us == rings'
  <2>1. us = [i \in 1 .. Len(rings) |-> us[i]]
    BY <1>1, <1>5
  <2>2. \A i \in 1 .. Len(rings) : us[i] \in RingRec
    BY <1>2, <1>4
  <2>. HIDE DEF us
  <2>3. us \in [1 .. Len(rings) -> RingRec]
    BY <2>1, <2>2
  <2>4. us \in Seq(RingRec)
    BY <2>3, <1>2
  <2>. QED
    BY <2>4 DEF RingsTyped, us
<1>7. RefsOnly /\ RingsHome /\ Ring' = Ring
  BY <1>2, <1>4, <1>5 DEF RefsOnly, RingsHome, Ring
<1>8. /\ table' \in Seq(Slot(Ring)) /\ Sound(table')
      /\ \A a \in Addr, r \in Ring : ~Has(table', a, r)
  <2>1. table \in Seq(Slot(Ring)) /\ 0 \in Nat
    BY DEF TableTyped
  <2>2. PlacedOK(Ring, table, 0, EmptyTable(0), 0)
    BY <2>1, <1>2, NothingPlaced
  <2>. DEFINE u == EmptyTable(0)
  <2>3. u \in Seq(Slot(Ring)) /\ Cap(u) = 0 /\ Reached(u) /\ OnePer(u) /\ Filled(u)
        /\ \A a \in Addr, r \in Ring : Has(u, a, r) <=>
               \E i \in 1 .. 0 : table[i].cnx = a /\ table[i].db = r
    BY <2>2 DEF PlacedOK
  <2>. HIDE DEF u
  <2>4. Sound(u)
    BY <2>3 DEF Sound, Loaded
  <2>5. \A a \in Addr, r \in Ring : ~Has(u, a, r)
    BY <2>3
  <2>. QED
    BY <2>3, <2>4, <2>5, <1>1 DEF u
<1>9. TableTyped' /\ TableHome'
  BY <1>7, <1>8 DEF TableTyped, TableHome
<1>10. ConnSame /\ Running
  BY <1>1 DEF ConnSame, Known, Running
<1>11. Home' /\ Claims' /\ \A r \in Ring : Claimed(r)' <=> Claimed(r)
  BY <1>1, <1>7, <1>10, RefsStill
<1>12. Counts'
  <2>1. ASSUME NEW q \in Ring
        PROVE  rings'[q].refs = B(Claimed(q))' + B(Has(table', rings'[q].cnx, q))
    <3>1. rings[q].refs = B(Claimed(q)) + B(Has(table, rings[q].cnx, q))
      BY DEF Counts
    <3>2. rings'[q].refs = rings[q].refs - B(Has(table, rings[q].cnx, q))
      BY <1>4
    <3>3. ~Has(table', rings'[q].cnx, q)
      BY <1>2, <1>4, <1>8
    <3>4. Claimed(q)' <=> Claimed(q)
      BY <1>11
    <3>. QED
      BY <3>1, <3>2, <3>3, <3>4 DEF B
  <2>. QED
    BY <2>1, <1>7 DEF Counts
<1>13. TxTyped'
  BY <1>1, <1>7 DEF TxTyped
<1>14. /\ owed' \in Seq(OwedRec) /\ conn' \in [Addr -> {NoConn} \cup ConnRec(Ring)]
       /\ cnx' \in [Addr -> {"none", "up", "closing", "final"}] /\ active' \subseteq Addr
       /\ \A b \in Addr : cnx'[b] # "none" => cnx[b] # "none"
       /\ \A b \in Addr : conn'[b] = conn[b] \/ conn'[b] = NoConn
       /\ phase' \in {"stopped", "freed"}
  BY <1>1 DEF LoopTyped, WorkerTyped, OwedRec
<1>15. IInv'
  BY <1>1, <1>6, <1>7, <1>9, <1>11, <1>12, <1>13, <1>14, StopStep
<1>. QED
  BY <1>7, <1>15

-----------------------------------------------------------------------------
(* The invariant holds at first, and every step keeps it.                  *)

\* An engine that has just started.
LEMMA Starts ==
    ASSUME Init
    PROVE  IInv
<1>. USE DEF Init
<1>1. Ring = {} /\ rings \in Seq(RingRec)
  BY DEF Ring
<1>2. WorkerTyped
  <2>1. left \in [{"cnx", "sends", "cmds", "dgrams", "ends", "closes", "resets", "fails"} -> Nat]
    <3>1. left \in [cnx : Nat, sends : Nat, cmds : Nat, dgrams : Nat,
                    ends : Nat, closes : Nat, resets : Nat, fails : Nat]
      BY BoundsAssumption
    <3>. QED
      BY <3>1
  <2>2. cnx \in [Addr -> {"none", "up", "closing", "final"}] /\ gen \in [Addr -> Nat]
    OBVIOUS
  <2>. QED
    BY <2>1, <2>2 DEF WorkerTyped
<1>3. TableTyped /\ \A a \in Addr, r \in Ring : ~Has(table, a, r)
  <2>. DEFINE u == EmptyTable(0)
              none == <<>>
  <2>1. none \in Seq(Slot(Ring)) /\ 0 \in Nat /\ NoRing \notin Ring
    BY <1>1
  <2>. HIDE DEF none
  <2>2. PlacedOK(Ring, none, 0, EmptyTable(0), 0)
    BY <2>1, NothingPlaced
  <2>3. u \in Seq(Slot(Ring)) /\ Cap(u) = 0 /\ Reached(u) /\ OnePer(u) /\ Filled(u)
    BY <2>2 DEF PlacedOK
  <2>. HIDE DEF u
  <2>4. Sound(u)
    BY <2>3 DEF Sound, Loaded
  <2>. QED
    BY <2>3, <2>4, <1>1 DEF TableTyped, u
<1>4. TxTyped /\ RxTyped
  <2>1. Len(txQ) = 0 /\ 0 <= TxCap
    BY BoundsAssumption
  <2>2. txQ \in Seq(CmdRec(Ring)) /\ rxQ \in Seq(RxRec) /\ batch \in Seq(EventRec)
    OBVIOUS
  <2>. QED
    BY <2>1, <2>2 DEF TxTyped, RxTyped
<1>5. LoopTyped
  BY <1>1 DEF LoopTyped
<1>6. \A a \in Addr : ~Known(a)
  BY DEF Known
<1>7. Busy
  BY DEF Busy
<1>8. Gens
  <2>. DEFINE S == {gen[a] : a \in Addr}
  <2>1. S \in SUBSET Nat /\ 0 \in S /\ \A m \in S : m <= 0
    BY TableAssumption
  <2>. HIDE DEF S
  <2>2. Max(S) = 0
    BY <2>1, MaxIs
  <2>3. Born = 0
    BY <2>2 DEF Born, S
  <2>4. {a \in Addr : gen[a] # 0} = {}
    OBVIOUS
  <2>5. Cardinality({a \in Addr : gen[a] # 0}) = 0
    BY <2>4, FS_EmptySet
  <2>6. \A a \in Addr : gen[a] = 0 /\ cnx[a] = "none"
    OBVIOUS
  <2>. QED
    BY <2>3, <2>5, <2>6 DEF Gens
<1>9. Refs
  BY <1>1, <1>3, <1>6 DEF Refs, Home, TableHome, Claims, Counts, Marks
<1>10. Parked /\ Ends /\ Agree
  BY <1>1, <1>6 DEF Parked, Ends, Agree
<1>. QED
  BY <1>1, <1>2, <1>3, <1>4, <1>5, <1>7, <1>8, <1>9, <1>10 DEF IInv, Typed, RingsTyped

\* No record leaves a ring.
NonePopped == \A r \in Ring : r \in Ring' /\ Len(rings[r].recs) <= Len(rings'[r].recs)

\* A step that keeps the records of every ring pops none.
LEMMA NoneLeft ==
    ASSUME IInv
    PROVE  /\ RefsOnly \/ rings' = rings => NonePopped
           /\ Ring' = Ring /\ (\A r \in Ring : rings'[r].recs = rings[r].recs) => NonePopped
<1>1. \A r \in Ring : Len(rings[r].recs) <= Len(rings[r].recs)
  <2>1. \A r \in Ring : rings[r].recs \in Seq(1 .. MaxRecord)
    BY RingsAre DEF IInv, Typed
  <2>. QED
    BY <2>1
<1>2. rings' = rings => Ring' = Ring
  BY DEF Ring
<1>. QED
  BY <1>1, <1>2 DEF NonePopped, RefsOnly

\* The steps of picoquic's callbacks.
LEMMA CallbackSteps ==
    ASSUME IInv, Callback
    PROVE  IInv' /\ NonePopped
<1>1. PICK a \in Addr : \/ Accept(a) \/ RecvDatagram(a) \/ PeerClose(a) \/ FinalClose(a)
                        \/ StatelessReset(a) \/ FreeCnx(a)
  BY DEF Callback
<1>2. CASE Accept(a)
  BY <1>2, AcceptStep, NoneLeft DEF Accept
<1>3. CASE RecvDatagram(a)
  BY <1>3, RecvDatagramStep, NoneLeft DEF RecvDatagram
<1>4. CASE PeerClose(a) \/ FinalClose(a)
  <2>1. /\ UNCHANGED loopState /\ table' = TableRemove(table, a, NoRing)
        /\ rings' = AddRef(rings, Removed(table, a, NoRing), -1)
    BY <1>4 DEF PeerClose, FinalClose, CloseCallback
  <2>2. RefsOnly
    BY <2>1, EntryDropped
  <2>. QED
    BY <1>4, <2>2, CloseSteps, NoneLeft
<1>5. CASE StatelessReset(a) \/ FreeCnx(a)
  BY <1>5, SilentStep, NoneLeft DEF StatelessReset, FreeCnx
<1>. QED
  BY <1>1, <1>2, <1>3, <1>4, <1>5

\* The steps of the commands.
LEMMA CommandSteps ==
    ASSUME IInv, Command
    PROVE  IInv' /\ NonePopped
  BY MarkStep, ReleaseStep, OtherStep, NoneLeft DEF Command

\* The steps of a send in progress.
LEMMA SendSteps ==
    ASSUME IInv, Send
    PROVE  IInv' /\ NonePopped
<1>1. CASE SendPush \/ PushRecheck
  BY <1>1, SendPushStep, PushRecheckStep DEF NonePopped
<1>2. CASE PushArm
  BY <1>2, PushArmStep, NoneLeft
<1>3. CASE SendMark
  BY <1>3, SendMarkStep, NoneLeft
<1>. QED
  BY <1>1, <1>2, <1>3 DEF Send

\* The steps of the drain and of routing.
LEMMA DrainSteps ==
    ASSUME IInv, Drain
    PROVE  IInv' /\ NonePopped
  BY BeginDrainStep, DrainPopStep, DrainEndStep, RouteDataStep, RouteDrainedStep,
     RouteCloseStep, NoneLeft DEF Drain

\* The steps the application takes.
LEMMA ApiSteps ==
    ASSUME IInv, Api
    PROVE  IInv' /\ NonePopped
<1>1. CASE PostOther \/ EngineClose
  BY <1>1, PostOtherStep, EngineCloseStep, NoneLeft
<1>2. CASE \E a \in Addr : LocalClose(a)
  BY <1>2, LocalCloseStep, NoneLeft
<1>3. CASE \E a \in Addr, len \in 0 .. MaxRecord + 1 : SendBegin(a, len) \/ SendRepost(a, len)
  <2>1. PICK a \in Addr, len \in 0 .. MaxRecord + 1 : SendBegin(a, len) \/ SendRepost(a, len)
    BY <1>3
  <2>2. CASE SendBegin(a, len)
    BY <2>2, SendBeginStep DEF NonePopped
  <2>3. CASE SendRepost(a, len)
    BY <2>3, SendRepostStep, NoneLeft
  <2>. QED
    BY <2>1, <2>2, <2>3
<1>. QED
  BY <1>1, <1>2, <1>3 DEF Api

\* The steps of the shutdown.
LEMMA StopSteps ==
    ASSUME IInv, Stop
    PROVE  IInv' /\ NonePopped
<1>1. CASE Join \/ SweepQueued \/ SweepOwed \/ Destroy
  BY <1>1, JoinStep, SweepQueuedStep, SweepOwedStep, DestroyStep, NoneLeft
<1>2. CASE \E a \in Addr : CloseNext(a) \/ Free(a) \/ Forget(a)
  BY <1>2, CloseNextStep, FreeStep, ForgetStep, NoneLeft
<1>. QED
  BY <1>1, <1>2 DEF Stop

\* Nothing happens.
LEMMA Stutters ==
    ASSUME IInv, UNCHANGED vars
    PROVE  IInv' /\ NonePopped
<1>. USE DEF IInv, Typed
<1>1. /\ UNCHANGED <<rings, table, loopState>> /\ UNCHANGED <<gen, cnx, active, reset>>
      /\ w' = w /\ failed' = failed /\ left' = left /\ rxQ' = rxQ /\ batch' = batch
      /\ conn' = conn /\ p' = p /\ toClose' = toClose /\ phase' = phase /\ rings' = rings
      /\ table' = table
  BY DEF vars, loopState
<1>2. /\ LoopTyped' /\ TxTyped' /\ RingsTyped' /\ TableTyped' /\ Refs' /\ RefsOnly
      /\ FewerKnown /\ Ring' = Ring
  BY <1>1, RingsStay DEF Ring
<1>3. RxTyped' /\ \A a \in Addr : Wake(a) => Wake(a)'
  BY <1>1 DEF RxTyped, Wake, WakeIn
<1>4. WorkerTyped'
  BY <1>1, <1>2 DEF WorkerTyped
<1>5. Busy'
  BY <1>1 DEF Busy, Known
<1>6. Gens'
  BY <1>1, GensKept
<1>7. Parked'
  BY <1>1, <1>2, <1>3, ParkedStill
<1>8. Ends'
  BY <1>1, <1>2, EndsKept DEF IsLive
<1>9. Agree'
  BY <1>1, <1>2, AgreeStill DEF RefsOnly
<1>. QED
  BY <1>1, <1>2, <1>3, <1>4, <1>5, <1>6, <1>7, <1>8, <1>9, NoneLeft

\* The record that leaves is the one prepare_datagram's call is about.
PoppedHere ==
    /\ w.cnx \in Addr /\ w.db \in Ring /\ rings[w.db].cnx = w.cnx
    /\ \A r \in Ring : r \in Ring' /\ Len(rings'[r].recs) < Len(rings[r].recs) => r = w.db

\* Any step keeps the invariant, and only PreparePop takes a record.
LEMMA AnyStep ==
    ASSUME IInv, [Next]_vars
    PROVE  IInv' /\ (NonePopped \/ PoppedHere)
<1>1. CASE Prepare
  <2>1. CASE \E a \in Addr : PrepareRead(a)
    BY <2>1, PrepareReadStep, NoneLeft DEF PrepareRead
  <2>2. CASE PreparePop
    <3>1. /\ IInv' /\ w.cnx \in Addr /\ w.db \in Ring /\ Ring' = Ring
          /\ \A r \in Ring : r # w.db => rings'[r] = rings[r]
          /\ rings[w.db].cnx = w.cnx
      BY <2>2, PreparePopStep
    <3>2. \A r \in Ring : ~(Len(rings[r].recs) < Len(rings[r].recs))
      <4>1. \A r \in Ring : rings[r].recs \in Seq(1 .. MaxRecord)
        BY RingsAre DEF IInv, Typed
      <4>. QED
        BY <4>1
    <3>3. PoppedHere
      BY <3>1, <3>2 DEF PoppedHere
    <3>. QED
      BY <3>1, <3>3
  <2>3. CASE PrepareTake
    BY <2>3, PrepareTakeStep, NoneLeft
  <2>. QED
    BY <1>1, <2>1, <2>2, <2>3 DEF Prepare
<1>2. CASE UNCHANGED vars
  BY <1>2, Stutters
<1>. QED
  BY <1>1, <1>2, CallbackSteps, CommandSteps, SendSteps, DrainSteps, ApiSteps, StopSteps
  DEF Next

\* The invariant holds of every behaviour.
THEOREM Invariance == Spec => []IInv
<1>1. Init => IInv
  BY Starts
<1>2. IInv /\ [Next]_vars => IInv'
  BY AnyStep
<1>. QED
  BY <1>1, <1>2, PTL DEF Spec

-----------------------------------------------------------------------------
(* What it gives.                                                          *)

\* A sequence over a smaller set.
LEMMA SeqOver ==
    ASSUME NEW S, NEW T, S \subseteq T, NEW s \in Seq(S)
    PROVE  s \in Seq(T)
<1>1. s = [i \in 1 .. Len(s) |-> s[i]] /\ Len(s) \in Nat /\ \A i \in 1 .. Len(s) : s[i] \in S
  OBVIOUS
<1>2. s \in [1 .. Len(s) -> T]
  BY <1>1
<1>. QED
  BY <1>1, <1>2

\* The invariant has the types of TypeOK in it; that counts are not negative
\* follows from Counts.
LEMMA InvTyped == IInv => TypeOK
<1>. SUFFICES ASSUME IInv PROVE TypeOK
  OBVIOUS
<1>. USE DEF IInv, Typed
<1>1. rings \in Seq([cnx : Addr, owner : Nat, refs : Nat, armed : BOOLEAN,
                     recs : Seq(1 .. MaxRecord)])
  <2>. DEFINE T == [cnx : Addr, owner : Nat, refs : Nat, armed : BOOLEAN,
                    recs : Seq(1 .. MaxRecord)]
  <2>1. ASSUME NEW r \in Ring PROVE rings[r] \in T
    <3>1. rings[r].refs \in Nat
      <4>1. rings[r].refs = B(Claimed(r)) + B(Has(table, rings[r].cnx, r))
        BY DEF Refs, Counts
      <4>. QED
        BY <4>1 DEF B
    <3>2. rings[r] \in RingRec
      BY RingsAre
    <3>. QED
      BY <3>1, <3>2 DEF RingRec
  <2>2. rings \in Seq(RingRec)
    BY DEF RingsTyped
  <2>3. rings = [i \in 1 .. Len(rings) |-> rings[i]] /\ Len(rings) \in Nat
        /\ Ring = 1 .. Len(rings)
    BY <2>2 DEF Ring
  <2>. HIDE DEF T
  <2>4. rings \in [1 .. Len(rings) -> T]
    BY <2>1, <2>3
  <2>5. rings \in Seq(T)
    BY <2>3, <2>4
  <2>. QED
    BY <2>5 DEF T
<1>2. txQ \in Seq([kind : TxKinds, cnx : Addr \cup {Null}, db : Ring \cup {NoRing}])
  <2>1. CmdRec(Ring) \subseteq [kind : TxKinds, cnx : Addr \cup {Null}, db : Ring \cup {NoRing}]
    BY DEF CmdRec
  <2>2. txQ \in Seq(CmdRec(Ring))
    BY DEF TxTyped
  <2>. QED
    BY <2>1, <2>2, SeqOver
<1>3. /\ rxQ \in Seq([kind : RxKinds, cnx : Addr \cup {Null}, gen : Nat])
      /\ batch \in Seq([kind : RxKinds, cnx : Addr, gen : Nat])
  <2>1. /\ RxRec \subseteq [kind : RxKinds, cnx : Addr \cup {Null}, gen : Nat]
        /\ EventRec \subseteq [kind : RxKinds, cnx : Addr, gen : Nat]
    BY DEF RxRec, EventRec, RxKinds
  <2>2. rxQ \in Seq(RxRec) /\ batch \in Seq(EventRec)
    BY DEF RxTyped
  <2>. QED
    BY <2>1, <2>2, SeqOver
<1>4. conn \in [Addr -> {NoConn} \cup
                [gen : Nat \ {0}, ring : Ring \cup {NoRing},
                 markOwed : BOOLEAN, parked : BOOLEAN, closed : BOOLEAN]]
  <2>1. ConnRec(Ring) \subseteq [gen : Nat \ {0}, ring : Ring \cup {NoRing},
                 markOwed : BOOLEAN, parked : BOOLEAN, closed : BOOLEAN]
    BY DEF ConnRec
  <2>. QED
    BY <2>1 DEF LoopTyped
<1>. QED
  BY <1>1, <1>2, <1>3, <1>4
  DEF TypeOK, WorkerTyped, TableTyped, TxTyped, LoopTyped, WRec, PRec

\* TypeOK: every variable has its type for every size of the queues and of
\* the table; a ring's count is never negative, the queue of commands never
\* over its capacity, and no name of a ring dangles.
THEOREM TypeCorrect == Spec => []TypeOK
<1>1. IInv => TypeOK
  BY InvTyped
<1>. QED
  BY <1>1, Invariance, PTL

\* The table has at most one entry for a ring.
LEMMA RefsOfTable ==
    ASSUME IInv, NEW r \in Ring
    PROVE  TableRefs(table, r) = B(Has(table, rings[r].cnx, r))
<1>. USE DEF IInv, Typed, Refs
<1>1. \A a \in Addr : Has(table, a, r) => a = rings[r].cnx
  BY DEF TableHome
<1>2. rings[r].cnx \in Addr /\ NoRing \notin Ring
  BY RingsAre
<1>3. table \in Seq(Slot(Ring)) /\ Sound(table)
  BY DEF TableTyped
<1>. QED
  BY <1>1, <1>2, <1>3, RefsInTable

\* The claim on a ring is exactly one of the holders, the table's entry
\* another.
LEMMA InvCounts == IInv => CountIsHolders
<1>. SUFFICES ASSUME IInv, NEW r \in Ring PROVE rings[r].refs = Holders(r)
  BY DEF CountIsHolders, Ring
<1>. USE DEF IInv, Typed, Refs
<1>. DEFINE A == {a \in Addr : Known(a) /\ conn[a].ring = r}
            Q == {i \in DOMAIN txQ : txQ[i].kind = "RELEASE" /\ txQ[i].db = r}
            O == {i \in DOMAIN owed : owed[i].db = r}
<1>0. Single(r) /\ NoRing \notin Ring /\ rings[r].cnx \in Addr
  BY RingsAre DEF Claims
<1>1. Cardinality(A) = B(Owns(r))
  <2>1. \A a \in A : a = rings[r].cnx
    BY <1>0 DEF Home
  <2>2. A # {} <=> Owns(r)
    BY <2>1, <1>0 DEF Owns
  <2>3. \A a, b \in A : a = b
    BY <2>1
  <2>. HIDE DEF A
  <2>4. Cardinality(A) = IF A = {} THEN 0 ELSE 1
    BY <2>3, AtMostOne
  <2>. QED
    BY <2>2, <2>4 DEF B
<1>2. Cardinality(Q) = B(Queued(r))
  <2>1. \A i, j \in Q : i = j
    BY <1>0 DEF Single, ReleaseAt
  <2>2. Q # {} <=> Queued(r)
    BY DEF Queued, ReleaseAt
  <2>. HIDE DEF Q
  <2>3. Cardinality(Q) = IF Q = {} THEN 0 ELSE 1
    BY <2>1, AtMostOne
  <2>. QED
    BY <2>2, <2>3 DEF B
<1>3. Cardinality(O) = B(Owing(r))
  <2>1. \A i, j \in O : i = j
    BY <1>0 DEF Single
  <2>2. O # {} <=> Owing(r)
    BY DEF Owing
  <2>. HIDE DEF O
  <2>3. Cardinality(O) = IF O = {} THEN 0 ELSE 1
    BY <2>1, AtMostOne
  <2>. QED
    BY <2>2, <2>3 DEF B
<1>4. Holders(r) = Cardinality(A) + Cardinality(Q) + Cardinality(O) + TableRefs(table, r)
                   + B(r \in leaked)
  BY DEF Holders, B
<1>. HIDE DEF A, Q, O
<1>5. TableRefs(table, r) = B(Has(table, rings[r].cnx, r))
  BY RefsOfTable
<1>6. rings[r].refs = B(Claimed(r)) + B(Has(table, rings[r].cnx, r))
  BY DEF Counts
<1>7. B(Claimed(r)) = B(Owns(r)) + B(Queued(r)) + B(Owing(r)) + B(r \in leaked)
  <2>1. /\ ~(Owns(r) /\ Queued(r)) /\ ~(Owns(r) /\ Owing(r)) /\ ~(Owns(r) /\ r \in leaked)
        /\ ~(Queued(r) /\ Owing(r)) /\ ~(Queued(r) /\ r \in leaked)
        /\ ~(Owing(r) /\ r \in leaked)
    BY <1>0 DEF Single
  <2>2. Claimed(r) <=> Owns(r) \/ Queued(r) \/ Owing(r) \/ r \in leaked
    BY DEF Claimed
  <2>. QED
    BY <2>1, <2>2 DEF B
<1>8. B(Has(table, rings[r].cnx, r)) \in Int /\ B(Owns(r)) \in Int /\ B(Queued(r)) \in Int
      /\ B(Owing(r)) \in Int /\ B(r \in leaked) \in Int
  BY DEF B
<1>. HIDE DEF B
<1>. QED
  BY <1>1, <1>2, <1>3, <1>4, <1>5, <1>6, <1>7, <1>8

\* A count of zero leaves no claim, and so no MARK and no entry.
LEMMA InvFreed == IInv => NoFreedRing
<1>. SUFFICES ASSUME IInv, NEW r \in Ring, rings[r].refs = 0
              PROVE  /\ phase \in {"run", "stopping"} =>
                          \A i \in DOMAIN txQ : ~(txQ[i].kind = "MARK" /\ txQ[i].db = r)
                     /\ w # Idle => w.db # r
                     /\ TableRefs(table, r) = 0
  BY DEF NoFreedRing, Ring
<1>. USE DEF IInv, Typed, Refs
<1>1. ~Claimed(r) /\ ~Has(table, rings[r].cnx, r)
  <2>1. B(Claimed(r)) + B(Has(table, rings[r].cnx, r)) = 0
    BY DEF Counts
  <2>. QED
    BY <2>1 DEF B
<1>2. TableRefs(table, r) = 0
  BY <1>1, RefsOfTable DEF B
<1>3. ASSUME phase \in {"run", "stopping"}, NEW i \in DOMAIN txQ,
             txQ[i].kind = "MARK", txQ[i].db = r
      PROVE  FALSE
  <2>1. Owns(r) \/ Behind(i, r) \/ Owing(r) \/ r \in leaked
    BY <1>3 DEF Marks
  <2>2. Behind(i, r) => Queued(r)
    BY DEF Behind, Queued
  <2>. QED
    BY <2>1, <2>2, <1>1 DEF Claimed
<1>4. ASSUME w # Idle, w.db = r PROVE FALSE
  <2>1. w \in WRec(Ring) /\ Has(table, w.cnx, w.db)
    BY <1>4 DEF WorkerTyped, Busy
  <2>2. w.cnx \in Addr
    BY <2>1 DEF WRec
  <2>3. rings[r].cnx = w.cnx
    BY <1>4, <2>1, <2>2 DEF TableHome
  <2>. QED
    BY <2>1, <2>3, <1>1, <1>4
<1>. QED
  BY <1>2, <1>3, <1>4

\* RingRefs: a ring's count is the number of its holders, and none that was
\* freed is named by a queued MARK, by a callback or by the table, whatever
\* the order of marks, closes, releases and the shutdown.
THEOREM RefsExact == Spec => []RingRefs
<1>1. IInv => RingRefs
  BY InvCounts, InvFreed DEF RingRefs
<1>. QED
  BY <1>1, Invariance, PTL

\* TableFindsAll: the probe for a connection ends, at the one entry it has or
\* at an empty slot, for every hash and every history of puts, removals and
\* growths.
THEOREM TableSound == Spec => []TableFindsAll
<1>1. IInv => TableFindsAll
  <2>. SUFFICES ASSUME IInv PROVE TableFindsAll
    OBVIOUS
  <2>1. table \in Seq(Slot(Ring)) /\ Sound(table)
    BY DEF IInv, Typed, TableTyped
  <2>2. ASSUME NEW i \in DOMAIN table, table[i].cnx \in Addr
        PROVE  /\ TableGet(table, table[i].cnx) = table[i].db
               /\ \A j \in DOMAIN table : table[j].cnx = table[i].cnx => i = j
    <3>1. TableGet(table, table[i].cnx) = table[i].db
      BY <2>1, <2>2, WalkFinds
    <3>2. \A j \in DOMAIN table : table[j].cnx = table[i].cnx => i = j
      BY <2>1, <2>2 DEF Sound, OnePer
    <3>. QED
      BY <3>1, <3>2
  <2>3. Cap(table) # 0 => \E i \in DOMAIN table : table[i].cnx = Null
    BY <2>1, EmptyLeft DEF Sound
  <2>. QED
    BY <2>2, <2>3 DEF TableFindsAll
<1>. QED
  BY <1>1, Invariance, PTL

\* The events to come are those to route and those to drain.
LEMMA ComingIs ==
    ASSUME RxTyped
    PROVE  /\ \A i \in DOMAIN batch : \E j \in DOMAIN Coming : Coming[j] = batch[i]
           /\ \A i \in DOMAIN rxQ : \E j \in DOMAIN Coming : Coming[j] = rxQ[i]
<1>. DEFINE T == RxRec \cup EventRec
            m == Len(batch)
            n == Len(rxQ)
<1>1. batch \in Seq(T) /\ rxQ \in Seq(T)
  BY DEF RxTyped
<1>. HIDE DEF T
<1>2. /\ m \in Nat /\ n \in Nat /\ DOMAIN batch = 1 .. m /\ DOMAIN rxQ = 1 .. n
      /\ DOMAIN Coming = 1 .. m + n
      /\ \A i \in 1 .. m : Coming[i] = batch[i]
      /\ \A i \in 1 .. m + n : i > m => Coming[i] = rxQ[i - m]
  BY <1>1 DEF Coming
<1>. HIDE DEF m, n
<1>3. ASSUME NEW i \in DOMAIN batch PROVE i \in DOMAIN Coming /\ Coming[i] = batch[i]
  BY <1>2
<1>4. ASSUME NEW i \in DOMAIN rxQ PROVE \E j \in DOMAIN Coming : Coming[j] = rxQ[i]
  <2>1. m + i \in 1 .. m + n /\ m + i > m /\ (m + i) - m = i
    BY <1>2
  <2>. QED
    BY <2>1, <1>2
<1>. QED
  BY <1>3, <1>4

\* ParkedWriterArmed: a writer that found its ring full has its wake armed,
\* with a pop to come that takes it, or on its way.
THEOREM WriterArmed == Spec => []ParkedWriterArmed
<1>1. IInv => ParkedWriterArmed
  <2>. SUFFICES ASSUME IInv, NEW a \in Addr, Known(a), conn[a].parked
                PROVE  \/ /\ rings[conn[a].ring].armed
                          /\ rings[conn[a].ring].recs # <<>> \/ w # Idle \/ failed
                       \/ \E i \in DOMAIN Coming : /\ Coming[i].cnx = a
                                                   /\ Coming[i].kind \in {"DRAINED"} \cup Closes
    BY DEF ParkedWriterArmed
  <2>1. PopToCome(conn[a].ring) \/ Wake(a)
    BY DEF IInv, Parked
  <2>2. RxTyped
    BY DEF IInv, Typed
  <2>3. CASE PopToCome(conn[a].ring)
    BY <2>3 DEF PopToCome
  <2>4. CASE Wake(a)
    BY <2>2, <2>4, ComingIs DEF Wake, WakeIn
  <2>. QED
    BY <2>1, <2>3, <2>4
<1>. QED
  BY <1>1, Invariance, PTL

\* NoOrphanConnection: while the engine runs, a connection it knows is
\* picoquic's, was ended by a stateless reset, or has its close event to come,
\* even if an event behind a close made it anew.
THEOREM NoOrphans == Spec => []NoOrphanConnection
<1>1. IInv => NoOrphanConnection
  <2>. SUFFICES ASSUME IInv, phase = "run", NEW a \in Addr, Known(a)
                PROVE  \/ cnx[a] \in {"up", "closing"} /\ gen[a] = conn[a].gen
                       \/ conn[a].gen \in reset
                       \/ \E i \in DOMAIN Coming :
                            Coming[i] = [kind |-> "CLOSE", cnx |-> a, gen |-> conn[a].gen]
    BY DEF NoOrphanConnection
  <2>. DEFINE e == [kind |-> "CLOSE", cnx |-> a, gen |-> conn[a].gen]
  <2>1. \/ IsLive(a, conn[a].gen) \/ ClosedIn(batch, 0, a, conn[a].gen)
        \/ ClosedIn(rxQ, 0, a, conn[a].gen)
    BY DEF IInv, Ends
  <2>2. RxTyped
    BY DEF IInv, Typed
  <2>3. CASE IsLive(a, conn[a].gen)
    BY <2>3 DEF IsLive, Live
  <2>4. CASE ClosedIn(batch, 0, a, conn[a].gen)
    <3>1. \E i \in DOMAIN batch : batch[i] = e
      BY <2>4 DEF ClosedIn
    <3>. HIDE DEF e
    <3>2. \E i \in DOMAIN Coming : Coming[i] = e
      BY <3>1, <2>2, ComingIs
    <3>. QED
      BY <3>2 DEF e
  <2>5. CASE ClosedIn(rxQ, 0, a, conn[a].gen)
    <3>1. \E i \in DOMAIN rxQ : rxQ[i] = e
      BY <2>5 DEF ClosedIn
    <3>. HIDE DEF e
    <3>2. \E i \in DOMAIN Coming : Coming[i] = e
      BY <3>1, <2>2, ComingIs
    <3>. QED
      BY <3>2 DEF e
  <2>. QED
    BY <2>1, <2>3, <2>4, <2>5
<1>. QED
  BY <1>1, Invariance, PTL

\* RecordsStayHome: a record only ever leaves on the connection it was sent
\* on, as long as no address was given to a second connection.
THEOREM RecordsHome == Spec => RecordsStayHome
<1>. DEFINE Kept == ~Reused => \A r \in DOMAIN rings :
                r \in DOMAIN rings' /\ Len(rings'[r].recs) < Len(rings[r].recs)
                  => gen[w.cnx] = rings[r].owner
<1>1. IInv /\ [Next]_vars => [Kept]_vars
  <2>. SUFFICES ASSUME IInv, [Next]_vars, ~Reused, NEW r \in Ring, r \in Ring',
                       Len(rings'[r].recs) < Len(rings[r].recs)
                PROVE  gen[w.cnx] = rings[r].owner
    BY DEF Ring
  <2>1. IInv' /\ (NonePopped \/ PoppedHere)
    BY AnyStep
  <2>2. ~NonePopped
    <3>1. rings[r].recs \in Seq(1 .. MaxRecord)
      BY RingsAre DEF IInv, Typed
    <3>2. rings'[r].recs \in Seq(1 .. MaxRecord)
      <4>1. rings' \in Seq(RingRec) /\ r \in DOMAIN rings'
        BY <2>1 DEF IInv, Typed, RingsTyped, Ring
      <4>2. rings'[r] \in RingRec
        BY <4>1
      <4>. QED
        BY <4>2, RecIs
    <3>3. Len(rings[r].recs) \in Nat /\ Len(rings'[r].recs) \in Nat
      BY <3>1, <3>2
    <3>. QED
      BY <3>3 DEF NonePopped
  <2>3. r = w.db /\ rings[w.db].cnx = w.cnx
    BY <2>1, <2>2 DEF PoppedHere
  <2>4. rings[r].owner = gen[rings[r].cnx]
    BY DEF IInv, Agree
  <2>. QED
    BY <2>3, <2>4
<1>. QED
  BY <1>1, Invariance, PTL DEF Spec, RecordsStayHome
=============================================================================
