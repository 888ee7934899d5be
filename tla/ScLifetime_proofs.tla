------------------------- MODULE ScLifetime_proofs -------------------------
(***************************************************************************)
(* Proofs about ScLifetime for every number of contexts, TX ring size and  *)
(* number of inputs: type correctness, RefsMatchHolders and HeldStayLive.  *)
(* Counting references is easy where a step moves one; what has to be      *)
(* known besides is who drops the stream's own reference, and that rests   *)
(* on the order in which the events of a stream, its STREAM_DESTROY and a  *)
(* close are queued and handled (Order, Adopted, Kept).                    *)
(***************************************************************************)
EXTENDS ScLifetime, FiniteSetTheorems, TLAPS

-----------------------------------------------------------------------------
(* The inductive invariant.                                                *)

Bit(b) == IF b THEN 1 ELSE 0

Events == [kind : RxKinds, sc : Sc \cup {NoSc}]
Commands == [kind : TxKinds, sc : Sc \cup {NoSc}]

\* How many entries of kinds K name c, and whether there is one.
Count(q, K, c) == Cardinality(Named(q, K, c))
Has(q, K, c) == Named(q, K, c) # {}

\* The events after which the worker has no more to say about the stream.
Closes == {"CLOSE", "APP_CLOSE"}
Enders == {"DESTROY"} \cup Closes

\* A queue that names no context, one that names none behind an ender, and
\* one that holds an ender.
Quiet(q) == \A i \in 1 .. Len(q) : q[i].sc = NoSc
Ending(q) ==
    \A i, j \in 1 .. Len(q) : i < j /\ q[i].kind \in Enders => q[j].sc = NoSc
HasEnder(q) == \E i \in 1 .. Len(q) : q[i].kind \in Enders

\* An entry names one of the first m contexts or none; a STREAM_DESTROY names
\* one, a close none.
WellFormed(e, m) ==
    /\ e.sc \in 0 .. m
    /\ e.kind = "DESTROY" => e.sc # NoSc
    /\ e.kind \in Closes => e.sc = NoSc
Formed(q, m) == \A i \in 1 .. Len(q) : WellFormed(q[i], m)

\* Types alone: that no count is negative comes from the holders.
Typed ==
    /\ refs \in [Sc -> Int] /\ made \in 0 .. MaxSc
    /\ cnx \in {"up", "closing", "gone"} /\ final \in BOOLEAN
    /\ strm \in {"none", "open", "released"}
    /\ rxQ \in Seq(Events) /\ batch \in Seq(Events)
    /\ txQ \in Seq(Commands) /\ Len(txQ) <= TxCap
    /\ py \in {"idle", "drain", "flush", "route", "stopping"}
    /\ batchRefs \in [Sc -> Nat] /\ chunks \in [Sc -> Nat]
    /\ dropped \in BOOLEAN /\ closed \in BOOLEAN
    /\ phase \in {"run", "joined", "stopped", "freed"}
    /\ left \in 0 .. MaxInputs
    /\ engine \in BOOLEAN /\ local \in BOOLEAN /\ blind \in BOOLEAN

\* Contexts are numbered as they are created, and nobody names one that is
\* not there yet.
Names ==
    /\ att \in 0 .. made /\ map \in 0 .. made
    /\ notified \subseteq 1 .. made /\ filled \subseteq 1 .. made
    /\ held \subseteq 1 .. made /\ notes \subseteq 1 .. made
    /\ retired \subseteq 1 .. made /\ owned \subseteq 1 .. made
    /\ Formed(rxQ, made) /\ Formed(txQ, made) /\ Formed(batch, made)
    /\ \A c \in Sc : c > made => chunks[c] = 0 /\ batchRefs[c] = 0

\* Where the asyncio thread can be, and what it has then given back.
Loop ==
    /\ (py \in {"idle", "stopping"} \/ ~engine) =>
           batch = << >> /\ batchRefs = NoRefs /\ retired = {}
    /\ py \in {"idle", "stopping", "route"} => notes = {}
    /\ ~Running => py = "idle" /\ txQ = << >> /\ cnx = "gone"

\* Python's map borrows from its set.
Mapped == map # NoSc => map \in owned

\* The stream is retired or the connection closing.
Over == strm = "released" \/ Closing

\* Nothing of the stream comes behind its STREAM_DESTROY or a close, in
\* either queue and from one to the other.
Order ==
    /\ Ending(rxQ) /\ Ending(batch)
    /\ HasEnder(rxQ) => Over
    /\ Has(rxQ, Closes, NoSc) \/ Has(batch, Closes, NoSc) => Closing
    /\ HasEnder(batch) => Over /\ Quiet(rxQ)
    /\ dropped => Closing /\ Quiet(rxQ) /\ Quiet(batch)

\* The stream's reference changes hands with its STREAM_DESTROY, which is
\* the last that is heard of its context.
Retiring ==
    /\ strm = "released" => att = NoSc
    /\ \A c \in Sc : Has(rxQ, {"DESTROY"}, c) => strm = "released"
    /\ \A c \in Sc : Has(batch, {"DESTROY"}, c) => c \in retired
    /\ retired # {} => strm = "released"
    /\ \A c \in retired :
           \/ Has(batch, {"DESTROY"}, c)
           \/ c \notin owned /\ Quiet(rxQ) /\ Quiet(batch)

\* Bytes in a context's ring have an event that will fetch them.
Fetched ==
    /\ \A c \in notified : Has(rxQ, {"DATA"}, c)
    /\ \A c \in filled : Has(rxQ, {"DATA", "FIN"}, c)

\* An event that has no bytes to fetch names a context Python has adopted, or
\* is about to.
Adopted ==
    \A c \in Sc : Has(rxQ, RxOwners, c) =>
        c \in filled \/ c \in owned \/ Has(batch, RxOwners, c)

\* StreamRefKept(c).
RefKept(c) ==
    \/ c \in owned \/ c \in retired
    \/ Has(rxQ, RxOwners \cup {"DESTROY"}, c) \/ Has(batch, RxOwners, c)

\* The stream's reference is let go only by a STREAM_DESTROY or a close.
Kept == \A c \in 1 .. made : RefKept(c) \/ strm = "released" \/ dropped

\* Holders(c).
Owed(c) ==
    Count(rxQ, RxOwners, c) + Count(txQ, TxOwners, c)
    + batchRefs[c] + chunks[c] + Bit(c \in held) + Bit(c \in notes)

\* While the transport runs the count is exact; from stop() on it covers the
\* holders and Python's set.
Match == \A c \in Sc : refs[c] = Owed(c) + Bit(RefKept(c))
Floor == \A c \in Sc : refs[c] >= Owed(c) + Bit(c \in owned)

RunOrder    == Running => Order
RunRetiring == Running => Retiring
RunFetched  == Running => Fetched
RunAdopted  == Running => Adopted
RunKept     == Running => Kept
RunMatch    == Running => Match
StopFloor   == ~Running => Floor

IInv == /\ Typed /\ Names /\ Loop /\ Mapped
        /\ RunOrder /\ RunRetiring /\ RunFetched /\ RunAdopted /\ RunKept
        /\ RunMatch /\ StopFloor

-----------------------------------------------------------------------------
(* Queues: what an entry put or taken changes.                             *)

\* Whether an entry is of a kind of K and names c.
Hit(e, K, c) == e.kind \in K /\ e.sc = c

\* A queue is finite.
LEMMA NamedFinite ==
    ASSUME NEW V, NEW q \in Seq(V), NEW K, NEW c
    PROVE  /\ IsFiniteSet(Named(q, K, c))
           /\ Cardinality(Named(q, K, c)) \in Nat
           /\ Cardinality(Named(q, K, c)) = 0 <=> Named(q, K, c) = {}
<1>1. IsFiniteSet(1 .. Len(q))
  BY FS_Interval
<1>2. Named(q, K, c) \in SUBSET (1 .. Len(q))
  BY DEF Named
<1>3. IsFiniteSet(Named(q, K, c))
  BY <1>1, <1>2, FS_Subset
<1> QED
  BY <1>3, FS_CardinalityType, FS_EmptySet

\* An empty queue names nobody.
LEMMA NamedEmpty ==
    ASSUME NEW K, NEW c
    PROVE  Named(<< >>, K, c) = {} /\ Cardinality(Named(<< >>, K, c)) = 0
<1>1. Named(<< >>, K, c) = {}
  BY DEF Named
<1> QED
  BY <1>1, FS_EmptySet

\* An entry put counts for the context it names.
LEMMA NamedAppend ==
    ASSUME NEW V, NEW q \in Seq(V), NEW e \in V, NEW K, NEW c
    PROVE  /\ Named(Append(q, e), K, c) # {} <=>
                  Named(q, K, c) # {} \/ Hit(e, K, c)
           /\ Cardinality(Named(Append(q, e), K, c)) =
                  Cardinality(Named(q, K, c)) + Bit(Hit(e, K, c))
<1> DEFINE r == Append(q, e)
           n == Len(q) + 1
<1>1. /\ Len(q) \in Nat /\ Len(r) = n /\ r[n] = e
      /\ \A i \in 1 .. Len(q) : r[i] = q[i]
  OBVIOUS
<1> HIDE DEF r
<1>2. n \notin Named(q, K, c)
  BY <1>1 DEF Named
<1>3. CASE Hit(e, K, c)
  <2>1. Named(r, K, c) = Named(q, K, c) \cup {n}
    BY <1>1, <1>3 DEF Named, Hit
  <2>2. Cardinality(Named(r, K, c)) = Cardinality(Named(q, K, c)) + 1
    BY <2>1, <1>2, NamedFinite, FS_AddElement
  <2> QED
    BY <2>1, <2>2, <1>3 DEF Bit, r
<1>4. CASE ~Hit(e, K, c)
  <2>1. Named(r, K, c) = Named(q, K, c)
    BY <1>1, <1>4 DEF Named, Hit
  <2>2. Cardinality(Named(q, K, c)) \in Nat
    BY NamedFinite
  <2> QED
    BY <2>1, <2>2, <1>4 DEF Bit, r
<1> QED
  BY <1>3, <1>4

\* An entry taken no longer counts.
LEMMA NamedTail ==
    ASSUME NEW V, NEW q \in Seq(V), q # << >>, NEW K, NEW c
    PROVE  /\ Named(q, K, c) # {} <=>
                  Named(Tail(q), K, c) # {} \/ Hit(Head(q), K, c)
           /\ Cardinality(Named(Tail(q), K, c)) =
                  Cardinality(Named(q, K, c)) - Bit(Hit(Head(q), K, c))
<1> DEFINE r == Tail(q)
           S == Named(q, K, c) \ {1}
           T == Named(r, K, c)
           f == [i \in S |-> i - 1]
<1>1. /\ Len(q) \in Nat /\ Len(q) > 0 /\ Len(r) = Len(q) - 1
      /\ \A i \in 1 .. Len(r) : r[i] = q[i + 1]
      /\ Head(q) = q[1] /\ r \in Seq(V)
  OBVIOUS
<1> HIDE DEF r
<1>2. 1 \in Named(q, K, c) <=> Hit(Head(q), K, c)
  BY <1>1 DEF Named, Hit
<1>3. /\ \A i \in S : i \in Nat /\ i - 1 \in T
      /\ \A j \in T : j \in Nat /\ j + 1 \in S
  <2>1. ASSUME NEW i \in S PROVE i \in Nat /\ i - 1 \in T
    <3>1. i \in 1 .. Len(q) /\ i # 1 /\ q[i].kind \in K /\ q[i].sc = c
      BY DEF Named
    <3>2. i - 1 \in 1 .. Len(r) /\ r[i - 1] = q[i]
      BY <3>1, <1>1
    <3> QED
      BY <3>1, <3>2 DEF Named
  <2>2. ASSUME NEW j \in T PROVE j \in Nat /\ j + 1 \in S
    <3>1. j \in 1 .. Len(r) /\ r[j].kind \in K /\ r[j].sc = c
      BY DEF Named
    <3>2. j + 1 \in 1 .. Len(q) /\ r[j] = q[j + 1] /\ j + 1 # 1
      BY <3>1, <1>1
    <3> QED
      BY <3>1, <3>2 DEF Named
  <2> QED
    BY <2>1, <2>2
<1> HIDE DEF S, T
<1>4. f \in Bijection(S, T)
  <2>1. f \in [S -> T]
    BY <1>3
  <2>2. \A a, b \in S : f[a] = f[b] => a = b
    BY <1>3
  <2>3. \A t \in T : \E s \in S : f[s] = t
    <3>1. ASSUME NEW t \in T PROVE \E s \in S : f[s] = t
      <4>1. t + 1 \in S /\ t \in Nat
        BY <1>3
      <4>2. f[t + 1] = t
        BY <4>1
      <4> QED
        BY <4>1, <4>2
    <3> QED
      BY <3>1
  <2> QED
    BY <2>1, <2>2, <2>3 DEF Bijection, Injection, Surjection, IsInjective
<1>5. /\ IsFiniteSet(S)
      /\ Cardinality(S) = Cardinality(Named(q, K, c))
             - Bit(1 \in Named(q, K, c))
  <2>1. IsFiniteSet(Named(q, K, c)) /\ Cardinality(Named(q, K, c)) \in Nat
    BY NamedFinite
  <2> QED
    BY <2>1, FS_RemoveElement DEF S, Bit
<1>6. Cardinality(T) = Cardinality(S)
  BY <1>4, <1>5, FS_Bijection DEF ExistsBijection
<1>7. Named(q, K, c) # {} <=> T # {} \/ Hit(Head(q), K, c)
  BY <1>2, <1>3 DEF S
<1> QED
  BY <1>2, <1>5, <1>6, <1>7 DEF T, r, Bit

\* What is the same for every queue.
Queue(q) ==
    /\ \A K, c : Count(q, K, c) \in Nat
                 /\ (Count(q, K, c) = 0 <=> ~Has(q, K, c))
    /\ \A K, c : Quiet(q) /\ c # NoSc => ~Has(q, K, c)
    /\ \A K, c, m : Formed(q, m) /\ Has(q, K, c) => c \in 0 .. m
    /\ \A K, L, c : Has(q, K \cup L, c) <=> Has(q, K, c) \/ Has(q, L, c)
    /\ \A c : Has(q, {"DESTROY"}, c) => HasEnder(q)
    /\ \A m \in Nat : Formed(q, m) => Formed(q, m + 1)

\* Every sequence of messages is such a queue.
LEMMA AnyQueue ==
    ASSUME NEW V, NEW q \in Seq(V)
    PROVE  Queue(q)
<1>1. \A K, c : Count(q, K, c) \in Nat
                 /\ (Count(q, K, c) = 0 <=> ~Has(q, K, c))
  BY NamedFinite DEF Count, Has
<1>2. \A K, c : Quiet(q) /\ c # NoSc => ~Has(q, K, c)
  BY DEF Quiet, Has, Named
<1>3. \A K, c, m : Formed(q, m) /\ Has(q, K, c) => c \in 0 .. m
  BY DEF Formed, WellFormed, Has, Named
<1>4. \A K, L, c : Has(q, K \cup L, c) <=> Has(q, K, c) \/ Has(q, L, c)
  BY DEF Has, Named
<1>5. \A c : Has(q, {"DESTROY"}, c) => HasEnder(q)
  BY DEF Has, Named, HasEnder, Enders
<1>6. ASSUME NEW m \in Nat, Formed(q, m) PROVE Formed(q, m + 1)
  BY <1>6 DEF Formed, WellFormed
<1> QED
  BY <1>1, <1>2, <1>3, <1>4, <1>5, <1>6 DEF Queue

\* An empty queue.
LEMMA NoQueue ==
    /\ \A K, c : Count(<< >>, K, c) = 0 /\ ~Has(<< >>, K, c)
    /\ Quiet(<< >>) /\ Ending(<< >>) /\ ~HasEnder(<< >>)
    /\ \A m : Formed(<< >>, m)
<1>1. \A K, c : Count(<< >>, K, c) = 0 /\ ~Has(<< >>, K, c)
  BY NamedEmpty DEF Count, Has
<1> QED
  BY <1>1 DEF Quiet, Ending, HasEnder, Formed

\* q with e put behind it is r.
Pushed(q, e, r) ==
    /\ \A K, c : Count(r, K, c) = Count(q, K, c) + Bit(Hit(e, K, c))
    /\ \A K, c : Has(r, K, c) <=> Has(q, K, c) \/ Hit(e, K, c)
    /\ Quiet(r) <=> Quiet(q) /\ e.sc = NoSc
    /\ HasEnder(r) <=> HasEnder(q) \/ e.kind \in Enders
    /\ Ending(q) /\ (HasEnder(q) => e.sc = NoSc) => Ending(r)
    /\ \A m : Formed(q, m) /\ WellFormed(e, m) => Formed(r, m)

LEMMA Put ==
    ASSUME NEW V, NEW q \in Seq(V), NEW e \in V
    PROVE  Pushed(q, e, Append(q, e))
<1> DEFINE r == Append(q, e)
<1>1. \A K, c : /\ Count(r, K, c) = Count(q, K, c) + Bit(Hit(e, K, c))
                /\ Has(r, K, c) <=> Has(q, K, c) \/ Hit(e, K, c)
  BY NamedAppend DEF Count, Has
<1>2. /\ Len(q) \in Nat /\ Len(r) = Len(q) + 1 /\ r[Len(r)] = e
      /\ \A i \in 1 .. Len(q) : r[i] = q[i]
  OBVIOUS
<1> HIDE DEF r
<1>3. /\ \A i \in 1 .. Len(r) : i \in 1 .. Len(q) \/ (i = Len(r) /\ r[i] = e)
      /\ Len(r) \in 1 .. Len(r)
      /\ \A i \in 1 .. Len(q) : i \in 1 .. Len(r)
  BY <1>2
<1>4. Quiet(r) <=> Quiet(q) /\ e.sc = NoSc
  BY <1>2, <1>3 DEF Quiet
<1>5. HasEnder(r) <=> HasEnder(q) \/ e.kind \in Enders
  BY <1>2, <1>3 DEF HasEnder
<1>6. ASSUME Ending(q), HasEnder(q) => e.sc = NoSc PROVE Ending(r)
  <2> SUFFICES ASSUME NEW i \in 1 .. Len(r), NEW j \in 1 .. Len(r), i < j,
                      r[i].kind \in Enders
               PROVE  r[j].sc = NoSc
    BY DEF Ending
  <2>1. i \in 1 .. Len(q) /\ r[i] = q[i]
    BY <1>2, <1>3
  <2>2. CASE j \in 1 .. Len(q)
    BY <1>2, <1>6, <2>1, <2>2 DEF Ending
  <2>3. CASE r[j] = e
    BY <1>6, <2>1, <2>3 DEF HasEnder
  <2> QED
    BY <1>3, <2>2, <2>3
<1>7. \A m : Formed(q, m) /\ WellFormed(e, m) => Formed(r, m)
  BY <1>2, <1>3 DEF Formed
<1> QED
  BY <1>1, <1>4, <1>5, <1>6, <1>7 DEF Pushed, r

\* q with its first entry e taken off is r.
Taken(q, e, r) ==
    /\ \A K, c : Count(r, K, c) = Count(q, K, c) - Bit(Hit(e, K, c))
    /\ \A K, c : Has(q, K, c) <=> Has(r, K, c) \/ Hit(e, K, c)
    /\ Quiet(q) <=> Quiet(r) /\ e.sc = NoSc
    /\ HasEnder(q) <=> HasEnder(r) \/ e.kind \in Enders
    /\ Ending(q) => Ending(r) /\ (e.kind \in Enders => Quiet(r))
    /\ \A m : Formed(q, m) => Formed(r, m) /\ WellFormed(e, m)

LEMMA Take ==
    ASSUME NEW V, NEW q \in Seq(V), q # << >>
    PROVE  /\ Head(q) \in V /\ Tail(q) \in Seq(V) /\ Len(Tail(q)) <= Len(q)
           /\ Taken(q, Head(q), Tail(q))
<1> DEFINE r == Tail(q)
           e == Head(q)
<1>1. \A K, c : /\ Count(r, K, c) = Count(q, K, c) - Bit(Hit(e, K, c))
                /\ Has(q, K, c) <=> Has(r, K, c) \/ Hit(e, K, c)
  BY NamedTail DEF Count, Has
<1>2. /\ Len(q) \in Nat /\ Len(q) > 0 /\ Len(r) = Len(q) - 1
      /\ \A i \in 1 .. Len(r) : r[i] = q[i + 1]
      /\ e = q[1] /\ e \in V /\ r \in Seq(V) /\ Len(r) <= Len(q)
  OBVIOUS
<1> HIDE DEF r, e
<1>3. /\ 1 \in 1 .. Len(q)
      /\ \A i \in 1 .. Len(r) : i + 1 \in 1 .. Len(q) /\ 1 < i + 1
      /\ \A i \in 1 .. Len(q) :
             i = 1 \/ (i - 1 \in 1 .. Len(r) /\ r[i - 1] = q[i])
  BY <1>2
<1>4. Quiet(q) <=> Quiet(r) /\ e.sc = NoSc
  BY <1>2, <1>3 DEF Quiet
<1>5. HasEnder(q) <=> HasEnder(r) \/ e.kind \in Enders
  BY <1>2, <1>3 DEF HasEnder
<1>6. ASSUME Ending(q) PROVE Ending(r) /\ (e.kind \in Enders => Quiet(r))
  <2>1. e.kind \in Enders => Quiet(r)
    BY <1>2, <1>3, <1>6 DEF Ending, Quiet
  <2>2. ASSUME NEW i \in 1 .. Len(r), NEW j \in 1 .. Len(r), i < j,
               r[i].kind \in Enders
        PROVE  r[j].sc = NoSc
    <3>1. /\ i + 1 \in 1 .. Len(q) /\ j + 1 \in 1 .. Len(q) /\ i + 1 < j + 1
          /\ r[i] = q[i + 1] /\ r[j] = q[j + 1]
      BY <1>2, <1>3, <2>2
    <3> QED
      BY <1>6, <2>2, <3>1 DEF Ending
  <2> QED
    BY <2>1, <2>2 DEF Ending
<1>7. \A m : Formed(q, m) => Formed(r, m) /\ WellFormed(e, m)
  BY <1>2, <1>3 DEF Formed
<1> QED
  BY <1>1, <1>2, <1>4, <1>5, <1>6, <1>7 DEF Taken, r, e

-----------------------------------------------------------------------------
(* What the steps do to the queues.                                        *)

\* The three queues are queues.
LEMMA Queues == Typed => Queue(rxQ) /\ Queue(txQ) /\ Queue(batch)
BY AnyQueue DEF Typed

\* aiopquic_rx_push_sc and the events without a context.
LEMMA RxPut ==
    ASSUME Typed, NEW k \in RxKinds, NEW s \in Sc \cup {NoSc},
           rxQ' = Append(rxQ, Event(k, s))
    PROVE  rxQ' \in Seq(Events) /\ Pushed(rxQ, Event(k, s), rxQ')
<1>1. Event(k, s) \in Events
  BY DEF Event, Events
<1>2. Pushed(rxQ, Event(k, s), Append(rxQ, Event(k, s)))
  BY <1>1, Put DEF Typed
<1> QED
  BY <1>1, <1>2 DEF Typed

\* A drained entry.
LEMMA RxTake ==
    ASSUME Typed, rxQ # << >>, rxQ' = Tail(rxQ)
    PROVE  /\ rxQ' \in Seq(Events) /\ Head(rxQ) \in Events
           /\ Taken(rxQ, Head(rxQ), rxQ')
BY Take DEF Typed

\* aiopquic_tx_push_sc with room in the ring.
LEMMA TxPut ==
    ASSUME Typed, NEW k \in TxKinds, NEW s \in Sc \cup {NoSc}, Room,
           txQ' = Append(txQ, Event(k, s))
    PROVE  /\ txQ' \in Seq(Commands) /\ Len(txQ') <= TxCap
           /\ Pushed(txQ, Event(k, s), txQ')
<1>1. Event(k, s) \in Commands
  BY DEF Event, Commands
<1>2. Pushed(txQ, Event(k, s), Append(txQ, Event(k, s)))
  BY <1>1, Put DEF Typed
<1>3. txQ' \in Seq(Commands) /\ Len(txQ') = Len(txQ) + 1
  BY <1>1 DEF Typed
<1>4. Len(txQ') <= TxCap
  BY <1>3, BoundsAssumption DEF Typed, Room
<1> QED
  BY <1>2, <1>3, <1>4

\* A command the worker takes.
LEMMA TxTake ==
    ASSUME Typed, txQ # << >>, txQ' = Tail(txQ)
    PROVE  /\ txQ' \in Seq(Commands) /\ Len(txQ') <= TxCap
           /\ Head(txQ) \in Commands /\ Taken(txQ, Head(txQ), txQ')
<1>1. /\ Head(txQ) \in Commands /\ txQ' \in Seq(Commands)
      /\ Len(txQ') <= Len(txQ) /\ Taken(txQ, Head(txQ), txQ')
  BY Take DEF Typed
<1>2. Len(txQ') \in Nat /\ Len(txQ) \in Nat
  BY <1>1 DEF Typed
<1> QED
  BY <1>1, <1>2, BoundsAssumption DEF Typed

\* An entry that joins the batch, and one that is routed.
LEMMA BatchPut ==
    ASSUME Typed, NEW e \in Events, batch' = Append(batch, e)
    PROVE  batch' \in Seq(Events) /\ Pushed(batch, e, batch')
BY Put DEF Typed

\* Routing the batch's first event.
LEMMA BatchTake ==
    ASSUME Typed, batch # << >>, batch' = Tail(batch)
    PROVE  /\ batch' \in Seq(Events) /\ Head(batch) \in Events
           /\ Taken(batch, Head(batch), batch')
BY Take DEF Typed

\* A stream callback that reports c, of kind k: the context is the stream's or
\* a new one.
Reports(k, c) ==
    /\ Pushed(rxQ, Event(k, c), rxQ') /\ rxQ' \in Seq(Events)
    /\ \/ /\ c = att /\ made' = made
          /\ refs' = Add(refs, c, 1)
       \/ /\ att = NoSc /\ c = made + 1 /\ made' = made + 1
          /\ refs' = Add(Add(refs, c, 1), c, 1)

\* What the callbacks of a stream leave alone, and when they run.
Callback ==
    /\ Running /\ ~Over /\ left > 0
    /\ strm' = "open" /\ left' = left - 1
    /\ UNCHANGED <<cnx, final, txQ, held, loopVars, connVars, chunks, phase,
                   fixed>>

\* stream_data and stream_fin with bytes.
LEMMA PayloadEffect ==
    ASSUME Typed, Names, StreamData \/ StreamFin
    PROVE  \E c \in Sc :
             /\ Callback /\ att' = c /\ filled' = filled \cup {c}
             /\ \/ /\ StreamData /\ c \notin notified /\ Reports("DATA", c)
                   /\ notified' = notified \cup {c}
                \/ /\ StreamData /\ c \in notified /\ c = att
                   /\ UNCHANGED <<rxQ, refs, made, notified>>
                \/ StreamFin /\ Reports("FIN", c) /\ UNCHANGED notified
<1> DEFINE c == PayloadSc
<1>1. Callback
  BY DEF StreamData, StreamFin, PeerMaySend, Callback, Over, Typed
<1>2. /\ c \in Sc /\ att' = c /\ filled' = filled \cup {c}
      /\ made' = IF att = NoSc THEN made + 1 ELSE made
  BY DEF StreamData, StreamFin, ReceiveInto
<1>3. c = IF att = NoSc THEN made + 1 ELSE att
  BY DEF PayloadSc
<1>4. CASE (StreamData /\ c \notin notified) \/ StreamFin
  <2>1. PICK j \in {"DATA", "FIN"} :
            /\ rxQ' = Append(rxQ, Event(j, c))
            /\ refs' = Add(CountPayloadSc, c, 1)
            /\ \/ /\ StreamData /\ c \notin notified /\ j = "DATA"
                  /\ notified' = notified \cup {c}
               \/ StreamFin /\ j = "FIN" /\ UNCHANGED notified
    BY <1>4 DEF StreamData, StreamFin, RxPushSc
  <2>2. j \in RxKinds
    BY DEF RxKinds, RxOwners
  <2> HIDE DEF c
  <2>3. Pushed(rxQ, Event(j, c), rxQ') /\ rxQ' \in Seq(Events)
    BY <1>2, <2>1, <2>2, RxPut
  <2>4. Reports(j, c)
    BY <1>2, <1>3, <2>1, <2>3 DEF Reports, CountPayloadSc
  <2> QED
    BY <1>1, <1>2, <2>1, <2>4
<1>5. CASE StreamData /\ c \in notified
  <2>1. UNCHANGED <<rxQ, refs, notified>>
    BY <1>5 DEF StreamData
  <2>2. c = att /\ UNCHANGED made
    BY <1>2, <1>3, <1>5 DEF Names, Typed
  <2> QED
    BY <1>1, <1>2, <1>5, <2>1, <2>2
<1> QED
  BY <1>4, <1>5

\* A bare FIN, stream_reset and stop_sending.
LEMMA SignalEffect ==
    ASSUME Typed, Names, NEW k \in {"FIN", "SIGNAL"}, StreamSignal(k)
    PROVE  /\ Callback /\ UNCHANGED <<att, rxVars, made>>
           /\ Pushed(rxQ, Event(k, att), rxQ') /\ rxQ' \in Seq(Events)
           /\ refs' = Add(refs, att, 1)
<1>1. Callback
  BY DEF StreamSignal, PeerMaySend, Callback, Over, Typed
<1>2. k \in RxKinds /\ att \in Sc \cup {NoSc}
  BY BoundsAssumption DEF RxKinds, RxOwners, Names, Typed, Sc, NoSc
<1>3. rxQ' = Append(rxQ, Event(k, att)) /\ refs' = Add(refs, att, 1)
  BY DEF StreamSignal, RxPushSc
<1>4. UNCHANGED <<att, rxVars, made>>
  BY DEF StreamSignal
<1> QED
  BY <1>1, <1>2, <1>3, <1>4, RxPut

\* picoquic_callback_stream_released.
LEMMA ReleasedEffect ==
    ASSUME Typed, Names, StreamReleased
    PROVE  /\ Running /\ ~Over /\ strm' = "released" /\ att' = NoSc
           /\ rxQ' \in Seq(Events)
           /\ \/ att = NoSc /\ UNCHANGED rxQ
              \/ att # NoSc /\ Pushed(rxQ, Event("DESTROY", att), rxQ')
           /\ UNCHANGED <<refs, made, cnx, final, rxVars, txQ, held, loopVars,
                          connVars, chunks, phase, left, fixed>>
<1>1. att \in Sc \cup {NoSc} /\ "DESTROY" \in RxKinds
  BY BoundsAssumption DEF RxKinds, Names, Typed, Sc, NoSc
<1>2. CASE att = NoSc
  BY <1>2 DEF StreamReleased, Typed, Over
<1>3. CASE att # NoSc
  BY <1>1, <1>3, RxPut DEF StreamReleased, Over
<1> QED
  BY <1>2, <1>3

\* The two close callbacks.
LEMMA CloseEffect ==
    ASSUME Typed, ApplicationClose \/ CloseCallback
    PROVE  \E k \in Closes :
             /\ Running /\ cnx' = "closing" /\ final' \in BOOLEAN
             /\ rxQ' \in Seq(Events) /\ Pushed(rxQ, Event(k, NoSc), rxQ')
             /\ refs' = DropEach(refs, held) /\ held' = {}
             /\ UNCHANGED <<made, strm, att, rxVars, txQ, loopVars, connVars,
                            chunks, phase, left, fixed>>
<1>1. PICK k \in Closes : CloseEvent(k)
  BY DEF ApplicationClose, CloseCallback, Closes
<1>2. k \in RxKinds
  BY DEF Closes, RxKinds
<1>3. rxQ' \in Seq(Events) /\ Pushed(rxQ, Event(k, NoSc), rxQ')
  BY <1>1, <1>2, RxPut DEF CloseEvent
<1> QED
  BY <1>1, <1>3 DEF ApplicationClose, CloseCallback, CloseEvent, Typed

\* The app ctx is kept, cleared or set to c; a retired stream gets none.
Reattached(c) ==
    /\ att' \in {att, NoSc, c}
    /\ strm' = strm \/ (strm = "none" /\ strm' = "open")
    /\ strm = "released" => att' \in {att, NoSc}

\* A command of the TX ring: its reference goes, or becomes a held reset's.
LEMMA CommandEffect ==
    ASSUME Typed, Names, HandleTx
    PROVE  \E e \in Commands :
             /\ Running /\ e.sc \in 0 .. made /\ Taken(txQ, e, txQ')
             /\ txQ' \in Seq(Commands) /\ Len(txQ') <= TxCap
             /\ cnx' = cnx \/ cnx' = "closing"
             /\ Reattached(e.sc)
             /\ \/ /\ UNCHANGED held
                   /\ refs' = IF e.kind \in TxOwners THEN Add(refs, e.sc, -1)
                              ELSE refs
                \/ /\ e.kind \in TxOwners /\ e.sc \notin held /\ e.sc # NoSc
                   /\ held' = held \cup {e.sc}
                   /\ refs' = Add(Add(refs, e.sc, 1), e.sc, -1)
             /\ UNCHANGED <<made, final, rxVars, rxQ, loopVars, connVars,
                            chunks, phase, left, fixed>>
<1> DEFINE e == Head(txQ)
<1>1. Running /\ txQ # << >> /\ txQ' = Tail(txQ)
  BY DEF HandleTx, HandleMark, HandleResetAgain, HandleResetHold,
         HandleResetNow, HandleStop, HandleCredit, HandleClose, DropStale,
         Command
<1>2. /\ txQ' \in Seq(Commands) /\ Len(txQ') <= TxCap
      /\ e \in Commands /\ Taken(txQ, e, txQ')
  BY <1>1, TxTake
<1>3. e.sc \in 0 .. made
  BY <1>2 DEF Taken, Names, WellFormed
<1>4. TxSc = e.sc
  BY DEF TxSc
<1> HIDE DEF e
<1>5. /\ cnx' = cnx \/ cnx' = "closing"
      /\ UNCHANGED <<made, final, rxVars, rxQ, loopVars, connVars, chunks,
                     phase, left, fixed>>
  BY DEF HandleTx, HandleMark, HandleResetAgain, HandleResetHold,
         HandleResetNow, HandleStop, HandleCredit, HandleClose, DropStale,
         cnxVars
<1>6. Reattached(e.sc)
  BY <1>4 DEF HandleTx, HandleMark, HandleResetAgain, HandleResetHold,
              HandleResetNow, HandleStop, HandleCredit, HandleClose,
              DropStale, MarkActive, DetachReattach, Reattached, cnxVars
<1>7. \/ /\ UNCHANGED held
         /\ refs' = IF e.kind \in TxOwners THEN Add(refs, e.sc, -1) ELSE refs
      \/ /\ e.kind \in TxOwners /\ e.sc \notin held /\ e.sc # NoSc
         /\ held' = held \cup {e.sc}
         /\ refs' = Add(Add(refs, e.sc, 1), e.sc, -1)
  BY <1>4 DEF HandleTx, HandleMark, HandleResetAgain, HandleResetHold,
              HandleResetNow, HandleStop, HandleCredit, HandleClose,
              DropStale, Command, TxOwners, e
<1> QED
  BY <1>1, <1>2, <1>3, <1>5, <1>6, <1>7

\* A held reset that is sent or given up.
LEMMA DeferredEffect ==
    ASSUME Typed, NEW c \in Sc, RunDeferredReady(c) \/ RunDeferredSweep(c)
    PROVE  /\ Running /\ c \in held /\ Reattached(c)
           /\ held' = held \ {c} /\ refs' = Add(refs, c, -1)
           /\ UNCHANGED <<made, cnx, final, rxVars, rxQ, txQ, loopVars,
                          connVars, chunks, phase, left, fixed>>
BY DEF RunDeferredReady, RunDeferredSweep, DetachReattach, Reattached, cnxVars

\* aiopquic_tx_push_sc: the command and its reference, or neither.
LEMMA TxPushEffect ==
    ASSUME Typed, NEW k \in TxKinds, NEW s \in Sc \cup {NoSc}, NEW r,
           TxPushSc(k, s, r)
    PROVE  /\ txQ' \in Seq(Commands) /\ Len(txQ') <= TxCap
           /\ \/ Pushed(txQ, Event(k, s), txQ') /\ refs' = Add(r, s, 1)
              \/ UNCHANGED txQ /\ refs' = r
<1>1. CASE Room
  BY <1>1, TxPut DEF TxPushSc
<1>2. CASE ~Room
  BY <1>2 DEF TxPushSc, Typed
<1> QED
  BY <1>1, <1>2

\* send_stream_data, reset_stream and stop_stream: a command for the context
\* of the map, or for one that a send creates.
LEMMA CallEffect ==
    ASSUME Typed, Names, NEW j \in {"RESET", "STOP"}, Send \/ Abort(j)
    PROVE  \E k \in TxOwners, s \in Sc \cup {NoSc} :
             /\ Running /\ left' \in 0 .. MaxInputs
             /\ txQ' \in Seq(Commands) /\ Len(txQ') <= TxCap
             /\ \/ /\ s = map /\ UNCHANGED <<made, map, owned>>
                   /\ \/ /\ Pushed(txQ, Event(k, s), txQ')
                         /\ refs' = Add(refs, s, 1)
                      \/ UNCHANGED <<txQ, refs>>
                \/ /\ s = made + 1 /\ s \in Sc /\ made' = s /\ map' = s
                   /\ owned' = owned \cup {s}
                   /\ \/ /\ Pushed(txQ, Event(k, s), txQ')
                         /\ refs' = Add(Add(refs, s, 1), s, 1)
                      \/ UNCHANGED txQ /\ refs' = Add(refs, s, 1)
             /\ UNCHANGED <<cnxVars, rxVars, rxQ, held, loopVars, dropped,
                            closed, chunks, phase, fixed>>
<1>1. /\ Running /\ left' \in 0 .. MaxInputs
      /\ UNCHANGED <<cnxVars, rxVars, rxQ, held, loopVars, dropped, closed,
                     chunks, phase, fixed>>
  <2>1. left > 0 /\ left' = left - 1
    BY DEF Send, Abort, AppTurn
  <2>2. left' \in 0 .. MaxInputs
    BY <2>1, BoundsAssumption DEF Typed
  <2> QED
    BY <2>2 DEF Send, Abort, AppTurn, connVars
<1>2. /\ {"MARK", "RESET", "STOP"} \subseteq TxOwners
      /\ {"MARK", "RESET", "STOP"} \subseteq TxKinds
  BY DEF TxKinds, TxOwners
<1>3. map \in Sc \cup {NoSc} /\ (made < MaxSc => made + 1 \in Sc)
  BY BoundsAssumption DEF Names, Typed, Sc, NoSc
<1>4. CASE /\ UNCHANGED <<made, map, owned>>
           /\ \E k \in {"MARK", "RESET", "STOP"} : TxPushSc(k, map, refs)
  <2>1. PICK k \in {"MARK", "RESET", "STOP"} : TxPushSc(k, map, refs)
    BY <1>4
  <2>2. k \in TxOwners /\ k \in TxKinds
    BY <1>2
  <2>3. /\ txQ' \in Seq(Commands) /\ Len(txQ') <= TxCap
        /\ \/ Pushed(txQ, Event(k, map), txQ') /\ refs' = Add(refs, map, 1)
           \/ UNCHANGED txQ /\ refs' = refs
    BY <2>1, <2>2, <1>3, TxPushEffect
  <2> QED
    BY <1>1, <1>3, <1>4, <2>2, <2>3
<1>5. CASE /\ made < MaxSc /\ made' = made + 1 /\ map' = made + 1
           /\ owned' = owned \cup {made + 1}
           /\ TxPushSc("MARK", made + 1, Add(refs, made + 1, 1))
  <2> DEFINE s == made + 1
  <2>1. s \in Sc /\ "MARK" \in TxOwners /\ "MARK" \in TxKinds
    BY <1>2, <1>3, <1>5
  <2> HIDE DEF s
  <2>2. TxPushSc("MARK", s, Add(refs, s, 1))
    BY <1>5 DEF s
  <2>3. /\ txQ' \in Seq(Commands) /\ Len(txQ') <= TxCap
        /\ \/ Pushed(txQ, Event("MARK", s), txQ')
              /\ refs' = Add(Add(refs, s, 1), s, 1)
           \/ UNCHANGED txQ /\ refs' = Add(refs, s, 1)
    BY <2>1, <2>2, TxPushEffect
  <2>4. s = made + 1 /\ made' = s /\ map' = s /\ owned' = owned \cup {s}
    BY <1>5 DEF s
  <2> QED
    BY <1>1, <2>1, <2>3, <2>4
<1> QED
  BY <1>4, <1>5 DEF Send, Abort, connVars

\* close, and the closes of stop().
LEMMA CloseCallEffect ==
    ASSUME Typed, Close \/ BeginStop
    PROVE  /\ Running /\ left' \in 0 .. MaxInputs /\ closed' \in BOOLEAN
           /\ py' = py \/ (py = "idle" /\ py' = "stopping")
           /\ txQ' \in Seq(Commands) /\ Len(txQ') <= TxCap
           /\ \/ Pushed(txQ, Event("CLOSE", NoSc), txQ')
              \/ UNCHANGED txQ
           /\ UNCHANGED <<refs, made, cnxVars, rxVars, rxQ, held, notes,
                          batch, batchRefs, retired, map, owned, dropped,
                          chunks, phase, fixed>>
<1>1. left' \in 0 .. MaxInputs
  BY BoundsAssumption DEF Close, AppTurn, BeginStop, Typed
<1>2. /\ Running /\ closed' \in BOOLEAN
      /\ py' = py \/ (py = "idle" /\ py' = "stopping")
      /\ \/ Room /\ txQ' = Append(txQ, Event("CLOSE", NoSc))
         \/ UNCHANGED txQ
      /\ UNCHANGED <<refs, made, cnxVars, rxVars, rxQ, held, notes, batch,
                     batchRefs, retired, map, owned, dropped, chunks, phase,
                     fixed>>
  BY DEF Close, AppTurn, BeginStop, Typed, loopVars
<1>3. /\ txQ' \in Seq(Commands) /\ Len(txQ') <= TxCap
      /\ \/ Pushed(txQ, Event("CLOSE", NoSc), txQ')
         \/ UNCHANGED txQ
  <2>1. "CLOSE" \in TxKinds
    BY DEF TxKinds
  <2>2. CASE Room /\ txQ' = Append(txQ, Event("CLOSE", NoSc))
    BY <2>1, <2>2, TxPut
  <2>3. CASE UNCHANGED txQ
    BY <2>3 DEF Typed
  <2> QED
    BY <1>2, <2>2, <2>3
<1> QED
  BY <1>1, <1>2, <1>3

\* _flush_pending_fc: the note's reference goes, a credit command may take
\* one.
LEMMA FlushEffect ==
    ASSUME Typed, NEW c \in Sc, FlushNote(c)
    PROVE  /\ c \in notes /\ notes' = notes \ {c}
           /\ py \in {"drain", "flush"} /\ py' = "flush"
           /\ txQ' \in Seq(Commands) /\ Len(txQ') <= TxCap
           /\ \/ /\ Pushed(txQ, Event("CREDIT", c), txQ')
                 /\ refs' = Add(Add(refs, c, -1), c, 1)
              \/ UNCHANGED txQ /\ refs' = Add(refs, c, -1)
           /\ UNCHANGED <<made, cnxVars, rxVars, rxQ, held, batch, batchRefs,
                          retired, connVars, chunks, phase, left, fixed>>
<1>1. "CREDIT" \in TxKinds
  BY DEF TxKinds, TxOwners
<1>2. CASE TxPushSc("CREDIT", c, Add(refs, c, -1))
  <2>1. /\ txQ' \in Seq(Commands) /\ Len(txQ') <= TxCap
        /\ \/ /\ Pushed(txQ, Event("CREDIT", c), txQ')
              /\ refs' = Add(Add(refs, c, -1), c, 1)
           \/ UNCHANGED txQ /\ refs' = Add(refs, c, -1)
    BY <1>1, <1>2, TxPushEffect
  <2> QED
    BY <2>1 DEF FlushNote
<1>3. CASE UNCHANGED txQ /\ refs' = Add(refs, c, -1)
  BY <1>3 DEF FlushNote, Typed
<1> QED
  BY <1>2, <1>3 DEF FlushNote

\* One drained entry e, whoever handles it.
Drained(e) ==
    /\ Running /\ py \in {"idle", "drain"} /\ py' = "drain"
    /\ Taken(rxQ, e, rxQ') /\ rxQ' \in Seq(Events)
    /\ WellFormed(e, made) /\ TakeBytes(e)
    /\ UNCHANGED <<made, cnxVars, txQ, held, phase, left, fixed>>

\* A step of the drain takes the ring's first event, and either finds no bytes
\* for it, handles it in place (a client) or keeps it for the engine.
LEMMA DrainEffect ==
    ASSUME Typed, Names, Drain
    PROVE  \E e \in Events :
             /\ Drained(e)
             /\ \/ /\ e.kind = "DATA" /\ e.sc \notin filled
                   /\ refs' = Add(refs, e.sc, -1)
                   /\ UNCHANGED <<notes, chunks, batch, batchRefs, retired,
                                  connVars>>
                \/ /\ ~engine /\ HandleEvent(e, Add(Counted(e), e.sc, -1))
                   /\ UNCHANGED <<batch, batchRefs, retired>>
                \/ /\ engine
                   /\ batch' \in Seq(Events) /\ Pushed(batch, e, batch')
                   /\ refs' = Counted(e)
                   /\ batchRefs' = IF e.kind \in RxOwners
                                   THEN Add(batchRefs, e.sc, 1)
                                   ELSE batchRefs
                   /\ retired' = IF e.kind = "DESTROY"
                                 THEN retired \cup {e.sc} ELSE retired
                   /\ UNCHANGED connVars
<1> DEFINE e == Head(rxQ)
<1>1. /\ Running /\ py \in {"idle", "drain"} /\ py' = "drain"
      /\ rxQ # << >> /\ rxQ' = Tail(rxQ) /\ TakeBytes(e)
      /\ UNCHANGED <<made, cnxVars, txQ, held, phase, left, fixed>>
  BY DEF Drain, DrainEmpty, DrainClient, DrainEngine, Deliverable, DrainTurn
<1>2. e \in Events /\ Taken(rxQ, e, rxQ') /\ rxQ' \in Seq(Events)
  BY <1>1, RxTake
<1>3. WellFormed(e, made)
  BY <1>2 DEF Taken, Names
<1>4. Drained(e)
  BY <1>1, <1>2, <1>3 DEF Drained
<1>5. CASE DrainEmpty
  <2>1. /\ e.kind = "DATA" /\ e.sc \notin filled
        /\ refs' = Add(refs, e.sc, -1)
        /\ UNCHANGED <<batch, batchRefs, retired, connVars>>
    BY <1>5 DEF DrainEmpty, HasBytes
  <2>2. UNCHANGED <<notes, chunks>>
    BY <1>5 DEF DrainEmpty, TakeBytes
  <2> QED
    BY <1>2, <1>4, <2>1, <2>2
<1>6. CASE DrainClient
  <2>1. /\ ~engine /\ HandleEvent(e, Add(Counted(e), e.sc, -1))
        /\ UNCHANGED <<batch, batchRefs, retired>>
    BY <1>6 DEF DrainClient
  <2> QED
    BY <1>2, <1>4, <2>1
<1>7. CASE DrainEngine
  <2>1. /\ engine /\ batch' = Append(batch, e) /\ refs' = Counted(e)
        /\ batchRefs' = IF e.kind \in RxOwners THEN Add(batchRefs, e.sc, 1)
                        ELSE batchRefs
        /\ retired' = IF e.kind = "DESTROY" THEN retired \cup {e.sc}
                      ELSE retired
        /\ UNCHANGED connVars
    BY <1>7 DEF DrainEngine
  <2>2. batch' \in Seq(Events) /\ Pushed(batch, e, batch')
    BY <1>2, <2>1, BatchPut
  <2> QED
    BY <1>2, <1>4, <2>1, <2>2
<1> QED
  BY <1>5, <1>6, <1>7 DEF Drain

\* One routed event e.
Routed(e) ==
    /\ Running /\ py = "route"
    /\ Taken(batch, e, batch') /\ batch' \in Seq(Events)
    /\ WellFormed(e, made) /\ HandleEvent(e, refs)
    /\ UNCHANGED <<made, cnxVars, rxVars, rxQ, txQ, held, py, notes,
                   batchRefs, retired, chunks, phase, left, fixed>>

\* The engine routes the batch's first event.
LEMMA RouteEffect ==
    ASSUME Typed, Names, Loop, RouteEvent
    PROVE  \E e \in Events : Routed(e)
<1> DEFINE e == Head(batch)
<1>1. e \in Events /\ Taken(batch, e, batch') /\ batch' \in Seq(Events)
  BY BatchTake DEF RouteEvent
<1>2. WellFormed(e, made)
  BY <1>1 DEF Taken, Names
<1>3. Running
  BY DEF RouteEvent, Loop
<1>4. Routed(e)
  BY <1>1, <1>2, <1>3 DEF RouteEvent, Routed
<1> QED
  BY <1>1, <1>4

-----------------------------------------------------------------------------
(* Preservation, part by part.                                             *)

\* A count stays a number.
LEMMA AddTyped ==
    /\ \A c : \A r \in [Sc -> Int] :
           /\ Add(r, c, 1) \in [Sc -> Int] /\ Add(r, c, 2) \in [Sc -> Int]
           /\ Add(r, c, -1) \in [Sc -> Int]
    /\ \A S : \A r \in [Sc -> Int] : DropEach(r, S) \in [Sc -> Int]
  BY DEF Add, DropEach

\* Adding one keeps a count a natural number.
LEMMA AddNat ==
    ASSUME NEW r \in [Sc -> Nat], NEW c
    PROVE  Add(r, c, 1) \in [Sc -> Nat]
  BY DEF Add

\* A context's number is one that made can take.
LEMMA ScNumber == \A c \in Sc : c \in 0 .. MaxSc
  BY BoundsAssumption DEF Sc

\* Type correctness: every count is an integer, every queue one of its kind.
LEMMA TypedStep ==
    Typed /\ Names /\ Loop /\ [Next]_vars => Typed'
<1> SUFFICES ASSUME Typed, Names, Loop, [Next]_vars
             PROVE  Typed'
  OBVIOUS
<1> USE DEF Typed, cnxVars, rxVars, loopVars, connVars, fixed
<1>1. CASE StreamData \/ StreamFin
  <2>1. PICK c \in Sc :
            /\ Callback
            /\ Reports("DATA", c) \/ Reports("FIN", c)
               \/ UNCHANGED <<rxQ, refs, made>>
    BY <1>1, PayloadEffect
  <2>2. /\ rxQ' \in Seq(Events)
        /\ made' = made \/ made' = c
        /\ \/ refs' = refs \/ refs' = Add(refs, c, 1)
           \/ refs' = Add(Add(refs, c, 1), c, 1)
    BY <2>1 DEF Reports
  <2>3. refs' \in [Sc -> Int]
    BY <2>2, AddTyped
  <2>4. made' \in 0 .. MaxSc
    BY <2>2, ScNumber
  <2> QED
    BY <2>1, <2>2, <2>3, <2>4, BoundsAssumption DEF Callback
<1>2. ASSUME NEW k \in {"FIN", "SIGNAL"}, StreamSignal(k)
      PROVE  Typed'
  <2>1. Callback /\ rxQ' \in Seq(Events) /\ refs' = Add(refs, att, 1)
        /\ UNCHANGED made
    BY <1>2, SignalEffect
  <2>2. refs' \in [Sc -> Int]
    BY <2>1, AddTyped
  <2> QED
    BY <2>1, <2>2, BoundsAssumption DEF Callback
<1>3. CASE StreamReleased
  BY <1>3, ReleasedEffect
<1>4. CASE ApplicationClose \/ CloseCallback
  <2>1. PICK k \in Closes :
            /\ cnx' = "closing" /\ final' \in BOOLEAN
            /\ rxQ' \in Seq(Events) /\ refs' = DropEach(refs, held)
            /\ UNCHANGED <<made, strm, txQ, loopVars, connVars, chunks, phase,
                           left, fixed>>
    BY <1>4, CloseEffect
  <2>2. refs' \in [Sc -> Int]
    BY <2>1, AddTyped
  <2> QED
    BY <2>1, <2>2
<1>5. CASE DeleteCnx
  BY <1>5 DEF DeleteCnx
<1>6. CASE HandleTx
  <2>1. PICK e \in Commands :
            /\ txQ' \in Seq(Commands) /\ Len(txQ') <= TxCap
            /\ cnx' = cnx \/ cnx' = "closing"
            /\ Reattached(e.sc)
            /\ \/ refs' = refs \/ refs' = Add(refs, e.sc, -1)
               \/ refs' = Add(Add(refs, e.sc, 1), e.sc, -1)
            /\ UNCHANGED <<made, final, rxQ, loopVars, connVars, chunks, phase,
                           left, fixed>>
    BY <1>6, CommandEffect
  <2>2. refs' \in [Sc -> Int]
    BY <2>1, AddTyped
  <2> QED
    BY <2>1, <2>2 DEF Reattached
<1>7. ASSUME NEW c \in Sc, RunDeferredReady(c) \/ RunDeferredSweep(c)
      PROVE  Typed'
  <2>1. /\ refs' = Add(refs, c, -1) /\ Reattached(c)
        /\ UNCHANGED <<made, cnx, final, rxQ, txQ, loopVars, connVars, chunks,
                       phase, left, fixed>>
    BY <1>7, DeferredEffect
  <2>2. refs' \in [Sc -> Int]
    BY <2>1, AddTyped
  <2> QED
    BY <2>1, <2>2 DEF Reattached
<1>8. ASSUME NEW k \in {"RESET", "STOP"}, Send \/ Abort(k)
      PROVE  Typed'
  <2>1. PICK s \in Sc \cup {NoSc} :
            /\ left' \in 0 .. MaxInputs
            /\ txQ' \in Seq(Commands) /\ Len(txQ') <= TxCap
            /\ made' = made \/ made' \in Sc
            /\ \/ refs' = refs \/ refs' = Add(refs, s, 1)
               \/ refs' = Add(Add(refs, s, 1), s, 1)
            /\ UNCHANGED <<cnxVars, rxQ, loopVars, dropped, closed, chunks,
                           phase, fixed>>
    BY <1>8, CallEffect
  <2>2. refs' \in [Sc -> Int]
    BY <2>1, AddTyped
  <2>3. made' \in 0 .. MaxSc
    BY <2>1, ScNumber
  <2> QED
    BY <2>1, <2>2, <2>3
<1>9. CASE Close \/ BeginStop
  BY <1>9, CloseCallEffect
<1>10. ASSUME NEW c \in Sc, ReleaseChunk(c)
       PROVE  Typed'
  <2>1. refs' \in [Sc -> Int] /\ chunks' \in [Sc -> Nat]
    BY <1>10, AddTyped DEF ReleaseChunk, Add
  <2> QED
    BY <1>10, <2>1 DEF ReleaseChunk
<1>11. CASE Drain
  <2>1. PICK e \in Events :
            /\ Drained(e) /\ batch' \in Seq(Events)
            /\ \/ refs' = Add(refs, e.sc, -1) \/ refs' = Counted(e)
               \/ HandleEvent(e, Add(Counted(e), e.sc, -1))
            /\ batchRefs' = batchRefs \/ batchRefs' = Add(batchRefs, e.sc, 1)
            /\ UNCHANGED connVars
               \/ HandleEvent(e, Add(Counted(e), e.sc, -1))
    BY <1>11, DrainEffect
  <2>2. Counted(e) \in [Sc -> Int]
    <3>1. /\ e.sc \in notes => Popped(refs, e.sc) = Add(refs, e.sc, 1)
          /\ e.sc \notin notes => Popped(refs, e.sc) = Add(refs, e.sc, 2)
      BY DEF Popped
    <3> QED
      BY <3>1, AddTyped DEF Counted
  <2>3. refs' \in [Sc -> Int]
    <3>1. Add(Counted(e), e.sc, -1) \in [Sc -> Int]
      BY <2>2, AddTyped
    <3>2. HandleEvent(e, Add(Counted(e), e.sc, -1)) =>
              \/ refs' = Add(Counted(e), e.sc, -1)
              \/ refs' = DropEach(Add(Counted(e), e.sc, -1), owned)
      BY DEF HandleEvent, Adopt, DestroyStreamCtxs, Forget
    <3>3. \/ refs' = Add(refs, e.sc, -1) \/ refs' = Counted(e)
          \/ refs' = Add(Counted(e), e.sc, -1)
          \/ refs' = DropEach(Add(Counted(e), e.sc, -1), owned)
      BY <2>1, <3>2
    <3>4. /\ Add(refs, e.sc, -1) \in [Sc -> Int]
          /\ DropEach(Add(Counted(e), e.sc, -1), owned) \in [Sc -> Int]
      BY <3>1, AddTyped
    <3> QED
      BY <2>2, <3>1, <3>3, <3>4
  <2>4. dropped' \in BOOLEAN /\ closed' \in BOOLEAN
    BY <2>1 DEF HandleEvent, Adopt, DestroyStreamCtxs, Forget
  <2>5. batchRefs' \in [Sc -> Nat] /\ chunks' \in [Sc -> Nat]
    BY <2>1, AddNat DEF Drained, TakeBytes
  <2> QED
    BY <2>1, <2>3, <2>4, <2>5 DEF Drained
<1>12. ASSUME NEW c \in Sc, FlushNote(c)
       PROVE  Typed'
  <2>1. \/ refs' = Add(refs, c, -1)
        \/ refs' = Add(Add(refs, c, -1), c, 1)
    BY <1>12, FlushEffect
  <2>2. refs' \in [Sc -> Int]
    <3>1. Add(refs, c, -1) \in [Sc -> Int]
      BY AddTyped
    <3> QED
      BY <2>1, <3>1, AddTyped
  <2> QED
    BY <1>12, <2>2, FlushEffect
<1>13. CASE DrainReturn
  BY <1>13 DEF DrainReturn
<1>14. CASE RouteEvent
  <2>1. PICK e \in Events : Routed(e)
    BY <1>14, RouteEffect
  <2>2. refs' \in [Sc -> Int]
    BY <2>1, AddTyped
       DEF Routed, HandleEvent, Adopt, DestroyStreamCtxs, Forget
  <2>3. dropped' \in BOOLEAN /\ closed' \in BOOLEAN
    BY <2>1 DEF Routed, HandleEvent, Adopt, DestroyStreamCtxs, Forget
  <2> QED
    BY <2>1, <2>2, <2>3 DEF Routed
<1>15. CASE ReleaseBatch
  <2>1. refs' \in [Sc -> Int]
    BY <1>15 DEF ReleaseBatch, ReleaseBatchRefs
  <2> QED
    BY <1>15, <2>1 DEF ReleaseBatch, NoRefs
<1>16. CASE StopTransport
  <2>1. \A c \in Sc : Count(txQ, TxOwners, c) \in Nat
    BY Queues DEF Queue
  <2>2. ReleaseBatchRefs(Sweep(refs, txQ, TxOwners)) \in [Sc -> Int]
    BY <2>1 DEF ReleaseBatchRefs, Sweep, Count
  <2>3. refs' \in [Sc -> Int]
    BY <1>16, <2>2, AddTyped DEF StopTransport
  <2>4. rxQ' \in Seq(Events)
    BY <1>16, RxPut DEF StopTransport, RxKinds
  <2>5. txQ' \in Seq(Commands) /\ Len(txQ') <= TxCap
    BY <1>16, BoundsAssumption DEF StopTransport
  <2> QED
    BY <1>16, <2>3, <2>4, <2>5 DEF StopTransport
<1>17. CASE StopClient \/ StopEngine
  <2>1. refs' \in [Sc -> Int]
    BY <1>17, AddTyped DEF StopClient, StopEngine, DestroyStreamCtxs
  <2>2. dropped' \in BOOLEAN /\ closed' \in BOOLEAN
    BY <1>17 DEF StopClient, StopEngine, DestroyStreamCtxs
  <2> QED
    BY <1>17, <2>1, <2>2 DEF StopClient, StopEngine
<1>18. CASE FreeTransport
  <2>1. \A c \in Sc : Count(rxQ, RxOwners, c) \in Nat
    BY Queues DEF Queue
  <2>2. Sweep(refs, rxQ, RxOwners) \in [Sc -> Int]
    BY <2>1 DEF Sweep, Count
  <2>3. refs' \in [Sc -> Int]
    BY <1>18, <2>2, AddTyped DEF FreeTransport
  <2> QED
    BY <1>18, <2>3 DEF FreeTransport
<1>19. CASE UNCHANGED vars
  BY <1>19 DEF vars
<1> QED
  BY <1>1, <1>2, <1>3, <1>4, <1>5, <1>6, <1>7, <1>8, <1>9, <1>10, <1>11,
     <1>12, <1>13, <1>14, <1>15, <1>16, <1>17, <1>18, <1>19 DEF Next,
     StreamCallback, Closed, Call, Flush, Stop

\* Zero is the name of nobody.
LEMMA Zero ==
    ASSUME Typed
    PROVE  /\ made \in Nat /\ NoSc \in 0 .. made /\ NoSc \notin Sc
           /\ \A c : c \in 1 .. made <=> c \in 0 .. made /\ c # NoSc
           /\ \A c : c \in 1 .. made => c \in Sc
<1>1. MaxSc \in Nat /\ made \in 0 .. MaxSc
  BY BoundsAssumption DEF Typed
<1> QED
  BY <1>1 DEF NoSc, Sc

\* A new context is named by nobody.
LEMMA OneMore ==
    ASSUME Typed, Names, made + 1 \in Sc
    PROVE  /\ made + 1 \in 1 .. made + 1 /\ 0 .. made \subseteq 0 .. made + 1
           /\ 1 .. made \subseteq 1 .. made + 1
           /\ Formed(rxQ, made + 1) /\ Formed(txQ, made + 1)
           /\ Formed(batch, made + 1)
           /\ \A c \in Sc : c > made + 1 => chunks[c] = 0 /\ batchRefs[c] = 0
<1>1. made \in Nat
  BY BoundsAssumption DEF Typed
<1>2. /\ Formed(rxQ, made + 1) /\ Formed(txQ, made + 1)
      /\ Formed(batch, made + 1)
  BY <1>1, Queues DEF Queue, Names
<1>3. ASSUME NEW c \in Sc, c > made + 1
      PROVE  chunks[c] = 0 /\ batchRefs[c] = 0
  <2>1. c > made
    BY <1>1, <1>3, BoundsAssumption DEF Sc
  <2> QED
    BY <2>1 DEF Names
<1> QED
  BY <1>1, <1>2, <1>3

\* Handling an event names no context but the event's.
LEMMA HandledNames ==
    ASSUME Typed, Names, NEW e, NEW r, HandleEvent(e, r),
           e.sc # NoSc => e.sc \in 1 .. made
    PROVE  map' \in 0 .. made /\ owned' \subseteq 1 .. made
<1>1. NoSc \in 0 .. made /\ 1 .. made \subseteq 0 .. made
  BY Zero
<1> QED
  BY <1>1 DEF HandleEvent, Adopt, DestroyStreamCtxs, Forget, Names

\* Nobody names a context that does not exist.
LEMMA NamesStep ==
    Typed /\ Names /\ Loop /\ [Next]_vars => Names'
<1> SUFFICES ASSUME Typed, Names, Loop, [Next]_vars
             PROVE  Names'
  OBVIOUS
<1> USE DEF Names, cnxVars, rxVars, loopVars, connVars, fixed
<1>1. CASE StreamData \/ StreamFin
  <2>0. PICK c \in Sc :
            /\ Callback /\ att' = c /\ filled' = filled \cup {c}
            /\ \/ Reports("DATA", c) /\ notified' = notified \cup {c}
               \/ c = att /\ UNCHANGED <<rxQ, made, notified>>
               \/ Reports("FIN", c) /\ UNCHANGED notified
    BY <1>1, PayloadEffect
  <2>1. /\ Callback /\ att' = c /\ filled' = filled \cup {c}
        /\ notified' \subseteq notified \cup {c}
        /\ \/ Reports("DATA", c) \/ Reports("FIN", c)
           \/ c = att /\ UNCHANGED <<rxQ, made>>
    BY <2>0
  <2>2. made \in Nat /\ c \in Nat /\ c # NoSc
    BY BoundsAssumption DEF Typed, Sc, NoSc
  <2>3. ASSUME NEW j \in {"DATA", "FIN"}, NEW m \in Nat, c <= m
        PROVE  WellFormed(Event(j, c), m)
    BY <2>2, <2>3 DEF WellFormed, Event, Closes
  <2>4. CASE UNCHANGED made
    <3>1. c <= made /\ c = att
      BY <2>1, <2>2, <2>4 DEF Reports
    <3>2. Formed(rxQ', made)
      BY <2>1, <2>2, <2>3, <3>1 DEF Reports, Pushed
    <3>3. c \in 1 .. made
      BY <2>2, <3>1, Zero
    <3> QED
      BY <2>1, <2>4, <3>1, <3>2, <3>3 DEF Callback
  <2>5. CASE c = made + 1 /\ made' = made + 1
    <3>1. Formed(rxQ', made + 1)
      BY <2>1, <2>2, <2>3, <2>5, OneMore DEF Reports, Pushed
    <3>2. /\ Formed(txQ', made') /\ Formed(batch', made')
          /\ \A d \in Sc : d > made' => chunks'[d] = 0 /\ batchRefs'[d] = 0
      BY <2>1, <2>5, OneMore DEF Callback
    <3> QED
      BY <2>1, <2>2, <2>5, <3>1, <3>2, OneMore DEF Callback
  <2> QED
    BY <2>1, <2>4, <2>5 DEF Reports
<1>2. ASSUME NEW k \in {"FIN", "SIGNAL"}, StreamSignal(k)
      PROVE  Names'
  <2>1. Callback /\ UNCHANGED <<att, rxVars, made>>
        /\ Pushed(rxQ, Event(k, att), rxQ')
    BY <1>2, SignalEffect
  <2>2. WellFormed(Event(k, att), made)
    BY <1>2 DEF WellFormed, Event, Closes
  <2>3. Formed(rxQ', made)
    BY <2>1, <2>2 DEF Pushed
  <2> QED
    BY <2>1, <2>3 DEF Callback
<1>3. CASE StreamReleased
  <2>1. WellFormed(Event("DESTROY", att), made) \/ att = NoSc
    BY DEF WellFormed, Event, Closes
  <2>2. Formed(rxQ', made)
    BY <1>3, <2>1, ReleasedEffect DEF Pushed
  <2> QED
    BY <1>3, <2>2, Zero, ReleasedEffect
<1>4. CASE ApplicationClose \/ CloseCallback
  <2>1. PICK k \in Closes :
            /\ Pushed(rxQ, Event(k, NoSc), rxQ') /\ held' = {}
            /\ UNCHANGED <<made, att, rxVars, txQ, loopVars, connVars, chunks>>
    BY <1>4, CloseEffect
  <2>2. WellFormed(Event(k, NoSc), made)
    BY BoundsAssumption DEF WellFormed, Event, Closes, Typed, NoSc
  <2>3. Formed(rxQ', made)
    BY <2>1, <2>2 DEF Pushed
  <2> QED
    BY <2>1, <2>3
<1>5. CASE DeleteCnx
  BY <1>5 DEF DeleteCnx
<1>6. CASE HandleTx
  <2>1. PICK e \in Commands :
            /\ e.sc \in 0 .. made /\ Taken(txQ, e, txQ')
            /\ att' \in {att, NoSc, e.sc}
            /\ held' = held \/ (e.sc # NoSc /\ held' = held \cup {e.sc})
            /\ UNCHANGED <<made, rxVars, rxQ, loopVars, connVars, chunks>>
    BY <1>6, CommandEffect DEF Reattached
  <2>2. Formed(txQ', made)
    BY <2>1 DEF Taken
  <2>3. att' \in 0 .. made /\ held' \subseteq 1 .. made
    BY <2>1, Zero
  <2> QED
    BY <2>1, <2>2, <2>3
<1>7. ASSUME NEW c \in Sc, RunDeferredReady(c) \/ RunDeferredSweep(c)
      PROVE  Names'
  <2>1. /\ att' \in {att, NoSc, c} /\ c \in held /\ held' = held \ {c}
        /\ UNCHANGED <<made, rxVars, rxQ, txQ, loopVars, connVars, chunks>>
    BY <1>7, DeferredEffect DEF Reattached
  <2>2. att' \in 0 .. made /\ held' \subseteq 1 .. made
    BY <2>1, Zero
  <2> QED
    BY <2>1, <2>2
<1>8. ASSUME NEW k \in {"RESET", "STOP"}, Send \/ Abort(k)
      PROVE  Names'
  <2>1. PICK j \in TxOwners, s \in Sc \cup {NoSc} :
            /\ \/ s = map /\ UNCHANGED <<made, map, owned>>
               \/ /\ s = made + 1 /\ s \in Sc /\ made' = s /\ map' = s
                  /\ owned' = owned \cup {s}
            /\ Pushed(txQ, Event(j, s), txQ') \/ UNCHANGED txQ
            /\ UNCHANGED <<cnxVars, rxVars, rxQ, held, loopVars, chunks>>
    BY <1>8, CallEffect
  <2>2. made \in Nat
    BY BoundsAssumption DEF Typed
  <2>3. ASSUME NEW m \in Nat, s \in 0 .. m
        PROVE  WellFormed(Event(j, s), m)
    BY <2>3 DEF WellFormed, Event, Closes, TxOwners
  <2>4. CASE s = map /\ UNCHANGED <<made, map, owned>>
    <3>1. Formed(txQ', made)
      BY <2>1, <2>2, <2>3, <2>4 DEF Pushed
    <3> QED
      BY <2>1, <2>4, <3>1
  <2>5. CASE /\ s = made + 1 /\ s \in Sc /\ made' = s /\ map' = s
             /\ owned' = owned \cup {s}
    <3>1. Formed(txQ', made')
      BY <2>1, <2>2, <2>3, <2>5, OneMore DEF Pushed
    <3>2. /\ Formed(rxQ', made') /\ Formed(batch', made')
          /\ \A d \in Sc : d > made' => chunks'[d] = 0 /\ batchRefs'[d] = 0
      BY <2>1, <2>5, OneMore
    <3> QED
      BY <2>1, <2>2, <2>5, <3>1, <3>2, OneMore
  <2> QED
    BY <2>1, <2>4, <2>5
<1>9. CASE Close \/ BeginStop
  <2>1. WellFormed(Event("CLOSE", NoSc), made)
    BY BoundsAssumption DEF WellFormed, Event, Typed, NoSc
  <2>2. Formed(txQ', made)
    BY <1>9, <2>1, CloseCallEffect DEF Pushed
  <2> QED
    BY <1>9, <2>2, CloseCallEffect
<1>10. ASSUME NEW c \in Sc, ReleaseChunk(c)
       PROVE  Names'
  <2>1. c <= made
    BY <1>10, BoundsAssumption DEF ReleaseChunk, Typed, Sc
  <2>2. \A d \in Sc : d > made => chunks'[d] = 0
    <3>1. ASSUME NEW d \in Sc, d > made PROVE d # c
      BY <2>1, <3>1, BoundsAssumption DEF Typed, Sc
    <3> QED
      BY <1>10, <3>1 DEF ReleaseChunk, Add
  <2> QED
    BY <1>10, <2>2 DEF ReleaseChunk
<1>11. CASE Drain
  <2>1. PICK e \in Events :
            /\ Drained(e)
            /\ \/ UNCHANGED <<batch, batchRefs, retired, connVars>>
               \/ /\ HandleEvent(e, Add(Counted(e), e.sc, -1))
                  /\ UNCHANGED <<batch, batchRefs, retired>>
               \/ /\ Pushed(batch, e, batch')
                  /\ batchRefs' = batchRefs
                     \/ batchRefs' = Add(batchRefs, e.sc, 1)
                  /\ retired' = retired
                     \/ (e.kind = "DESTROY" /\ retired' = retired \cup {e.sc})
                  /\ UNCHANGED connVars
    BY <1>11, DrainEffect
  <2>2. /\ Taken(rxQ, e, rxQ') /\ WellFormed(e, made) /\ TakeBytes(e)
        /\ UNCHANGED <<made, cnxVars, txQ, held>>
    BY <2>1 DEF Drained
  <2>3. Formed(rxQ', made) /\ Formed(batch', made)
    BY <2>1, <2>2 DEF Taken, Pushed
  <2>4. e.sc \in 0 .. made /\ (e.sc # NoSc => e.sc \in 1 .. made)
        /\ (e.kind = "DESTROY" => e.sc # NoSc)
    BY <2>2, BoundsAssumption DEF WellFormed, Typed, NoSc
  <2>5. /\ notified' \subseteq 1 .. made /\ filled' \subseteq 1 .. made
        /\ notes' \subseteq 1 .. made
    BY <2>2, <2>4 DEF TakeBytes, HasBytes
  <2>6. retired' \subseteq 1 .. made
    BY <2>1, <2>4
  <2>7. map' \in 0 .. made /\ owned' \subseteq 1 .. made
    BY <2>1, <2>4, HandledNames
  <2>8. \A c \in Sc : c > made => chunks'[c] = 0 /\ batchRefs'[c] = 0
    <3>1. ASSUME NEW c \in Sc, c > made PROVE c # e.sc
      BY <2>4, <3>1, BoundsAssumption DEF Typed, Sc
    <3> QED
      BY <2>1, <2>2, <3>1 DEF TakeBytes, Add
  <2> QED
    BY <2>2, <2>3, <2>5, <2>6, <2>7, <2>8
<1>12. ASSUME NEW c \in Sc, FlushNote(c)
       PROVE  Names'
  <2>1. WellFormed(Event("CREDIT", c), made)
    BY <1>12, FlushEffect, Zero DEF WellFormed, Event, Closes
  <2>2. Formed(txQ', made)
    BY <1>12, <2>1, FlushEffect DEF Pushed
  <2> QED
    BY <1>12, <2>2, FlushEffect
<1>13. CASE DrainReturn
  BY <1>13 DEF DrainReturn
<1>14. CASE RouteEvent
  <2>1. PICK e \in Events : Routed(e)
    BY <1>14, RouteEffect
  <2>2. e.sc # NoSc => e.sc \in 1 .. made
    BY <2>1, BoundsAssumption DEF Routed, WellFormed, Typed, NoSc
  <2>3. map' \in 0 .. made /\ owned' \subseteq 1 .. made
    BY <2>1, <2>2, HandledNames DEF Routed
  <2>4. Formed(batch', made)
    BY <2>1 DEF Routed, Taken
  <2> QED
    BY <2>1, <2>3, <2>4 DEF Routed
<1>15. CASE ReleaseBatch
  BY <1>15 DEF ReleaseBatch, NoRefs
<1>16. CASE StopTransport
  <2>1. Formed(rxQ', made)
    <3>1. WellFormed(Event("CLOSE", NoSc), made) /\ "CLOSE" \in RxKinds
      BY BoundsAssumption DEF WellFormed, Event, Typed, NoSc, RxKinds
    <3> QED
      BY <1>16, <3>1, RxPut DEF StopTransport, Pushed
  <2>2. Formed(txQ', made)
    BY <1>16, NoQueue DEF StopTransport
  <2> QED
    BY <1>16, <2>1, <2>2 DEF StopTransport
<1>17. CASE StopClient \/ StopEngine
  BY <1>17, Zero DEF StopClient, StopEngine, DestroyStreamCtxs
<1>18. CASE FreeTransport
  BY <1>18, NoQueue DEF FreeTransport
<1>19. CASE UNCHANGED vars
  BY <1>19 DEF vars
<1> QED
  BY <1>1, <1>2, <1>3, <1>4, <1>5, <1>6, <1>7, <1>8, <1>9, <1>10, <1>11,
     <1>12, <1>13, <1>14, <1>15, <1>16, <1>17, <1>18, <1>19 DEF Next,
     StreamCallback, Closed, Call, Flush, Stop

\* The loop's points: what is empty between two drains and after stop().
LEMMA LoopStep ==
    Typed /\ Names /\ Loop /\ [Next]_vars => Loop'
<1> SUFFICES ASSUME Typed, Names, Loop, [Next]_vars
             PROVE  Loop'
  OBVIOUS
<1> USE DEF Loop, Running, cnxVars, loopVars, fixed
<1>1. CASE StreamData \/ StreamFin
  BY <1>1, PayloadEffect DEF Callback, Reports
<1>2. ASSUME NEW k \in {"FIN", "SIGNAL"}, StreamSignal(k)
      PROVE  Loop'
  BY <1>2, SignalEffect DEF Callback
<1>3. CASE StreamReleased
  BY <1>3, ReleasedEffect
<1>4. CASE ApplicationClose \/ CloseCallback
  BY <1>4, CloseEffect
<1>5. CASE DeleteCnx
  BY <1>5 DEF DeleteCnx
<1>6. CASE HandleTx
  BY <1>6, CommandEffect
<1>7. ASSUME NEW c \in Sc, RunDeferredReady(c) \/ RunDeferredSweep(c)
      PROVE  Loop'
  BY <1>7, DeferredEffect
<1>8. ASSUME NEW k \in {"RESET", "STOP"}, Send \/ Abort(k)
      PROVE  Loop'
  BY <1>8, CallEffect
<1>9. CASE Close \/ BeginStop
  BY <1>9, CloseCallEffect
<1>10. ASSUME NEW c \in Sc, ReleaseChunk(c)
       PROVE  Loop'
  BY <1>10 DEF ReleaseChunk
<1>11. CASE Drain
  <2>1. PICK e \in Events :
            /\ Drained(e)
            /\ engine \/ UNCHANGED <<batch, batchRefs, retired>>
    BY <1>11, DrainEffect
  <2> QED
    BY <2>1 DEF Drained
<1>12. ASSUME NEW c \in Sc, FlushNote(c)
       PROVE  Loop'
  BY <1>12, FlushEffect
<1>13. CASE DrainReturn
  BY <1>13 DEF DrainReturn
<1>14. CASE RouteEvent
  <2>1. PICK e \in Events : Routed(e)
    BY <1>14, RouteEffect
  <2>2. batch # << >>
    BY <1>14 DEF RouteEvent
  <2> QED
    BY <2>1, <2>2 DEF Routed
<1>15. CASE ReleaseBatch
  BY <1>15 DEF ReleaseBatch
<1>16. CASE StopTransport
  BY <1>16 DEF StopTransport
<1>17. CASE StopClient \/ StopEngine
  BY <1>17 DEF StopClient, StopEngine
<1>18. CASE FreeTransport
  BY <1>18 DEF FreeTransport
<1>19. CASE UNCHANGED vars
  BY <1>19 DEF vars
<1> QED
  BY <1>1, <1>2, <1>3, <1>4, <1>5, <1>6, <1>7, <1>8, <1>9, <1>10, <1>11,
     <1>12, <1>13, <1>14, <1>15, <1>16, <1>17, <1>18, <1>19 DEF Next,
     StreamCallback, Closed, Call, Flush, Stop

\* The map names a context of the set, or none.
LEMMA MappedStep ==
    Typed /\ Names /\ Loop /\ Mapped /\ [Next]_vars => Mapped'
<1> SUFFICES ASSUME Typed, Names, Loop, Mapped, [Next]_vars
             PROVE  Mapped'
  OBVIOUS
<1> USE DEF Mapped, connVars
<1>1. CASE StreamData \/ StreamFin
  BY <1>1, PayloadEffect DEF Callback, Reports
<1>2. ASSUME NEW k \in {"FIN", "SIGNAL"}, StreamSignal(k)
      PROVE  Mapped'
  BY <1>2, SignalEffect DEF Callback
<1>3. CASE StreamReleased
  BY <1>3, ReleasedEffect
<1>4. CASE ApplicationClose \/ CloseCallback
  BY <1>4, CloseEffect
<1>5. CASE DeleteCnx
  BY <1>5 DEF DeleteCnx
<1>6. CASE HandleTx
  BY <1>6, CommandEffect
<1>7. ASSUME NEW c \in Sc, RunDeferredReady(c) \/ RunDeferredSweep(c)
      PROVE  Mapped'
  BY <1>7, DeferredEffect
<1>8. ASSUME NEW k \in {"RESET", "STOP"}, Send \/ Abort(k)
      PROVE  Mapped'
  BY <1>8, CallEffect
<1>9. CASE Close \/ BeginStop
  BY <1>9, CloseCallEffect
<1>10. ASSUME NEW c \in Sc, ReleaseChunk(c)
       PROVE  Mapped'
  BY <1>10 DEF ReleaseChunk
<1>11. CASE Drain
  <2>1. PICK e \in Events :
            UNCHANGED connVars \/ HandleEvent(e, Add(Counted(e), e.sc, -1))
    BY <1>11, DrainEffect
  <2> QED
    BY <2>1 DEF HandleEvent, Adopt, DestroyStreamCtxs, Forget
<1>12. ASSUME NEW c \in Sc, FlushNote(c)
       PROVE  Mapped'
  BY <1>12, FlushEffect
<1>13. CASE DrainReturn
  BY <1>13 DEF DrainReturn
<1>14. CASE RouteEvent
  <2>1. PICK e \in Events : HandleEvent(e, refs)
    BY <1>14, RouteEffect DEF Routed
  <2> QED
    BY <2>1 DEF HandleEvent, Adopt, DestroyStreamCtxs, Forget
<1>15. CASE ReleaseBatch
  BY <1>15 DEF ReleaseBatch
<1>16. CASE StopTransport
  BY <1>16 DEF StopTransport
<1>17. CASE StopClient \/ StopEngine
  BY <1>17 DEF StopClient, StopEngine, DestroyStreamCtxs
<1>18. CASE FreeTransport
  BY <1>18 DEF FreeTransport
<1>19. CASE UNCHANGED vars
  BY <1>19 DEF vars
<1> QED
  BY <1>1, <1>2, <1>3, <1>4, <1>5, <1>6, <1>7, <1>8, <1>9, <1>10, <1>11,
     <1>12, <1>13, <1>14, <1>15, <1>16, <1>17, <1>18, <1>19 DEF Next,
     StreamCallback, Closed, Call, Flush, Stop

\* The steps of a transport that runs and goes on running.
LEMMA RunSteps ==
    ASSUME Typed, [Next]_vars, Running'
    PROVE  /\ Running
           /\ \/ StreamData \/ StreamFin \/ StreamReleased
              \/ \E k \in {"FIN", "SIGNAL"} : StreamSignal(k)
              \/ ApplicationClose \/ CloseCallback \/ DeleteCnx \/ HandleTx
              \/ \E c \in Sc : RunDeferredReady(c) \/ RunDeferredSweep(c)
              \/ \E k \in {"RESET", "STOP"} : Send \/ Abort(k)
              \/ Close \/ BeginStop \/ \E c \in Sc : ReleaseChunk(c)
              \/ Drain \/ \E c \in Sc : FlushNote(c)
              \/ DrainReturn \/ RouteEvent \/ ReleaseBatch
              \/ UNCHANGED vars
<1>1. ~StopTransport /\ ~StopClient /\ ~StopEngine /\ ~FreeTransport
  BY DEF Running, StopTransport, StopClient, StopEngine, FreeTransport
<1>2. CASE ReleaseBatch \/ RouteEvent \/ DrainReturn
  BY <1>2 DEF ReleaseBatch, RouteEvent, DrainReturn, Running
<1>3. CASE \E c \in Sc : FlushNote(c) \/ ReleaseChunk(c)
  BY <1>3 DEF FlushNote, ReleaseChunk, Running
<1>4. CASE StreamCallback \/ Closed \/ Call \/ Drain \/ BeginStop
  BY <1>4 DEF StreamCallback, Closed, Call, StreamData, StreamFin,
              StreamReleased, StreamSignal, PeerMaySend, ApplicationClose,
              CloseCallback, DeleteCnx, Send, Abort, Close, AppTurn, Drain,
              DrainEmpty, DrainClient, DrainEngine, Deliverable, DrainTurn,
              BeginStop
<1>5. CASE HandleTx \/ \E c \in Sc : RunDeferredReady(c) \/ RunDeferredSweep(c)
  BY <1>5 DEF HandleTx, HandleMark, HandleResetAgain, HandleResetHold,
              HandleResetNow, HandleStop, HandleCredit, HandleClose,
              DropStale, Command, RunDeferredReady, RunDeferredSweep
<1>6. CASE UNCHANGED vars
  BY <1>6 DEF vars, Running
<1> QED
  BY <1>1, <1>2, <1>3, <1>4, <1>5, <1>6 DEF Next, Stop, Flush

\* An event of the stream while its connection is up.
LEMMA NotEnders ==
    \A c, q, r : \A k \in {"DATA", "FIN", "SIGNAL"} :
        Pushed(q, Event(k, c), r) /\ ~HasEnder(q) /\ Ending(q) =>
            ~HasEnder(r) /\ Ending(r) /\
            (Has(r, Closes, NoSc) <=> Has(q, Closes, NoSc))
BY DEF Pushed, Event, Enders, Closes, Hit

\* The worker says nothing of a stream after its STREAM_DESTROY or a close,
\* and the drain keeps the order.
LEMMA OrderStep ==
    Typed /\ Names /\ Loop /\ RunOrder /\ [Next]_vars => RunOrder'
<1> SUFFICES ASSUME Typed, Names, Loop, RunOrder, [Next]_vars, Running'
             PROVE  Order'
  BY DEF RunOrder
<1>1. Running /\ Order
  BY RunSteps DEF RunOrder
<1> USE <1>1 DEF Order, Over, Closing, cnxVars, rxVars, loopVars, connVars,
        fixed
<1>2. CASE StreamData \/ StreamFin
  <2>1. PICK c \in Sc :
            /\ Callback
            /\ \/ \E j \in {"DATA", "FIN"} : Pushed(rxQ, Event(j, c), rxQ')
               \/ UNCHANGED rxQ
    BY <1>2, PayloadEffect DEF Reports
  <2> QED
    BY <2>1, NotEnders DEF Callback
<1>3. ASSUME NEW k \in {"FIN", "SIGNAL"}, StreamSignal(k)
      PROVE  Order'
  BY <1>3, SignalEffect, NotEnders DEF Callback
<1>4. CASE StreamReleased
  BY <1>4, ReleasedEffect DEF Pushed, Event, Hit, Closes
<1>5. CASE ApplicationClose \/ CloseCallback
  <2>1. PICK k \in Closes :
            /\ cnx' = "closing" /\ Pushed(rxQ, Event(k, NoSc), rxQ')
            /\ UNCHANGED <<strm, loopVars, connVars>>
    BY <1>5, CloseEffect
  <2> QED
    BY <2>1 DEF Pushed, Event, Hit
<1>6. CASE DeleteCnx
  BY <1>6 DEF DeleteCnx
<1>7. CASE HandleTx
  <2>1. /\ cnx' = cnx \/ cnx' = "closing"
        /\ strm' = strm \/ strm = "none"
        /\ UNCHANGED <<rxQ, loopVars, connVars>>
    BY <1>7, CommandEffect DEF Reattached
  <2> QED
    BY <2>1
<1>8. ASSUME NEW c \in Sc, RunDeferredReady(c) \/ RunDeferredSweep(c)
      PROVE  Order'
  BY <1>8, DeferredEffect DEF Reattached
<1>9. ASSUME NEW k \in {"RESET", "STOP"}, Send \/ Abort(k)
      PROVE  Order'
  BY <1>9, CallEffect
<1>10. CASE Close \/ BeginStop
  BY <1>10, CloseCallEffect
<1>11. ASSUME NEW c \in Sc, ReleaseChunk(c)
       PROVE  Order'
  BY <1>11 DEF ReleaseChunk
<1>12. CASE Drain
  <2>1. PICK e \in Events :
            /\ Drained(e)
            /\ \/ UNCHANGED <<batch, connVars>>
               \/ /\ ~engine /\ HandleEvent(e, Add(Counted(e), e.sc, -1))
                  /\ UNCHANGED batch
               \/ Pushed(batch, e, batch') /\ UNCHANGED connVars
    BY <1>12, DrainEffect
  <2>2. /\ Taken(rxQ, e, rxQ') /\ WellFormed(e, made)
        /\ UNCHANGED <<strm, cnx>>
    BY <2>1 DEF Drained
  <2>3. CASE UNCHANGED <<batch, connVars>>
    BY <2>2, <2>3 DEF Taken
  <2>4. CASE /\ ~engine /\ HandleEvent(e, Add(Counted(e), e.sc, -1))
             /\ UNCHANGED batch
    <3>1. batch = << >>
      BY <2>4 DEF Loop
    <3>2. /\ Ending(rxQ') /\ (HasEnder(rxQ') => Over)
          /\ (Has(rxQ', Closes, NoSc) => Closing)
          /\ (Quiet(rxQ) => Quiet(rxQ'))
      BY <2>2 DEF Taken
    <3>3. dropped' => dropped \/ e.kind \in Closes
      BY <2>4 DEF HandleEvent, Adopt, DestroyStreamCtxs, Forget, Closes
    <3>4. e.kind \in Closes => Closing /\ Quiet(rxQ')
      <4>1. e.kind \in Closes => Hit(e, Closes, NoSc) /\ e.kind \in Enders
        BY <2>2 DEF WellFormed, Hit, Enders
      <4> QED
        BY <4>1, <2>2 DEF Taken
    <3> QED
      BY <2>2, <2>4, <3>1, <3>2, <3>3, <3>4, NoQueue
  <2>5. CASE Pushed(batch, e, batch') /\ UNCHANGED connVars
    <3>1. HasEnder(batch) => e.sc = NoSc /\ Over /\ Quiet(rxQ')
      BY <2>2 DEF Taken
    <3>2. Ending(batch') /\ Ending(rxQ')
      BY <2>2, <2>5, <3>1 DEF Taken, Pushed
    <3>3. HasEnder(batch') => Over /\ Quiet(rxQ')
      BY <2>2, <2>5, <3>1 DEF Taken, Pushed
    <3>4. Has(rxQ', Closes, NoSc) \/ Has(batch', Closes, NoSc) => Closing
      BY <2>2, <2>5 DEF Taken, Pushed
    <3>5. /\ HasEnder(rxQ') => Over
          /\ dropped => Closing /\ Quiet(rxQ') /\ Quiet(batch')
      BY <2>2, <2>5 DEF Taken, Pushed
    <3> QED
      BY <2>2, <2>5, <3>2, <3>3, <3>4, <3>5
  <2> QED
    BY <2>1, <2>3, <2>4, <2>5
<1>13. ASSUME NEW c \in Sc, FlushNote(c)
       PROVE  Order'
  BY <1>13, FlushEffect
<1>14. CASE DrainReturn
  BY <1>14 DEF DrainReturn
<1>15. CASE RouteEvent
  <2>1. PICK e \in Events :
            /\ Taken(batch, e, batch') /\ WellFormed(e, made)
            /\ HandleEvent(e, refs) /\ UNCHANGED <<strm, cnx, rxQ>>
    BY <1>15, RouteEffect DEF Routed
  <2>2. /\ Ending(batch') /\ (HasEnder(batch') => Over /\ Quiet(rxQ))
        /\ (Has(batch', Closes, NoSc) => Closing)
        /\ (Quiet(batch) => Quiet(batch'))
    BY <2>1 DEF Taken
  <2>3. dropped' => dropped \/ e.kind \in Closes
    BY <2>1 DEF HandleEvent, Adopt, DestroyStreamCtxs, Forget, Closes
  <2>4. e.kind \in Closes => Closing /\ Quiet(batch') /\ Quiet(rxQ)
    <3>1. e.kind \in Closes => Hit(e, Closes, NoSc) /\ e.kind \in Enders
      BY <2>1 DEF WellFormed, Hit, Enders
    <3> QED
      BY <3>1, <2>1 DEF Taken
  <2> QED
    BY <2>1, <2>2, <2>3, <2>4
<1>16. CASE ReleaseBatch
  BY <1>16 DEF ReleaseBatch
<1>17. CASE UNCHANGED vars
  BY <1>17 DEF vars
<1> QED
  BY <1>2, <1>3, <1>4, <1>5, <1>6, <1>7, <1>8, <1>9, <1>10, <1>11, <1>12,
     <1>13, <1>14, <1>15, <1>16, <1>17, RunSteps

\* The stream's reference travels with its STREAM_DESTROY, behind everything
\* else the queues say of the context.
LEMMA RetiringStep ==
    Typed /\ Names /\ Loop /\ RunOrder /\ RunRetiring /\ [Next]_vars =>
        RunRetiring'
<1> SUFFICES ASSUME Typed, Names, Loop, RunOrder, RunRetiring, [Next]_vars,
             Running'
             PROVE  Retiring'
  BY DEF RunRetiring
<1>1. Running /\ Order /\ Retiring
  BY RunSteps DEF RunOrder, RunRetiring
<1> USE <1>1 DEF Retiring, cnxVars, rxVars, loopVars, connVars, fixed
<1>2. CASE StreamData \/ StreamFin
  <2>1. PICK c \in Sc :
            /\ Callback
            /\ \/ \E j \in {"DATA", "FIN"} : Pushed(rxQ, Event(j, c), rxQ')
               \/ UNCHANGED rxQ
    BY <1>2, PayloadEffect DEF Reports
  <2>2. strm # "released" /\ retired = {}
    BY <2>1 DEF Callback, Over
  <2>3. \A d \in Sc : ~Has(rxQ', {"DESTROY"}, d)
    BY <2>1, <2>2 DEF Pushed, Hit, Event
  <2> QED
    BY <2>1, <2>2, <2>3 DEF Callback
<1>3. ASSUME NEW k \in {"FIN", "SIGNAL"}, StreamSignal(k)
      PROVE  Retiring'
  <2>1. Callback /\ Pushed(rxQ, Event(k, att), rxQ') /\ UNCHANGED att
    BY <1>3, SignalEffect
  <2>2. strm # "released" /\ retired = {}
    BY <2>1 DEF Callback, Over
  <2>3. \A d \in Sc : ~Has(rxQ', {"DESTROY"}, d)
    BY <2>1, <2>2 DEF Pushed, Hit, Event
  <2> QED
    BY <2>1, <2>2, <2>3 DEF Callback
<1>4. CASE StreamReleased
  <2>1. retired = {}
    BY <1>4, ReleasedEffect DEF Over
  <2> QED
    BY <1>4, <2>1, ReleasedEffect
<1>5. CASE ApplicationClose \/ CloseCallback
  <2>1. PICK k \in Closes :
            /\ Pushed(rxQ, Event(k, NoSc), rxQ')
            /\ UNCHANGED <<strm, att, loopVars, connVars>>
    BY <1>5, CloseEffect
  <2>2. /\ Quiet(rxQ) => Quiet(rxQ')
        /\ \A d \in Sc : Has(rxQ', {"DESTROY"}, d) => Has(rxQ, {"DESTROY"}, d)
    BY <2>1 DEF Pushed, Event, Hit, Closes
  <2> QED
    BY <2>1, <2>2
<1>6. CASE DeleteCnx
  BY <1>6 DEF DeleteCnx
<1>7. CASE HandleTx
  <2>1. PICK e \in Commands :
            Reattached(e.sc) /\ UNCHANGED <<rxQ, loopVars, connVars>>
    BY <1>7, CommandEffect
  <2> QED
    BY <2>1 DEF Reattached
<1>8. ASSUME NEW c \in Sc, RunDeferredReady(c) \/ RunDeferredSweep(c)
      PROVE  Retiring'
  BY <1>8, DeferredEffect DEF Reattached
<1>9. ASSUME NEW k \in {"RESET", "STOP"}, Send \/ Abort(k)
      PROVE  Retiring'
  <2>1. /\ owned' = owned \/ owned' = owned \cup {made + 1}
        /\ UNCHANGED <<cnxVars, rxQ, loopVars>>
    BY <1>9, CallEffect
  <2>2. made + 1 \notin retired
    BY Zero DEF Names
  <2> QED
    BY <2>1, <2>2
<1>10. CASE Close \/ BeginStop
  BY <1>10, CloseCallEffect
<1>11. ASSUME NEW c \in Sc, ReleaseChunk(c)
       PROVE  Retiring'
  BY <1>11 DEF ReleaseChunk
<1>12. CASE Drain
  <2>1. PICK e \in Events :
            /\ Drained(e)
            /\ \/ UNCHANGED <<batch, retired, connVars>>
               \/ ~engine /\ UNCHANGED <<batch, retired>>
               \/ /\ Pushed(batch, e, batch')
                  /\ retired' = IF e.kind = "DESTROY"
                                THEN retired \cup {e.sc} ELSE retired
                  /\ UNCHANGED connVars
    BY <1>12, DrainEffect
  <2>2. /\ Taken(rxQ, e, rxQ') /\ WellFormed(e, made)
        /\ UNCHANGED <<strm, att>>
    BY <2>1 DEF Drained
  <2>3. /\ Quiet(rxQ) => Quiet(rxQ') /\ e.sc = NoSc
        /\ \A d \in Sc : Has(rxQ', {"DESTROY"}, d) => Has(rxQ, {"DESTROY"}, d)
    BY <2>2 DEF Taken
  <2>4. CASE UNCHANGED <<batch, retired, connVars>>
    BY <2>2, <2>3, <2>4
  <2>5. CASE ~engine /\ UNCHANGED <<batch, retired>>
    <3>1. batch = << >> /\ retired = {}
      BY <2>5 DEF Loop
    <3> QED
      BY <2>2, <2>3, <2>5, <3>1, NoQueue
  <2>6. CASE /\ Pushed(batch, e, batch')
             /\ retired' = IF e.kind = "DESTROY" THEN retired \cup {e.sc}
                           ELSE retired
             /\ UNCHANGED connVars
    <3>1. CASE e.kind = "DESTROY"
      <4>1. e.sc \in Sc /\ e.sc # NoSc
        BY <2>2, <3>1, Zero DEF WellFormed
      <4>2. Has(rxQ, {"DESTROY"}, e.sc)
        BY <2>2, <3>1 DEF Taken, Hit
      <4>3. \A c \in retired : Has(batch, {"DESTROY"}, c)
        BY <2>3, <4>1
      <4>4. /\ \A c : Has(batch', {"DESTROY"}, c) <=>
                      Has(batch, {"DESTROY"}, c) \/ c = e.sc
        BY <2>6, <3>1 DEF Pushed, Hit
      <4> QED
        BY <2>2, <2>3, <2>6, <3>1, <4>1, <4>2, <4>3, <4>4
    <3>2. CASE e.kind # "DESTROY"
      <4>1. /\ \A c : Has(batch', {"DESTROY"}, c)
                         <=> Has(batch, {"DESTROY"}, c)
            /\ Quiet(batch) /\ e.sc = NoSc => Quiet(batch')
        BY <2>6, <3>2 DEF Pushed, Hit
      <4> QED
        BY <2>2, <2>3, <2>6, <3>2, <4>1
    <3> QED
      BY <3>1, <3>2
  <2> QED
    BY <2>1, <2>4, <2>5, <2>6
<1>13. ASSUME NEW c \in Sc, FlushNote(c)
       PROVE  Retiring'
  BY <1>13, FlushEffect
<1>14. CASE DrainReturn
  BY <1>14 DEF DrainReturn
<1>15. CASE RouteEvent
  <2>1. PICK e \in Events :
            /\ Taken(batch, e, batch') /\ WellFormed(e, made)
            /\ HandleEvent(e, refs)
            /\ UNCHANGED <<cnxVars, rxQ, retired>>
    BY <1>15, RouteEffect DEF Routed
  <2>2. \A c \in Sc : Has(batch', {"DESTROY"}, c) => c \in retired
    BY <2>1 DEF Taken
  <2>3. ASSUME NEW c \in retired
        PROVE  \/ Has(batch', {"DESTROY"}, c)
               \/ c \notin owned' /\ Quiet(rxQ) /\ Quiet(batch')
    <3>1. c \in Sc /\ c # NoSc
      BY Zero DEF Names
    <3>2. CASE e.kind \in Enders
      <4>1. Quiet(rxQ) /\ Quiet(batch')
        BY <2>1, <3>2 DEF Taken, Order
      <4>2. ~Has(batch', {"DESTROY"}, c)
        BY <2>1, <3>1, <4>1, AnyQueue, RouteEffect, <1>15 DEF Queue, Routed
      <4>3. c \in owned => e.kind = "DESTROY" /\ e.sc = c
        BY <2>1, <4>2 DEF Taken, Hit
      <4>4. c \notin owned'
        BY <2>1, <3>2, <4>3 DEF HandleEvent, Adopt, DestroyStreamCtxs,
           Forget, Enders, Closes, RxOwners
      <4> QED
        BY <4>1, <4>4
    <3>3. CASE e.kind \notin Enders
      <4>1. Has(batch', {"DESTROY"}, c) <=> Has(batch, {"DESTROY"}, c)
        BY <2>1, <3>3 DEF Taken, Hit, Enders
      <4>2. Quiet(batch) => Quiet(batch') /\ e.sc = NoSc
        BY <2>1 DEF Taken
      <4>3. e.sc = NoSc => owned' = owned
        BY <2>1, <3>3 DEF HandleEvent, Adopt, Enders, Closes
      <4> QED
        BY <4>1, <4>2, <4>3
    <3> QED
      BY <3>2, <3>3
  <2> QED
    BY <2>1, <2>2, <2>3
<1>16. CASE ReleaseBatch
  BY <1>16, NoQueue DEF ReleaseBatch
<1>17. CASE UNCHANGED vars
  BY <1>17 DEF vars
<1> QED
  BY <1>2, <1>3, <1>4, <1>5, <1>6, <1>7, <1>8, <1>9, <1>10, <1>11, <1>12,
     <1>13, <1>14, <1>15, <1>16, <1>17, RunSteps

\* A context whose flag is set, or whose ring has bytes, has the event that
\* will fetch them.
LEMMA FetchedStep ==
    Typed /\ Names /\ Loop /\ RunFetched /\ [Next]_vars => RunFetched'
<1> SUFFICES ASSUME Typed, Names, Loop, RunFetched, [Next]_vars, Running'
             PROVE  Fetched'
  BY DEF RunFetched
<1>1. Running /\ Fetched
  BY RunSteps DEF RunFetched
<1> USE <1>1 DEF Fetched, cnxVars, rxVars, loopVars, connVars, fixed
<1>2. CASE StreamData \/ StreamFin
  <2>1. PICK c \in Sc :
            /\ filled' = filled \cup {c}
            /\ \/ /\ Pushed(rxQ, Event("DATA", c), rxQ')
                  /\ notified' = notified \cup {c}
               \/ c \in notified /\ UNCHANGED <<rxQ, notified>>
               \/ Pushed(rxQ, Event("FIN", c), rxQ') /\ UNCHANGED notified
    BY <1>2, PayloadEffect DEF Reports
  <2>2. \A d : Has(rxQ, {"DATA"}, d) => Has(rxQ, {"DATA", "FIN"}, d)
    <3>1. {"DATA"} \cup {"FIN"} = {"DATA", "FIN"}
      OBVIOUS
    <3> QED
      BY <3>1, Queues DEF Queue
  <2> QED
    BY <2>1, <2>2 DEF Pushed, Hit, Event
<1>3. ASSUME NEW k \in {"FIN", "SIGNAL"}, StreamSignal(k)
      PROVE  Fetched'
  BY <1>3, SignalEffect DEF Pushed
<1>4. CASE StreamReleased
  BY <1>4, ReleasedEffect DEF Pushed
<1>5. CASE ApplicationClose \/ CloseCallback
  BY <1>5, CloseEffect DEF Pushed
<1>6. CASE DeleteCnx
  BY <1>6 DEF DeleteCnx
<1>7. CASE HandleTx
  BY <1>7, CommandEffect
<1>8. ASSUME NEW c \in Sc, RunDeferredReady(c) \/ RunDeferredSweep(c)
      PROVE  Fetched'
  BY <1>8, DeferredEffect
<1>9. ASSUME NEW k \in {"RESET", "STOP"}, Send \/ Abort(k)
      PROVE  Fetched'
  BY <1>9, CallEffect
<1>10. CASE Close \/ BeginStop
  BY <1>10, CloseCallEffect
<1>11. ASSUME NEW c \in Sc, ReleaseChunk(c)
       PROVE  Fetched'
  BY <1>11 DEF ReleaseChunk
<1>12. CASE Drain
  <2>1. PICK e \in Events : Taken(rxQ, e, rxQ') /\ TakeBytes(e)
    BY <1>12, DrainEffect DEF Drained
  <2>2. CASE e.kind \in {"DATA", "FIN"}
    <3>1. notified' = notified \ {e.sc} /\ filled' = filled \ {e.sc}
      BY <2>1, <2>2 DEF TakeBytes, HasBytes
    <3> QED
      BY <2>1, <3>1 DEF Taken, Hit
  <2>3. CASE e.kind \notin {"DATA", "FIN"}
    BY <2>1, <2>3 DEF Taken, Hit, TakeBytes, HasBytes
  <2> QED
    BY <2>2, <2>3
<1>13. ASSUME NEW c \in Sc, FlushNote(c)
       PROVE  Fetched'
  BY <1>13, FlushEffect
<1>14. CASE DrainReturn
  BY <1>14 DEF DrainReturn
<1>15. CASE RouteEvent
  BY <1>15, RouteEffect DEF Routed
<1>16. CASE ReleaseBatch
  BY <1>16 DEF ReleaseBatch
<1>17. CASE UNCHANGED vars
  BY <1>17 DEF vars
<1> QED
  BY <1>2, <1>3, <1>4, <1>5, <1>6, <1>7, <1>8, <1>9, <1>10, <1>11, <1>12,
     <1>13, <1>14, <1>15, <1>16, <1>17, RunSteps

\* An event that carries no bytes names a context Python knows, or will when
\* it gets to it.
LEMMA AdoptedStep ==
    Typed /\ Names /\ Loop /\ RunOrder /\ RunRetiring /\ RunKept /\ RunAdopted
        /\ [Next]_vars => RunAdopted'
<1> SUFFICES ASSUME Typed, Names, Loop, RunOrder, RunRetiring, RunKept,
             RunAdopted, [Next]_vars, Running'
             PROVE  Adopted'
  BY DEF RunAdopted
<1>1. Running /\ Order /\ Retiring /\ Kept /\ Adopted
  BY RunSteps DEF RunOrder, RunRetiring, RunKept, RunAdopted
<1> USE <1>1 DEF Adopted, cnxVars, rxVars, loopVars, connVars, fixed
<1>2. CASE StreamData \/ StreamFin
  <2>1. PICK c \in Sc :
            /\ Callback /\ filled' = filled \cup {c}
            /\ \/ \E j \in {"DATA", "FIN"} : Pushed(rxQ, Event(j, c), rxQ')
               \/ UNCHANGED rxQ
    BY <1>2, PayloadEffect DEF Reports
  <2> QED
    BY <2>1 DEF Callback, Pushed, Hit, Event
<1>3. ASSUME NEW k \in {"FIN", "SIGNAL"}, StreamSignal(k)
      PROVE  Adopted'
  <2>1. Callback /\ Pushed(rxQ, Event(k, att), rxQ') /\ UNCHANGED rxVars
    BY <1>3, SignalEffect
  <2>2. strm # "released" /\ ~dropped
    BY <2>1 DEF Callback, Over, Order
  <2>3. ASSUME att \in Sc
        PROVE  att \in filled \/ att \in owned \/ Has(batch, RxOwners, att)
    <3>1. RefKept(att)
      BY <2>2, <2>3, Zero DEF Kept, Names
    <3>2. att \notin retired /\ ~Has(rxQ, {"DESTROY"}, att)
      BY <2>2, <2>3 DEF Retiring
    <3>3. Has(rxQ, RxOwners \cup {"DESTROY"}, att) => Has(rxQ, RxOwners, att)
      BY <3>2, Queues DEF Queue
    <3> QED
      BY <2>3, <3>1, <3>2, <3>3 DEF RefKept
  <2>4. \A c \in Sc :
            Has(rxQ', RxOwners, c) => Has(rxQ, RxOwners, c) \/ c = att
    BY <2>1 DEF Pushed, Hit, Event
  <2> QED
    BY <2>1, <2>3, <2>4 DEF Callback
<1>4. CASE StreamReleased
  <2>1. \A c : Has(rxQ', RxOwners, c) => Has(rxQ, RxOwners, c)
    BY <1>4, ReleasedEffect DEF Pushed, Hit, Event, RxOwners
  <2> QED
    BY <1>4, <2>1, ReleasedEffect
<1>5. CASE ApplicationClose \/ CloseCallback
  <2>1. \A c : Has(rxQ', RxOwners, c) => Has(rxQ, RxOwners, c)
    BY <1>5, CloseEffect DEF Pushed, Hit, Event, RxOwners, Closes
  <2> QED
    BY <1>5, <2>1, CloseEffect
<1>6. CASE DeleteCnx
  BY <1>6 DEF DeleteCnx
<1>7. CASE HandleTx
  BY <1>7, CommandEffect
<1>8. ASSUME NEW c \in Sc, RunDeferredReady(c) \/ RunDeferredSweep(c)
      PROVE  Adopted'
  BY <1>8, DeferredEffect
<1>9. ASSUME NEW k \in {"RESET", "STOP"}, Send \/ Abort(k)
      PROVE  Adopted'
  BY <1>9, CallEffect
<1>10. CASE Close \/ BeginStop
  BY <1>10, CloseCallEffect
<1>11. ASSUME NEW c \in Sc, ReleaseChunk(c)
       PROVE  Adopted'
  BY <1>11 DEF ReleaseChunk
<1>12. CASE Drain
  <2>1. PICK e \in Events :
            /\ Drained(e)
            /\ \/ /\ e.kind = "DATA" /\ e.sc \notin filled
                  /\ UNCHANGED <<batch, connVars>>
               \/ /\ ~engine /\ HandleEvent(e, Add(Counted(e), e.sc, -1))
                  /\ UNCHANGED batch
               \/ Pushed(batch, e, batch') /\ UNCHANGED connVars
    BY <1>12, DrainEffect
  <2>2. /\ Taken(rxQ, e, rxQ') /\ WellFormed(e, made) /\ TakeBytes(e)
        /\ rxQ' \in Seq(Events)
    BY <2>1 DEF Drained
  <2>3. /\ \A c : Has(rxQ', RxOwners, c) => Has(rxQ, RxOwners, c)
        /\ \/ filled' = filled
           \/ e.kind \in {"DATA", "FIN"} /\ filled' = filled \ {e.sc}
        /\ \A c : Hit(e, RxOwners, c) <=> e.kind \in RxOwners /\ e.sc = c
    BY <2>2 DEF Taken, TakeBytes, HasBytes, Hit
  <2>4. CASE e.kind \in Enders
    <3>1. Quiet(rxQ')
      BY <2>2, <2>4 DEF Taken, Order
    <3>2. \A c \in Sc : ~Has(rxQ', RxOwners, c)
      BY <2>2, <3>1, Zero, AnyQueue DEF Queue
    <3> QED
      BY <3>2
  <2>5. CASE e.kind \notin Enders
    <3>1. e.kind \in RxOwners
      BY <2>5 DEF Events, RxKinds, Enders, Closes
    <3>2. CASE /\ e.kind = "DATA" /\ e.sc \notin filled
               /\ UNCHANGED <<batch, connVars>>
      BY <2>3, <3>2
    <3>3. CASE /\ HandleEvent(e, Add(Counted(e), e.sc, -1))
               /\ UNCHANGED batch
      <4>1. e.sc # NoSc => ~dropped
        BY <2>2 DEF Order, Taken
      <4>2. owned \subseteq owned' /\ (e.sc # NoSc => e.sc \in owned')
        BY <2>5, <3>3, <4>1 DEF HandleEvent, Adopt, Enders, Closes
      <4> QED
        BY <2>3, <3>3, <4>2, Zero
    <3>4. CASE Pushed(batch, e, batch') /\ UNCHANGED connVars
      <4>1. \A c : Has(batch', RxOwners, c)
                      <=> Has(batch, RxOwners, c) \/ e.sc = c
        BY <3>1, <3>4 DEF Pushed, Hit
      <4> QED
        BY <2>3, <3>4, <4>1
    <3> QED
      BY <2>1, <3>2, <3>3, <3>4
  <2> QED
    BY <2>4, <2>5
<1>13. ASSUME NEW c \in Sc, FlushNote(c)
       PROVE  Adopted'
  BY <1>13, FlushEffect
<1>14. CASE DrainReturn
  BY <1>14 DEF DrainReturn
<1>15. CASE RouteEvent
  <2>1. PICK e \in Events :
            /\ Taken(batch, e, batch') /\ HandleEvent(e, refs)
            /\ UNCHANGED <<rxVars, rxQ>>
    BY <1>15, RouteEffect DEF Routed
  <2>2. CASE e.kind \in Enders
    <3>1. Quiet(rxQ)
      BY <2>1, <2>2 DEF Taken, Order
    <3>2. \A c \in Sc : ~Has(rxQ, RxOwners, c)
      BY <3>1, Zero, Queues DEF Queue
    <3> QED
      BY <2>1, <3>2
  <2>3. CASE e.kind \notin Enders
    <3>1. e.sc # NoSc => ~dropped
      BY <2>1 DEF Order, Taken
    <3>2. owned \subseteq owned' /\ (e.sc # NoSc => e.sc \in owned')
      BY <2>1, <2>3, <3>1 DEF HandleEvent, Adopt, Enders, Closes
    <3>3. \A c : Has(batch, RxOwners, c)
                    => Has(batch', RxOwners, c) \/ e.sc = c
      BY <2>1 DEF Taken, Hit
    <3> QED
      BY <2>1, <3>2, <3>3, Zero
  <2> QED
    BY <2>2, <2>3
<1>16. CASE ReleaseBatch
  BY <1>16 DEF ReleaseBatch
<1>17. CASE UNCHANGED vars
  BY <1>17 DEF vars
<1> QED
  BY <1>2, <1>3, <1>4, <1>5, <1>6, <1>7, <1>8, <1>9, <1>10, <1>11, <1>12,
     <1>13, <1>14, <1>15, <1>16, <1>17, RunSteps

-----------------------------------------------------------------------------
(* Who holds the stream's reference after an event was handled.            *)

\* A queue names c with an event that carries a reference or is its
\* STREAM_DESTROY.
LEMMA KeptParts ==
    ASSUME Typed, NEW c
    PROVE  RefKept(c) <=> \/ c \in owned \/ c \in retired
                          \/ Has(rxQ, RxOwners, c) \/ Has(rxQ, {"DESTROY"}, c)
                          \/ Has(batch, RxOwners, c)
BY Queues DEF RefKept, Queue

\* A DATA event without bytes takes nothing away: its context is known.
LEMMA EmptyKept ==
    ASSUME Typed, Adopted, NEW e \in Events, e.kind = "DATA",
           e.sc \notin filled, Taken(rxQ, e, rxQ'), rxQ' \in Seq(Events),
           UNCHANGED <<batch, retired, owned>>, NEW c \in Sc
    PROVE  RefKept(c)' <=> RefKept(c)
<1>1. \A K : Has(rxQ, K, c) <=> Has(rxQ', K, c) \/ (e.kind \in K /\ e.sc = c)
  BY DEF Taken, Hit
<1>2. e.sc = c => c \in owned \/ Has(batch, RxOwners, c)
  BY <1>1 DEF Adopted, RxOwners
<1>3. /\ Has(rxQ, RxOwners \cup {"DESTROY"}, c) <=>
             \/ Has(rxQ', RxOwners \cup {"DESTROY"}, c)
             \/ (e.kind \in RxOwners \cup {"DESTROY"} /\ e.sc = c)
  BY <1>1
<1> QED
  BY <1>2, <1>3 DEF RefKept

\* drain_rx: an entry moves to the batch with what it stands for.
LEMMA EngineKept ==
    ASSUME Typed, NEW e \in Events, Taken(rxQ, e, rxQ'),
           Pushed(batch, e, batch'),
           retired' = IF e.kind = "DESTROY" THEN retired \cup {e.sc}
                      ELSE retired,
           UNCHANGED owned, NEW c \in Sc
    PROVE  RefKept(c)' <=> RefKept(c)
<1>1. Has(rxQ, RxOwners \cup {"DESTROY"}, c) <=>
          \/ Has(rxQ', RxOwners \cup {"DESTROY"}, c)
          \/ (e.kind \in RxOwners \cup {"DESTROY"} /\ e.sc = c)
  BY DEF Taken, Hit
<1>2. Has(batch', RxOwners, c) <=>
          Has(batch, RxOwners, c) \/ (e.kind \in RxOwners /\ e.sc = c)
  BY DEF Pushed, Hit
<1>3. c \in retired' <=> c \in retired \/ (e.kind = "DESTROY" /\ e.sc = c)
  OBVIOUS
<1>4. e.kind \in RxOwners \cup {"DESTROY"} <=>
          e.kind \in RxOwners \/ e.kind = "DESTROY"
  OBVIOUS
<1> QED
  BY <1>1, <1>2, <1>3, <1>4 DEF RefKept

\* drain_rx_callback: an event's context is Python's from then on; a close
\* drops the whole set, a STREAM_DESTROY its context.
LEMMA ClientKept ==
    ASSUME Typed, Names, Loop, Order, ~engine, NEW e \in Events, NEW r,
           Taken(rxQ, e, rxQ'), rxQ' \in Seq(Events), WellFormed(e, made),
           HandleEvent(e, r), UNCHANGED <<batch, retired>>, NEW c \in Sc
    PROVE  /\ RefKept(c)' <=> /\ RefKept(c)
                              /\ ~(e.kind \in Closes /\ c \in owned)
                              /\ ~(e.kind = "DESTROY" /\ c = e.sc)
           /\ e.kind = "DESTROY" /\ c = e.sc => RefKept(c)
<1>1. retired = {} /\ ~Has(batch, RxOwners, c)
  BY NoQueue DEF Loop
<1>2. Has(rxQ, RxOwners \cup {"DESTROY"}, c) <=>
          \/ Has(rxQ', RxOwners \cup {"DESTROY"}, c)
          \/ (e.kind \in RxOwners \cup {"DESTROY"} /\ e.sc = c)
  BY DEF Taken, Hit
<1>3. RefKept(c) <=> c \in owned \/ Has(rxQ, RxOwners \cup {"DESTROY"}, c)
  BY <1>1 DEF RefKept
<1>4. RefKept(c)' <=> c \in owned' \/ Has(rxQ', RxOwners \cup {"DESTROY"}, c)
  BY <1>1 DEF RefKept
<1>5. CASE e.kind \in RxOwners
  <2>1. e.sc # NoSc => ~dropped
    BY DEF Order, Taken
  <2>2. e.kind \notin Closes /\ e.kind # "DESTROY"
    BY <1>5 DEF RxOwners, Closes
  <2>3. c \in owned' <=> c \in owned \/ c = e.sc
    BY <1>5, <2>1, <2>2, Zero DEF HandleEvent, Adopt, Closes
  <2> QED
    BY <1>2, <1>3, <1>4, <1>5, <2>2, <2>3
<1>6. CASE e.kind \in Enders
  <2>1. ~Has(rxQ', RxOwners \cup {"DESTROY"}, c)
    <3>1. Quiet(rxQ')
      BY <1>6 DEF Taken, Order
    <3> QED
      BY <3>1, Zero, AnyQueue DEF Queue
  <2>2. e.kind \notin RxOwners
    BY <1>6 DEF RxOwners, Enders, Closes
  <2>3. c \in owned' <=> c \in owned /\ e.kind \notin Closes /\ c # e.sc
    BY <1>6, <2>2, Zero
       DEF HandleEvent, DestroyStreamCtxs, Forget, Closes, Enders
  <2>4. e.kind \in Closes => e.sc # c
    BY Zero DEF WellFormed
  <2>5. e.kind \in Closes <=> e.kind # "DESTROY"
    BY <1>6 DEF Enders, Closes
  <2> QED
    BY <1>2, <1>3, <1>4, <2>1, <2>2, <2>3, <2>4, <2>5
<1> QED
  BY <1>5, <1>6 DEF Events, RxKinds, Enders, Closes

\* route_event: likewise, but the reference of a STREAM_DESTROY stays with
\* the batch.
LEMMA RouteKept ==
    ASSUME Typed, Names, Order, Retiring, NEW e \in Events, Routed(e),
           NEW c \in Sc
    PROVE  /\ RefKept(c)' <=> RefKept(c) /\ ~(e.kind \in Closes /\ c \in owned)
           /\ e.kind \in Closes /\ c \in owned => c \notin retired
<1>1. /\ Taken(batch, e, batch') /\ batch' \in Seq(Events)
      /\ WellFormed(e, made) /\ HandleEvent(e, refs)
      /\ UNCHANGED <<rxQ, retired>>
  BY DEF Routed
<1>2. Has(batch, RxOwners, c) <=>
          Has(batch', RxOwners, c) \/ (e.kind \in RxOwners /\ e.sc = c)
  BY <1>1 DEF Taken, Hit
<1>3. CASE e.kind \in RxOwners
  <2>1. e.sc # NoSc => ~dropped
    BY <1>1 DEF Order, Taken
  <2>2. e.kind \notin Closes /\ e.kind # "DESTROY"
    BY <1>3 DEF RxOwners, Closes
  <2>3. c \in owned' <=> c \in owned \/ c = e.sc
    BY <1>1, <1>3, <2>1, <2>2, Zero DEF HandleEvent, Adopt, Closes
  <2> QED
    BY <1>1, <1>2, <1>3, <2>2, <2>3 DEF RefKept
<1>4. CASE e.kind \in Closes
  <2>1. e.kind \in Enders /\ e.kind \notin RxOwners /\ e.kind # "DESTROY"
    BY <1>4 DEF Enders, RxOwners, Closes
  <2>2. Quiet(batch') /\ Quiet(rxQ)
    BY <1>1, <2>1 DEF Taken, Order
  <2>3. /\ ~Has(batch', RxOwners, c) /\ ~Has(batch', {"DESTROY"}, c)
        /\ ~Has(rxQ, RxOwners \cup {"DESTROY"}, c)
    BY <1>1, <2>2, Zero, Queues, AnyQueue DEF Queue
  <2>4. c \in retired => c \notin owned
    <3>1. ~Has(batch, {"DESTROY"}, c)
      BY <1>1, <2>1, <2>3 DEF Taken, Hit
    <3> QED
      BY <3>1 DEF Retiring
  <2>5. owned' = {}
    BY <1>1, <1>4, <2>1 DEF HandleEvent, DestroyStreamCtxs
  <2> QED
    BY <1>1, <1>2, <1>4, <2>1, <2>3, <2>4, <2>5 DEF RefKept
<1>5. CASE e.kind = "DESTROY"
  <2>1. e.kind \notin Closes /\ e.kind \notin RxOwners
    BY <1>5 DEF Closes, RxOwners
  <2>2. owned' = owned \ {e.sc}
    BY <1>1, <1>5, <2>1 DEF HandleEvent, Forget, Closes
  <2>3. e.sc = c => c \in retired
    BY <1>1, <1>5 DEF Taken, Hit, Retiring
  <2> QED
    BY <1>1, <1>2, <2>1, <2>2, <2>3 DEF RefKept
<1> QED
  BY <1>3, <1>4, <1>5 DEF Events, RxKinds, Closes

-----------------------------------------------------------------------------
(* Preservation, continued.                                                *)

\* The stream's reference always has somebody who will drop it, until a
\* STREAM_DESTROY or a close has been handled.
LEMMA KeptStep ==
    Typed /\ Names /\ Loop /\ RunOrder /\ RunRetiring /\ RunAdopted /\ RunKept
        /\ [Next]_vars => RunKept'
<1> SUFFICES ASSUME Typed, Names, Loop, RunOrder, RunRetiring, RunAdopted,
             RunKept, [Next]_vars, Running'
             PROVE  Kept'
  BY DEF RunKept
<1>1. Running /\ Order /\ Retiring /\ Adopted /\ Kept
  BY RunSteps DEF RunOrder, RunRetiring, RunAdopted, RunKept
<1> USE <1>1 DEF Kept, cnxVars, rxVars, loopVars, connVars, fixed
<1>2. CASE StreamData \/ StreamFin
  <2>1. PICK c \in Sc :
            /\ Callback
            /\ \/ \E j \in {"DATA", "FIN"} :
                      /\ Pushed(rxQ, Event(j, c), rxQ')
                      /\ made' = made \/ (c = made + 1 /\ made' = made + 1)
               \/ UNCHANGED <<rxQ, made>>
    BY <1>2, PayloadEffect DEF Reports
  <2>2. ASSUME NEW d \in 1 .. made' PROVE d \in 1 .. made \/ d = c
    BY <2>1, <2>2, Zero
  <2>3. \A d : Has(rxQ, RxOwners \cup {"DESTROY"}, d) =>
                  Has(rxQ', RxOwners \cup {"DESTROY"}, d)
    BY <2>1 DEF Pushed
  <2>4. made' # made => Has(rxQ', RxOwners \cup {"DESTROY"}, c)
    BY <2>1 DEF Pushed, Hit, Event, RxOwners
  <2>6. strm # "released" /\ UNCHANGED <<owned, retired, batch, dropped>>
    BY <2>1 DEF Callback, Over
  <2> QED
    BY <2>2, <2>3, <2>4, <2>6 DEF RefKept
<1>3. ASSUME NEW k \in {"FIN", "SIGNAL"}, StreamSignal(k)
      PROVE  Kept'
  <2>1. Callback /\ Pushed(rxQ, Event(k, att), rxQ') /\ UNCHANGED made
    BY <1>3, SignalEffect
  <2>2. \A d : Has(rxQ, RxOwners \cup {"DESTROY"}, d) =>
                  Has(rxQ', RxOwners \cup {"DESTROY"}, d)
    BY <2>1 DEF Pushed
  <2> QED
    BY <2>1, <2>2 DEF Callback, Over, RefKept
<1>4. CASE StreamReleased
  BY <1>4, ReleasedEffect
<1>5. CASE ApplicationClose \/ CloseCallback
  <2>1. \A d : Has(rxQ, RxOwners \cup {"DESTROY"}, d) =>
                  Has(rxQ', RxOwners \cup {"DESTROY"}, d)
    BY <1>5, CloseEffect DEF Pushed
  <2>2. UNCHANGED <<strm, made, loopVars, connVars>>
    BY <1>5, CloseEffect
  <2> QED
    BY <2>1, <2>2 DEF RefKept
<1>6. CASE DeleteCnx
  BY <1>6 DEF DeleteCnx, RefKept
<1>7. CASE HandleTx
  <2>1. /\ strm' = strm \/ strm = "none"
        /\ UNCHANGED <<rxQ, made, loopVars, connVars>>
    BY <1>7, CommandEffect DEF Reattached
  <2> QED
    BY <2>1 DEF RefKept
<1>8. ASSUME NEW c \in Sc, RunDeferredReady(c) \/ RunDeferredSweep(c)
      PROVE  Kept'
  BY <1>8, DeferredEffect DEF Reattached, RefKept
<1>9. ASSUME NEW k \in {"RESET", "STOP"}, Send \/ Abort(k)
      PROVE  Kept'
  <2>1. /\ \/ UNCHANGED <<made, owned>>
           \/ made' = made + 1 /\ owned' = owned \cup {made + 1}
        /\ UNCHANGED <<strm, rxQ, loopVars, dropped>>
    BY <1>9, CallEffect
  <2>2. ASSUME NEW d \in 1 .. made' PROVE d \in 1 .. made \/ d \in owned'
    BY <2>1, <2>2, Zero
  <2> QED
    BY <2>1, <2>2 DEF RefKept
<1>10. CASE Close \/ BeginStop
  <2>1. UNCHANGED <<strm, made, rxQ, batch, retired, owned, dropped>>
    BY <1>10, CloseCallEffect
  <2> QED
    BY <2>1 DEF RefKept
<1>11. ASSUME NEW c \in Sc, ReleaseChunk(c)
       PROVE  Kept'
  BY <1>11 DEF ReleaseChunk, RefKept
<1>12. CASE Drain
  <2> SUFFICES ASSUME NEW c \in 1 .. made
               PROVE  RefKept(c)' \/ strm' = "released" \/ dropped'
    BY <1>12, DrainEffect DEF Drained
  <2>1. c \in Sc
    BY Zero
  <2>2. PICK e \in Events :
            /\ Drained(e)
            /\ \/ /\ e.kind = "DATA" /\ e.sc \notin filled
                  /\ UNCHANGED <<batch, batchRefs, retired, connVars>>
               \/ /\ ~engine /\ HandleEvent(e, Add(Counted(e), e.sc, -1))
                  /\ UNCHANGED <<batch, batchRefs, retired>>
               \/ /\ Pushed(batch, e, batch')
                  /\ retired' = IF e.kind = "DESTROY"
                                THEN retired \cup {e.sc} ELSE retired
                  /\ UNCHANGED connVars
    BY <1>12, DrainEffect
  <2>3. /\ Taken(rxQ, e, rxQ') /\ WellFormed(e, made)
        /\ rxQ' \in Seq(Events) /\ UNCHANGED strm
    BY <2>2 DEF Drained
  <2>4. CASE /\ e.kind = "DATA" /\ e.sc \notin filled
             /\ UNCHANGED <<batch, batchRefs, retired, connVars>>
    <3>1. RefKept(c)' <=> RefKept(c)
      BY <2>1, <2>3, <2>4, EmptyKept
    <3> QED
      BY <2>3, <2>4, <3>1
  <2>5. CASE /\ ~engine /\ HandleEvent(e, Add(Counted(e), e.sc, -1))
             /\ UNCHANGED <<batch, batchRefs, retired>>
    <3>1. RefKept(c)' <=> /\ RefKept(c)
                          /\ ~(e.kind \in Closes /\ c \in owned)
                          /\ ~(e.kind = "DESTROY" /\ c = e.sc)
      BY <2>1, <2>3, <2>5, ClientKept
    <3>2. e.kind = "DESTROY" /\ c = e.sc => strm = "released"
      BY <2>1, <2>3 DEF Taken, Hit, Retiring
    <3>3. e.kind \in Closes \/ dropped => dropped'
      BY <2>5 DEF HandleEvent, Adopt, DestroyStreamCtxs, Forget, Closes,
                  RxOwners
    <3> QED
      BY <2>3, <3>1, <3>2, <3>3
  <2>6. CASE /\ Pushed(batch, e, batch')
             /\ retired' = IF e.kind = "DESTROY" THEN retired \cup {e.sc}
                           ELSE retired
             /\ UNCHANGED connVars
    <3>1. RefKept(c)' <=> RefKept(c)
      BY <2>1, <2>3, <2>6, EngineKept
    <3> QED
      BY <2>3, <2>6, <3>1
  <2> QED
    BY <2>2, <2>4, <2>5, <2>6
<1>13. ASSUME NEW c \in Sc, FlushNote(c)
       PROVE  Kept'
  <2>1. UNCHANGED <<strm, made, rxQ, batch, retired, owned, dropped>>
    BY <1>13, FlushEffect
  <2> QED
    BY <2>1 DEF RefKept
<1>14. CASE DrainReturn
  BY <1>14 DEF DrainReturn, RefKept
<1>15. CASE RouteEvent
  <2>1. PICK e \in Events : Routed(e)
    BY <1>15, RouteEffect
  <2>2. \A c \in 1 .. made :
            RefKept(c)' <=> RefKept(c) /\ ~(e.kind \in Closes /\ c \in owned)
    BY <2>1, RouteKept, Zero
  <2>3. e.kind \in Closes \/ dropped => dropped'
    BY <2>1 DEF Routed, HandleEvent, Adopt, DestroyStreamCtxs, Forget,
                Closes, RxOwners
  <2> QED
    BY <2>1, <2>2, <2>3 DEF Routed
<1>16. CASE ReleaseBatch
  BY <1>16 DEF ReleaseBatch, Retiring, RefKept
<1>17. CASE UNCHANGED vars
  BY <1>17 DEF vars, RefKept
<1> QED
  BY <1>2, <1>3, <1>4, <1>5, <1>6, <1>7, <1>8, <1>9, <1>10, <1>11, <1>12,
     <1>13, <1>14, <1>15, <1>16, <1>17, RunSteps

\* Nobody holds the stream's reference of a context that is not there yet.
LEMMA NewUnkept ==
    ASSUME Typed, Names
    PROVE  ~RefKept(made + 1)
<1>1. made + 1 \notin 0 .. made /\ made + 1 \notin 1 .. made
  BY Zero
<1>2. \A K : ~Has(rxQ, K, made + 1) /\ ~Has(batch, K, made + 1)
  BY <1>1, Queues DEF Queue, Names
<1> QED
  BY <1>1, <1>2 DEF RefKept, Names

\* The stream's context, as long as picoquic may call back about it, has its
\* reference kept.
LEMMA AttKept ==
    ASSUME Typed, Names, Running, Order, Kept, ~Over, att \in Sc
    PROVE  RefKept(att)
BY Zero DEF Names, Kept, Order, Over

\* Counts are numbers.
LEMMA Numbers ==
    ASSUME Typed, NEW c \in Sc
    PROVE  /\ refs[c] \in Int /\ batchRefs[c] \in Nat /\ chunks[c] \in Nat
           /\ Count(rxQ, RxOwners, c) \in Nat
           /\ Count(txQ, TxOwners, c) \in Nat
BY Queues DEF Queue, Typed

\* What is owed to a context is a number.
LEMMA OwedNumber ==
    ASSUME Typed, NEW c \in Sc
    PROVE  Owed(c) \in Nat /\ refs[c] \in Int
BY Numbers DEF Owed, Bit

\* Every step moves as many references as it moves holders.
LEMMA MatchStep ==
    Typed /\ Names /\ Loop /\ RunOrder /\ RunRetiring /\ RunAdopted /\ RunKept
        /\ RunMatch /\ [Next]_vars => RunMatch'
<1> SUFFICES ASSUME Typed, Names, Loop, RunOrder, RunRetiring, RunAdopted,
             RunKept, RunMatch, [Next]_vars, Running'
             PROVE  Match'
  BY DEF RunMatch
<1>1. Running /\ Order /\ Retiring /\ Adopted /\ Kept /\ Match
  BY RunSteps DEF RunOrder, RunRetiring, RunAdopted, RunKept, RunMatch
<1> USE <1>1 DEF cnxVars, rxVars, loopVars, connVars, fixed
<1>2. CASE StreamData \/ StreamFin
  <2> SUFFICES ASSUME NEW d \in Sc
               PROVE  (refs[d] = Owed(d) + Bit(RefKept(d)))'
    BY DEF Match

  <2>1. PICK c \in Sc :
            /\ Callback
            /\ \/ Reports("DATA", c) \/ Reports("FIN", c)
               \/ UNCHANGED <<rxQ, refs, made>>
    BY <1>2, PayloadEffect
  <2>2. CASE UNCHANGED <<rxQ, refs, made>>
    BY <2>1, <2>2 DEF Callback, Match, Owed, RefKept
  <2>3. CASE Reports("DATA", c) \/ Reports("FIN", c)
    <3>1. PICK j \in {"DATA", "FIN"} : Reports(j, c)
      BY <2>3
    <3>2. j \in RxOwners
      BY DEF RxOwners
    <3>3. /\ Count(rxQ', RxOwners, d) = Count(rxQ, RxOwners, d) + Bit(c = d)
          /\ \A K : RxOwners \subseteq K =>
                 (Has(rxQ', K, d) <=> Has(rxQ, K, d) \/ c = d)
      BY <3>1, <3>2 DEF Reports, Pushed, Hit, Event
    <3>4. RefKept(d)' <=> RefKept(d) \/ c = d
      BY <2>1, <3>3 DEF Callback, RefKept
    <3>5. Owed(d)' = Owed(d) + Bit(c = d)
      BY <2>1, <3>3, Numbers DEF Callback, Owed, Bit
    <3>6. c = d => refs'[d] = refs[d] + (IF RefKept(d) THEN 1 ELSE 2)
      <4>1. CASE c = att /\ refs' = Add(refs, c, 1)
        BY <2>1, <4>1, AttKept DEF Add, Callback
      <4>2. CASE c = made + 1 /\ refs' = Add(Add(refs, c, 1), c, 1)
        BY <4>2, NewUnkept, Numbers DEF Add
      <4> QED
        BY <3>1, <4>1, <4>2 DEF Reports
    <3>7. c # d => refs'[d] = refs[d]
      BY <3>1 DEF Reports, Add
    <3> QED
      BY <3>4, <3>5, <3>6, <3>7, OwedNumber DEF Match, Bit
  <2> QED
    BY <2>1, <2>2, <2>3
<1>3. ASSUME NEW k \in {"FIN", "SIGNAL"}, StreamSignal(k)
      PROVE  Match'
  <2> SUFFICES ASSUME NEW d \in Sc
               PROVE  (refs[d] = Owed(d) + Bit(RefKept(d)))'
    BY DEF Match

  <2>1. /\ Callback /\ Pushed(rxQ, Event(k, att), rxQ')
        /\ refs' = Add(refs, att, 1)
    BY <1>3, SignalEffect
  <2>2. /\ Count(rxQ', RxOwners, d) = Count(rxQ, RxOwners, d) + Bit(att = d)
        /\ \A K : RxOwners \subseteq K =>
               (Has(rxQ', K, d) <=> Has(rxQ, K, d) \/ att = d)
    <3>1. k \in RxOwners
      BY DEF RxOwners
    <3> QED
      BY <2>1, <3>1 DEF Pushed, Hit, Event
  <2>3. RefKept(d)' <=> RefKept(d) \/ att = d
    BY <2>1, <2>2 DEF Callback, RefKept
  <2>4. Owed(d)' = Owed(d) + Bit(att = d)
    BY <2>1, <2>2, Numbers DEF Callback, Owed, Bit
  <2>5. att = d => RefKept(d)
    BY <2>1, AttKept DEF Callback
  <2> QED
    BY <2>1, <2>3, <2>4, <2>5, OwedNumber DEF Match, Bit, Add
<1>4. CASE StreamReleased
  <2> SUFFICES ASSUME NEW d \in Sc
               PROVE  (refs[d] = Owed(d) + Bit(RefKept(d)))'
    BY DEF Match

  <2>1. Count(rxQ', RxOwners, d) = Count(rxQ, RxOwners, d)
    BY <1>4, ReleasedEffect, Numbers DEF Pushed, Hit, Event, RxOwners, Bit
  <2>2. \A K : Has(rxQ', K, d)
                  <=> Has(rxQ, K, d) \/ ("DESTROY" \in K /\ att = d)
    BY <1>4, ReleasedEffect, Zero DEF Pushed, Hit, Event
  <2>3. att = d => RefKept(d)
    BY <1>4, ReleasedEffect, AttKept
  <2>4. RefKept(d)' <=> RefKept(d)
    BY <1>4, ReleasedEffect, <2>2, <2>3 DEF RefKept, RxOwners
  <2>5. Owed(d)' = Owed(d)
    BY <1>4, ReleasedEffect, <2>1 DEF Owed
  <2> QED
    BY <1>4, ReleasedEffect, <2>4, <2>5 DEF Match, Bit
<1>5. CASE ApplicationClose \/ CloseCallback
  <2> SUFFICES ASSUME NEW d \in Sc
               PROVE  (refs[d] = Owed(d) + Bit(RefKept(d)))'
    BY DEF Match

  <2>1. PICK k \in Closes :
            /\ Pushed(rxQ, Event(k, NoSc), rxQ')
            /\ refs' = DropEach(refs, held) /\ held' = {}
            /\ UNCHANGED <<txQ, loopVars, connVars, chunks>>
    BY <1>5, CloseEffect
  <2>2. /\ Count(rxQ', RxOwners, d) = Count(rxQ, RxOwners, d)
        /\ \A K : Has(rxQ', K, d) <=> Has(rxQ, K, d)
    BY <2>1, Zero, Numbers DEF Pushed, Hit, Event, Bit
  <2>3. RefKept(d)' <=> RefKept(d)
    BY <2>1, <2>2 DEF RefKept
  <2>4. Owed(d)' = Owed(d) - Bit(d \in held)
    BY <2>1, <2>2, Numbers DEF Owed, Bit
  <2> QED
    BY <2>1, <2>3, <2>4, OwedNumber DEF Match, Bit, DropEach
<1>6. CASE DeleteCnx
  BY <1>6 DEF DeleteCnx, Match, Owed, RefKept
<1>7. CASE HandleTx
  <2> SUFFICES ASSUME NEW d \in Sc
               PROVE  (refs[d] = Owed(d) + Bit(RefKept(d)))'
    BY DEF Match

  <2>1. PICK e \in Commands :
            /\ Taken(txQ, e, txQ')
            /\ \/ /\ UNCHANGED held
                  /\ refs' = IF e.kind \in TxOwners THEN Add(refs, e.sc, -1)
                             ELSE refs
               \/ /\ e.kind \in TxOwners /\ e.sc \notin held
                  /\ held' = held \cup {e.sc}
                  /\ refs' = Add(Add(refs, e.sc, 1), e.sc, -1)
            /\ UNCHANGED <<rxQ, loopVars, connVars, chunks>>
    BY <1>7, CommandEffect
  <2>2. Count(txQ', TxOwners, d) =
            Count(txQ, TxOwners, d) - Bit(e.kind \in TxOwners /\ e.sc = d)
    BY <2>1 DEF Taken, Hit
  <2>3. RefKept(d)' <=> RefKept(d)
    BY <2>1 DEF RefKept
  <2>4. refs'[d] - Bit(d \in held') =
            refs[d] - Bit(d \in held) - Bit(e.kind \in TxOwners /\ e.sc = d)
    BY <2>1, Numbers DEF Add, Bit
  <2>5. Owed(d)' - Bit(d \in held') =
            Owed(d) - Bit(d \in held) - Bit(e.kind \in TxOwners /\ e.sc = d)
    BY <2>1, <2>2, Numbers DEF Owed, Bit
  <2>6. refs'[d] \in Int /\ Owed(d)' \in Int
    BY <2>1, <2>2, Numbers DEF Add, Owed, Bit
  <2> QED
    BY <2>3, <2>4, <2>5, <2>6, OwedNumber DEF Match, Bit
<1>8. ASSUME NEW c \in Sc, RunDeferredReady(c) \/ RunDeferredSweep(c)
      PROVE  Match'
  <2> SUFFICES ASSUME NEW d \in Sc
               PROVE  (refs[d] = Owed(d) + Bit(RefKept(d)))'
    BY DEF Match

  <2>1. /\ c \in held /\ held' = held \ {c} /\ refs' = Add(refs, c, -1)
        /\ UNCHANGED <<rxQ, txQ, loopVars, connVars, chunks>>
    BY <1>8, DeferredEffect
  <2>2. RefKept(d)' <=> RefKept(d)
    BY <2>1 DEF RefKept
  <2>3. Owed(d)' = Owed(d) - Bit(d = c)
    BY <2>1, Numbers DEF Owed, Bit
  <2> QED
    BY <2>1, <2>2, <2>3, OwedNumber DEF Match, Bit, Add
<1>9. ASSUME NEW k \in {"RESET", "STOP"}, Send \/ Abort(k)
      PROVE  Match'
  <2> SUFFICES ASSUME NEW d \in Sc
               PROVE  (refs[d] = Owed(d) + Bit(RefKept(d)))'
    BY DEF Match

  <2>1. PICK j \in TxOwners, s \in Sc \cup {NoSc} :
            /\ \/ /\ s = map /\ UNCHANGED owned
                  /\ \/ /\ Pushed(txQ, Event(j, s), txQ')
                        /\ refs' = Add(refs, s, 1)
                     \/ UNCHANGED <<txQ, refs>>
               \/ /\ s = made + 1 /\ owned' = owned \cup {s}
                  /\ \/ /\ Pushed(txQ, Event(j, s), txQ')
                        /\ refs' = Add(Add(refs, s, 1), s, 1)
                     \/ UNCHANGED txQ /\ refs' = Add(refs, s, 1)
            /\ UNCHANGED <<rxQ, held, loopVars, chunks>>
    BY <1>9, CallEffect
  <2> DEFINE pushed == Pushed(txQ, Event(j, s), txQ')
  <2>2. /\ pushed => Count(txQ', TxOwners, d) =
                         Count(txQ, TxOwners, d) + Bit(s = d)
        /\ UNCHANGED txQ => Count(txQ', TxOwners, d) = Count(txQ, TxOwners, d)
    BY <2>1 DEF Pushed, Hit, Event
  <2> HIDE DEF pushed
  <2>3. CASE s = map /\ UNCHANGED owned
    <3>1. RefKept(d)' <=> RefKept(d)
      BY <2>1, <2>3 DEF RefKept
    <3>2. CASE pushed /\ refs' = Add(refs, s, 1)
      <4>1. Owed(d)' = Owed(d) + Bit(s = d)
        BY <2>1, <2>2, <3>2, Numbers DEF Owed, Bit
      <4> QED
        BY <3>1, <3>2, <4>1, OwedNumber DEF Match, Bit, Add
    <3>3. CASE UNCHANGED <<txQ, refs>>
      <4>1. Owed(d)' = Owed(d)
        BY <2>1, <3>3 DEF Owed
      <4> QED
        BY <3>1, <3>3, <4>1 DEF Match, Bit
    <3> QED
      BY <2>1, <2>3, <3>2, <3>3, NewUnkept, Zero DEF pushed, Names
  <2>4. CASE s = made + 1 /\ owned' = owned \cup {s}
    <3>1. RefKept(d)' <=> RefKept(d) \/ d = s
      BY <2>1, <2>4 DEF RefKept
    <3>2. d = s => ~RefKept(d)
      BY <2>4, NewUnkept
    <3>3. CASE pushed /\ refs' = Add(Add(refs, s, 1), s, 1)
      <4>1. Owed(d)' = Owed(d) + Bit(s = d)
        BY <2>1, <2>2, <3>3, Numbers DEF Owed, Bit
      <4>2. refs'[d] = refs[d] + (IF s = d THEN 2 ELSE 0)
        BY <3>3, Numbers DEF Add
      <4> QED
        BY <3>1, <3>2, <4>1, <4>2, OwedNumber DEF Match, Bit
    <3>4. CASE UNCHANGED txQ /\ refs' = Add(refs, s, 1)
      <4>1. Owed(d)' = Owed(d)
        BY <2>1, <3>4 DEF Owed
      <4> QED
        BY <3>1, <3>2, <3>4, <4>1, OwedNumber DEF Match, Bit, Add
    <3> QED
      BY <2>1, <2>4, <3>3, <3>4, Zero DEF pushed, Names
  <2> QED
    BY <2>1, <2>3, <2>4
<1>10. CASE Close \/ BeginStop
  <2> SUFFICES ASSUME NEW d \in Sc
               PROVE  (refs[d] = Owed(d) + Bit(RefKept(d)))'
    BY DEF Match

  <2>1. UNCHANGED <<refs, rxQ, held, notes, batch, batchRefs, retired, owned,
                    chunks>>
    BY <1>10, CloseCallEffect
  <2>2. Count(txQ', TxOwners, d) = Count(txQ, TxOwners, d)
    BY <1>10, CloseCallEffect, Zero, Numbers DEF Pushed, Hit, Event, Bit
  <2>3. Owed(d)' = Owed(d) /\ (RefKept(d)' <=> RefKept(d))
    BY <2>1, <2>2 DEF Owed, RefKept
  <2> QED
    BY <2>1, <2>3 DEF Match, Bit
<1>11. ASSUME NEW c \in Sc, ReleaseChunk(c)
       PROVE  Match'
  <2> SUFFICES ASSUME NEW d \in Sc
               PROVE  (refs[d] = Owed(d) + Bit(RefKept(d)))'
    BY DEF Match

  <2>1. /\ chunks' = Add(chunks, c, -1) /\ refs' = Add(refs, c, -1)
        /\ UNCHANGED <<rxQ, txQ, held, loopVars, connVars>>
    BY <1>11 DEF ReleaseChunk
  <2>2. RefKept(d)' <=> RefKept(d)
    BY <2>1 DEF RefKept
  <2>3. Owed(d)' = Owed(d) - Bit(d = c)
    BY <2>1, Numbers DEF Owed, Bit, Add
  <2> QED
    BY <2>1, <2>2, <2>3, OwedNumber DEF Match, Bit, Add
<1>12. CASE Drain
  <2> SUFFICES ASSUME NEW d \in Sc
               PROVE  (refs[d] = Owed(d) + Bit(RefKept(d)))'
    BY DEF Match

  <2>1. PICK e \in Events :
            /\ Drained(e)
            /\ \/ /\ e.kind = "DATA" /\ e.sc \notin filled
                  /\ refs' = Add(refs, e.sc, -1)
                  /\ UNCHANGED <<notes, chunks, batch, batchRefs, retired,
                                 connVars>>
               \/ /\ ~engine /\ HandleEvent(e, Add(Counted(e), e.sc, -1))
                  /\ UNCHANGED <<batch, batchRefs, retired>>
               \/ /\ Pushed(batch, e, batch') /\ refs' = Counted(e)
                  /\ batchRefs' = IF e.kind \in RxOwners
                                  THEN Add(batchRefs, e.sc, 1)
                                  ELSE batchRefs
                  /\ retired' = IF e.kind = "DESTROY"
                                THEN retired \cup {e.sc} ELSE retired
                  /\ UNCHANGED connVars
    BY <1>12, DrainEffect
  <2>2. /\ Taken(rxQ, e, rxQ') /\ WellFormed(e, made) /\ TakeBytes(e)
        /\ rxQ' \in Seq(Events) /\ UNCHANGED <<txQ, held>>
    BY <2>1 DEF Drained
  <2> DEFINE hit == Bit(e.kind \in RxOwners /\ e.sc = d)
  <2>3. Count(rxQ', RxOwners, d) = Count(rxQ, RxOwners, d) - hit
    BY <2>2 DEF Taken, Hit
  <2>8. hit \in Nat
    BY DEF Bit
  <2>4. /\ chunks'[d] \in Nat /\ Counted(e)[d] \in Int
        /\ Counted(e)[d] - chunks'[d] - Bit(d \in notes') =
               refs[d] - chunks[d] - Bit(d \in notes)
    <3>1. CASE ~HasBytes(e)
      BY <2>2, <3>1, Numbers DEF TakeBytes, Counted, Bit
    <3>2. CASE HasBytes(e)
      <4>1. /\ notes' = notes \cup {e.sc} /\ chunks' = Add(chunks, e.sc, 1)
            /\ Counted(e) = Add(refs, e.sc, IF e.sc \in notes THEN 1 ELSE 2)
        BY <2>2, <3>2 DEF TakeBytes, Counted, Popped
      <4>2. CASE e.sc # d
        BY <4>1, <4>2, Numbers DEF Add, Bit
      <4>3. CASE e.sc = d
        BY <4>1, <4>3, Numbers DEF Add, Bit
      <4> QED
        BY <4>2, <4>3
    <3> QED
      BY <3>1, <3>2
  <2>9. chunks'[d] \in Nat /\ UNCHANGED <<txQ, held>>
    BY <2>2, <2>4
  <2> HIDE DEF hit
  <2>5. CASE /\ e.kind = "DATA" /\ e.sc \notin filled
             /\ refs' = Add(refs, e.sc, -1)
             /\ UNCHANGED <<notes, chunks, batch, batchRefs, retired, connVars>>
    <3>1. RefKept(d)' <=> RefKept(d)
      BY <2>2, <2>5, EmptyKept
    <3>2. refs'[d] = refs[d] - hit
      BY <2>5, Numbers DEF Add, Bit, hit, RxOwners
    <3>3. UNCHANGED <<batchRefs, chunks, held, txQ, notes>>
      BY <2>5, <2>9
    <3>4. Owed(d)' = Owed(d) - hit
      BY <2>3, <2>8, <3>3, Numbers DEF Owed, Bit
    <3> QED
      BY <2>8, <3>1, <3>2, <3>4, OwedNumber DEF Match, Bit
  <2>6. CASE /\ ~engine /\ HandleEvent(e, Add(Counted(e), e.sc, -1))
             /\ UNCHANGED <<batch, batchRefs, retired>>
    <3>1. /\ RefKept(d)' <=> /\ RefKept(d)
                             /\ ~(e.kind \in Closes /\ d \in owned)
                             /\ ~(e.kind = "DESTROY" /\ d = e.sc)
          /\ e.kind = "DESTROY" /\ d = e.sc => RefKept(d)
      BY <2>2, <2>6, ClientKept
    <3>2. d \in owned => RefKept(d)
      BY DEF RefKept
    <3>3. Owed(d)' - chunks'[d] - Bit(d \in notes') =
              Owed(d) - chunks[d] - Bit(d \in notes) - hit
      BY <2>3, <2>6, <2>8, <2>9, Numbers DEF Owed, Bit
    <3>4. e.kind \in Closes => e.sc # d
      BY <2>2, Zero DEF WellFormed
    <3>5. refs'[d] = Counted(e)[d] - hit
                     - Bit(e.kind \in Closes /\ d \in owned)
                     - Bit(e.kind = "DESTROY" /\ d = e.sc)
      <4>1. CASE e.kind \in RxOwners
        <5>1. refs' = Add(Counted(e), e.sc, -1)
          BY <2>6, <4>1 DEF HandleEvent, Adopt, RxOwners
        <5>2. e.kind \notin Closes /\ e.kind # "DESTROY"
          BY <4>1 DEF Closes, RxOwners
        <5> QED
          BY <2>4, <4>1, <5>1, <5>2 DEF Add, Bit, hit
      <4>2. CASE e.kind \in Closes
        <5>1. refs' = DropEach(Add(Counted(e), e.sc, -1), owned)
          BY <2>6, <4>2 DEF HandleEvent, DestroyStreamCtxs, RxOwners, Closes
        <5>2. e.kind \notin RxOwners /\ e.kind # "DESTROY"
          BY <4>2 DEF Closes, RxOwners
        <5> QED
          BY <2>4, <3>4, <4>2, <5>1, <5>2 DEF Add, DropEach, Bit, hit
      <4>3. CASE e.kind = "DESTROY"
        <5>1. refs' = Add(Counted(e), e.sc, -1)
          BY <2>6, <4>3 DEF HandleEvent, Forget, RxOwners
        <5>2. e.kind \notin Closes /\ e.kind \notin RxOwners
          BY <4>3 DEF Closes, RxOwners
        <5> QED
          BY <2>4, <4>3, <5>1, <5>2 DEF Add, Bit, hit
      <4> QED
        BY <4>1, <4>2, <4>3 DEF Events, RxKinds, Closes
    <3>6. Owed(d)' \in Int
      BY <2>3, <2>6, <2>8, <2>9, Numbers DEF Owed, Bit
    <3>7. e.kind \in Closes => e.kind # "DESTROY"
      BY DEF Closes
    <3> QED
      BY <2>4, <2>8, <3>1, <3>2, <3>3, <3>5, <3>6, <3>7, OwedNumber, Numbers
         DEF Match, Bit
  <2>7. CASE /\ Pushed(batch, e, batch') /\ refs' = Counted(e)
             /\ batchRefs' = IF e.kind \in RxOwners
                             THEN Add(batchRefs, e.sc, 1) ELSE batchRefs
             /\ retired' = IF e.kind = "DESTROY" THEN retired \cup {e.sc}
                           ELSE retired
             /\ UNCHANGED connVars
    <3>1. RefKept(d)' <=> RefKept(d)
      BY <2>2, <2>7, EngineKept
    <3>2. batchRefs'[d] = batchRefs[d] + hit
      BY <2>7, Numbers DEF Add, Bit, hit
    <3>3. /\ Owed(d)' \in Int
          /\ Owed(d)' - chunks'[d] - Bit(d \in notes') =
                 Owed(d) - chunks[d] - Bit(d \in notes)
      BY <2>3, <2>8, <2>9, <3>2, Numbers DEF Owed, Bit
    <3> QED
      BY <2>4, <2>7, <3>1, <3>3, OwedNumber, Numbers DEF Match, Bit
  <2> QED
    BY <2>1, <2>5, <2>6, <2>7
<1>13. ASSUME NEW c \in Sc, FlushNote(c)
       PROVE  Match'
  <2> SUFFICES ASSUME NEW d \in Sc
               PROVE  (refs[d] = Owed(d) + Bit(RefKept(d)))'
    BY DEF Match

  <2>1. /\ c \in notes /\ notes' = notes \ {c}
        /\ \/ /\ Pushed(txQ, Event("CREDIT", c), txQ')
              /\ refs' = Add(Add(refs, c, -1), c, 1)
           \/ UNCHANGED txQ /\ refs' = Add(refs, c, -1)
        /\ UNCHANGED <<rxQ, held, batch, batchRefs, retired, connVars, chunks>>
    BY <1>13, FlushEffect
  <2>2. RefKept(d)' <=> RefKept(d)
    BY <2>1 DEF RefKept
  <2>3. CASE /\ Pushed(txQ, Event("CREDIT", c), txQ')
             /\ refs' = Add(Add(refs, c, -1), c, 1)
    <3>1. Count(txQ', TxOwners, d) = Count(txQ, TxOwners, d) + Bit(c = d)
      BY <2>3 DEF Pushed, Hit, Event, TxOwners
    <3>2. Owed(d)' = Owed(d) /\ refs'[d] = refs[d]
      BY <2>1, <2>3, <3>1, Numbers DEF Owed, Bit, Add
    <3> QED
      BY <2>2, <3>2 DEF Match, Bit
  <2>4. CASE UNCHANGED txQ /\ refs' = Add(refs, c, -1)
    <3>1. Owed(d)' = Owed(d) - Bit(c = d)
      BY <2>1, <2>4, Numbers DEF Owed, Bit
    <3> QED
      BY <2>2, <2>4, <3>1, OwedNumber DEF Match, Bit, Add
  <2> QED
    BY <2>1, <2>3, <2>4
<1>14. CASE DrainReturn
  BY <1>14 DEF DrainReturn, Match, Owed, RefKept
<1>15. CASE RouteEvent
  <2> SUFFICES ASSUME NEW d \in Sc
               PROVE  (refs[d] = Owed(d) + Bit(RefKept(d)))'
    BY DEF Match

  <2>1. PICK e \in Events : Routed(e)
    BY <1>15, RouteEffect
  <2>2. RefKept(d)' <=> RefKept(d) /\ ~(e.kind \in Closes /\ d \in owned)
    BY <2>1, RouteKept
  <2>3. Owed(d)' = Owed(d)
    BY <2>1 DEF Routed, Owed
  <2>4. refs'[d] = refs[d] - Bit(e.kind \in Closes /\ d \in owned)
    <3>1. HandleEvent(e, refs)
      BY <2>1 DEF Routed
    <3>2. e.kind \in Closes => refs' = DropEach(refs, owned)
      BY <3>1 DEF HandleEvent, DestroyStreamCtxs, Closes, RxOwners
    <3>3. e.kind \notin Closes => refs' = refs
      BY <3>1 DEF HandleEvent, Adopt, Forget, Closes
    <3> QED
      BY <3>2, <3>3, Numbers DEF DropEach, Bit
  <2>5. d \in owned => RefKept(d)
    BY DEF RefKept
  <2> QED
    BY <2>2, <2>3, <2>4, <2>5, OwedNumber DEF Match, Bit
<1>16. CASE ReleaseBatch
  <2> SUFFICES ASSUME NEW d \in Sc
               PROVE  (refs[d] = Owed(d) + Bit(RefKept(d)))'
    BY DEF Match

  <2>1. /\ batch = << >> /\ refs' = ReleaseBatchRefs(refs)
        /\ batchRefs' = NoRefs /\ retired' = {}
        /\ UNCHANGED <<rxQ, txQ, held, notes, batch, connVars, chunks>>
    BY <1>16 DEF ReleaseBatch
  <2>2. RefKept(d)' <=> RefKept(d) /\ d \notin retired
    <3>1. d \in retired => d \notin owned /\ Quiet(rxQ)
      BY <2>1, NoQueue DEF Retiring
    <3>2. d \in retired => ~Has(rxQ, RxOwners \cup {"DESTROY"}, d)
      BY <3>1, Queues, Zero DEF Queue
    <3>3. ~Has(batch, RxOwners, d)
      BY <2>1, NoQueue
    <3> QED
      BY <2>1, <3>1, <3>2, <3>3 DEF RefKept
  <2>3. Owed(d)' = Owed(d) - batchRefs[d]
    BY <2>1, Numbers DEF Owed, NoRefs, Bit
  <2>4. refs'[d] = refs[d] - batchRefs[d] - Bit(d \in retired)
    BY <2>1 DEF ReleaseBatchRefs, Bit
  <2>5. d \in retired => RefKept(d)
    BY DEF RefKept
  <2>6. Bit(RefKept(d)') = Bit(RefKept(d)) - Bit(d \in retired)
    BY <2>2, <2>5 DEF Bit
  <2>7. /\ refs[d] = Owed(d) + Bit(RefKept(d)) /\ batchRefs[d] \in Nat
        /\ Bit(RefKept(d)) \in Int /\ Bit(d \in retired) \in Int
    BY Numbers DEF Match, Bit
  <2> QED
    BY <2>3, <2>4, <2>6, <2>7, OwedNumber
<1>17. CASE UNCHANGED vars
  BY <1>17 DEF vars, Match, Owed, RefKept
<1> QED
  BY <1>2, <1>3, <1>4, <1>5, <1>6, <1>7, <1>8, <1>9, <1>10, <1>11, <1>12,
     <1>13, <1>14, <1>15, <1>16, <1>17, RunSteps

-----------------------------------------------------------------------------
(* stop() and the release of the transport.                                *)

\* The steps that stop the transport, and those of a stopped one.
LEMMA StopSteps ==
    ASSUME Typed, Loop, [Next]_vars, ~Running'
    PROVE  \/ Running /\ StopTransport
           \/ /\ ~Running
              /\ \/ \E c \in Sc : ReleaseChunk(c)
                 \/ StopClient \/ StopEngine \/ FreeTransport
                 \/ UNCHANGED vars
<1>1. CASE ~Running
  <2>1. py = "idle"
    BY <1>1 DEF Loop
  <2>2. ~StreamCallback /\ ~HandleTx /\ ~Closed
    BY <1>1 DEF StreamCallback, StreamData, StreamFin, StreamReleased,
                StreamSignal, PeerMaySend, HandleTx, HandleMark,
                HandleResetAgain, HandleResetHold, HandleResetNow,
                HandleStop, HandleCredit, HandleClose, DropStale, Command,
                Closed, ApplicationClose, CloseCallback, DeleteCnx
  <2>3. /\ ~Call /\ ~Drain /\ ~Flush /\ ~DrainReturn /\ ~RouteEvent
        /\ ~ReleaseBatch /\ ~BeginStop /\ ~StopTransport
        /\ \A c \in Sc : ~RunDeferredReady(c) /\ ~RunDeferredSweep(c)
    BY <1>1, <2>1
       DEF Call, Send, Abort, Close, AppTurn, Drain, DrainEmpty, DrainClient,
           DrainEngine, Deliverable, DrainTurn, Flush, FlushNote,
           DrainReturn, RouteEvent, ReleaseBatch, BeginStop, StopTransport,
           RunDeferredReady, RunDeferredSweep
  <2> QED
    BY <1>1, <2>2, <2>3 DEF Next, Stop
<1>2. CASE Running
  <2>1. ~StopClient /\ ~StopEngine /\ ~FreeTransport
    BY <1>2 DEF Running, StopClient, StopEngine, FreeTransport
  <2>2. ~StreamCallback /\ ~HandleTx /\ ~Closed
    BY <1>2 DEF StreamCallback, StreamData, StreamFin, StreamReleased,
                StreamSignal, HandleTx, HandleMark, HandleResetAgain,
                HandleResetHold, HandleResetNow, HandleStop, HandleCredit,
                HandleClose, DropStale, Closed, ApplicationClose,
                CloseCallback, DeleteCnx, Running
  <2>3. /\ ~Call /\ ~Drain /\ ~Flush /\ ~DrainReturn /\ ~RouteEvent
        /\ ~ReleaseBatch /\ ~BeginStop
        /\ \A c \in Sc : ~RunDeferredReady(c) /\ ~RunDeferredSweep(c)
        /\ \A c \in Sc : ~ReleaseChunk(c)
    BY <1>2
       DEF Call, Send, Abort, Close, Drain, DrainEmpty, DrainClient,
           DrainEngine, Flush, FlushNote, DrainReturn, RouteEvent,
           ReleaseBatch, BeginStop, RunDeferredReady, RunDeferredSweep,
           ReleaseChunk, Running
  <2>4. ~UNCHANGED vars
    BY <1>2 DEF vars, Running
  <2> QED
    BY <1>2, <2>1, <2>2, <2>3, <2>4 DEF Next, Stop
<1> QED
  BY <1>1, <1>2

\* What stop() and the release give back, somebody held; what remains covers
\* the holders that are left.
LEMMA FloorStep ==
    Typed /\ Loop /\ RunMatch /\ StopFloor /\ [Next]_vars => StopFloor'
<1> SUFFICES ASSUME Typed, Loop, RunMatch, StopFloor, [Next]_vars, ~Running',
                    NEW d \in Sc
             PROVE  (refs[d] >= Owed(d) + Bit(d \in owned))'
  BY DEF StopFloor, Floor
<1> USE DEF cnxVars, rxVars, loopVars, connVars, fixed
<1>1. CASE Running /\ StopTransport
  <2>1. refs[d] = Owed(d) + Bit(RefKept(d)) /\ (d \in owned => RefKept(d))
    BY <1>1 DEF RunMatch, Match, RefKept
  <2>2. batchRefs = NoRefs /\ retired = {}
    BY <1>1 DEF StopTransport, Loop
  <2>3. Count(rxQ', RxOwners, d) = Count(rxQ, RxOwners, d)
    <3>1. "CLOSE" \in RxKinds /\ "CLOSE" \notin RxOwners
      BY DEF RxKinds, RxOwners
    <3>2. CASE UNCHANGED rxQ
      BY <3>2
    <3>3. CASE rxQ' = Append(rxQ, Event("CLOSE", NoSc))
      BY <3>1, <3>3, RxPut, Numbers DEF Pushed, Hit, Event, Bit
    <3> QED
      BY <1>1, <3>2, <3>3 DEF StopTransport
  <2>4. Count(txQ', TxOwners, d) = 0
    BY <1>1, NoQueue DEF StopTransport
  <2>5. ReleaseBatchRefs(Sweep(refs, txQ, TxOwners))[d] =
            refs[d] - Count(txQ, TxOwners, d)
    BY <2>2, Numbers DEF ReleaseBatchRefs, Sweep, Count, NoRefs
  <2>6. refs'[d] - Bit(d \in held') =
            refs[d] - Count(txQ, TxOwners, d) - Bit(d \in held)
    BY <1>1, <2>5, Numbers DEF StopTransport, DropEach, Bit
  <2>7. refs'[d] \in Int
    BY <1>1, <2>5, Numbers DEF StopTransport, DropEach
  <2>8. /\ Owed(d)' \in Int
        /\ Owed(d)' - Bit(d \in held') =
               Owed(d) - Count(txQ, TxOwners, d) - Bit(d \in held)
    <3>1. UNCHANGED <<chunks, batchRefs, notes>>
      BY <1>1, <2>2 DEF StopTransport
    <3>2. /\ Bit(d \in held) \in Int /\ Bit(d \in held') \in Int
          /\ Bit(d \in notes) \in Int
      BY DEF Bit
    <3> QED
      BY <2>3, <2>4, <3>1, <3>2, Numbers DEF Owed
  <2>9. UNCHANGED owned
    BY <1>1 DEF StopTransport
  <2> QED
    BY <2>1, <2>6, <2>7, <2>8, <2>9, Numbers, OwedNumber DEF Bit
<1>2. CASE ~Running
  <2>1. refs[d] >= Owed(d) + Bit(d \in owned)
    BY <1>2 DEF StopFloor, Floor
  <2>2. ASSUME NEW c \in Sc, ReleaseChunk(c)
        PROVE  (refs[d] >= Owed(d) + Bit(d \in owned))'
    <3>1. /\ chunks' = Add(chunks, c, -1) /\ refs' = Add(refs, c, -1)
          /\ UNCHANGED <<rxQ, txQ, held, loopVars, connVars>>
      BY <2>2 DEF ReleaseChunk
    <3>2. Owed(d)' = Owed(d) - Bit(d = c)
      BY <3>1, Numbers DEF Owed, Bit, Add
    <3> QED
      BY <2>1, <3>1, <3>2, OwedNumber DEF Bit, Add
  <2>3. CASE StopClient
    <3>1. Owed(d)' = Owed(d)
      BY <2>3 DEF StopClient, Owed
    <3>2. refs' = DropEach(refs, owned) /\ owned' = {}
      BY <2>3 DEF StopClient, DestroyStreamCtxs
    <3> QED
      BY <2>1, <3>1, <3>2, OwedNumber DEF Bit, DropEach
  <2>4. CASE StopEngine \/ UNCHANGED vars
    BY <2>1, <2>4 DEF StopEngine, vars, Owed
  <2>5. CASE FreeTransport
    <3>1. Sweep(refs, rxQ, RxOwners)[d] = refs[d] - Count(rxQ, RxOwners, d)
      BY DEF Sweep, Count
    <3>2. refs'[d] = refs[d] - Count(rxQ, RxOwners, d) - Bit(d \in held)
      BY <2>5, <3>1, Numbers DEF FreeTransport, DropEach, Bit
    <3>3. Count(rxQ', RxOwners, d) = 0 /\ held' = {}
      BY <2>5, NoQueue DEF FreeTransport
    <3>4. Owed(d)' = Owed(d) - Count(rxQ, RxOwners, d) - Bit(d \in held)
      BY <2>5, <3>3, Numbers DEF FreeTransport, Owed, Bit
    <3>5. UNCHANGED owned
      BY <2>5 DEF FreeTransport
    <3> QED
      BY <2>1, <3>2, <3>4, <3>5, Numbers, OwedNumber DEF Bit
  <2> QED
    BY <1>2, <2>2, <2>3, <2>4, <2>5, StopSteps
<1> QED
  BY <1>1, <1>2, StopSteps

-----------------------------------------------------------------------------
(* The theorems.                                                           *)

\* Nothing is named, queued or counted when the connection starts.
LEMMA InitIInv == Init => IInv
<1> SUFFICES ASSUME Init PROVE IInv
  OBVIOUS
<1> USE DEF Init
<1>1. Typed
  <2>1. /\ refs \in [Sc -> Int] /\ batchRefs \in [Sc -> Nat]
        /\ chunks \in [Sc -> Nat]
    BY DEF NoRefs
  <2>2. made \in 0 .. MaxSc /\ left \in 0 .. MaxInputs
    BY BoundsAssumption
  <2>3. /\ rxQ \in Seq(Events) /\ batch \in Seq(Events)
        /\ txQ \in Seq(Commands) /\ Len(txQ) <= TxCap
    BY BoundsAssumption
  <2>4. blind \in BOOLEAN
    OBVIOUS
  <2> QED
    BY <2>1, <2>2, <2>3, <2>4 DEF Typed
<1>2. Names /\ Loop /\ Mapped
  BY BoundsAssumption, NoQueue DEF Names, Loop, Mapped, NoRefs, NoSc, Running
<1>3. Order /\ Retiring /\ Fetched
  BY NoQueue DEF Order, Retiring, Fetched, Over, Closing
<1>4. Adopted /\ Kept
  BY NoQueue DEF Adopted, Kept
<1>5. ASSUME NEW c \in Sc PROVE refs[c] = Owed(c) + Bit(RefKept(c))
  BY NoQueue DEF Owed, RefKept, Bit, NoRefs
<1> QED
  BY <1>1, <1>2, <1>3, <1>4, <1>5
     DEF IInv, RunOrder, RunRetiring, RunFetched, RunAdopted, RunKept,
         RunMatch, StopFloor, Match, Running

\* IInv, which ties the reference counts to the queues, to the loop and to
\* the order of a stream's events, holds in every reachable state.
THEOREM Invariance == Spec => []IInv
<1>1. IInv /\ [Next]_vars => IInv'
  BY TypedStep, NamesStep, LoopStep, MappedStep, OrderStep, RetiringStep,
     FetchedStep, AdoptedStep, KeptStep, MatchStep, FloorStep DEF IInv
<1> QED
  BY InitIInv, <1>1, PTL DEF Spec

\* Holders counts what Owed does.
LEMMA HoldersOwed ==
    ASSUME NEW c \in Sc
    PROVE  Holders(c) = Owed(c) /\ (StreamRefKept(c) <=> RefKept(c))
<1>1. ASSUME NEW S PROVE Cardinality({c} \cap S) = Bit(c \in S)
  <2>1. CASE c \in S
    <3>1. {c} \cap S = {c}
      BY <2>1
    <3> QED
      BY <2>1, <3>1, FS_Singleton DEF Bit
  <2>2. CASE c \notin S
    <3>1. {c} \cap S = {}
      BY <2>2
    <3> QED
      BY <2>2, <3>1, FS_EmptySet DEF Bit
  <2> QED
    BY <2>1, <2>2
<1>2. /\ Cardinality({c} \cap held) = Bit(c \in held)
      /\ Cardinality({c} \cap notes) = Bit(c \in notes)
  BY <1>1
<1> QED
  BY <1>2 DEF Holders, Owed, StreamRefKept, RefKept, Has, Count

\* No count is below the number of its holders.
LEMMA Covered ==
    ASSUME IInv, NEW c \in Sc
    PROVE  /\ refs[c] >= Owed(c) + Bit(c \in owned)
           /\ Running /\ RefKept(c) => refs[c] > 0
<1>1. Typed
  BY DEF IInv
<1>2. CASE Running
  <2>1. refs[c] = Owed(c) + Bit(RefKept(c))
    BY <1>2 DEF IInv, RunMatch, Match
  <2>2. c \in owned => RefKept(c)
    BY DEF RefKept
  <2> QED
    BY <1>1, <2>1, <2>2, OwedNumber DEF Bit
<1>3. CASE ~Running
  BY <1>3 DEF IInv, StopFloor, Floor
<1> QED
  BY <1>2, <1>3

\* Types, with the counts: aiopquic_stream_ctx_destroy never takes a count
\* below zero, so no context is freed twice.
THEOREM TypeCorrect == Spec => []TypeOK
<1>1. ASSUME IInv PROVE TypeOK
  <2>1. Typed /\ Names
    BY <1>1 DEF IInv
  <2>2. refs \in [Sc -> Nat]
    <3>1. ASSUME NEW c \in Sc PROVE refs[c] \in Nat
      <4>1. Owed(c) \in Nat /\ refs[c] \in Int
        BY <2>1, OwedNumber
      <4>2. refs[c] >= Owed(c) + Bit(c \in owned)
        BY <1>1, Covered
      <4> QED
        BY <4>1, <4>2 DEF Bit
    <3> QED
      BY <2>1, <3>1 DEF Typed
  <2>3. /\ \A c \in 1 .. made : c \in Sc
        /\ \A c \in 0 .. made : c \in Sc \cup {NoSc}
    BY <2>1, Zero
  <2>4. /\ att \in Sc \cup {NoSc} /\ map \in Sc \cup {NoSc}
        /\ notified \subseteq Sc /\ filled \subseteq Sc /\ held \subseteq Sc
        /\ notes \subseteq Sc /\ retired \subseteq Sc /\ owned \subseteq Sc
    BY <2>1, <2>3 DEF Names
  <2> QED
    BY <2>1, <2>2, <2>4 DEF Typed, TypeOK, Events, Commands
<1> QED
  BY Invariance, <1>1, PTL

\* While the transport runs, aiopquic_stream_ctx_ref and _destroy balance at
\* every site: the count is the number of holders, and the stream's own
\* reference has one who will drop it, whatever the order of callbacks,
\* commands, drains, resets and closes.
THEOREM CountIsHolders == Spec => []RefsMatchHolders
<1>1. ASSUME IInv PROVE RefsMatchHolders
  <2> SUFFICES ASSUME Running, NEW c \in 1 .. made
               PROVE  refs[c] = Holders(c)
                                + (IF StreamRefKept(c) THEN 1 ELSE 0)
    BY DEF RefsMatchHolders
  <2>1. c \in Sc
    BY <1>1, Zero DEF IInv
  <2> QED
    BY <1>1, <2>1, HoldersOwed DEF IInv, RunMatch, Match, Bit
<1> QED
  BY Invariance, <1>1, PTL

\* No context is freed under a holder, through stop() and the release of the
\* transport, nor under the pointers that picoquic, Python's map and a
\* queued STREAM_DESTROY borrow.
THEOREM NothingHeldIsFreed == Spec => []HeldStayLive
<1>1. ASSUME IInv PROVE HeldStayLive
  <2>1. Typed /\ Names /\ Loop /\ Mapped
    BY <1>1 DEF IInv
  <2>2. ASSUME ~Running, NEW c \in Sc PROVE refs[c] >= Holders(c)
    BY <1>1, <2>1, Covered, HoldersOwed, OwedNumber DEF Bit
  <2>3. ASSUME att # NoSc, ~Closing PROVE refs[att] > 0
    <3>1. Running
      BY <2>1, <2>3 DEF Loop, Closing
    <3>2. Order /\ Retiring /\ Kept
      BY <1>1, <3>1 DEF IInv, RunOrder, RunRetiring, RunKept
    <3>3. ~Over
      BY <2>3, <3>2 DEF Over, Retiring
    <3>4. att \in Sc
      BY <2>1, <2>3, Zero DEF Names
    <3> QED
      BY <1>1, <2>1, <3>1, <3>2, <3>3, <3>4, AttKept, Covered
  <2>4. ASSUME map # NoSc PROVE refs[map] > 0
    <3>1. map \in Sc /\ map \in owned
      BY <2>1, <2>4, Zero DEF Names, Mapped
    <3> QED
      BY <1>1, <2>1, <3>1, Covered, OwedNumber DEF Bit
  <2>5. ASSUME Running, NEW c \in Sc, Named(rxQ, {"DESTROY"}, c) # {}
        PROVE  refs[c] > 0
    <3>1. RefKept(c)
      BY <2>1, <2>5, KeptParts DEF Has
    <3> QED
      BY <1>1, <2>5, <3>1, Covered
  <2> QED
    BY <2>2, <2>3, <2>4, <2>5 DEF HeldStayLive, StopKeepsHeld, BorrowedLive
<1> QED
  BY Invariance, <1>1, PTL

=============================================================================
