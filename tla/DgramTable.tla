---------------------------- MODULE DgramTable ----------------------------
(***************************************************************************)
(* The worker's cnx -> ring table (aiopquic_dgram_table_t): open           *)
(* addressing with linear probing and tombstones, rehashed into twice the  *)
(* slots near 70% load.  Only the worker uses it, so these are functions   *)
(* of a table.  A table is the sequence of its slots; live and used, which *)
(* the code counts as it goes, are counted here.                           *)
(***************************************************************************)
EXTENDS Integers, Sequences, FiniteSets, FiniteSetsExt

CONSTANTS
    Addr,        \* addresses of picoquic connections
    Hash(_),     \* aiopquic_dgram_hash_ptr, before it is masked
    InitCap      \* slots of the first table (64)

Null == 0
Tomb == 1     \* AIOPQUIC_DGRAM_SLOT_TOMBSTONE, which no connection lies at

ASSUME TableAssumption ==
    /\ Addr \subseteq Nat \ {Null, Tomb} /\ Addr # {} /\ IsFiniteSet(Addr)
    /\ \A c \in Addr : Hash(c) \in Nat
    /\ InitCap \in Nat /\ InitCap >= 2

NoRing == 0

EmptySlot == [cnx |-> Null, db |-> NoRing]
EmptyTable(cap) == [i \in 1 .. cap |-> EmptySlot]
Slot(Ring) == [cnx : Addr \cup {Null, Tomb}, db : Ring \cup {NoRing}]

Cap(t) == Len(t)
Used(t) == Cardinality({i \in DOMAIN t : t[i].cnx # Null})

\* The slot the k-th probe for connection c looks at.
ProbeAt(t, c, k) == ((Hash(c) + k) % Cap(t)) + 1

\* How many slots a walk for c passes before it stops at c's own or at an
\* empty one.  (With neither the code would walk for ever.)
Stops(t, c) == {k \in 0 .. Cap(t) - 1 : t[ProbeAt(t, c, k)].cnx \in {c, Null}}
Walk(t, c) == Min(Stops(t, c))
EndOfWalk(t, c) == ProbeAt(t, c, Walk(t, c))

\* aiopquic_dgram_table_grow: one slot after the other is placed in the new
\* table, if it is in use and no tombstone.
Place(u, slot) ==
    IF slot.cnx \in {Null, Tomb} THEN u
    ELSE [u EXCEPT ![EndOfWalk(u, slot.cnx)] = slot]
Rehash(t, cap) ==
    LET placed[i \in 0 .. Cap(t)] ==
            IF i = 0 THEN EmptyTable(cap) ELSE Place(placed[i - 1], t[i])
    IN  placed
Grow(t) == Rehash(t, IF Cap(t) = 0 THEN InitCap ELSE 2 * Cap(t))[Cap(t)]

MustGrow(t) == Cap(t) = 0 \/ (Used(t) + 1) * 10 >= Cap(t) * 7

\* The slot a new entry for c takes: the first tombstone of the walk, or the
\* empty slot that ended it.
Vacant(t, c) ==
    LET tombs == {k \in 0 .. Walk(t, c) : t[ProbeAt(t, c, k)].cnx = Tomb}
    IN  ProbeAt(t, c, IF tombs = {} THEN Walk(t, c) ELSE Min(tombs))

\* Mutant: the key is not compared.
TableGetUnprobed(t, c) == IF Cap(t) = 0 THEN NoRing ELSE t[ProbeAt(t, c, 0)].db

TableGet(t, c) == IF Cap(t) = 0 THEN NoRing ELSE t[EndOfWalk(t, c)].db

Ready(t) == IF MustGrow(t) THEN Grow(t) ELSE t
IsIn(t, c) == Cap(t) # 0 /\ t[EndOfWalk(t, c)].cnx = c

\* The rest of a put, into a table that is Ready; it takes a reference on db
\* unless c is in it.
TablePut(t, c, db) ==
    IF IsIn(t, c) THEN t
    ELSE [t EXCEPT ![Vacant(t, c)] = [cnx |-> c, db |-> db]]

\* The ring whose entry aiopquic_dgram_table_remove_ring gives up, if any;
\* with NoRing for db it is aiopquic_dgram_table_remove.
Removed(t, c, db) ==
    IF IsIn(t, c) /\ db \in {NoRing, TableGet(t, c)} THEN TableGet(t, c)
    ELSE NoRing

\* Mutant: the slot is emptied.
TableEmptySlot(t, c, db) ==
    IF Removed(t, c, db) = NoRing THEN t
    ELSE [t EXCEPT ![EndOfWalk(t, c)] = EmptySlot]

TableRemove(t, c, db) ==
    IF Removed(t, c, db) = NoRing THEN t
    ELSE [t EXCEPT ![EndOfWalk(t, c)] = [cnx |-> Tomb, db |-> NoRing]]

\* The entries that hold a ring.
TableRefs(t, r) == Cardinality({i \in DOMAIN t : t[i].db = r})
=============================================================================
