---------------------------- MODULE MCDatagrams ----------------------------
(* Datagrams on small bounds; the other constants are in the .cfg files.   *)
EXTENDS Datagrams

\* Two addresses that collide in every table.
MCAddr == {2, 3}
MCHash(c) == 3

Plan(c, s, o, d, e, k, r, f) ==
    [cnx |-> c, sends |-> s, cmds |-> o, dgrams |-> d, ends |-> e,
     closes |-> k, resets |-> r, fails |-> f]

\* One connection whose ring fills, in time or for want of memory; two, at
\* one address or at two; a reset, and a datagram behind a close.
MCPlans == {Plan(1, 3, 1, 0, 1, 0, 0, 0), Plan(1, 3, 0, 0, 1, 1, 0, 1),
            Plan(2, 2, 0, 0, 0, 0, 0, 0), Plan(1, 2, 0, 0, 1, 2, 0, 0),
            Plan(2, 1, 0, 0, 1, 0, 1, 0), Plan(1, 1, 0, 1, 1, 2, 0, 0)}

\* One connection, and commands that fill the TX ring.
FullRingPlans == {Plan(1, 3, 2, 0, 1, 0, 0, 0)}
=============================================================================
