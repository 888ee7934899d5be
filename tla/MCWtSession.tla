---------------------------- MODULE MCWtSession ----------------------------
(* One session in scenarios of a few events each; the codes span three runs *)
(* of the reserved pattern.                                                 *)
EXTENDS WtSession, TLC

MCStreams == {1, 2}

Nothing == [auto |-> 0, creates |-> 0, cancels |-> 0, ops |-> 0, peers |-> 0,
            data |-> 0, frees |-> 0, ends |-> 0, drops |-> 0, refusals |-> 0,
            fails |-> 0, early |-> 0]
Client == [role |-> "client"] @@ Nothing
Server == [role |-> "server"] @@ Nothing

\* Ends and losses of CONNECT and of the connection; a peer's stream; our own
\* streams, cancelled; the AUTO retry; a session detached early; and, without
\* memory, each of these again.
MCPlans == {
    [Client EXCEPT !.ends = 1, !.drops = 1],
    [Client EXCEPT !.drops = 1, !.fails = 1],
    [Client EXCEPT !.peers = 1, !.data = 1],
    [Client EXCEPT !.creates = 1, !.drops = 1],
    [Client EXCEPT !.creates = 2, !.cancels = 1],
    [Client EXCEPT !.creates = 1, !.fails = 1],
    [Client EXCEPT !.auto = 1, !.refusals = 1, !.ends = 1],
    [Client EXCEPT !.auto = 1, !.refusals = 1, !.fails = 1],
    [Client EXCEPT !.auto = 1, !.ends = 1, !.fails = 1],
    [Client EXCEPT !.early = 1, !.peers = 1, !.data = 1],
    [Server EXCEPT !.ops = 1],
    [Server EXCEPT !.ends = 1, !.drops = 1, !.creates = 1],
    [Server EXCEPT !.creates = 1, !.cancels = 1, !.frees = 1, !.fails = 1],
    [Server EXCEPT !.peers = 1, !.data = 2, !.frees = 1, !.ends = 1],
    [Server EXCEPT !.peers = 1, !.data = 2, !.fails = 1],
    [Server EXCEPT !.drops = 1, !.creates = 1, !.fails = 1],
    [Server EXCEPT !.early = 1, !.ends = 1, !.peers = 1, !.data = 1]}

\* A session that is only opened, closed and dropped, and one that fills the
\* TX ring with resets.
NeverOpened == {Client}
FullRing == {[Server EXCEPT !.ops = 1]}
============================================================================
