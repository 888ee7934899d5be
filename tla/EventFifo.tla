----------------------------- MODULE EventFifo -----------------------------
(***************************************************************************)
(* What an event queue between the two threads promises: events are taken  *)
(* in the order they were put, once each, and none stays behind for ever.  *)
(* There is no bound, no wake and no loss at this level.                   *)
(***************************************************************************)
EXTENDS Naturals, Sequences

VARIABLES
    queue,     \* serial numbers of the events put and not yet taken
    received   \* serial numbers of the events taken, in order

fifoVars == <<queue, received>>

Init == queue = << >> /\ received = << >>

\* Serial numbers are given in the order of the puts.
Put ==
    /\ queue' = Append(queue, Len(received) + Len(queue))
    /\ UNCHANGED received

Take ==
    /\ queue # << >>
    /\ received' = Append(received, Head(queue))
    /\ queue' = Tail(queue)

Next == Put \/ Take

\* Putting is the environment's choice; taking is owed.
Spec == Init /\ [][Next]_fifoVars /\ WF_fifoVars(Take)
=============================================================================
