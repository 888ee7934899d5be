-------------------------- MODULE MCRxEventQueue --------------------------
(* RxEventQueue on small rings; the constants are in the .cfg files.       *)
EXTENDS RxEventQueue
=============================================================================
