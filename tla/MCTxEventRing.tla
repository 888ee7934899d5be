--------------------------- MODULE MCTxEventRing ---------------------------
(* TxEventRing on small rings; the constants are in the .cfg files.        *)
EXTENDS TxEventRing
=============================================================================
