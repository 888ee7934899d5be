---------------------------- MODULE MCStreamTx ----------------------------
(* StreamTx on small rings; the constants are in the .cfg files.           *)
EXTENDS StreamTx
=============================================================================
