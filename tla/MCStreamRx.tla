---------------------------- MODULE MCStreamRx ----------------------------
(* StreamRx on small rings; the numbers are in the .cfg files.             *)
EXTENDS StreamRx

\* No fault, the faults that lose no bytes, and all of them.
MCEnvironments == {{}, {"txFull", "noNotice"}, Faults}

\* Only a TX event ring that may be full.
MCFullTxRing == {{"txFull"}}

MCFaultless == {{}}
=============================================================================
