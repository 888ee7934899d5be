--------------------------- MODULE MCScLifetime ---------------------------
(* ScLifetime on small bounds; the constants are in the .cfg files.        *)
EXTENDS ScLifetime
=============================================================================
