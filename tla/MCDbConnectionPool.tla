------------------------- MODULE MCDbConnectionPool -------------------------
(* DbConnectionPool with a small ring.                                     *)
EXTENDS DbConnectionPool
=============================================================================
