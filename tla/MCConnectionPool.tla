--------------------------- MODULE MCConnectionPool ---------------------------
(***************************************************************************)
(* Small pools: the scheduler, requests that may be refused and, where the *)
(* pool is the larger, one that may not.                                   *)
(***************************************************************************)
EXTENDS ConnectionPool

=============================================================================
