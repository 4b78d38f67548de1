-------------------------- MODULE MCConnectionPool --------------------------
(* ConnectionPool with four callers on two connections: two can wait while  *)
(* two own a connection, which is when tokens coalesce.  The third identity *)
(* is there for a connection that would be created beyond the bound.        *)
EXTENDS ConnectionPool

CONSTANTS u1, u2, u3, u4, c1, c2, c3
=============================================================================
