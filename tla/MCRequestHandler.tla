--------------------------- MODULE MCRequestHandler ---------------------------
(* Two workers and two requests of either kind.  Workers and requests are    *)
(* interchangeable; objects are not, since a new object is chosen.          *)
EXTENDS RequestHandler, TLC

CONSTANTS w1, w2, r1, r2

Symmetric == Permutations({w1, w2}) \union Permutations({r1, r2})
=============================================================================
