----------------------- MODULE MCConnectionPoolFactory -----------------------
(* Three callers and two servers; five pools, for two may be in the map    *)
(* while each caller holds another.                                        *)
EXTENDS ConnectionPoolFactory, TLC

CONSTANTS c1, c2, c3, s1, s2, p1, p2, p3, p4, p5

Symmetry == Permutations(Callers) \union Permutations(Servers) \union Permutations(Pools)
=============================================================================
