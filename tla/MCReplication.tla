---------------------------- MODULE MCReplication ----------------------------
EXTENDS Replication, TLC
CONSTANTS s1, s2, c1, c2

Symmetry == Permutations(Sessions) \union Permutations(Conns)
=============================================================================
