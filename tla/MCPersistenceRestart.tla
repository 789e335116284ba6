------------------------- MODULE MCPersistenceRestart -------------------------
EXTENDS Persistence, TLC
CONSTANTS x, y, one, two

Symmetry == Permutations(Keys)
=============================================================================
