---------------------------- MODULE MCStreamGroups ----------------------------
EXTENDS StreamGroups, TLC

ConsumerSymmetry == Permutations(Consumers)
=============================================================================
