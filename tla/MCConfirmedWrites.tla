-------------------------- MODULE MCConfirmedWrites --------------------------
EXTENDS ConfirmedWrites, TLC

\* The switches, the levels and the rods take part in one path each.
CONSTANTS b1, b2
Symmetry == Permutations(Calls) \cup Permutations({b1, b2}) \cup Permutations(Levels)
=============================================================================
