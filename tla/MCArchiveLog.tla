---------------------------- MODULE MCArchiveLog -----------------------------
EXTENDS ArchiveLog, TLC

CONSTANTS a, b

MCIds == {a, b}
Symmetry == Permutations(MCIds)
=============================================================================
