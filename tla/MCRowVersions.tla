--------------------------- MODULE MCRowVersions ---------------------------
EXTENDS RowVersions, TLC

Symmetric == Permutations(Txns)
=============================================================================
