----------------------- MODULE MCSingleFileBlockManager -----------------------
EXTENDS SingleFileBlockManager, TLC

Symmetric == Permutations(Txns)
=============================================================================
