------------------------ MODULE MCCheckpointRecovery ------------------------
EXTENDS CheckpointRecovery, TLC
=============================================================================
