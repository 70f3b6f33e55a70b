--------------------------- MODULE MCStorageLock ---------------------------
(* Model-checking instance of StorageLock. *)
EXTENDS StorageLock
=============================================================================
