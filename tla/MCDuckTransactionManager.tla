---------------------- MODULE MCDuckTransactionManager ----------------------
(* Model-checking instances of DuckTransactionManager. *)
EXTENDS DuckTransactionManager, TLC

Symmetry == Permutations(Txns) \cup Permutations(Checkpointers)
=============================================================================
