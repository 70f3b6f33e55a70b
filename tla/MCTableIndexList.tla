-------------------------- MODULE MCTableIndexList --------------------------
(* Small instances of TableIndexList for TLC. *)
EXTENDS TableIndexList, TLC

Symmetric == Permutations(Txns)

\* An empty table, or one with a row.
EmptyOrOneRow == {<<>>, <<CHOOSE k \in Keys : TRUE>>}
=============================================================================
