--------------------------- MODULE MCShardedStore ---------------------------
(* ShardedStore for model checking: ids and references are interchangeable. *)
EXTENDS ShardedStore, TLC

Symmetry == Permutations(ItemIds) \cup Permutations(Refs)
=============================================================================
