-------------------------- MODULE MCServerProcess --------------------------
(* ServerProcess for model checking: requests are interchangeable.         *)
EXTENDS ServerProcess, TLC

Symmetry == Permutations(Requests)
=============================================================================
