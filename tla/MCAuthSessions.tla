-------------------------- MODULE MCAuthSessions ---------------------------
(* AuthSessions for model checking: users and tokens are interchangeable.  *)
EXTENDS AuthSessions, TLC

Symmetry == Permutations(Users) \cup Permutations(Tokens)
=============================================================================
