\* Logins and logouts over failing writes and restarts.
SPECIFICATION Spec
CONSTANTS
  Users = {u1, u2}
  Tokens = {t1, t2, t3}
  TTL = 2
  MaxTime = 3
INVARIANTS
  TypeOK
  LogoutHolds
  IssuedResolves
SYMMETRY Symmetry
