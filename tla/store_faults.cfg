\* Aborted and torn appends, full files, overlapping requests, rebuilds beside the server.
SPECIFICATION Spec
CONSTANTS
  ItemIds = {i1, i2}
  Refs = {r1}
  MaxVersion = 1
  MaxDay = 1
  MaxStamp = 3
  MaxLines = 2
  Programs = {"register", "update", "escalate", "rule"}
  SupersedeAny = TRUE
  Faults = {"abort", "torn", "race", "loss", "online"}
INVARIANTS
  TypeOK
  WrittenAhead
  ReplayNotOlder
  ManifestNotAhead
SYMMETRY Symmetry
