\* A transaction fails after its first append.
SPECIFICATION Spec
CONSTANTS
  ItemIds = {i1, i2}
  Refs = {r1, r2}
  MaxVersion = 2
  MaxDay = 1
  MaxStamp = 3
  MaxLines = 10
  Programs = {"register", "update"}
  SupersedeAny = FALSE
  Faults = {"abort"}
INVARIANTS
  NoHalfRecords
SYMMETRY Symmetry
