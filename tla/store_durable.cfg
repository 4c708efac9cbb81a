\* All transactions over two days, one after the other; the index lost and rebuilt.
SPECIFICATION Spec
CONSTANTS
  ItemIds = {i1, i2}
  Refs = {r1, r2}
  MaxVersion = 2
  MaxDay = 1
  MaxStamp = 4
  MaxLines = 16
  Programs = {"register", "update", "escalate", "reevaluate", "rule", "fail", "retry"}
  SupersedeAny = FALSE
  Faults = {"loss"}
PROPERTIES
  DurableSpec
