\* One item read in parts beside both loops; lists walked and batches imported beside requests.
SPECIFICATION AllSpec
CONSTANTS
  Categories = {"food"}
  NoCategory = NoCategory
  Keywords = {}
  Depts = {"office", "kitchen"}
  ItemIds = {i1, i2, i3}
  r1 = r1
  r2 = r2
  r3 = r3
  Refs = {r1, r2, r3}
  Clients = {c1}
  Requests = {"register", "return", "resubmit", "rule"}
  Background = {"escalation", "reeval"}
  DeadlineTicks = 1
  ExtensionTicks = 1
  MaxLevel = 1
  MaxTime = 2
  MaxVersion = 2
  MaxReferrals = 2
  Subjects <- FoodSubject
  RuleBodies <- AllRules
  InitialRules <- DefaultOnly
  Importer = importer
  Batches <- BatchesDef
  Anything = Anything
  Filters = {"adjudicated", Anything}
  NewestFirst = {Anything}
  PageMax = 1
INVARIANTS
  DetailExplained
  WalkIsComplete
  ImportTellsTruth
CONSTRAINT Bounds
SYMMETRY Symmetry
