\* Two overlapping requests of every kind, the sweep and the worker.
SPECIFICATION Spec
CONSTANTS
  Categories = {"food"}
  NoCategory = NoCategory
  Keywords = {}
  Depts = {"office", "kitchen"}
  ItemIds = {i1, i2}
  Refs = {r1}
  Clients = {c1, c2}
  Requests = {"register", "start", "modify", "return", "resubmit", "cancel", "complete", "rule"}
  Background = {"escalation", "reeval"}
  DeadlineTicks = 1
  ExtensionTicks = 1
  MaxLevel = 1
  MaxTime = 2
  MaxVersion = 2
  MaxReferrals = 3
  Subjects <- FoodSubject
  RuleBodies <- AllRules
  InitialRules <- DefaultOnly
INVARIANTS
  TypeOK
  OneCurrentReferral
  RefsUnique
  RoutingWasReferred
  ReferralInForce
  ClosedStamped
  LevelBacked
  CopiesAgree
PROPERTIES
  RulesImmutable
SYMMETRY Symmetry
