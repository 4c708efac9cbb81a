\* An overdue returned item ahead of an overdue one.
SPECIFICATION FairSpec
CONSTANTS
  Categories = {"food"}
  NoCategory = NoCategory
  Keywords = {}
  Depts = {"office", "kitchen"}
  ItemIds = {i1, i2}
  Refs = {r1, r2}
  Clients = {c1}
  Requests = {"register", "return"}
  Background = {"escalation"}
  DeadlineTicks = 1
  ExtensionTicks = 1
  MaxLevel = 1
  MaxTime = 3
  MaxVersion = 1
  MaxReferrals = 3
  Subjects <- FoodSubject
  RuleBodies <- AllRules
  InitialRules <- DefaultOnly
PROPERTIES
  OverdueIsEscalated
