\* A complete request against a cancel request that read first.
SPECIFICATION Spec
CONSTANTS
  Categories = {"food"}
  NoCategory = NoCategory
  Keywords = {}
  Depts = {"office", "kitchen"}
  ItemIds = {i1}
  Refs = {r1}
  Clients = {c1, c2}
  Requests = {"register", "start", "complete", "cancel"}
  Background = {}
  DeadlineTicks = 1
  ExtensionTicks = 1
  MaxLevel = 1
  MaxTime = 2
  MaxVersion = 1
  MaxReferrals = 3
  Subjects <- FoodSubject
  RuleBodies <- AllRules
  InitialRules <- DefaultOnly
PROPERTIES
  ClosedStaysClosed
