\* Registrations and new rules race with the sweep and the worker.
SPECIFICATION FairSpec
CONSTANTS
  Categories = {"food"}
  NoCategory = NoCategory
  Keywords = {}
  Depts = {"office", "kitchen"}
  ItemIds = {i1}
  Refs = {r1}
  Clients = {c1, c2}
  Requests = {"register", "rule"}
  Background = {"escalation", "reeval"}
  DeadlineTicks = 1
  ExtensionTicks = 1
  MaxLevel = 1
  MaxTime = 2
  MaxVersion = 2
  MaxReferrals = 4
  Subjects <- TwoSubjects
  RuleBodies <- AllRules
  InitialRules <- DefaultOnly
INVARIANTS
  RoutingAgrees
PROPERTIES
  OverdueIsEscalated
  LateRuleApplied
