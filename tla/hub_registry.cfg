\* Projects reserve, release and move compute, are assigned routes and are reviewed; or
\* routes, offers, scenes and communities of two tenants and countries are used.
SPECIFICATION Spec
CONSTANTS
  t1 = t1
  k1 = k1
  AppIds = {a1, a2}
  ClusterIds = {c1, c2}
  RouteIds = {r1, r2}
  OfferIds = {o1}
  SceneIds = {s1}
  CommunityIds = {m1}
  MemberIds = {p1, p2}
  Tenants = {t1, t2}
  Countries = {k1, k2}
  NoRoute = NoRoute
  GivenRoutes = {NoRoute, r1, r2}
  GivenOffers = {NoOffer, o1}
  GivenAmounts <- AmountsInUse
  GivenMembers <- MemberLists
  NoOffer = NoOffer
  Capacity = 2
  MaxTime = 2
  MaxAttempt = 2
INVARIANTS
  TypeOK
  ComputeLedger
  ApprovalsAudited
  ApprovedRouteServes
  RouteLedger
  
  SeatsLedger
CONSTRAINT Bounds
SYMMETRY Symmetry
CHECK_DEADLOCK FALSE
