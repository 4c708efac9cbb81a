\* Two callers activate, amend and renew licences, complete inspections, publish
\* catalogues, launch campaigns and pass a recall on.
SPECIFICATION Spec
CONSTANTS
  Clients = {c1, c2}
  LicenseIds = {l1}
  InspectionIds = {i1}
  s1 = s1
  s2 = s2
  here = here
  there = there
  sku1 = sku1
  sku2 = sku2
  StoreIds = {s1, s2}
  Cities = {here, there}
  Skus = {sku1, sku2}
  Terms <- TermsDef
  Profiles <- ProfilesDef
  Reports <- ReportsDef
  ListingLists <- ListingListsDef
  PassScore = 80
  Extensions = {0, 1, 2}
  MaxExtension = 2
  Window = 1
  MaxTime = 3
  MaxVersion = 4
INVARIANTS
  TypeOK
  RenewedWithinWindow
  CompletionsInLine
  FeaturedIsChecked
  ClosedRecallIsCovered
PROPERTIES
  BookSpec
CONSTRAINT OneAreaInUse
SYMMETRY Symmetry
CHECK_DEADLOCK FALSE
