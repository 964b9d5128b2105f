SPECIFICATION FairSpec
CONSTANTS
  Taxonomy <- ShippedTaxonomy
  ByReason <- ShippedReasons
  ByCode <- ShippedCodes
  Contexts <- AllContexts
  DayOffsets = {3}
  NoAction = NoAction
INVARIANTS
  TypeOK
  RepairedNotOverruled
  PlanIsLegal
  SalaryPlanHitsFunds
PROPERTIES
  ImplementsDeliberation
  AlwaysDecides
CHECK_DEADLOCK FALSE
