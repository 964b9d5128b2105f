SPECIFICATION Spec
CONSTANTS
  r1 = r1
  r2 = r2
  old = old
  Requests = {r1, r2}
  OldRun = old
  Knob = "sms_dlt"
  Default = 2
  FormOverrides <- PanelOverrides
  Low = 0
  High = 500
  MaxIter = 2
  Tolerance = 5
  Costs <- Values
  Net <- NetAt
  MaxFaults = 1
  SomeCases <- CasesOf
  SomeBatches <- Batches
  BatchOf <- BatchOfRun
  Rates <- ShippedRates
  SmsPrices <- MidValues
  Taxonomy <- ShippedTaxonomy
  ByReason <- ShippedReasons
  ByCode <- ShippedCodes
INVARIANTS
  TypeOK
  OverridesAreOwned
  ScoredWithItsOwnCosts
  BreakEvenIsTrue
  AnsweredRunsAreFound
PROPERTIES
  PricedIsPlayed
  OursSparesThePayer
  BreakdownsAddUp
  OursRefusedNoMoreOften
  DearerMessagesFavourOurs
CHECK_DEADLOCK FALSE
