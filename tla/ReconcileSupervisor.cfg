\* Two supervisors and two products, one of which always fails.
SPECIFICATION FairSpec
CONSTANTS
  Products = {p1, bad}
  NoProduct = NoProduct
  Poisoned = {bad}
  Supervisors = {s1, s2}
  BatchSize = 1
  MaxReconciledProducts = 2
  MaxLapses = 3
PROPERTIES
  UnfinishedWorkIsResumed
  HealthyProductsSettle
  SupervisorsRest
