\* Percentages from 20 to 150 by steps of 50; targets 0 to 300 before clamping.
SPECIFICATION FairSpec
CONSTANTS
  BasePercent = 100
  MinimumPercent = 20
  MaximumPercent = 150
  MaximumStepPercent = 50
  MinimumCheckoutOutcomes = 2
  NoTarget = NoTarget
  MaxOutcomes = 3
INVARIANTS
  PercentStaysInRange
PROPERTIES
  StepsApproachTheTarget
  PercentSettles
