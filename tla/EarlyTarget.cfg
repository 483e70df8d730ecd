SPECIFICATION FairSpec
CONSTANTS
  MaxPer = 6
  Step = 2
  SwitchYear = 1
  HectorEnd = 12
  FailYears = {}
  FirstTaxYear = 2
  TargetYear = 4
  MaxTargetYear <- Flag
  NumForwardLooking <- NoSkip
  NumBackwardsLook = 4
  MaxIterations = 3
  WordSize = 16
INVARIANTS WalkAfterFirstTax
CHECK_DEADLOCK FALSE
