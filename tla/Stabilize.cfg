SPECIFICATION FairSpec
CONSTANTS
  MaxPer = 6
  Step = 2
  SwitchYear = 1
  HectorEnd = 12
  FailYears = {4, 7}
  FirstTaxYear = 4
  TargetYear <- Flag
  MaxTargetYear <- Flag
  NumForwardLooking <- SkipSome
  NumBackwardsLook = 2
  MaxIterations = 3
  WordSize = 16
INVARIANTS TargetRunnerTypeOK ResultsMatchTaxes TaxedPeriodsSolved ClimateMatchesResults
PROPERTIES PredecessorsCurrent StatusTrusted SearchEnds
CHECK_DEADLOCK FALSE
