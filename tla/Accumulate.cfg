SPECIFICATION Spec
CONSTANTS
  MaxPer = 4
  Step = 1
  SwitchYear = 3
  HectorEnd = 3
  FailYears = {}
  Exogenous <- Growing
  RequireCPrice = TRUE
  StartInput <- Unset
  FinalCalibration = 0
  MinPrice = 1
  Curve <- TwoPrices
  MaxDemand = 9
  FractionInputs <- SomeFractions
  Leftovers <- Garbage
  Capacities = {0, 3}
  MaxRuns = 1
INVARIANTS TypeOK DemandConserved NothingBorrowed AsDocumented
CHECK_DEADLOCK FALSE
