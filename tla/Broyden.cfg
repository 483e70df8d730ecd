SPECIFICATION FairSpec
CONSTANTS
  NumMarkets = 2
  ItMax = 2
  MaxIter = 4
  MaxReuse = 2
  MaxPasses = 1
INVARIANTS TypeOK JacobianTrusted StateAtGuess SolutionLeft GivesUpOnNewJacobian
PROPERTY ComponentReturns
CHECK_DEADLOCK FALSE
