SPECIFICATION FairSpec
CONSTANTS
  NumThreads = 2
  NumMarkets = 3
  NumActivities = 5
  ReadsPrice <- MCReadsPrice
  Input <- MCInput
  AddsTo <- MCAddsTo
  Silent <- MCSilent
  Result <- MCResult
  Prices = {1, 2}
  MaxCalls = 2
INVARIANTS TypeOK BaseIsFullCalculation ColumnsExact NoSharedSlots SlotsSuffice
PROPERTY EvaluationsReturn
