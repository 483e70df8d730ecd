SPECIFICATION Spec
CONSTANTS
  Item <- CycleItem
  Activity <- CycleActivity
  Declaration <- CycleDeclaration
  LandAllocator = {}
  FixedOutput = {}
  Market <- CycleItem
  NoMarket = "none"
  MarketOf <- CycleMarketOf
  Solved = {}
  Normal <- CycleItem
  Required = {}
INVARIANTS TypeOK ClearedOnce DependenciesFirst TrialsSucceed
PROPERTIES TrialsOnlyOnCycles
