SPECIFICATION Spec
CONSTANTS
  Item <- PassItem
  Activity <- PassActivity
  Declaration <- PassDeclaration
  Required <- PassRequired
  LandAllocator = {}
  FixedOutput = {"crop-fixed-output"}
  Market = {"crop", "feed", "trn", "crop-fixed-output"}
  NoMarket = "none"
  MarketOf <- PassMarketOf
  Solved = {}
  Normal = {"crop", "feed", "trn"}
INVARIANTS FixedOutputBeforeDemand CountsExact
PROPERTIES ImplementsCalcOrdering
