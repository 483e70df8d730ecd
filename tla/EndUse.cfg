SPECIFICATION Spec
CONSTANTS
  Item <- EndUseItem
  Activity <- EndUseActivity
  Declaration <- EndUseDeclaration
  Required <- EndUseRequired
  LandAllocator = {}
  FixedOutput = {}
  Market <- EndUseItem
  NoMarket = "none"
  MarketOf <- EndUseMarketOf
  Solved = {}
  Normal <- EndUseItem
INVARIANTS TrialPriceFirst
