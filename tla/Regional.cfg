SPECIFICATION Spec
CONSTANTS
  Item <- RegionalItem
  Activity <- RegionalActivity
  Declaration <- RegionalDeclaration
  Required <- RegionalRequired
  LandAllocator = {"land1"}
  FixedOutput = {}
  Market = {"corn", "uranium", "elec1", "CO2"}
  NoMarket = "none"
  MarketOf <- RegionalMarketOf
  Solved = {"corn", "CO2"}
  Normal = {"uranium", "elec1"}
INVARIANTS PriceChangeReachesDependents DeclaredDependenciesRespected
