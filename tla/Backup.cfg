SPECIFICATION FairSpec
CONSTANTS
  Item <- BackupItem
  Activity <- BackupActivity
  Declaration <- BackupDeclaration
  Required <- BackupRequired
  LandAllocator = {}
  FixedOutput = {}
  Market = {"elec", "wind", "wind-trial", "GHG", "CO2"}
  NoMarket = "none"
  MarketOf <- BackupMarketOf
  Solved = {"wind-trial", "CO2"}
  Normal = {"elec", "wind"}
INVARIANTS GivesUpOnlyOnUnbreakable
PROPERTIES OrderingEnds
