SPECIFICATION Spec
CONSTANTS
  MCAddrBits = 2
  MCIds = {3, 12, 5}
  OrderId <- MCIds
  Symbol = {"AAPL", "ZZZZ"}
  NoSymbol = NoSymbol
  NUM_SYMBOLS = 3
  SYMBOLS <- MCSYMBOLS
  DEPTH = 4
  MAX_PROBES = 2
  Hash <- MCHash
  Price = {7}
  MaxShares = 2
  CountMod = 2
  PowerUp <- MCPowerUp
  ReuseIds = FALSE
  Nothing = Nothing
  MayOverflow = TRUE
INVARIANTS TypeOK Findable OccupancyExact
PROPERTIES NoFalseMiss LostOnlyWhenFull BusyBounded ImplementsDictionary
