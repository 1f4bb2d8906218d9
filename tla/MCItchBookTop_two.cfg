SPECIFICATION SpecHarness
CONSTANTS
  MCIds = {5, 11}
  MCSides = {0, 1}
  MCAdds = {2}
  MCTakes = {1}
  OrderId <- MCIds
  Symbol = {"AAPL", "MSFT", "ZZZZ"}
  NoSymbol = NoSymbol
  NUM_SYMBOLS = 2
  SYMBOLS <- MCSYMBOLS
  DEPTH = 6
  MAX_PROBES = 2
  Hash <- MCHash
  Price = {1}
  MaxShares = 2
  ShareMod = 8
  CountMod = 2
  BookCountMod = 1
  N_LEVELS = 1
  PowerUp <- MCPowerUp
  ReuseIds = FALSE
  Feed <- MCFeed
  TableGap = 5
  SystemGap = 2
INVARIANTS NoMessageWhileBusy UpdatesMatchGolden NothingLost
