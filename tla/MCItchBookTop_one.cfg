SPECIFICATION SpecHarness
CONSTANTS
  MCIds = {1, 4, 3}
  MCSides = {1}
  MCAdds = {2}
  MCTakes = {1, 2}
  OrderId <- MCIds
  Symbol = {"AAPL"}
  NoSymbol = NoSymbol
  NUM_SYMBOLS = 1
  SYMBOLS <- MCSYMBOLS
  DEPTH = 3
  MAX_PROBES = 2
  Hash <- MCHash
  Price = {1, 2}
  MaxShares = 2
  ShareMod = 8
  CountMod = 2
  BookCountMod = 1
  N_LEVELS = 1
  PowerUp <- MCPowerUp
  ReuseIds = FALSE
  Feed <- MCFeed
  TableGap = 7
  SystemGap = 5
INVARIANTS UpdatesMatchGolden NoPhantomLiquidity
PROPERTY OrdinalIsRight
