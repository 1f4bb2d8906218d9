SPECIFICATION Spec
CONSTANTS
  NUM_SYMBOLS = 2
  N_LEVELS = 2
  THRESH_LOG2 = 2
  COOLDOWN_UPDATES = 2
  ORDER_SHARES = 2
  MAX_POSITION = 3
  MIN_ORDER_SPACING = 2
  COLLAR_SHIFT = 2
  CountMod = 2
  Updates <- MCUpdates
  None = None
  MaxSinceAccept = 5
INVARIANTS StrategyAgrees GateAgrees OrdersMatchGolden
