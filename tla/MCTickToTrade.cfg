SPECIFICATION TopSpec
CONSTANTS
  NUM_SYMBOLS = 1
  N_LEVELS = 1
  THRESH_LOG2 = 2
  COOLDOWN_UPDATES = 0
  ORDER_SHARES = 2
  MAX_POSITION = 3
  MIN_ORDER_SPACING = 0
  COLLAR_SHIFT = 2
  CountMod = 4
  Updates <- MCUpdates
  None = None
  MaxSinceAccept = 2
  FIFO_DEPTH = 2
  FRAME_LEN = 5
  TokenMod = 2
  MaxDrops = 1
INVARIANTS OrderOnTime PositionsAccounted ExposureBounded
