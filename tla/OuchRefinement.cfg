SPECIFICATION FairSpec
CONSTANTS
  Order = {buy, sell}
  NoOrder = NoOrder
  FIFO_DEPTH = 4
  FRAME_LEN = 3
  TokenMod = 4
  CountMod = 2
  Nothing = Nothing
INVARIANT RingConsistent
PROPERTIES ImplementsQueue EveryOrderSent
