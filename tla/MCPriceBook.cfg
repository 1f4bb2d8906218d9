SPECIFICATION Spec
CONSTANTS
  N_LEVELS = 3
  Price = {1, 2, 3, 4}
  ShareMod = 3
  Quantity = {1, 2}
  CountMod = 2
  MaxDepth = 3
  NoEvent = NoEvent
INVARIANTS BookWellFormed
PROPERTY ImplementsContract
