CONSTANTS
  ByteMod = 3
  SESSION_LEN = 2
  SEQ_LEN = 1
  CountMod = 2
  ItchByte = {0, 1, 2}
  Layout <- MCLayout
  Fields <- MCFields
  SIDE_AT = 1
  SymbolAt = {2}
  SIDE_BUY = 0
  ASCII = {0, 1}
  HDR_LEN = 1
  MAX_LEN = 4
  CNT_SAT = 5
  UnknownMod = 2
  MaxSince = 6
SPECIFICATION SpecFeed
INVARIANTS AlignedWithFramer DecodesLikeModel
PROPERTY SpacingHolds
