CONSTANTS
  ByteMod = 2
  SESSION_LEN = 1
  SEQ_LEN = 3
  CountMod = 8
  Length = {0, 1, 2}
  msgs_per_packet = 2
  start_seq = 1
  MaxMessages = 5
  MaxInFlight = 2
  MaxFaults = 2
  NoSeq = NoSeq
SPECIFICATION Spec
INVARIANTS InStep NoSilentLoss NoFalseAlarm
PROPERTY ImplementsStream
