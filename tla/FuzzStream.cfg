SPECIFICATION Spec
CONSTANTS
  ByteMod = 3
  SESSION_LEN = 1
  SEQ_LEN = 2
  CountMod = 16
  ORDER_LEN = 3
  SYSTEM_LEN = 2
  Effect = {0, 2}
  MAX_BOGUS_LEN = 4
  MinLatency = 2
  MaxLatency = 4
  msgs_per_packet = 2
  watchdog_limit = 10
  MaxDirty = 5
  MaxTail = 2
INVARIANTS InStepAtTail GapAtTail PassIsDeserved
CHECK_DEADLOCK FALSE
