CONSTANTS
  Torn = Torn
  NoReport = NoReport
  limit = 3
  msgs_per_packet = 2
  start_seq = 1
  EndCount = 15
  Reports = {1, 2}
  Floors = {0, 2}
  MaxFaults = 2
SPECIFICATION Spec
INVARIANT MatchedBeforeFirst
CHECK_DEADLOCK FALSE
