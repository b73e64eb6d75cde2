SPECIFICATION BusSpec
CONSTANTS
  Calls = {c1, c2, c3}
  OnceCalls = {c3}
  Channels = {a, b}
  MaxMessages = 1
  MaxLosses = 1
CHECK_DEADLOCK FALSE
INVARIANT WaitingMissesNothing
