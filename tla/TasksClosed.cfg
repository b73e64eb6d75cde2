SPECIFICATION ShutdownSpec
CONSTANTS
  Tasks = {t1, t2}
  Requests = {r1}
CHECK_DEADLOCK FALSE
INVARIANT ClosedOnceStopped
