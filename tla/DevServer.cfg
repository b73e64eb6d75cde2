SPECIFICATION DevSpec
CONSTANTS
  Runs = {0, 1, 2, 9}
  Builds = {9}
  Nobody = Nobody
  Files = {"schema"}
  ZeltDir = {}
  MaxChanges = 2
CHECK_DEADLOCK FALSE
INVARIANTS DevTypeOK NothingLeftBehind
PROPERTIES DevServerSettles
