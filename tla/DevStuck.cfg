SPECIFICATION DevSpec
CONSTANTS
  Runs = {0, 1}
  Builds = {}
  Nobody = Nobody
  Files = {"schema"}
  ZeltDir = {}
  MaxChanges = 1
CHECK_DEADLOCK FALSE
PROPERTIES ShutdownEnds
