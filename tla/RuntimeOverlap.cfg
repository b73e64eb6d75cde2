SPECIFICATION RuntimeSpec
CONSTANTS
  MaxEntries = 2
  Callers = {Boot, g}
  Boot = Boot
  Guarded = {1}
  ContextLost = {}
  Callbacks = {k1, k2}
INVARIANT AfterPhaseOfReadyRuntime
