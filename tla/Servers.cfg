SPECIFICATION ServersSpec
CONSTANTS
  MaxEntries = 2
  Callers = {Boot, g}
  Boot = Boot
  Guarded = {1}
  ContextLost = {}
  Callbacks = {k1, listen}
  Listen = listen
INVARIANTS ServersTypeOK ShutdownInOrder UsableWhileNeeded NoCallbackForgotten
PROPERTIES UsesManagerSerially ReturnsWhenAllRun RuntimeSettles
