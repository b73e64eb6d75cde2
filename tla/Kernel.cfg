SPECIFICATION KernelSpec
CONSTANTS
  MaxEntries = 3
  Callers = {c1, c2}
  Guarded = {2}
  ContextLost = {2, 3}
  Tasks = {t1, t2}
  Requests = {r1, r2}
CHECK_DEADLOCK FALSE
INVARIANTS TypeOK HooksInTurn TeardownInOrder NothingLeftRunning TaskTypeOK StoppedMeansIdle WindowCoversTasks
PROPERTIES CallersAnswered ImplementsFairStack TasksSettle
