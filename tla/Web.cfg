SPECIFICATION WebSpec
CONSTANTS
  Requests = {r1, r2, r3}
  Nobody = Nobody
  Counter = Counter
  Keys <- MCKeys
  Values = {1}
  Ttls = {1, 2}
  Limit = 1
  Window = 1
  SessionTtl = 2
  MaxTime = 2
CONSTRAINT OneFailure
VIEW WhatMatters
SYMMETRY RequestSymmetry
CHECK_DEADLOCK FALSE
INVARIANTS WebTypeOK SessionsKept LimitHolds
