SPECIFICATION SharedSpec
CONSTANTS
  Keys = {k}
  Values = {1, 2}
  Ttls = {1, 2}
  MaxTime = 4
  MaxValue = 3
  Calls = {c1, c2, c3}
  OnceCalls = {c3}
  Channels = {a, b}
  MaxMessages = 1
  MaxLosses = 1
  Processes = {p1, p2, p3}
  NoOne = NoOne
CHECK_DEADLOCK FALSE
INVARIANTS TwinsTypeOK TwinsAgree BusTypeOK ResolvedHears RejectedLeavesNoTrace ManifestTypeOK OneAtWork NothingLost
PROPERTIES BothImplementStore OnSettles UpsertsEnd
