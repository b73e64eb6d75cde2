SPECIFICATION RequestsSpec
CONSTANTS
  a = a
  b = b
  Requests = {a, b}
  Nobody = Nobody
  DefaultMode = "async"
  Chain <- MCChain
  Senders <- MCSenders
CHECK_DEADLOCK FALSE
INVARIANTS RequestsTypeOK ContextIsOwn StorageIsLive HandlerIsGuarded BodySurvives ErrorsEndAtRoot
