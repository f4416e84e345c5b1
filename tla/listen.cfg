SPECIFICATION Spec
CONSTANTS
  Topics = {a, b}
  AnyTopic = any
  Invalid = invalid
  MaxMessages = 2
  MaxLosses = 1
  MaxRequests = 2
  Failing = {2}
  MaxMatched = 0
  MinReceived = 1
  MaxHookErrors = 1
  MaxCalls = 3
SYMMETRY TopicSymmetry
CHECK_DEADLOCK FALSE
INVARIANTS
  ListenTypeOK
  WaitsSubscribed
  NothingDropped
  ReturnsItsOwn
  AccountsForAll
