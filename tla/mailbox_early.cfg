SPECIFICATION Spec
CONSTANTS
  MaxTokens = 2
  MaxMessages = 2
INVARIANTS
  EarlyPublishesReachAll
