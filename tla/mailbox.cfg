SPECIFICATION FairSpec
CONSTANTS
  MaxTokens = 3
  MaxMessages = 4
PROPERTIES
  ImplementsLog
  HearsAll
