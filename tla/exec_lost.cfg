SPECIFICATION Spec
CONSTANTS
  MaxScript = 1
  Scripts <- AllScripts
  Codes = {0}
  InputUnits = 0
  Window = 2
  SendWindow = 1
  Chunk = 1
CHECK_DEADLOCK FALSE
INVARIANTS
  ReadToCompletion
