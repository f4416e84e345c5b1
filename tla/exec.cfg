SPECIFICATION Spec
CONSTANTS
  MaxScript = 4
  Scripts <- AllScripts
  Codes = {3}
  InputUnits = 2
  Window = 2
  SendWindow = 1
  Chunk = 1
CHECK_DEADLOCK FALSE
INVARIANTS
  TypeOK
  CodeIsTheCommands
  LosesOnlyWhatArrivesLate
  NothingLostOnTheWay
PROPERTIES
  ExecCompletes
  ExecComesBack
