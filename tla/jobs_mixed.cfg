SPECIFICATION Spec
CONSTANTS
  Callers = {c1}
  Keys = {k1}
  Codes = {0}
  MaxJobs = 2
  MaxUnits = 1
  Discipline = "paired"
CHECK_DEADLOCK FALSE
INVARIANTS
  OnlyItsOwnOutput
