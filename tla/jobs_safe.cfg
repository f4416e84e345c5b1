SPECIFICATION Spec
CONSTANTS
  Callers = {c1, c2}
  Keys = {k1}
  Codes = {3}
  MaxJobs = 2
  MaxUnits = 1
  Discipline = "careful"
SYMMETRY CallerSymmetry
CHECK_DEADLOCK FALSE
INVARIANTS
  TypeOK
  OwnOutput
PROPERTIES
  ImplementsLedger
