SPECIFICATION Spec
CONSTANTS
  Callers = {c1, c2}
  Keys = {k1}
  Codes = {0}
  MaxJobs = 1
  MaxUnits = 2
  Discipline = "any"
CHECK_DEADLOCK FALSE
PROPERTIES
  ReaderEnds
  JobsSettle
  CallsComeBack
