SPECIFICATION ClientSpec
CONSTANTS
  HasPoll = FALSE
  HasOffer = TRUE
  Capacity = 2
  Controllers = {c1}
  Submitters = {s1}
  MaxGen = 2
  MaxItems = 3
  MaxErrors = 1
INVARIANTS
  TypeOK
  ExactlyOnceInOrder
  StopDrains
  NoOrphan
  OneThreadInSocket
PROPERTIES
  NeverClosedUnderUse
  CallsReturn
