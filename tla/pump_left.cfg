SPECIFICATION Spec
CONSTANTS
  HasPoll = FALSE
  HasOffer = TRUE
  Capacity = 1
  Controllers = {c1}
  Submitters = {s1}
  MaxGen = 1
  MaxItems = 1
  MaxErrors = 0
INVARIANTS
  NothingLeftBehind
