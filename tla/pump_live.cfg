SPECIFICATION FairSpec
CONSTANTS
  HasPoll = TRUE
  HasOffer = TRUE
  Capacity = 2
  Controllers = {c1}
  Submitters = {s1, s2}
  MaxGen = 1
  MaxItems = 3
  MaxErrors = 1
PROPERTIES
  StopEnds
  DeliversInOrder
