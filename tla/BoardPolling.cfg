SPECIFICATION FairSpec
CONSTANTS
  n1 = n1  f1 = f1  f2 = f2  d1 = d1
  Nil = Nil
  Names <- OneName
  Refreshes <- TwoRefreshes
  Removes <- OneRemove
  MaxStamp = 4
  MaxFaults = 1
CHECK_DEADLOCK FALSE
INVARIANTS ShownIsKnown
PROPERTIES OlderOnlyByOverlap BoardCatchesUp
