SPECIFICATION FairSpec
CONSTANTS
  n1 = n1  n2 = n2  c1 = c1
  Nil = Nil
  Empty = Empty
  Garbage = Garbage
  Names <- TwoNames
  Calls <- OneCall
  Expectations <- AllModes
  ZeroTime <- LongAgo
  Word = 4
  MaxTime = 3
  MaxFaults = 1
CHECK_DEADLOCK FALSE
CONSTRAINT WithinSomeSize
INVARIANTS TypeOK
PROPERTIES ImplementsLifecycle OverdueIsFlagged MissedOnlyWhenDue
