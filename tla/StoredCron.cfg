SPECIFICATION Spec
CONSTANTS
  n1 = n1  n2 = n2  c1 = c1
  Nil = Nil
  Empty = Empty
  Garbage = Garbage
  Names <- OneName
  Calls <- OneCall
  Expectations <- AnyRequest
  ZeroTime <- LongAgo
  Word = 4
  MaxTime = 1
  MaxFaults = 0
CHECK_DEADLOCK FALSE
INVARIANTS StoredCronParses
