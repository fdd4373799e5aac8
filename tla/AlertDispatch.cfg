SPECIFICATION FairSpec
CONSTANTS
  Nil = Nil
  EventTypes <- SomeTypes
  Limits <- NoneOrTwo
  Window = 3
  Cap = 2
  MaxTime = 6
  MaxPerTick = 3
CHECK_DEADLOCK FALSE
INVARIANTS TypeOK RollingBound WindowCountIsExact
PROPERTIES BacklogDrains SuppressedOnlyWhenFull
