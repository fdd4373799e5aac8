SPECIFICATION Spec
CONSTANTS
  c1 = c1  c2 = c2  own1 = own1  srv1 = srv1  srv2 = srv2  s1 = s1
  Nil = Nil
  RunIds <- ServerRun
  ClientIds <- NoClientIds
  Calls <- OneCall
  TTLs <- OneTTL
  Subs <- NoSubs
  Word = 4
  Milli = 2
  Cap = 1
  Retain = 0
  MaxTime = 2
  MaxFaults = 0
CHECK_DEADLOCK FALSE
PROPERTIES TimeoutOnlyIfSilent
