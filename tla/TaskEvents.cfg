SPECIFICATION Spec
CONSTANTS
  c1 = c1  c2 = c2  own1 = own1  srv1 = srv1  srv2 = srv2  s1 = s1
  Nil = Nil
  RunIds <- ServerRun
  ClientIds <- NoClientIds
  Calls <- TwoCalls
  TTLs <- OneTTL
  Subs <- OneSub
  Word = 4
  Milli = 2
  Cap = 2
  Retain = 0
  MaxTime = 1
  MaxFaults = 1
CHECK_DEADLOCK FALSE
SYMMETRY Symmetry
CONSTRAINT CalmAfterFault
INVARIANTS TypeOK TerminalEventsAreFinal StartedComesFirst
