SPECIFICATION FairSpec
CONSTANTS
  c1 = c1  c2 = c2  own1 = own1  srv1 = srv1  srv2 = srv2  s1 = s1
  Nil = Nil
  RunIds <- BothRuns
  ClientIds <- ClientRun
  Calls <- TwoCalls
  TTLs <- SomeTTLs
  Subs <- NoSubs
  Word = 4
  Milli = 2
  Cap = 1
  Retain = 1
  MaxTime = 2
  MaxFaults = 1
CHECK_DEADLOCK FALSE
CONSTRAINT WithinSomeSize
INVARIANTS FinishedRowsAreStamped DurationsAgree ServerRunTimesOrdered
PROPERTIES ImplementsLifecycle PurgedOnlyWhenOld SilentOrOvertaken OverdueRunsSettle
