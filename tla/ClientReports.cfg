SPECIFICATION FairSpec
CONSTANTS
  j1 = j1  j2 = j2
  Nil = Nil
  Jobs <- TwoJobs
CHECK_DEADLOCK FALSE
INVARIANTS TypeOK NoFalseSuccess FalseFailureIsRaised
PROPERTIES WorkExceptionSurfaces JobsEnd ImplementsLifecycle
