SPECIFICATION FairServerSpec
CONSTANTS
  r1 = r1  sweep = sweep  clean = clean  l1 = l1  alerts = alerts
  Unset = Unset  Garbage = Garbage
  Nil = Nil
  Publishers <- OneOfEach
  Listeners <- BothListeners
  Requests <- OneRequest
  Passes <- OnePass
  Streams <- OneStream
  Cleaner = clean
  Dispatcher = alerts
  Environments <- SomeEnvironments
  Fallback <- OneSecond
  Second = 2
  Word = 8
  Cap = 2
  MaxEvents = 3
CHECK_DEADLOCK FALSE
INVARIANTS TypeOK NeverSendsOnClosed InPublicationOrder GracefulIsDrained NoGoroutineMissing
PROPERTIES PublishReturns ShutdownEnds ImplementsBroadcast ImplementsService
