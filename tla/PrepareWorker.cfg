CONSTANTS
  Callers = {c1, c2}
  Gen <- MCGen
  None = None
SPECIFICATION FairSpec
INVARIANTS AnsweredOnce ExactDelivery
PROPERTIES ImplementsMailbox ShutdownReturns StopReleasesWaiters
