SPECIFICATION FairSpec
CONSTANTS
  Options <- AllOptions
  VerifyTimeout = 2
  MutateTimeout = 1
  MaxKeys = 2
  MaxRequests = 2
  MaxSignals = 2
  MaxNow = 5
INVARIANTS ServesUntilShutdown NothingIsCut
PROPERTIES EventuallyListens SignalEndsProcess
CHECK_DEADLOCK FALSE
