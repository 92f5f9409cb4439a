SPECIFICATION FairSpec
CONSTANTS
  Handlers = {h1, h2}
  Artifacts = {"app", "db"}
  Form <- TwoTags
  Inputs <- Overlapping
  VerifyTimeout = 2
  MutateTimeout = 1
  CacheTTL = 1
  MaxNow = 3
  MaxInstalls = 1
INVARIANT BoundedDuration
PROPERTY EveryRequestAnswered
CHECK_DEADLOCK FALSE
