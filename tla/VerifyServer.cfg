SPECIFICATION Spec
CONSTANTS
  Handlers = {h1, h2}
  Artifacts = {"app", "pinned", "broken"}
  Form <- AllForms
  Inputs <- SingleKeys
  VerifyTimeout = 1
  MutateTimeout = 1
  CacheTTL = 1
  MaxNow = 3
  MaxInstalls = 2
SYMMETRY Symmetric
INVARIANTS ItemsAnswerKeys FlightsAreLed BoundedStaleness
CHECK_DEADLOCK FALSE
