SPECIFICATION FairSpec
CONSTANTS
  Namespaces = {"team", "infra"}
  Names = {"ratify-policy", "other"}
  SpecsOf <- GoodAndBad
  Stored <- Misplacement
  RatifyNamespace = {"infra"}
  ObjectsOf <- TwoScopes
  MaxEdits <- Edits
  MaxFaults = 1
  Known = {"known"}
INVARIANTS Isolated KnownIsFound MapsConverge BrokenProviderIsRefused
PROPERTIES EventuallyInForce EventuallyQuiet
CHECK_DEADLOCK FALSE
