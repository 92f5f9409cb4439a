SPECIFICATION FairSpec
CONSTANTS
  Names = {n1, n2}
  Specs <- ThreeSpecs
  Absent = Absent
  Artifacts <- Requests
  Faults = {}
  MaxEdits = 3
  MaxRestarts = 1
INVARIANTS Converged ServesDesired SucceededIsServed RequestsReachOwners
PROPERTY NoServiceGap EventuallyServed
CHECK_DEADLOCK FALSE
