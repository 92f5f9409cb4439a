SPECIFICATION Spec
CONSTANTS
  Names = {n1, n2}
  Specs <- ThreeSpecs
  Absent = Absent
  Artifacts <- Requests
  Faults = {}
  MaxEdits = 3
  MaxRestarts = 0
INVARIANT DeletedIsNotServed
CHECK_DEADLOCK FALSE
