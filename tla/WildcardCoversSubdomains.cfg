SPECIFICATION BuildSpec
CONSTANTS
  MaxGroups = 1
  Configurations <- Lists
  Probes <- ReferencesToTry
INVARIANT WildcardCoversSubdomains
CHECK_DEADLOCK FALSE
