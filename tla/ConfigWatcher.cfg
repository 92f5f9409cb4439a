SPECIFICATION FairSpec
CONSTANTS
  Paths = {"config"}
  ConfigFile = "config"
  MaxVersion = 5
  Broken = {3}
INVARIANTS TypeOK ServesFile WatchedIsServed
PROPERTY ImplementsServedFile
CHECK_DEADLOCK FALSE
