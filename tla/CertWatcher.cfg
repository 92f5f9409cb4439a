SPECIFICATION Spec
CONSTANTS
  Paths = {"cert", "key", "ca"}
  MaxVersion = 3
INVARIANTS TypeOK ServesRotation HandshakeReady
CHECK_DEADLOCK FALSE
