SPECIFICATION Spec
CONSTANTS
  Callers = {c1, c2}
  Servers = {s1, s2}
  Expiries = {1, 4}
  Buffer = 1
  DefaultTTL = 2
  MaxSize = 1
  MaxLag = 1
  MaxNow = 5
INVARIANTS TypeOK HitsAreLive
CHECK_DEADLOCK FALSE
