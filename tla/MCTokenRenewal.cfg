SPECIFICATION RenewalFairSpec
CONSTANTS
  Instances = {i1, i2}
  Calls = {c1, c2}
  Nil = Nil
  Shared = TRUE
  Ttl = 1
  TokenLife = 0
  SessionLife = 3
  MaxTime = 4
  MaxCrashes = 1
INVARIANTS SameAnswer
PROPERTIES RefusedOnlyLate CallsEnd
CHECK_DEADLOCK FALSE
