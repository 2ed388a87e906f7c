SPECIFICATION FairSpec
CONSTANTS
  Ids = {m1, m2, m3}
  Concurrency = 2
  MaxRetries = 1
  MaxStops = 1
  MaxCrashes = 1
  MaxPauses = 1
INVARIANTS TypeOK HeldOnce UntriedAreKept FirstInFirstOut
PROPERTY PublishedAreTried
CHECK_DEADLOCK FALSE
