SPECIFICATION FairSpec
CONSTANTS
  Instances = {i1}
  Execs = {"e1", "e2"}
  Nobody = Nobody
  Timeout <- MCTimeout
  BatchSize = 1
  MaxTime = 3
  MaxFailures = 1
  MaxUnloads = 1
  MaxStarts = 2
INVARIANT OffIsQuiet
PROPERTIES OnlyExpiredAreAborted ExpiredAreEnded
CHECK_DEADLOCK FALSE
