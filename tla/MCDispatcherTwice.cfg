SPECIFICATION Spec
CONSTANTS
  Instances = {i1, i2}
  SyncInstances = {}
  Executions = {e1}
  Deferred = {}
  Timed = {}
  AutoDelete = {}
  DurableQueue = TRUE
  LeaseMayLapse = FALSE
  Requests = {}
  MaxRetries = 1
  MaxCopies = 1
  MaxFaults = 0
  Nobody = Nobody
  Dead = Dead
INVARIANTS
  StartedOnce
CHECK_DEADLOCK FALSE
