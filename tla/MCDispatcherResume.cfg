SPECIFICATION Spec
CONSTANTS
  Instances = {i1, i2}
  SyncInstances = {}
  Executions = {e1}
  Deferred = {}
  Timed = {e1}
  AutoDelete = {e1}
  DurableQueue = TRUE
  LeaseMayLapse = FALSE
  Requests = {"resume", "cancel"}
  MaxRetries = 0
  MaxCopies = 1
  MaxFaults = 0
  Nobody = Nobody
  Dead = Dead
SYMMETRY Symmetric
INVARIANT NoneLost
PROPERTY EndedIsFinal
CHECK_DEADLOCK FALSE
