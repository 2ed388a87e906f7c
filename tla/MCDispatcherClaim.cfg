SPECIFICATION FairSpec
CONSTANTS
  Instances = {i1, i2}
  SyncInstances = {i1}
  Executions = {e1}
  Deferred = {e1}
  Timed = {}
  AutoDelete = {e1}
  DurableQueue = FALSE
  LeaseMayLapse = FALSE
  Requests = {"rerun", "destroy"}
  MaxRetries = 0
  MaxCopies = 1
  MaxFaults = 1
  Nobody = Nobody
  Dead = Dead
INVARIANTS ClaimedOnce OnlyClaimedRuns
PROPERTIES ImplementsLifecycle QueueingLeaves
CHECK_DEADLOCK FALSE
