SPECIFICATION BufferFairSpec
CONSTANTS
  Events = {"e1", "e2", "e3", "e4"}
  NoEvent = "none"
  Key <- MCKey
  Sqlite = TRUE
  MaxTasks = 2
INVARIANTS BufferTypeOK CreatedInOrder DrainedIsEmpty
PROPERTIES EventsAreHandled StopDrains
CHECK_DEADLOCK FALSE
