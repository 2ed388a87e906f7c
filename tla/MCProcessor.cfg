SPECIFICATION FairSpec
CONSTANTS
  Nodes <- FlowNodes
  NoNode = "none"
  Upstream <- FlowUpstream
  Branch <- FlowBranch
  Waiting = {"y", "b"}
  Parallels = {"p", "q"}
  Mode <- FlowMode
  Workers = {w1, w2}
  NoWorker = NoWorker
  JobIds = {1, 2, 3, 4, 5, 6, 7}
  MaxPokes = 1
  Aborts = {"here", "elsewhere", "timeout"}
  MaxCrashes = 1
INVARIANTS TypeOK SomethingToWaitFor JoinsOnce JoinIsAccurate SignalStops
PROPERTIES Ends
CHECK_DEADLOCK FALSE
