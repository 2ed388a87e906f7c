SPECIFICATION Spec
CONSTANTS
  Instances = {i1, i2}
  NoId = NoId
  Adapter = TRUE
  MaxWorkerId = 1
  MaxSequence = 1
  Epoch = 3
  MaxTime = 4
  MaxBoots = 2
  MaxReloads = 1
  MaxSteps = 1
SYMMETRY Symmetric
INVARIANTS  IdsGrow
CHECK_DEADLOCK FALSE
