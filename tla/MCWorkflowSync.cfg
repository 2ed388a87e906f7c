SPECIFICATION Spec
CONSTANTS
  Instances = {i1, i2}
  Versions = {v1, v2, v3}
  None = None
  MaxUpdates = 4
  MaxRollbacks = 1
  MaxStops = 1
SYMMETRY Symmetric
INVARIANTS TypeOK  
CHECK_DEADLOCK FALSE
