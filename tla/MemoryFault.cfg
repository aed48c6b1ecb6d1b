SPECIFICATION Spec
CONSTANTS
  memorySize = 96
  HDR = 20
  Requests = {1, 9}
  t1 = t1
  t2 = t2
  Nobody = Nobody
  Threads <- MCThreads
SYMMETRY Symmetric
INVARIANT
  FaultMeansBroken
