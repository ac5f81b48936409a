SPECIFICATION Spec
CONSTANTS
  Jobs = {j1, j2, j3}
  Agents = {a1, a2}
  Callers = {w1, w2}
  CallerOf <- CallerAgents
  MaxJobs = 2
  None = None
  a1 = a1
  a2 = a2
SYMMETRY Interchangeable
CHECK_DEADLOCK FALSE
INVARIANT TypeOK
INVARIANT ToldOnce
INVARIANT NoneOutlives
