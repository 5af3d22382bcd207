SPECIFICATION Spec
CONSTANTS
  r1 = r1
  r2 = r2
  w1 = w1
  w2 = w2
  w3 = w3
  Requests <- MCRequests
  JobCount <- MCJobCount
  Throws <- MCThrows
  Workers <- MCWorkers3
SYMMETRY Symmetric
INVARIANTS TypeOK TaskHeldOnce WorkConserving BookKeeping OldestFirst
CHECK_DEADLOCK FALSE
