SPECIFICATION Spec
CONSTANTS
  w1 = w1
  w2 = w2
  w3 = w3
  Workers <- ThreeWorkers
  StaleAfter = 4
  ReserveBound = 1
  ProviderBound = 1
  TailBound = 1
  Retention = 4
  Disturbed = FALSE
  MaxAttempt = 3
  MaxTime = 9
SYMMETRY WorkerSymmetry
INVARIANTS NoneStranded PaidOnce StoredIsPaid
CHECK_DEADLOCK FALSE
