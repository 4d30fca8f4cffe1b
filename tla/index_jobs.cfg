SPECIFICATION Spec
CONSTANTS
  w1 = w1
  w2 = w2
  Project = Project
  Nobody = Nobody
  Workers <- TwoWorkers
  Sources <- TwoSources
  MaxJobs = 2
  MaxAttempts = 2
  MaxTurns = 2
INVARIANTS OneCall StatusHasJob ReadyIsIndexed
PROPERTIES JobEnds
CHECK_DEADLOCK FALSE
