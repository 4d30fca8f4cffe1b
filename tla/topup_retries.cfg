SPECIFICATION TopupSpec
CONSTANTS
  w1 = w1
  w2 = w2
  Workers <- TwoWorkers
  Cooldown = 1
  GiveUp = 1
  CallBound = 1
  KeyLifetime = 3
  Refusals = FALSE
  MaxAttempts = 2
  MaxTime = 4
  MaxFaults = 2
INVARIANTS ChargedOnce ChargeIsAccounted
CHECK_DEADLOCK FALSE
