SPECIFICATION OutboxSpec
CONSTANTS
  s1 = s1
  s2 = s2
  Sessions <- OneSession
  Window = 1
  Reach = 4
  MaxGen = 2
  MaxWindows = 1
  MaxEvents = 1
  Deletions = TRUE
  MaxLosses = 1
INVARIANTS NothingLost NumbersAreFresh
PROPERTIES EndSettles
CHECK_DEADLOCK FALSE
