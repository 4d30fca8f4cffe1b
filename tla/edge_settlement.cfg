SPECIFICATION Spec
CONSTANTS
  s1 = s1
  Sessions <- OneSession
  Window = 2
  Reach = 2
  MaxGen = 2
  MaxWindows = 2
  MaxEvents = 2
INVARIANTS BilledIsSent SentIsPrepaid JournalApplies
PROPERTIES DurableStands
CHECK_DEADLOCK FALSE
