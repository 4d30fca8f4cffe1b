SPECIFICATION Spec
CONSTANTS
  h1 = h1
  h2 = h2
  Handlers <- TwoHandlers
  Price = 3
  Settings <- Worlds
INVARIANTS PaymentsAddUp AckedIsRecorded MirrorsStripe
PROPERTIES PaymentLands
CHECK_DEADLOCK FALSE
