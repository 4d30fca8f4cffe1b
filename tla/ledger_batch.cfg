SPECIFICATION Spec
CONSTANTS
  k1 = k1
  k2 = k2
  p1 = p1
  NoPayment = NoPayment
  NoKey = NoKey
  Keys = {k1, k2}
  Durable = {k2}
  Payments = {p1}
  Charges = {1, 2}
  TopUps = {1}
  Bonuses = {1}
  Gifts = {1}
  Routes = {"open"}
  Policies = {"free", "strict"}
  Adjustments = {}
  MaxAdjusted = 0
  Horizon = 1
  ReturnTerm = 1
  MaxLots = 2
  MaxPosts = 4
INVARIANTS LedgerMatchesUsage
PROPERTIES ImplementsPurse
CHECK_DEADLOCK FALSE
