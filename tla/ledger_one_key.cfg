SPECIFICATION Spec
CONSTANTS
  k1 = k1
  k2 = k2
  p1 = p1
  NoPayment = NoPayment
  NoKey = NoKey
  Keys = {k1}
  Durable = {}
  Payments = {p1}
  Charges = {0, 1, 2}
  TopUps = {1}
  Bonuses = {0, 1}
  Gifts = {1}
  Routes = {"open", "paid", "discounted"}
  Policies = {"strict", "overdraft"}
  Adjustments <- MCAdjustments
  MaxAdjusted = 1
  Horizon = 1
  ReturnTerm = 1
  MaxLots = 3
  MaxPosts = 3
INVARIANTS WalletIsCash GiftStaysGift
PROPERTIES NoUnsanctionedDebt RefundIsSpendable
CHECK_DEADLOCK FALSE
