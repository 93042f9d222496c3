SPECIFICATION Spec
CONSTANTS
  small = small
  large = large
  p1 = p1
  p2 = p2
  Plans = {small, large}
  Quota <- MCQuotas
  Periods = {p1, p2}
  NoPeriod = NoPeriod
  Senders = {r1, r2}
  Changers = {u1, u2}
  SubscriptionRow = SubscriptionRow
  Free = Free
SYMMETRY MCSymmetry
INVARIANTS QuotaInv
PROPERTIES UsageOnlyGrows SpentUnderEntitlement ImplementsLedger
