SPECIFICATION Spec
CONSTANTS
  e1 = e1
  e2 = e2
  l1 = l1
  l2 = l2
  t1 = t1
  c1 = c1
  Events = {e1, e2}
  Locations = {l1}
  Txns = {t1}
  Customers = {c1}
  TxnOf <- MCTxnOf
  CustomerOf <- MCCustomerOf
  Parsable <- MCParsable
  Workers = {w1, w2}
  Receivers = {r1}
  Callers = {}
  Admins = {d1}
  Integration = Integration
  Free = Free
  NoEvent = NoEvent
  NoCustomer = NoCustomer
  NoLocation = NoLocation
  MAX_EVENT_ATTEMPTS = 2
  MaxFaults = 0
SYMMETRY MCSymmetry
INVARIANT SalesMatch
PROPERTY ImplementsSaleInbox
