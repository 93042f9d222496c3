SPECIFICATION Spec
CONSTANTS
  e1 = e1
  e2 = e2
  l1 = l1
  l2 = l2
  t1 = t1
  c1 = c1
  Events = {e1}
  Locations = {l1, l2}
  Txns = {t1}
  Customers = {c1}
  TxnOf <- MCTxnOf
  CustomerOf <- MCCustomerOf
  Parsable <- MCParsable
  Workers = {w1, w2}
  Receivers = {r1, r2}
  Callers = {k1}
  Admins = {d1}
  Integration = Integration
  Free = Free
  NoEvent = NoEvent
  NoCustomer = NoCustomer
  NoLocation = NoLocation
  MAX_EVENT_ATTEMPTS = 3
  MaxFaults = 2
SYMMETRY MCSymmetry
INVARIANT RetryBudget
INVARIANT DisconnectLeavesNothingPending
INVARIANT PipelineInv
PROPERTY TerminalForever
PROPERTY NoAttemptBeforeDue
