SPECIFICATION Spec
CONSTANTS
  a1 = a1
  g1 = g1
  g2 = g2
  l1 = l1
  l2 = l2
  m1 = m1
  p1 = p1
  r1 = r1
  s1 = s1
  s2 = s2
  free = free
  none = none
PROPERTIES AttemptsSettle MappedIsSynced StopHonoured EventsObserved TransactionsEnd
CHECK_DEADLOCK FALSE
