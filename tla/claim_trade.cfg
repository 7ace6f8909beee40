CONSTANTS
  l1 = l1
  l2 = l2
  s1 = s1
  s2 = s2
  Launches = {l1, l2}
  Sigs = {s1, s2}
  None = None
SPECIFICATION Spec
INVARIANTS
  TradesArePurchases
CHECK_DEADLOCK FALSE
