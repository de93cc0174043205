CONSTANTS
  None = None
  c1 = c1
  c2 = c2
  c3 = c3
  Calls = {c1, c2, c3}
  Menu <- CoreMenu
  Overlap = FALSE
  MaxFaults = 1
SPECIFICATION Spec
INVARIANTS
  ConfirmedPaymentStands
PROPERTIES
  AtomicUpdates
