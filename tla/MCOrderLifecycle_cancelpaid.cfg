CONSTANTS
  None = None
  c1 = c1
  c2 = c2
  Calls = {c1, c2}
  Menu <- BuyerMenu
  Overlap = TRUE
  MaxFaults = 0
SPECIFICATION Spec
PROPERTIES
  CancelOnlyUnpaid
