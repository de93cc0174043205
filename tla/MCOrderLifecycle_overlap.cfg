CONSTANTS
  None = None
  c1 = c1
  c2 = c2
  Calls = {c1, c2}
  Menu <- CoreMenu
  Overlap = TRUE
  MaxFaults = 2
SPECIFICATION FairSpec
INVARIANTS
  PaidMeansMoney
PROPERTIES
  GatewayAnswered
