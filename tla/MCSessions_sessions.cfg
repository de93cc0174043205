CONSTANTS
  None = None
  First = First
  c1 = c1
  c2 = c2
  c3 = c3
  Calls = {c1, c2, c3}
  FirstRole = "Staff"
  Menu <- TheMenu
  Life = 2
  RefreshLife = 3
  MaxUses = 2
  MaxTime = 3
  MaxRestarts = 1
SPECIFICATION Spec
INVARIANTS
  StaleRoleRefused
  ServedRightly
  AtMostOnce
  NoUseInvented
