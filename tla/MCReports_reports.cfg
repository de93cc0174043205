SPECIFICATION Spec
CONSTANTS
  None = None
  o1 = o1
  o2 = o2
  c1 = c1
  c2 = c2
  k1 = k1
  k2 = k2
  Orders = {o1, o2}
  Calls = {c1, c2}
  Copies = {k1, k2}
  Created <- TheCreated
  MonthStarts <- TheStarts
  MonthsPerYear = 2
  Today <- TheToday
  Menu <- TheMenu
  ShortTtl = 1
  LongTtl = 2
  MaxTime = 2
  MaxChanges = 2
  MaxFaults = 1
  MaxFailures = 1
INVARIANTS CountedOnce UpToDate CrashCostsOne FinishedIsComplete
SYMMETRY Symmetric
CHECK_DEADLOCK FALSE
