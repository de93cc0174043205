CONSTANTS
  None = None
  m1 = m1
  m2 = m2
  s = s
  n = n
  c1 = c1
  c2 = c2
  c3 = c3
  Users = {m1, m2, s, n}
  Calls = {c1, c2, c3}
  Menu <- FullMenu
  FirstUsers <- Starts
SPECIFICATION Spec
INVARIANTS
  NoNewManagers
  SomeManager
  EntriesRanked
PROPERTIES
  AloneMeansExact
SYMMETRY SymCalls
