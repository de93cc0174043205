CONSTANTS
  i1 = i1
  i2 = i2
  c1 = c1
  c2 = c2
  c3 = c3
  Whole = Whole
  Calls = {c1, c2, c3}
  Items = {i1, i2}
  Menu <- FullMenu
  FirstLines <- Started
  Shelves <- ChangingShelves
SPECIFICATION Spec
INVARIANTS
  DoneStays
  SecondCartNeedsRace
PROPERTIES
  AloneMeansExact
  UntouchedStays
SYMMETRY SymCalls
