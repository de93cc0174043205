CONSTANTS
  None = None
  p1 = p1
  p2 = p2
  s1 = s1
  s2 = s2
  s3 = s3
  size = size
  color = color
  weight = weight
  i1 = i1
  i2 = i2
  c1 = c1
  c2 = c2
  c3 = c3
  Calls = {c1, c2, c3}
  Products = {p1, p2}
  Skus = {s1, s2, s3}
  Labels = {size, color, weight}
  Images = {i1, i2}
  SkuLabels <- Labelled
  UnitAdded <- WithUnit
  MustHave = {size}
  MaxStock = 2
  Menu <- FullMenu
  FirstProducts <- OneProduct
  FirstLibrary = {i1}
  FirstCategory = {size}
  FirstLabels = {size, color}
SPECIFICATION Spec
INVARIANTS
  ImagesThere
  StockBalanced
PROPERTIES
  AloneMeansExact
  UsedStays
SYMMETRY SymCalls
