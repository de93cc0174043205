CONSTANTS
  None = None
  o1 = o1
  o2 = o2
  u1 = u1
  u2 = u2
  p1 = p1
  p2 = p2
  s1 = s1
  s2 = s2
  la = la
  lb = lb
  lc = lc
  Orders = {o1, o2}
  Lines = {la, lb}
  Users = {u1}
  Products = {p1, p2}
  Skus = {s1, s2}
  UserOf <- SameBuyerUserOf
  OrderOf <- SameBuyerOrderOf
  ProductOf <- SameBuyerProductOf
  SkuOf <- SameBuyerSkuOf
  Qty <- SameBuyerQty
  InitStock <- SameBuyerStock
  InitCart <- SameBuyerCart
  Faults = {}
SPECIFICATION FairSpec
INVARIANTS
  CartCleared
  FailureMeansNoOrder
PROPERTIES
  EveryCallEnds
  LocksReleased
