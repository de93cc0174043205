CONSTANTS
  None = None
  o1 = o1
  o2 = o2
  u1 = u1
  u2 = u2
  p1 = p1
  p2 = p2
  s1 = s1
  s2 = s2
  la = la
  lb = lb
  lc = lc
  Orders = {o1, o2}
  Lines = {la, lb, lc}
  Users = {u1, u2}
  Products = {p1, p2}
  Skus = {s1, s2}
  UserOf <- ContendUserOf
  OrderOf <- ContendOrderOf
  ProductOf <- ContendProductOf
  SkuOf <- ContendSkuOf
  Qty <- ContendQty
  InitStock <- ContendStock
  InitCart <- ContendCart
  Faults = {"reply"}
SPECIFICATION Spec
INVARIANTS
  TypeOK
  CreateOrderExclusive
  StockConserved
  SuccessMeansOrdered
PROPERTIES
  ImplementsLedger
