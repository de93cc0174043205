--------------------------- MODULE CheckoutProofs ---------------------------
(* Theorems about Checkout for every set of orders, lines, buyers,         *)
(* products and variations.                                                *)
EXTENDS Checkout, TLAPS

(* The constant operators have the types their names promise.              *)
LEMMA ConstantTypes ==
  /\ \A o \in Orders : UserOf[o] \in Users /\ Keys(o) \subseteq Docs /\ BranchesOf(o) \subseteq Branches
  /\ \A o \in Orders : ItemsOf(o) \subseteq Items
  /\ \A l \in Lines : /\ OrderOf[l] \in Orders /\ ProductOf[l] \in Products
                      /\ SkuOf[l] \in Skus /\ Qty[l] \in Nat
                      /\ Parent(l) = OrderOf[l] /\ DocOf(l) = ProductOf[l]
  /\ \A o \in Orders : o \notin Lines /\ Parent(o) = o /\ DocOf(o) = UserOf[o]
  /\ \A b \in Branches : Parent(b) \in Orders /\ DocOf(b) \in Docs
  BY CheckoutAssumption
     DEF Keys, ProductsOf, LinesOf, BranchesOf, Branches, Docs, ItemsOf, Items, Parent, DocOf

LEMMA ZeroTypes == ZeroDoc \in StockDocs /\ ZeroStock \in [Products -> StockDocs]
  BY DEF ZeroDoc, ZeroStock, StockDocs

(* Decrementing a variation that is in stock leaves a stock document.      *)
LEMMA DecrementType ==
  ASSUME NEW l \in Lines, NEW doc \in StockDocs, InStock(l, doc)
  PROVE  [doc EXCEPT ![SkuOf[l]] = @ - Qty[l]] \in StockDocs
  BY ConstantTypes DEF InStock, StockDocs

-----------------------------------------------------------------------------
(* Type correctness, one lemma per group of variables.                     *)

(* A group whose variables do not change keeps its types.                  *)
LEMMA TypesFrame ==
  /\ CallTypes /\ UNCHANGED callVars => CallTypes'
  /\ BranchTypes /\ UNCHANGED branchVars => BranchTypes'
  /\ TxnTypes /\ UNCHANGED txnVars => TxnTypes'
  /\ LockTypes /\ UNCHANGED lockVars => LockTypes'
  /\ DbTypes /\ UNCHANGED dbVars => DbTypes'
  BY DEF CallTypes, BranchTypes, TxnTypes, LockTypes, DbTypes,
         callVars, branchVars, txnVars, lockVars, dbVars

LEMMA TypeInit == Init => TypeOK
  BY CheckoutAssumption, ZeroTypes
     DEF Init, TypeOK, CallTypes, BranchTypes, TxnTypes, LockTypes, DbTypes,
         Calls, Outcomes, Stations

LEMMA CallTypesNext == TypeOK /\ [Next]_vars => CallTypes'
<1> SUFFICES ASSUME TypeOK, [Next]_vars PROVE CallTypes'
  OBVIOUS
<1> USE DEF TypeOK, CallTypes, Calls, Outcomes, callVars
<1>1. ASSUME NEW o \in Orders, NEW p \in Products, ReviewProduct(o, p) PROVE CallTypes'
  BY <1>1 DEF ReviewProduct
<1>2. ASSUME NEW o \in Orders, End(o, "rejected") \/ End(o, "busy") \/ End(o, "failed") \/ End(o, "ok")
      PROVE  pc' \in [Orders -> Calls] /\ outcome' \in [Orders -> Outcomes]
  BY <1>2 DEF End
<1>3. ASSUME NEW o \in Orders, Reject(o) PROVE CallTypes'
  BY <1>2, <1>3 DEF Reject
<1>4. ASSUME NEW o \in Orders, StartTransaction(o) PROVE CallTypes'
  BY <1>4 DEF StartTransaction
<1>5. ASSUME NEW o \in Orders, LockOrder(o) PROVE CallTypes'
  BY <1>5 DEF LockOrder
<1>6. ASSUME NEW o \in Orders, LockOrderTimeout(o) PROVE CallTypes'
  BY <1>2, <1>6 DEF LockOrderTimeout
<1>7. ASSUME NEW o \in Orders, Commit(o) \/ CommitUnknown(o) \/ Abort(o) PROVE CallTypes'
  BY <1>7 DEF Commit, CommitUnknown, Abort
<1>8. ASSUME NEW o \in Orders, UnlockOrder(o) PROVE CallTypes'
  BY <1>2, <1>8 DEF UnlockOrder
<1>9. ASSUME NEW o \in Orders, EmitCreated(o) PROVE CallTypes'
  BY <1>2, <1>9 DEF EmitCreated
<1>10. ASSUME NEW o \in Orders, Crash(o) PROVE CallTypes'
  BY <1>10 DEF Crash
<1>11. ASSUME UNCHANGED callVars PROVE CallTypes'
  BY <1>11, TypesFrame
<1>12. ASSUME NEW o \in Orders, InsertOrder(o) \/ TxnTimeout(o) PROVE UNCHANGED callVars
  BY <1>12 DEF InsertOrder, TxnTimeout
<1>13. ASSUME NEW b \in Branches, BranchStep(b) PROVE UNCHANGED callVars
  BY <1>13 DEF BranchStep, ReadProduct, ReadCart, LockDoc, LockDocTimeout, WriteProduct,
               WriteCart, WriteRefused, UnlockDoc
<1>14. ASSUME NEW k \in Docs, Expiry(k) PROVE UNCHANGED callVars
  BY <1>14 DEF Expiry, ExpireOrderKey, ExpireWriteKey
<1>15. ASSUME Quiet \/ UNCHANGED vars PROVE UNCHANGED callVars
  BY <1>15 DEF Quiet, vars
<1> QED
  BY <1>1, <1>3, <1>4, <1>5, <1>6, <1>7, <1>8, <1>9, <1>10, <1>11, <1>12, <1>13, <1>14, <1>15
     DEF Next, CallStep

LEMMA BranchTypesNext == TypeOK /\ [Next]_vars => BranchTypes'
<1> SUFFICES ASSUME TypeOK, [Next]_vars PROVE BranchTypes'
  OBVIOUS
<1> USE DEF TypeOK, BranchTypes, Stations, branchVars
<1>1. ASSUME NEW o \in Orders, LockOrder(o) PROVE BranchTypes'
  BY <1>1 DEF LockOrder
<1>2. ASSUME NEW o \in Orders, InsertOrder(o) PROVE BranchTypes'
  BY <1>2 DEF InsertOrder
<1>3. ASSUME NEW l \in Lines, ReadProduct(l) PROVE BranchTypes'
  <2>1. stock[ProductOf[l]] \in StockDocs
    BY ConstantTypes DEF DbTypes
  <2> QED
    BY <1>3, <2>1, DecrementType DEF ReadProduct
<1>4. ASSUME NEW o \in Orders, ReadCart(o) PROVE BranchTypes'
  <2>1. cart[UserOf[o]] # None => cart[UserOf[o]] \ ItemsOf(o) \in SUBSET Items
    BY ConstantTypes DEF DbTypes
  <2> QED
    BY <1>4, <2>1 DEF ReadCart
<1>5. ASSUME NEW b \in Branches, LockDoc(b) PROVE BranchTypes'
  BY <1>5 DEF LockDoc
<1>6. ASSUME NEW b \in Branches, ForgetCopy(b)
      PROVE  copy' \in [Lines -> StockDocs] /\ cartCopy' \in [Orders -> SUBSET Items]
  BY <1>6, ZeroTypes DEF ForgetCopy
<1>7. ASSUME NEW b \in Branches, LockDocTimeout(b) \/ UnlockDoc(b) PROVE BranchTypes'
  BY <1>6, <1>7 DEF LockDocTimeout, UnlockDoc
<1>8. ASSUME NEW l \in Lines, WriteProduct(l) PROVE BranchTypes'
  BY <1>8 DEF WriteProduct
<1>9. ASSUME NEW o \in Orders, WriteCart(o) PROVE BranchTypes'
  BY <1>9 DEF WriteCart
<1>10. ASSUME NEW b \in Branches, WriteRefused(b) PROVE BranchTypes'
  BY <1>10 DEF WriteRefused
<1>11. ASSUME NEW o \in Orders, Crash(o) PROVE BranchTypes'
  BY <1>11, ZeroTypes DEF Crash
<1>12. ASSUME UNCHANGED branchVars PROVE BranchTypes'
  BY <1>12, TypesFrame
<1>13. ASSUME NEW o \in Orders, NEW p \in Products, ReviewProduct(o, p) PROVE UNCHANGED branchVars
  BY <1>13 DEF ReviewProduct
<1>14. ASSUME NEW o \in Orders,
              \/ Reject(o) \/ StartTransaction(o) \/ LockOrderTimeout(o) \/ Commit(o)
              \/ CommitUnknown(o) \/ Abort(o) \/ UnlockOrder(o) \/ EmitCreated(o) \/ TxnTimeout(o)
       PROVE  UNCHANGED branchVars
  BY <1>14 DEF Reject, StartTransaction, LockOrderTimeout, Commit, CommitUnknown, Abort,
               UnlockOrder, EmitCreated, TxnTimeout
<1>15. ASSUME NEW k \in Docs, Expiry(k) PROVE UNCHANGED branchVars
  BY <1>15 DEF Expiry, ExpireOrderKey, ExpireWriteKey
<1>16. ASSUME Quiet \/ UNCHANGED vars PROVE UNCHANGED branchVars
  BY <1>16 DEF Quiet, vars
<1> QED
  BY <1>1, <1>2, <1>3, <1>4, <1>5, <1>7, <1>8, <1>9, <1>10, <1>11, <1>12, <1>13, <1>14, <1>15, <1>16
     DEF Next, CallStep, BranchStep

LEMMA TxnTypesNext == TypeOK /\ [Next]_vars => TxnTypes'
<1> SUFFICES ASSUME TypeOK, [Next]_vars PROVE TxnTypes'
  OBVIOUS
<1> USE DEF TypeOK, TxnTypes, txnVars
<1>1. ASSUME NEW o \in Orders, InsertOrder(o) PROVE TxnTypes'
  BY <1>1 DEF InsertOrder
<1>2. ASSUME NEW l \in Lines, WriteProduct(l) PROVE TxnTypes'
  <2> DEFINE o == OrderOf[l]
             p == ProductOf[l]
  <2>1. o \in Orders /\ p \in Products /\ SkuOf[l] \in Skus /\ Qty[l] \in Nat /\ p \in Docs
    BY ConstantTypes DEF Docs
  <2>2. pendStock' \in [Orders -> [Products -> StockDocs]]
    BY <1>2, <2>1 DEF WriteProduct, BranchTypes
  <2>3. claimed[o][p][SkuOf[l]] + Qty[l] \in Nat
    BY <2>1 DEF StockDocs
  <2>4. claimed' \in [Orders -> [Products -> StockDocs]]
    BY <1>2, <2>1, <2>3 DEF WriteProduct, StockDocs
  <2> QED
    BY <1>2, <2>1, <2>2, <2>4 DEF WriteProduct
<1>3. ASSUME NEW o \in Orders, WriteCart(o) PROVE TxnTypes'
  <2>1. UserOf[o] \in Docs
    BY ConstantTypes DEF Docs
  <2> QED
    BY <1>3, <2>1 DEF WriteCart, BranchTypes
<1>4. ASSUME NEW o \in Orders, ForgetWrites(o)
      PROVE  /\ wrote' \in [Orders -> SUBSET Docs]
             /\ pendStock' \in [Orders -> [Products -> StockDocs]]
             /\ pendCart' \in [Orders -> SUBSET Items]
             /\ claimed' \in [Orders -> [Products -> StockDocs]]
  BY <1>4, ZeroTypes DEF ForgetWrites
<1>5. ASSUME NEW b \in Branches, WriteRefused(b) PROVE TxnTypes'
  <2>1. Parent(b) \in Orders
    BY ConstantTypes
  <2>2. CASE UNCHANGED txnVars
    BY <2>2
  <2>3. CASE txn' = [txn EXCEPT ![Parent(b)] = "aborted"] /\ DiscardWrites(Parent(b))
    BY <1>4, <2>1, <2>3 DEF DiscardWrites
  <2> QED
    BY <1>5, <2>2, <2>3 DEF WriteRefused
<1>6. ASSUME NEW o \in Orders, Commit(o) \/ CommitUnknown(o) PROVE TxnTypes'
  <2>1. ApplyWrites(o)
    BY <1>6 DEF Commit, CommitUnknown
  <2>2. stale' \in [Orders -> SUBSET Docs]
    BY <2>1 DEF ApplyWrites
  <2>3. txn' \in [Orders -> {"idle", "open", "committed", "aborted"}]
    BY <2>1 DEF ApplyWrites
  <2> QED
    BY <1>4, <2>1, <2>2, <2>3 DEF ApplyWrites
<1>7. ASSUME NEW o \in Orders, Abort(o) \/ TxnTimeout(o) PROVE TxnTypes'
  BY <1>4, <1>7 DEF Abort, TxnTimeout, DiscardWrites
<1>8. ASSUME UNCHANGED txnVars PROVE TxnTypes'
  BY <1>8, TypesFrame
<1>9. ASSUME NEW o \in Orders, NEW p \in Products, ReviewProduct(o, p) PROVE UNCHANGED txnVars
  BY <1>9 DEF ReviewProduct
<1>10. ASSUME NEW o \in Orders,
              \/ Reject(o) \/ StartTransaction(o) \/ LockOrder(o) \/ LockOrderTimeout(o)
              \/ UnlockOrder(o) \/ EmitCreated(o) \/ Crash(o)
       PROVE  UNCHANGED txnVars
  BY <1>10 DEF Reject, StartTransaction, LockOrder, LockOrderTimeout, UnlockOrder, EmitCreated, Crash
<1>11. ASSUME NEW b \in Branches,
              ReadProduct(b) \/ ReadCart(b) \/ LockDoc(b) \/ LockDocTimeout(b) \/ UnlockDoc(b)
       PROVE  UNCHANGED txnVars
  BY <1>11 DEF ReadProduct, ReadCart, LockDoc, LockDocTimeout, UnlockDoc
<1>12. ASSUME NEW k \in Docs, Expiry(k) PROVE UNCHANGED txnVars
  BY <1>12 DEF Expiry, ExpireOrderKey, ExpireWriteKey
<1>13. ASSUME Quiet \/ UNCHANGED vars PROVE UNCHANGED txnVars
  BY <1>13 DEF Quiet, vars
<1> QED
  BY <1>1, <1>2, <1>3, <1>5, <1>6, <1>7, <1>8, <1>9, <1>10, <1>11, <1>12, <1>13
     DEF Next, CallStep, BranchStep

LEMMA LockTypesNext == TypeOK /\ [Next]_vars => LockTypes'
<1> SUFFICES ASSUME TypeOK, [Next]_vars PROVE LockTypes'
  OBVIOUS
<1> USE DEF TypeOK, LockTypes, lockVars
<1>1. ASSUME NEW o \in Orders, LockOrder(o) PROVE LockTypes'
  BY <1>1 DEF LockOrder, Acquire
<1>2. ASSUME NEW b \in Branches, LockDoc(b) PROVE LockTypes'
  BY <1>2 DEF LockDoc, Acquire
<1>3. ASSUME NEW o \in Orders, UnlockOrder(o) PROVE LockTypes'
  BY <1>3 DEF UnlockOrder, Release
<1>4. ASSUME NEW b \in Branches, UnlockDoc(b) PROVE LockTypes'
  BY <1>4 DEF UnlockDoc, Release
<1>5. ASSUME NEW k \in Docs, Expiry(k) PROVE LockTypes'
  BY <1>5 DEF Expiry, ExpireOrderKey, ExpireWriteKey, Expired
<1>6. ASSUME UNCHANGED lockVars PROVE LockTypes'
  BY <1>6, TypesFrame
<1>7. ASSUME NEW o \in Orders, NEW p \in Products, ReviewProduct(o, p) PROVE UNCHANGED lockVars
  BY <1>7 DEF ReviewProduct
<1>8. ASSUME NEW o \in Orders,
             \/ Reject(o) \/ StartTransaction(o) \/ LockOrderTimeout(o) \/ InsertOrder(o) \/ Commit(o)
             \/ CommitUnknown(o) \/ Abort(o) \/ EmitCreated(o) \/ Crash(o) \/ TxnTimeout(o)
      PROVE  UNCHANGED lockVars
  BY <1>8 DEF Reject, StartTransaction, LockOrderTimeout, InsertOrder, Commit, CommitUnknown, Abort,
              EmitCreated, Crash, TxnTimeout
<1>9. ASSUME NEW b \in Branches,
             \/ ReadProduct(b) \/ ReadCart(b) \/ LockDocTimeout(b) \/ WriteProduct(b)
             \/ WriteCart(b) \/ WriteRefused(b)
      PROVE  UNCHANGED lockVars
  BY <1>9 DEF ReadProduct, ReadCart, LockDocTimeout, WriteProduct, WriteCart, WriteRefused
<1>10. ASSUME Quiet \/ UNCHANGED vars PROVE UNCHANGED lockVars
  BY <1>10 DEF Quiet, vars
<1> QED
  BY <1>1, <1>2, <1>3, <1>4, <1>5, <1>6, <1>7, <1>8, <1>9, <1>10 DEF Next, CallStep, BranchStep

(* Only a commit changes the database, and only a read of the cart adds to *)
(* the history beside it.                                                  *)
LEMMA DbFrame ==
  ASSUME [Next]_vars
  PROVE  UNCHANGED dbVars \/ \E o \in Orders : Commit(o) \/ CommitUnknown(o) \/ ReadCart(o)
<1> USE DEF dbVars
<1>1. ASSUME NEW o \in Orders, NEW p \in Products, ReviewProduct(o, p) PROVE UNCHANGED dbVars
  BY <1>1 DEF ReviewProduct
<1>2. ASSUME NEW o \in Orders,
             \/ Reject(o) \/ StartTransaction(o) \/ LockOrder(o) \/ LockOrderTimeout(o)
             \/ InsertOrder(o) \/ Abort(o) \/ UnlockOrder(o) \/ EmitCreated(o) \/ Crash(o)
             \/ TxnTimeout(o)
      PROVE  UNCHANGED dbVars
  BY <1>2 DEF Reject, StartTransaction, LockOrder, LockOrderTimeout, InsertOrder, Abort, UnlockOrder,
              EmitCreated, Crash, TxnTimeout
<1>3. ASSUME NEW b \in Branches, BranchStep(b), ~ (b \in Orders /\ ReadCart(b))
      PROVE  UNCHANGED dbVars
  BY <1>3 DEF BranchStep, ReadProduct, LockDoc, LockDocTimeout, WriteProduct,
              WriteCart, WriteRefused, UnlockDoc
<1>4. ASSUME NEW k \in Docs, Expiry(k) PROVE UNCHANGED dbVars
  BY <1>4 DEF Expiry, ExpireOrderKey, ExpireWriteKey
<1>5. ASSUME Quiet \/ UNCHANGED vars PROVE UNCHANGED dbVars
  BY <1>5 DEF Quiet, vars
<1> QED
  BY <1>1, <1>2, <1>3, <1>4, <1>5 DEF Next, CallStep

LEMMA DbTypesNext == TypeOK /\ [Next]_vars => DbTypes'
<1> SUFFICES ASSUME TypeOK, [Next]_vars PROVE DbTypes'
  OBVIOUS
<1> USE DEF TypeOK, DbTypes
<1>1. ASSUME UNCHANGED dbVars PROVE DbTypes'
  BY <1>1, TypesFrame
<1>2. ASSUME NEW o \in Orders, ApplyWrites(o) PROVE DbTypes'
  <2>1. stock' \in [Products -> StockDocs]
    BY <1>2 DEF ApplyWrites, TxnTypes
  <2>2. cart' \in [Users -> {None} \cup SUBSET Items]
    BY <1>2 DEF ApplyWrites, TxnTypes
  <2>3. sold' \in [Products -> StockDocs]
    BY <1>2 DEF ApplyWrites, TxnTypes, StockDocs
  <2> QED
    BY <1>2, <2>1, <2>2, <2>3 DEF ApplyWrites
<1>3. ASSUME NEW o \in Orders, ReadCart(o) PROVE DbTypes'
  BY <1>3 DEF ReadCart
<1> QED
  BY <1>1, <1>2, <1>3, DbFrame DEF Commit, CommitUnknown

(* Every variable keeps its type.  In particular no stock, in a product or *)
(* in a line's copy, ever falls below zero, with expiring locks too.       *)
THEOREM TypeCorrect == Spec => []TypeOK
<1>1. Init => TypeOK
  BY TypeInit
<1>2. TypeOK /\ [Next]_vars => TypeOK'
  BY CallTypesNext, BranchTypesNext, TxnTypesNext, LockTypesNext, DbTypesNext DEF TypeOK
<1> QED
  BY <1>1, <1>2, PTL DEF Spec
-----------------------------------------------------------------------------
(* Mutual exclusion.  It needs only that a key does not expire under a     *)
(* live holder: that the critical section is shorter than its TTL.         *)

(* Apart from taking, releasing and losing the keys, no step moves them,   *)
(* and no other step brings a call into its critical section.              *)
LEMMA CriticalFrame ==
  ASSUME TypeOK, [Next]_vars,
         ~ \E o \in Orders : LockOrder(o) \/ UnlockOrder(o),
         ~ \E k \in Docs : ExpireOrderKey(k)
  PROVE  orderLock' = orderLock /\ \A q \in Orders : InCriticalSection(q)' => InCriticalSection(q)
<1> USE DEF InCriticalSection
<1>1. ASSUME NEW o \in Orders, NEW p \in Products, ReviewProduct(o, p)
      PROVE  orderLock' = orderLock /\ pc' = pc
  BY <1>1 DEF ReviewProduct, lockVars
<1>2. ASSUME NEW o \in Orders, InsertOrder(o) \/ TxnTimeout(o) PROVE orderLock' = orderLock /\ pc' = pc
  BY <1>2 DEF InsertOrder, TxnTimeout, lockVars, callVars
<1>3. ASSUME NEW b \in Branches, BranchStep(b) PROVE orderLock' = orderLock /\ pc' = pc
  BY <1>3 DEF BranchStep, ReadProduct, ReadCart, LockDoc, LockDocTimeout, WriteProduct,
              WriteCart, WriteRefused, UnlockDoc, lockVars, callVars
<1>4. ASSUME NEW k \in Docs, ExpireWriteKey(k) PROVE orderLock' = orderLock /\ pc' = pc
  BY <1>4 DEF ExpireWriteKey, callVars
<1>5. ASSUME Quiet \/ UNCHANGED vars PROVE orderLock' = orderLock /\ pc' = pc
  BY <1>5 DEF Quiet, vars, lockVars, callVars
<1>6. ASSUME NEW o \in Orders, Reject(o) \/ LockOrderTimeout(o) \/ EmitCreated(o)
      PROVE  orderLock' = orderLock /\ pc' = [pc EXCEPT ![o] = "done"]
  BY <1>6 DEF Reject, LockOrderTimeout, EmitCreated, End, lockVars
<1>7. ASSUME NEW o \in Orders, StartTransaction(o)
      PROVE  orderLock' = orderLock /\ pc' = [pc EXCEPT ![o] = "lock"]
  BY <1>7 DEF StartTransaction, lockVars
<1>8. ASSUME NEW o \in Orders, Crash(o)
      PROVE  orderLock' = orderLock /\ pc' = [pc EXCEPT ![o] = "crashed"]
  BY <1>8 DEF Crash, lockVars
<1>9. ASSUME NEW o \in Orders, Commit(o) \/ CommitUnknown(o) \/ Abort(o)
      PROVE  orderLock' = orderLock /\ pc[o] = "run" /\ pc' = [pc EXCEPT ![o] = "unlock"]
  BY <1>9 DEF Commit, CommitUnknown, Abort, AllSettled, lockVars
<1>10. pc \in [Orders -> Calls]
  BY DEF TypeOK, CallTypes
<1> QED
  BY <1>1, <1>2, <1>3, <1>4, <1>5, <1>6, <1>7, <1>8, <1>9, <1>10 DEF Next, CallStep, Expiry

LEMMA KeysHeldNext ==
  ASSUME "expiry" \notin Faults, TypeOK, KeysHeld, [Next]_vars
  PROVE  KeysHeld'
<1> SUFFICES ASSUME NEW q \in Orders, InCriticalSection(q)', NEW k \in Keys(q)
             PROVE  orderLock'[k] = q
  BY DEF KeysHeld, Holds
<1> USE DEF InCriticalSection
<1>1. k \in Docs /\ None \notin Orders
  BY ConstantTypes, CheckoutAssumption DEF Branches
<1>2. orderLock \in [Docs -> {None} \cup Orders] /\ pc \in [Orders -> Calls]
  BY DEF TypeOK, LockTypes, CallTypes
<1>3. InCriticalSection(q) => orderLock[k] = q
  BY DEF KeysHeld, Holds
<1>4. ASSUME NEW o \in Orders, LockOrder(o) PROVE orderLock'[k] = q
  <2>1. CASE o = q
    BY <1>1, <1>2, <1>4, <2>1 DEF LockOrder, Acquire
  <2>2. CASE o # q
    <3>1. InCriticalSection(q)
      BY <1>2, <1>4, <2>2 DEF LockOrder
    <3>2. k \notin Keys(o)
      BY <1>1, <1>3, <1>4, <3>1 DEF LockOrder, Free
    <3> QED
      BY <1>1, <1>2, <1>3, <1>4, <3>1, <3>2 DEF LockOrder, Acquire
  <2> QED
    BY <2>1, <2>2
<1>5. ASSUME NEW o \in Orders, UnlockOrder(o) PROVE orderLock'[k] = q
  <2>1. pc' = [pc EXCEPT ![o] = "emit"] \/ pc' = [pc EXCEPT ![o] = "done"]
    BY <1>5 DEF UnlockOrder, End
  <2>2. o # q /\ InCriticalSection(q)
    BY <1>2, <2>1
  <2> QED
    BY <1>1, <1>2, <1>3, <1>5, <2>2 DEF UnlockOrder, Release
<1>6. ASSUME NEW d \in Docs, ExpireOrderKey(d) PROVE orderLock'[k] = q
  <2>1. InCriticalSection(q)
    BY <1>6 DEF ExpireOrderKey, callVars
  <2>2. d # k
    BY <1>3, <1>6, <2>1 DEF ExpireOrderKey, MayExpire, Alive
  <2> QED
    BY <1>2, <1>3, <1>6, <2>1, <2>2 DEF ExpireOrderKey, Expired
<1>7. ASSUME ~ \E o \in Orders : LockOrder(o) \/ UnlockOrder(o),
             ~ \E d \in Docs : ExpireOrderKey(d)
      PROVE  orderLock'[k] = q
  BY <1>3, <1>7, CriticalFrame
<1> QED
  BY <1>4, <1>5, <1>6, <1>7

LEMMA KeysHeldInit == Init => KeysHeld
  BY DEF Init, KeysHeld, InCriticalSection

LEMMA KeysHeldExclusive == KeysHeld => CreateOrderExclusive
  BY DEF KeysHeld, Holds, CreateOrderExclusive, Keys

(* If no key expires under its holder, createOrder runs for one order at a *)
(* time per buyer and per product.                                         *)
THEOREM Exclusion == "expiry" \notin Faults => (Spec => []CreateOrderExclusive)
<1> SUFFICES ASSUME "expiry" \notin Faults PROVE Spec => []CreateOrderExclusive
  OBVIOUS
<1>1. Init => KeysHeld
  BY KeysHeldInit
<1>2. TypeOK /\ KeysHeld /\ [Next]_vars => KeysHeld'
  BY KeysHeldNext
<1>3. KeysHeld => CreateOrderExclusive
  BY KeysHeldExclusive
<1> QED
  BY <1>1, <1>2, <1>3, TypeCorrect, PTL DEF Spec
-----------------------------------------------------------------------------
(* Conservation.  Beside the TTLs it needs that no order names a product   *)
(* in two of its lines: such an order loses one of its own decrements.     *)

LEMMA WritesInScopeNext ==
  ASSUME TypeOK, WritesInScope, [Next]_vars
  PROVE  WritesInScope'
<1> SUFFICES ASSUME NEW q \in Orders PROVE InScope(q)'
  BY DEF WritesInScope
<1>0. InScope(q)
  BY DEF WritesInScope
<1>t. /\ pc \in [Orders -> Calls] /\ at \in [Branches -> Stations]
      /\ txn \in [Orders -> {"idle", "open", "committed", "aborted"}]
      /\ wrote \in [Orders -> SUBSET Docs]
      /\ claimed \in [Orders -> [Products -> StockDocs]]
  BY DEF TypeOK, CallTypes, BranchTypes, TxnTypes
<1>b. \A o \in Orders : \A b \in BranchesOf(o) : b \in Branches /\ Parent(b) = o
  BY ConstantTypes DEF BranchesOf, LinesOf
<1>c. \A b \in Branches : b \in BranchesOf(Parent(b)) /\ DocOf(b) \in Keys(Parent(b))
  BY ConstantTypes DEF Branches, BranchesOf, LinesOf, Parent, DocOf, Keys, ProductsOf
<1> USE DEF InScope, TxnUsable
<1>1. ASSUME UNCHANGED <<pc, txn, wrote, claimed, at>> PROVE InScope(q)'
  BY <1>0, <1>1
<1>2. ASSUME NEW o \in Orders, End(o, "rejected") \/ End(o, "busy") \/ End(o, "failed") \/ End(o, "ok"),
             UNCHANGED <<txn, wrote, claimed, at>>, pc[o] # "run"
      PROVE  InScope(q)'
  BY <1>0, <1>2, <1>t DEF End
<1>3. ASSUME NEW o \in Orders, Reject(o) \/ LockOrderTimeout(o) \/ EmitCreated(o) PROVE InScope(q)'
  BY <1>2, <1>3 DEF Reject, LockOrderTimeout, EmitCreated, txnVars, branchVars
<1>4. ASSUME NEW o \in Orders, StartTransaction(o) PROVE InScope(q)'
  BY <1>0, <1>4, <1>t DEF StartTransaction, txnVars, branchVars
<1>5. ASSUME NEW o \in Orders, LockOrder(o) PROVE InScope(q)'
  BY <1>0, <1>5, <1>t, <1>b DEF LockOrder, txnVars
<1>6. ASSUME NEW o \in Orders, InsertOrder(o) PROVE InScope(q)'
  BY <1>0, <1>6, <1>t DEF InsertOrder, callVars
<1>7. ASSUME NEW b \in Branches, at[b] # "idle", at' = [at EXCEPT ![b] = at'[b]],
             UNCHANGED <<pc, txn, wrote, claimed>>
      PROVE  InScope(q)'
  <2>1. TxnUsable(q) /\ pc[q] # "run" => b \notin BranchesOf(q)
    BY <1>0, <1>7
  <2> QED
    BY <1>0, <1>7, <1>t, <1>b, <2>1
<1>8. ASSUME NEW b \in Branches,
             ReadProduct(b) \/ ReadCart(b) \/ LockDoc(b) \/ LockDocTimeout(b) \/ UnlockDoc(b)
      PROVE  InScope(q)'
  <2>1. at[b] # "idle" /\ UNCHANGED <<pc, txn, wrote, claimed>>
    BY <1>8 DEF ReadProduct, ReadCart, LockDoc, LockDocTimeout, UnlockDoc, txnVars, callVars
  <2>2. at' = [at EXCEPT ![b] = at'[b]]
    BY <1>8, <1>t DEF ReadProduct, ReadCart, LockDoc, LockDocTimeout, UnlockDoc
  <2> QED
    BY <1>7, <2>1, <2>2
<1>9. ASSUME NEW l \in Lines, WriteProduct(l) PROVE InScope(q)'
  <2>1. l \in Branches /\ Parent(l) = OrderOf[l] /\ DocOf(l) = ProductOf[l] /\ OrderOf[l] \in Orders
    BY ConstantTypes DEF Branches
  <2>2. /\ UNCHANGED pc /\ TxnUsable(OrderOf[l]) /\ at[l] # "idle"
        /\ txn' = [txn EXCEPT ![OrderOf[l]] = "open"] /\ at' = [at EXCEPT ![l] = "wrote"]
        /\ wrote' = [wrote EXCEPT ![OrderOf[l]] = @ \cup {ProductOf[l]}]
    BY <1>9 DEF WriteProduct, callVars
  <2>3. CASE q = OrderOf[l]
    <3>1. pc[q] = "run"
      BY <1>0, <1>c, <2>1, <2>2, <2>3
    <3> QED
      BY <1>0, <1>c, <1>t, <2>1, <2>2, <2>3, <3>1
  <2>4. CASE q # OrderOf[l]
    <3>1. claimed'[q] = claimed[q]
      BY <1>9, <1>t, <2>1, <2>4 DEF WriteProduct
    <3> QED
      BY <1>0, <1>b, <1>t, <2>1, <2>2, <2>4, <3>1
  <2> QED
    BY <2>3, <2>4
<1>10. ASSUME NEW o \in Orders, WriteCart(o) PROVE InScope(q)'
  <2>1. o \in Branches /\ Parent(o) = o /\ DocOf(o) = UserOf[o]
    BY ConstantTypes DEF Branches
  <2>2. q = o => pc[q] = "run"
    BY <1>0, <1>10, <1>c, <2>1 DEF WriteCart
  <2> QED
    BY <1>0, <1>10, <1>b, <1>c, <1>t, <2>1, <2>2 DEF WriteCart, callVars
<1>11. ASSUME NEW o \in Orders, DiscardWrites(o), txn' = [txn EXCEPT ![o] = "aborted"],
              pc' = pc \/ pc' = [pc EXCEPT ![o] = "unlock"],
              \A b \in Branches : at'[b] = at[b] \/ Parent(b) = o
       PROVE  InScope(q)'
  BY <1>0, <1>11, <1>b, <1>t DEF DiscardWrites, ForgetWrites
<1>12. ASSUME NEW b \in Branches, WriteRefused(b) PROVE InScope(q)'
  <2>1. /\ Parent(b) \in Orders /\ UNCHANGED pc /\ at[b] # "idle" /\ at' = [at EXCEPT ![b] = "erred"]
        /\ \A c \in Branches : at'[c] = at[c] \/ Parent(c) = Parent(b)
    BY <1>12, <1>t, ConstantTypes DEF WriteRefused, callVars
  <2>2. CASE UNCHANGED txnVars
    BY <1>7, <1>t, <2>1, <2>2 DEF txnVars
  <2>3. CASE txn' = [txn EXCEPT ![Parent(b)] = "aborted"] /\ DiscardWrites(Parent(b))
    BY <1>11, <2>1, <2>3
  <2> QED
    BY <1>12, <2>2, <2>3 DEF WriteRefused
<1>13. ASSUME NEW o \in Orders, Abort(o) \/ TxnTimeout(o) PROVE InScope(q)'
  BY <1>11, <1>13 DEF Abort, TxnTimeout, branchVars, callVars
<1>14. ASSUME NEW o \in Orders, Commit(o) \/ CommitUnknown(o) PROVE InScope(q)'
  <2>1. /\ ForgetWrites(o) /\ txn' = [txn EXCEPT ![o] = "committed"]
        /\ pc' = [pc EXCEPT ![o] = "unlock"] /\ UNCHANGED at
    BY <1>14 DEF Commit, CommitUnknown, ApplyWrites, branchVars
  <2> QED
    BY <1>0, <1>t, <2>1 DEF ForgetWrites
<1>15. ASSUME NEW o \in Orders, UnlockOrder(o) PROVE InScope(q)'
  <2>1. UNCHANGED <<txn, wrote, claimed, at>> /\ pc[o] # "run"
    BY <1>15 DEF UnlockOrder, txnVars, branchVars
  <2>2. pc' = [pc EXCEPT ![o] = "emit"] \/ End(o, "failed")
    BY <1>15 DEF UnlockOrder
  <2>3. CASE pc' = [pc EXCEPT ![o] = "emit"]
    BY <1>0, <1>t, <2>1, <2>3
  <2> QED
    BY <1>2, <2>1, <2>2, <2>3
<1>16. ASSUME NEW o \in Orders, Crash(o) PROVE InScope(q)'
  BY <1>0, <1>16, <1>b, <1>t DEF Crash, txnVars
<1>17. ASSUME NEW o \in Orders, NEW p \in Products, ReviewProduct(o, p) PROVE InScope(q)'
  BY <1>1, <1>17 DEF ReviewProduct, txnVars, branchVars
<1>18. ASSUME NEW k \in Docs, Expiry(k) PROVE InScope(q)'
  BY <1>1, <1>18 DEF Expiry, ExpireOrderKey, ExpireWriteKey, callVars, txnVars, branchVars
<1>19. ASSUME Quiet \/ UNCHANGED vars PROVE InScope(q)'
  BY <1>1, <1>19 DEF Quiet, vars, callVars, txnVars, branchVars
<1> QED
  BY <1>3, <1>4, <1>5, <1>6, <1>8, <1>9, <1>10, <1>12, <1>13, <1>14, <1>15, <1>16, <1>17, <1>18, <1>19
     DEF Next, CallStep, BranchStep

(* A commit leaves alone the products of every other running order: the    *)
(* two share no key.                                                       *)
LEMMA CommitApart ==
  ASSUME KeysHeld, WritesInScope, NEW o \in Orders, NEW q \in Orders, o # q,
         pc[o] = "run", pc[q] = "run", ApplyWrites(o)
  PROVE  \A p \in Products : p \in Keys(q) => stock'[p] = stock[p]
<1>1. Keys(o) \cap Keys(q) = {}
  BY DEF KeysHeld, Holds, InCriticalSection
<1>2. wrote[o] \subseteq Keys(o)
  BY DEF WritesInScope, InScope
<1> QED
  BY <1>1, <1>2 DEF ApplyWrites

LEMMA FreshCopiesNext ==
  ASSUME TypeOK, KeysHeld, WritesInScope, FreshCopies, \A o \in Orders : ~ RepeatsKey(o), [Next]_vars
  PROVE  FreshCopies'
<1> SUFFICES ASSUME NEW l \in Lines PROVE Fresh(l)'
  BY DEF FreshCopies
<1> DEFINE q == OrderOf[l]
<1>0. Fresh(l)
  BY DEF FreshCopies
<1>t. /\ pc \in [Orders -> Calls] /\ at \in [Branches -> Stations]
      /\ copy \in [Lines -> StockDocs] /\ wrote \in [Orders -> SUBSET Docs]
      /\ stock \in [Products -> StockDocs]
  BY DEF TypeOK, CallTypes, BranchTypes, TxnTypes, DbTypes
<1>c. /\ q \in Orders /\ l \in Branches /\ Parent(l) = q /\ DocOf(l) = ProductOf[l]
      /\ l \in BranchesOf(q) /\ ProductOf[l] \in Keys(q) /\ ProductOf[l] \in Products
  BY ConstantTypes DEF Branches, BranchesOf, LinesOf, Keys, ProductsOf
<1> USE DEF Fresh
<1>1. ASSUME UNCHANGED <<at, copy, wrote, stock>>, pc'[q] = "run" => pc[q] = "run" PROVE Fresh(l)'
  BY <1>0, <1>1
<1>2. ASSUME NEW o \in Orders, NEW p \in Products, ReviewProduct(o, p) PROVE Fresh(l)'
  BY <1>1, <1>2 DEF ReviewProduct, branchVars, txnVars, dbVars
<1>3. ASSUME NEW o \in Orders,
             Reject(o) \/ StartTransaction(o) \/ LockOrderTimeout(o) \/ EmitCreated(o)
      PROVE  Fresh(l)'
  BY <1>1, <1>3, <1>c, <1>t
     DEF Reject, StartTransaction, LockOrderTimeout, EmitCreated, End, branchVars, txnVars, dbVars
<1>4. ASSUME NEW o \in Orders, LockOrder(o) PROVE Fresh(l)'
  <2>1. pc' = [pc EXCEPT ![o] = "run"] /\ UNCHANGED <<copy, wrote, stock>> /\ pc[o] = "lock"
    BY <1>4 DEF LockOrder, txnVars, dbVars
  <2>2. CASE o = q
    <3>1. wrote[q] = {}
      BY <1>c, <2>1, <2>2 DEF WritesInScope, InScope
    <3>2. at'[l] = "reading"
      BY <1>4, <1>c, <2>2 DEF LockOrder
    <3> QED
      BY <2>1, <3>1, <3>2
  <2>3. CASE o # q
    <3>1. l \notin BranchesOf(o)
      BY <1>c, <2>3, ConstantTypes DEF BranchesOf, LinesOf
    <3>2. at'[l] = at[l]
      BY <1>4, <1>c, <3>1 DEF LockOrder
    <3> QED
      BY <1>0, <1>c, <1>t, <2>1, <2>3, <3>2
  <2> QED
    BY <2>2, <2>3
<1>5. ASSUME NEW o \in Orders, InsertOrder(o) PROVE Fresh(l)'
  BY <1>1, <1>5 DEF InsertOrder, callVars, dbVars
<1>6. ASSUME NEW m \in Lines, ReadProduct(m) PROVE Fresh(l)'
  <2>1. UNCHANGED <<pc, wrote, stock>> /\ m \in Branches /\ at[m] = "reading"
    BY <1>6, ConstantTypes DEF ReadProduct, callVars, txnVars, dbVars, Branches
  <2>2. CASE /\ at' = [at EXCEPT ![m] = "read"]
             /\ copy' = [copy EXCEPT ![m] = [stock[ProductOf[m]] EXCEPT ![SkuOf[m]] = @ - Qty[m]]]
    BY <1>0, <1>c, <1>t, <2>1, <2>2
  <2>3. CASE at' = [at EXCEPT ![m] = "failed"] /\ UNCHANGED copy
    BY <1>0, <1>c, <1>t, <2>1, <2>3
  <2> QED
    BY <1>6, <2>2, <2>3 DEF ReadProduct
<1>7. ASSUME NEW o \in Orders, ReadCart(o) PROVE Fresh(l)'
  <2>1. UNCHANGED <<pc, wrote, stock, copy>> /\ at'[l] = at[l]
    BY <1>7, <1>c, <1>t, ConstantTypes DEF ReadCart, callVars, txnVars, dbVars, Branches
  <2> QED
    BY <1>0, <2>1
<1>8. ASSUME NEW b \in Branches, LockDoc(b) PROVE Fresh(l)'
  <2>1. UNCHANGED <<pc, wrote, stock, copy>>
    BY <1>8 DEF LockDoc, callVars, txnVars, dbVars
  <2>2. at[b] = "read" /\ at' = [at EXCEPT ![b] = "locked"]
    BY <1>8 DEF LockDoc
  <2> QED
    BY <1>0, <1>c, <1>t, <2>1, <2>2
<1>9. ASSUME NEW b \in Branches, LockDocTimeout(b) \/ UnlockDoc(b) PROVE Fresh(l)'
  <2>1. UNCHANGED <<pc, wrote, stock>> /\ ForgetCopy(b)
    BY <1>9 DEF LockDocTimeout, UnlockDoc, callVars, txnVars, dbVars
  <2>2. at'[b] \in {"done", "failed"} /\ at' = [at EXCEPT ![b] = at'[b]]
    BY <1>9, <1>t DEF LockDocTimeout, UnlockDoc
  <2>3. b # l => copy'[l] = copy[l] /\ at'[l] = at[l]
    BY <1>c, <1>t, <2>1, <2>2 DEF ForgetCopy
  <2> QED
    BY <1>0, <2>1, <2>2, <2>3
<1>10. ASSUME NEW m \in Lines, WriteProduct(m) PROVE Fresh(l)'
  <2>1. /\ UNCHANGED <<pc, stock, copy>> /\ at' = [at EXCEPT ![m] = "wrote"]
        /\ wrote' = [wrote EXCEPT ![OrderOf[m]] = @ \cup {ProductOf[m]}]
    BY <1>10 DEF WriteProduct, callVars, dbVars
  <2>2. CASE m = l
    BY <1>c, <1>t, <2>1, <2>2
  <2>3. CASE m # l
    <3>1. OrderOf[m] = q => ProductOf[m] # ProductOf[l]
      BY <1>c, <2>3 DEF RepeatsKey, LinesOf
    <3> QED
      BY <1>0, <1>c, <1>t, <2>1, <2>3, <3>1
  <2> QED
    BY <2>2, <2>3
<1>11. ASSUME NEW o \in Orders, WriteCart(o) PROVE Fresh(l)'
  <2>1. UNCHANGED <<pc, stock, copy>> /\ at'[l] = at[l] /\ UserOf[o] # ProductOf[l]
    BY <1>11, <1>c, <1>t, ConstantTypes, CheckoutAssumption DEF WriteCart, callVars, dbVars
  <2>2. wrote' = [wrote EXCEPT ![o] = @ \cup {UserOf[o]}]
    BY <1>11 DEF WriteCart
  <2> QED
    BY <1>0, <1>c, <1>t, <2>1, <2>2
<1>12. ASSUME NEW o \in Orders, DiscardWrites(o), UNCHANGED stock, pc'[q] = "run" => pc[q] = "run",
              copy' = copy, at'[l] = at[l] \/ at'[l] = "erred"
       PROVE  Fresh(l)'
  <2>1. ProductOf[l] \notin wrote[q] => ProductOf[l] \notin wrote'[q]
    BY <1>12, <1>c, <1>t DEF DiscardWrites, ForgetWrites
  <2> QED
    BY <1>0, <1>12, <2>1
<1>13. ASSUME NEW b \in Branches, WriteRefused(b) PROVE Fresh(l)'
  <2>1. /\ Parent(b) \in Orders /\ UNCHANGED <<pc, copy, stock>>
        /\ at'[l] = at[l] \/ at'[l] = "erred"
    BY <1>13, <1>c, <1>t, ConstantTypes DEF WriteRefused, callVars, dbVars
  <2>2. CASE UNCHANGED txnVars
    BY <1>0, <2>1, <2>2 DEF txnVars
  <2>3. CASE DiscardWrites(Parent(b))
    BY <1>12, <2>1, <2>3
  <2> QED
    BY <1>13, <2>2, <2>3 DEF WriteRefused
<1>14. ASSUME NEW o \in Orders, Abort(o) \/ TxnTimeout(o) PROVE Fresh(l)'
  BY <1>12, <1>14, <1>c, <1>t DEF Abort, TxnTimeout, branchVars, callVars, dbVars
<1>15. ASSUME NEW o \in Orders, Commit(o) \/ CommitUnknown(o) PROVE Fresh(l)'
  <2>1. /\ ApplyWrites(o) /\ pc[o] = "run" /\ pc' = [pc EXCEPT ![o] = "unlock"]
        /\ UNCHANGED <<at, copy>>
    BY <1>15 DEF Commit, CommitUnknown, AllSettled, branchVars
  <2>2. SUFFICES ASSUME pc'[q] = "run" PROVE Fresh(l)'
    BY <1>c
  <2>3. o # q /\ pc[q] = "run"
    BY <1>c, <1>t, <2>1, <2>2
  <2>4. stock'[ProductOf[l]] = stock[ProductOf[l]]
    BY <1>c, <2>1, <2>3, CommitApart
  <2>5. wrote'[q] = wrote[q]
    BY <1>c, <1>t, <2>1, <2>3 DEF ApplyWrites, ForgetWrites
  <2> QED
    BY <1>0, <2>1, <2>3, <2>4, <2>5
<1>16. ASSUME NEW o \in Orders, UnlockOrder(o) PROVE Fresh(l)'
  <2>1. pc' = [pc EXCEPT ![o] = "emit"] \/ pc' = [pc EXCEPT ![o] = "done"]
    BY <1>16 DEF UnlockOrder, End
  <2> QED
    BY <1>1, <1>16, <1>c, <1>t, <2>1 DEF UnlockOrder, branchVars, txnVars, dbVars
<1>17. ASSUME NEW o \in Orders, Crash(o) PROVE Fresh(l)'
  <2>1. pc' = [pc EXCEPT ![o] = "crashed"] /\ UNCHANGED <<wrote, stock>>
    BY <1>17 DEF Crash, txnVars, dbVars
  <2>2. o # q => l \notin BranchesOf(o)
    BY <1>c, ConstantTypes DEF BranchesOf, LinesOf
  <2>3. o # q => at'[l] = at[l] /\ copy'[l] = copy[l]
    BY <1>17, <1>c, <2>2 DEF Crash
  <2> QED
    BY <1>0, <1>c, <1>t, <2>1, <2>3
<1>18. ASSUME NEW k \in Docs, Expiry(k) PROVE Fresh(l)'
  BY <1>1, <1>18 DEF Expiry, ExpireOrderKey, ExpireWriteKey, callVars, txnVars, branchVars, dbVars
<1>19. ASSUME Quiet \/ UNCHANGED vars PROVE Fresh(l)'
  BY <1>1, <1>19 DEF Quiet, vars, callVars, txnVars, branchVars, dbVars
<1> QED
  BY <1>2, <1>3, <1>4, <1>5, <1>6, <1>7, <1>8, <1>9, <1>10, <1>11, <1>13, <1>14, <1>15, <1>16,
     <1>17, <1>18, <1>19 DEF Next, CallStep, BranchStep

LEMMA WritesBalancedNext ==
  ASSUME TypeOK, KeysHeld, WritesInScope, FreshCopies, WritesBalanced, [Next]_vars
  PROVE  WritesBalanced'
<1> SUFFICES ASSUME NEW q \in Orders, NEW p \in Products PROVE Balanced(q, p)'
  BY DEF WritesBalanced
<1>0. Balanced(q, p)
  BY DEF WritesBalanced
<1>t. /\ pc \in [Orders -> Calls] /\ copy \in [Lines -> StockDocs]
      /\ wrote \in [Orders -> SUBSET Docs]
      /\ pendStock \in [Orders -> [Products -> StockDocs]]
      /\ claimed \in [Orders -> [Products -> StockDocs]]
      /\ stock \in [Products -> StockDocs]
  BY DEF TypeOK, CallTypes, BranchTypes, TxnTypes, DbTypes
<1> USE DEF Balanced
<1>1. ASSUME UNCHANGED <<wrote, pendStock, claimed, stock>>, pc'[q] = "run" => pc[q] = "run"
      PROVE  Balanced(q, p)'
  BY <1>0, <1>1
<1>2. ASSUME NEW o \in Orders, NEW r \in Products, ReviewProduct(o, r) PROVE Balanced(q, p)'
  BY <1>1, <1>2 DEF ReviewProduct, txnVars, dbVars
<1>3. ASSUME NEW o \in Orders,
             \/ Reject(o) \/ StartTransaction(o) \/ LockOrderTimeout(o) \/ EmitCreated(o) \/ Crash(o)
      PROVE  Balanced(q, p)'
  BY <1>1, <1>3, <1>t
     DEF Reject, StartTransaction, LockOrderTimeout, EmitCreated, Crash, End, txnVars, dbVars
<1>4. ASSUME NEW o \in Orders, LockOrder(o) PROVE Balanced(q, p)'
  <2>1. /\ pc' = [pc EXCEPT ![o] = "run"] /\ UNCHANGED <<wrote, pendStock, claimed, stock>>
        /\ pc[o] = "lock"
    BY <1>4 DEF LockOrder, txnVars, dbVars
  <2>2. wrote[o] = {} /\ claimed[o] = ZeroStock
    BY <2>1 DEF WritesInScope, InScope
  <2>3. CASE o = q
    BY <2>1, <2>2, <2>3 DEF ZeroStock
  <2>4. CASE o # q
    BY <1>1, <1>t, <2>1, <2>4
  <2> QED
    BY <2>3, <2>4
<1>5. ASSUME NEW o \in Orders, InsertOrder(o) PROVE Balanced(q, p)'
  BY <1>1, <1>5 DEF InsertOrder, callVars, dbVars
<1>6. ASSUME NEW b \in Branches,
             \/ ReadProduct(b) \/ ReadCart(b) \/ LockDoc(b) \/ LockDocTimeout(b) \/ UnlockDoc(b)
      PROVE  Balanced(q, p)'
  BY <1>1, <1>6
     DEF ReadProduct, ReadCart, LockDoc, LockDocTimeout, UnlockDoc, callVars, txnVars, dbVars
<1>7. ASSUME NEW l \in Lines, WriteProduct(l) PROVE Balanced(q, p)'
  <2> DEFINE o == OrderOf[l]
             r == ProductOf[l]
             s == SkuOf[l]
  <2>1. /\ o \in Orders /\ r \in Products /\ s \in Skus /\ Qty[l] \in Nat
        /\ l \in BranchesOf(o) /\ l \in Branches
    BY ConstantTypes DEF BranchesOf, LinesOf, Branches
  <2>2. /\ UNCHANGED <<pc, stock>> /\ at[l] = "locked" /\ TxnUsable(o)
        /\ wrote' = [wrote EXCEPT ![o] = @ \cup {r}]
        /\ pendStock' = [pendStock EXCEPT ![o][r] = copy[l]]
        /\ claimed' = [claimed EXCEPT ![o][r][s] = @ + Qty[l]]
    BY <1>7 DEF WriteProduct, callVars, dbVars
  <2>3. CASE q = o /\ p = r
    <3>1. pc[o] = "run"
      BY <2>1, <2>2 DEF WritesInScope, InScope
    <3>2. r \notin wrote[o] /\ copy[l] = [stock[r] EXCEPT ![s] = @ - Qty[l]]
      BY <2>1, <2>2, <3>1 DEF FreshCopies, Fresh
    <3>3. claimed[o][r] = ZeroDoc
      BY <1>0, <2>3, <3>1, <3>2
    <3>4. claimed'[o][r] = [ZeroDoc EXCEPT ![s] = @ + Qty[l]] /\ pendStock'[o][r] = copy[l]
      BY <1>t, <2>1, <2>2, <3>3
    <3>5. ASSUME NEW v \in Skus PROVE pendStock'[o][r][v] + claimed'[o][r][v] = stock[r][v]
      <4>1. stock[r] \in StockDocs
        BY <1>t, <2>1
      <4>2. pendStock'[o][r][v] = IF v = s THEN stock[r][v] - Qty[l] ELSE stock[r][v]
        BY <3>2, <3>4, <4>1 DEF StockDocs
      <4>3. claimed'[o][r][v] = IF v = s THEN Qty[l] ELSE 0
        BY <2>1, <3>4 DEF ZeroDoc
      <4>4. stock[r][v] \in Nat
        BY <4>1 DEF StockDocs
      <4> QED
        BY <2>1, <4>2, <4>3, <4>4
    <3>6. p \in wrote'[q]
      BY <1>t, <2>1, <2>2, <2>3
    <3> QED
      BY <2>2, <2>3, <3>5, <3>6
  <2>4. CASE q # o \/ p # r
    <3>1. pendStock'[q][p] = pendStock[q][p] /\ claimed'[q][p] = claimed[q][p]
      BY <1>t, <2>1, <2>2, <2>4
    <3>2. p \in wrote'[q] <=> p \in wrote[q]
      BY <1>t, <2>1, <2>2, <2>4
    <3> QED
      BY <1>0, <2>2, <3>1, <3>2
  <2> QED
    BY <2>3, <2>4
<1>8. ASSUME NEW o \in Orders, WriteCart(o) PROVE Balanced(q, p)'
  <2>1. UNCHANGED <<pc, pendStock, claimed, stock>> /\ wrote' = [wrote EXCEPT ![o] = @ \cup {UserOf[o]}]
    BY <1>8 DEF WriteCart, callVars, dbVars
  <2>2. p \in wrote'[q] <=> p \in wrote[q]
    BY <1>t, <2>1, ConstantTypes, CheckoutAssumption
  <2> QED
    BY <1>0, <2>1, <2>2
<1>9. ASSUME NEW o \in Orders, DiscardWrites(o), UNCHANGED stock, pc'[q] = "run" => pc[q] = "run"
      PROVE  Balanced(q, p)'
  <2>1. CASE o = q
    BY <1>9, <1>t, <2>1 DEF DiscardWrites, ForgetWrites, ZeroStock
  <2>2. CASE o # q
    BY <1>0, <1>9, <1>t, <2>2 DEF DiscardWrites, ForgetWrites
  <2> QED
    BY <2>1, <2>2
<1>10. ASSUME NEW b \in Branches, WriteRefused(b) PROVE Balanced(q, p)'
  <2>1. Parent(b) \in Orders /\ UNCHANGED <<pc, stock>>
    BY <1>10, ConstantTypes DEF WriteRefused, callVars, dbVars
  <2>2. UNCHANGED txnVars \/ DiscardWrites(Parent(b))
    BY <1>10 DEF WriteRefused
  <2> QED
    BY <1>1, <1>9, <2>1, <2>2 DEF txnVars
<1>11. ASSUME NEW o \in Orders, Abort(o) \/ TxnTimeout(o) PROVE Balanced(q, p)'
  BY <1>9, <1>11, <1>t DEF Abort, TxnTimeout, callVars, dbVars
<1>12. ASSUME NEW o \in Orders, Commit(o) \/ CommitUnknown(o) PROVE Balanced(q, p)'
  <2>1. ApplyWrites(o) /\ pc[o] = "run" /\ pc' = [pc EXCEPT ![o] = "unlock"]
    BY <1>12 DEF Commit, CommitUnknown, AllSettled
  <2>2. SUFFICES ASSUME pc'[q] = "run" PROVE Balanced(q, p)'
    OBVIOUS
  <2>3. o # q /\ pc[q] = "run"
    BY <1>t, <2>1, <2>2
  <2>4. wrote'[q] = wrote[q] /\ pendStock'[q] = pendStock[q] /\ claimed'[q] = claimed[q]
    BY <1>t, <2>1, <2>3 DEF ApplyWrites, ForgetWrites
  <2>5. p \in wrote[q] => stock'[p] = stock[p]
    BY <2>1, <2>3, CommitApart DEF WritesInScope, InScope
  <2> QED
    BY <1>0, <2>3, <2>4, <2>5
<1>13. ASSUME NEW o \in Orders, UnlockOrder(o) PROVE Balanced(q, p)'
  <2>1. pc' = [pc EXCEPT ![o] = "emit"] \/ pc' = [pc EXCEPT ![o] = "done"]
    BY <1>13 DEF UnlockOrder, End
  <2> QED
    BY <1>1, <1>13, <1>t, <2>1 DEF UnlockOrder, txnVars, dbVars
<1>14. ASSUME NEW k \in Docs, Expiry(k) PROVE Balanced(q, p)'
  BY <1>1, <1>14 DEF Expiry, ExpireOrderKey, ExpireWriteKey, callVars, txnVars, dbVars
<1>15. ASSUME Quiet \/ UNCHANGED vars PROVE Balanced(q, p)'
  BY <1>1, <1>15 DEF Quiet, vars, callVars, txnVars, dbVars
<1> QED
  BY <1>2, <1>3, <1>4, <1>5, <1>6, <1>7, <1>8, <1>10, <1>11, <1>12, <1>13, <1>14, <1>15
     DEF Next, CallStep, BranchStep

LEMMA StockConservedNext ==
  ASSUME TypeOK, WritesBalanced, StockConserved, [Next]_vars
  PROVE  StockConserved'
<1>1. CASE UNCHANGED dbVars
  BY <1>1 DEF StockConserved, dbVars
<1>2. ASSUME NEW o \in Orders, Commit(o) \/ CommitUnknown(o) PROVE StockConserved'
  <2>1. pc[o] = "run" /\ ApplyWrites(o)
    BY <1>2 DEF Commit, CommitUnknown, AllSettled
  <2>2. SUFFICES ASSUME NEW p \in Products, NEW s \in Skus
                 PROVE  stock'[p][s] + sold'[p][s] = InitStock[p][s]
    BY DEF StockConserved
  <2>3. /\ stock[p][s] \in Nat /\ sold[p][s] \in Nat
        /\ pendStock[o][p][s] \in Nat /\ claimed[o][p][s] \in Nat
    BY DEF TypeOK, TxnTypes, DbTypes, StockDocs
  <2>4. stock'[p][s] = (IF p \in wrote[o] THEN pendStock[o][p][s] ELSE stock[p][s])
    BY <2>1 DEF ApplyWrites
  <2>5. sold'[p][s] = sold[p][s] + claimed[o][p][s]
    BY <2>1 DEF ApplyWrites
  <2>6. stock'[p][s] + claimed[o][p][s] = stock[p][s]
    BY <2>1, <2>3, <2>4 DEF WritesBalanced, Balanced, ZeroDoc
  <2>7. stock[p][s] + sold[p][s] = InitStock[p][s]
    BY DEF StockConserved
  <2> QED
    BY <2>3, <2>4, <2>5, <2>6, <2>7
<1>3. ASSUME NEW o \in Orders, ReadCart(o) PROVE StockConserved'
  BY <1>3 DEF ReadCart, StockConserved
<1> QED
  BY <1>1, <1>2, <1>3, DbFrame

LEMMA IndInvInit == Init => IndInv
<1> SUFFICES ASSUME Init PROVE IndInv
  OBVIOUS
<1>1. KeysHeld /\ FreshCopies /\ WritesBalanced
  BY KeysHeldInit, ConstantTypes DEF Init, FreshCopies, Fresh, WritesBalanced, Balanced
<1>2. WritesInScope
  BY ConstantTypes DEF Init, WritesInScope, InScope
<1>3. StockConserved
  BY CheckoutAssumption DEF Init, StockConserved, ZeroStock, ZeroDoc, StockDocs
<1> QED
  BY <1>1, <1>2, <1>3 DEF IndInv

(* If no key expires under its holder and no order names a product in two  *)
(* lines, no unit is lost or sold twice, whatever crashes, conflicts, lost *)
(* replies and stragglers there are.                                       *)
THEOREM Conservation ==
  "expiry" \notin Faults /\ (\A o \in Orders : ~ RepeatsKey(o)) => (Spec => []StockConserved)
<1> SUFFICES ASSUME "expiry" \notin Faults, \A o \in Orders : ~ RepeatsKey(o)
             PROVE  Spec => []StockConserved
  OBVIOUS
<1>1. Init => IndInv
  BY IndInvInit
<1>2. TypeOK /\ IndInv /\ [Next]_vars => IndInv'
  BY KeysHeldNext, WritesInScopeNext, FreshCopiesNext, WritesBalancedNext, StockConservedNext
     DEF IndInv
<1>3. IndInv => StockConserved
  BY DEF IndInv
<1> QED
  BY <1>1, <1>2, <1>3, TypeCorrect, PTL DEF Spec

-----------------------------------------------------------------------------
(* The cart, and that Checkout implements the ledger.                      *)

(* As for products: what the cart branch of a running order has read, and  *)
(* what it has written, is still the committed cart without the order's    *)
(* items.                                                                  *)
FreshCart(o) ==
  LET u == UserOf[o] IN
  pc[o] = "run" =>
    /\ at[o] \in {"read", "locked"} => cart[u] # None /\ cartCopy[o] = cart[u] \ ItemsOf(o)
    /\ u \in wrote[o] => cart[u] # None /\ pendCart[o] = cart[u] \ ItemsOf(o)

FreshCarts == \A o \in Orders : FreshCart(o)

(* A branch that has written has its document in the transaction, unless   *)
(* the transaction is lost; a cart branch may have found no cart, or have  *)
(* failed to read it.                                                      *)
Written(b) ==
  LET o == Parent(b) IN
  pc[o] = "run" /\ at[b] \in {"wrote", "done"} =>
    \/ DocOf(b) \in wrote[o] \/ ~ TxnUsable(o)
    \/ b \in Orders /\ (cart[UserOf[b]] = None \/ b \in unread)

AllWritten == \A b \in Branches : Written(b)

(* The transaction claims of a product what its one line asks for.         *)
Claimed(l) ==
  LET o == OrderOf[l]
      p == ProductOf[l] IN
  pc[o] = "run" /\ p \in wrote[o] => claimed[o][p] = [ZeroDoc EXCEPT ![SkuOf[l]] = Qty[l]]

AllClaimed == \A l \in Lines : Claimed(l)

(* Until its commit an order is not there.                                 *)
Unordered == \A o \in Orders : pc[o] \in {"review", "lock", "run"} => o \notin orders

(* A call that could not read the cart never writes it; and an order whose *)
(* cart branch is still under way is not there.                            *)
Blind(o) ==
  LET u == UserOf[o] IN
  /\ pc[o] \in {"review", "lock"} => at[o] = "idle" /\ o \notin unread
  /\ pc[o] = "run" =>
       /\ at[o] \in {"reading", "read", "locked"} => u \notin wrote[o]
       /\ o \in unread => u \notin wrote[o] /\ cart[u] # None
  /\ o \in unread => at[o] \in {"idle", "done"}
  /\ o \in orders => at[o] \in {"idle", "done"}

AllBlind == \A o \in Orders : Blind(o)

(* A commit leaves alone the cart of every other running order.            *)
LEMMA CommitApartCart ==
  ASSUME KeysHeld, WritesInScope, NEW o \in Orders, NEW q \in Orders, o # q,
         pc[o] = "run", pc[q] = "run", ApplyWrites(o)
  PROVE  cart'[UserOf[q]] = cart[UserOf[q]]
<1>1. Keys(o) \cap Keys(q) = {} /\ UserOf[q] \in Keys(q) /\ UserOf[q] \in Users
  BY ConstantTypes DEF KeysHeld, Holds, InCriticalSection, Keys
<1>2. wrote[o] \subseteq Keys(o)
  BY DEF WritesInScope, InScope
<1> QED
  BY <1>1, <1>2 DEF ApplyWrites

LEMMA FreshCartsNext ==
  ASSUME TypeOK, KeysHeld, WritesInScope, FreshCarts, [Next]_vars
  PROVE  FreshCarts'
<1> SUFFICES ASSUME NEW q \in Orders PROVE FreshCart(q)'
  BY DEF FreshCarts
<1>0. FreshCart(q)
  BY DEF FreshCarts
<1>t. /\ pc \in [Orders -> Calls] /\ at \in [Branches -> Stations]
      /\ cartCopy \in [Orders -> SUBSET Items] /\ pendCart \in [Orders -> SUBSET Items]
      /\ wrote \in [Orders -> SUBSET Docs] /\ cart \in [Users -> {None} \cup SUBSET Items]
  BY DEF TypeOK, CallTypes, BranchTypes, TxnTypes, DbTypes
<1>c. /\ q \in Branches /\ q \notin Lines /\ UserOf[q] \in Users /\ Parent(q) = q
      /\ \A b \in Branches : Parent(b) \in Orders
      /\ \A l \in Lines : l \in Branches /\ OrderOf[l] \in Orders /\ ProductOf[l] # UserOf[q]
  BY ConstantTypes, CheckoutAssumption DEF Branches
<1> USE DEF FreshCart
<1>1. ASSUME UNCHANGED <<at, cartCopy, wrote, pendCart, cart>>, pc'[q] = "run" => pc[q] = "run"
      PROVE  FreshCart(q)'
  BY <1>0, <1>1
<1>2. ASSUME NEW o \in Orders, NEW p \in Products, ReviewProduct(o, p) PROVE FreshCart(q)'
  BY <1>1, <1>2 DEF ReviewProduct, txnVars, branchVars, dbVars
<1>3. ASSUME NEW o \in Orders,
             Reject(o) \/ StartTransaction(o) \/ LockOrderTimeout(o) \/ EmitCreated(o)
      PROVE  FreshCart(q)'
  BY <1>1, <1>3, <1>t
     DEF Reject, StartTransaction, LockOrderTimeout, EmitCreated, End, txnVars, branchVars, dbVars
<1>4. ASSUME NEW o \in Orders, LockOrder(o) PROVE FreshCart(q)'
  <2>1. /\ pc' = [pc EXCEPT ![o] = "run"] /\ UNCHANGED <<cartCopy, wrote, pendCart, cart>>
        /\ pc[o] = "lock" /\ at' = [b \in Branches |-> IF b \in BranchesOf(o) THEN "reading" ELSE at[b]]
    BY <1>4 DEF LockOrder, txnVars, dbVars
  <2>2. CASE o = q
    <3>1. wrote[q] = {} /\ q \in BranchesOf(q)
      BY <2>1, <2>2 DEF WritesInScope, InScope, BranchesOf
    <3> QED
      BY <1>c, <2>1, <2>2, <3>1
  <2>3. CASE o # q
    <3>1. q \notin BranchesOf(o)
      BY <1>c, <2>3 DEF BranchesOf, LinesOf
    <3> QED
      BY <1>0, <1>c, <1>t, <2>1, <2>3, <3>1
  <2> QED
    BY <2>2, <2>3
<1>5. ASSUME NEW o \in Orders, InsertOrder(o) PROVE FreshCart(q)'
  BY <1>1, <1>5 DEF InsertOrder, callVars, dbVars
<1>6. ASSUME NEW m \in Lines, ReadProduct(m) PROVE FreshCart(q)'
  <2>1. at'[q] = at[q] /\ UNCHANGED <<pc, cartCopy, wrote, pendCart, cart>>
    BY <1>6, <1>c, <1>t DEF ReadProduct, callVars, txnVars, dbVars
  <2> QED
    BY <1>0, <2>1
<1>7. ASSUME NEW o \in Orders, ReadCart(o) PROVE FreshCart(q)'
  <2>1. UNCHANGED <<pc, wrote, pendCart, cart>>
    BY <1>7 DEF ReadCart, callVars, txnVars, dbVars
  <2>2. CASE o = q
    BY <1>0, <1>7, <1>c, <1>t, <2>1, <2>2 DEF ReadCart
  <2>3. CASE o # q
    <3>1. at'[q] = at[q] /\ cartCopy'[q] = cartCopy[q]
      BY <1>7, <1>c, <1>t, <2>3 DEF ReadCart
    <3> QED
      BY <1>0, <2>1, <3>1
  <2> QED
    BY <2>2, <2>3
<1>8. ASSUME NEW b \in Branches, LockDoc(b) PROVE FreshCart(q)'
  <2>1. UNCHANGED <<pc, cartCopy, wrote, pendCart, cart>>
    BY <1>8 DEF LockDoc, callVars, txnVars, dbVars
  <2>2. at[b] = "read" /\ at' = [at EXCEPT ![b] = "locked"]
    BY <1>8 DEF LockDoc
  <2> QED
    BY <1>0, <1>c, <1>t, <2>1, <2>2
<1>9. ASSUME NEW b \in Branches, LockDocTimeout(b) \/ UnlockDoc(b) PROVE FreshCart(q)'
  <2>1. UNCHANGED <<pc, wrote, pendCart, cart>> /\ ForgetCopy(b)
    BY <1>9 DEF LockDocTimeout, UnlockDoc, callVars, txnVars, dbVars
  <2>2. at'[b] \in {"done", "failed"} /\ at' = [at EXCEPT ![b] = at'[b]]
    BY <1>9, <1>t DEF LockDocTimeout, UnlockDoc
  <2>3. b # q => cartCopy'[q] = cartCopy[q] /\ at'[q] = at[q]
    BY <1>c, <1>t, <2>1, <2>2 DEF ForgetCopy
  <2> QED
    BY <1>0, <2>1, <2>2, <2>3
<1>10. ASSUME NEW m \in Lines, WriteProduct(m) PROVE FreshCart(q)'
  <2>1. UNCHANGED <<pc, cartCopy, pendCart, cart>> /\ at'[q] = at[q]
    BY <1>10, <1>c, <1>t DEF WriteProduct, callVars, dbVars
  <2>2. wrote' = [wrote EXCEPT ![OrderOf[m]] = @ \cup {ProductOf[m]}]
    BY <1>10 DEF WriteProduct
  <2>3. UserOf[q] \in wrote'[q] => UserOf[q] \in wrote[q]
    BY <1>c, <1>t, <2>2
  <2> QED
    BY <1>0, <2>1, <2>3
<1>11. ASSUME NEW o \in Orders, WriteCart(o) PROVE FreshCart(q)'
  <2>1. /\ UNCHANGED <<pc, cartCopy, cart>> /\ at[o] = "locked" /\ at' = [at EXCEPT ![o] = "wrote"]
        /\ wrote' = [wrote EXCEPT ![o] = @ \cup {UserOf[o]}]
        /\ pendCart' = [pendCart EXCEPT ![o] = cartCopy[o]]
    BY <1>11 DEF WriteCart, callVars, dbVars
  <2> QED
    BY <1>0, <1>c, <1>t, <2>1
<1>12. ASSUME NEW o \in Orders, DiscardWrites(o), UNCHANGED cart, pc'[q] = "run" => pc[q] = "run",
              cartCopy' = cartCopy, at'[q] = at[q] \/ at'[q] = "erred"
       PROVE  FreshCart(q)'
  <2>1. UserOf[q] \in wrote'[q] => UserOf[q] \in wrote[q] /\ pendCart'[q] = pendCart[q]
    BY <1>12, <1>c, <1>t DEF DiscardWrites, ForgetWrites
  <2> QED
    BY <1>0, <1>12, <2>1
<1>13. ASSUME NEW b \in Branches, WriteRefused(b) PROVE FreshCart(q)'
  <2>1. /\ Parent(b) \in Orders /\ UNCHANGED <<pc, cartCopy, cart>>
        /\ at'[q] = at[q] \/ at'[q] = "erred"
    BY <1>13, <1>c, <1>t DEF WriteRefused, callVars, dbVars
  <2>2. CASE UNCHANGED txnVars
    BY <1>0, <2>1, <2>2 DEF txnVars
  <2>3. CASE DiscardWrites(Parent(b))
    BY <1>12, <2>1, <2>3
  <2> QED
    BY <1>13, <2>2, <2>3 DEF WriteRefused
<1>14. ASSUME NEW o \in Orders, Abort(o) \/ TxnTimeout(o) PROVE FreshCart(q)'
  BY <1>12, <1>14, <1>t DEF Abort, TxnTimeout, branchVars, callVars, dbVars
<1>15. ASSUME NEW o \in Orders, Commit(o) \/ CommitUnknown(o) PROVE FreshCart(q)'
  <2>1. /\ ApplyWrites(o) /\ pc[o] = "run" /\ pc' = [pc EXCEPT ![o] = "unlock"]
        /\ UNCHANGED <<at, cartCopy>>
    BY <1>15 DEF Commit, CommitUnknown, AllSettled, branchVars
  <2>2. SUFFICES ASSUME pc'[q] = "run" PROVE FreshCart(q)'
    OBVIOUS
  <2>3. o # q /\ pc[q] = "run"
    BY <1>t, <2>1, <2>2
  <2>4. cart'[UserOf[q]] = cart[UserOf[q]]
    BY <2>1, <2>3, CommitApartCart
  <2>5. wrote'[q] = wrote[q] /\ pendCart'[q] = pendCart[q]
    BY <1>t, <2>1, <2>3 DEF ApplyWrites, ForgetWrites
  <2> QED
    BY <1>0, <2>1, <2>3, <2>4, <2>5
<1>16. ASSUME NEW o \in Orders, UnlockOrder(o) PROVE FreshCart(q)'
  <2>1. pc' = [pc EXCEPT ![o] = "emit"] \/ pc' = [pc EXCEPT ![o] = "done"]
    BY <1>16 DEF UnlockOrder, End
  <2> QED
    BY <1>1, <1>16, <1>t, <2>1 DEF UnlockOrder, branchVars, txnVars, dbVars
<1>17. ASSUME NEW o \in Orders, Crash(o) PROVE FreshCart(q)'
  <2>1. pc' = [pc EXCEPT ![o] = "crashed"] /\ UNCHANGED <<wrote, pendCart, cart>>
    BY <1>17 DEF Crash, txnVars, dbVars
  <2>2. o # q => q \notin BranchesOf(o)
    BY <1>c DEF BranchesOf, LinesOf
  <2>3. o # q => at'[q] = at[q] /\ cartCopy'[q] = cartCopy[q]
    BY <1>17, <1>c, <1>t, <2>2 DEF Crash
  <2> QED
    BY <1>0, <1>t, <2>1, <2>3
<1>18. ASSUME NEW k \in Docs, Expiry(k) PROVE FreshCart(q)'
  BY <1>1, <1>18 DEF Expiry, ExpireOrderKey, ExpireWriteKey, callVars, txnVars, branchVars, dbVars
<1>19. ASSUME Quiet \/ UNCHANGED vars PROVE FreshCart(q)'
  BY <1>1, <1>19 DEF Quiet, vars, callVars, txnVars, branchVars, dbVars
<1> QED
  BY <1>2, <1>3, <1>4, <1>5, <1>6, <1>7, <1>8, <1>9, <1>10, <1>11, <1>13, <1>14, <1>15, <1>16,
     <1>17, <1>18, <1>19 DEF Next, CallStep, BranchStep

LEMMA AllWrittenNext ==
  ASSUME TypeOK, KeysHeld, WritesInScope, AllWritten, [Next]_vars
  PROVE  AllWritten'
<1> SUFFICES ASSUME NEW b \in Branches PROVE Written(b)'
  BY DEF AllWritten
<1> DEFINE q == Parent(b)
<1>0. Written(b)
  BY DEF AllWritten
<1>t. /\ pc \in [Orders -> Calls] /\ at \in [Branches -> Stations]
      /\ txn \in [Orders -> {"idle", "open", "committed", "aborted"}]
      /\ wrote \in [Orders -> SUBSET Docs] /\ cart \in [Users -> {None} \cup SUBSET Items]
  BY DEF TypeOK, CallTypes, BranchTypes, TxnTypes, DbTypes
<1>c. /\ q \in Orders /\ b \in BranchesOf(q) /\ (b \in Orders => q = b /\ DocOf(b) = UserOf[b])
      /\ \A o \in Orders \ {q} : b \notin BranchesOf(o)
      /\ \A c \in Branches : Parent(c) \in Orders
      /\ \A o \in Orders : o \in Branches /\ o \notin Lines /\ UserOf[o] \in Users
                           /\ Parent(o) = o /\ DocOf(o) = UserOf[o]
      /\ \A l \in Lines : l \in Branches /\ l \notin Orders /\ OrderOf[l] \in Orders
                          /\ Parent(l) = OrderOf[l] /\ DocOf(l) = ProductOf[l]
  BY ConstantTypes, CheckoutAssumption DEF Branches, BranchesOf, LinesOf, Parent, DocOf
<1> HIDE DEF q
<1>d. Written(b) = (pc[q] = "run" /\ at[b] \in {"wrote", "done"} =>
                      \/ DocOf(b) \in wrote[q] \/ ~ TxnUsable(q)
                      \/ b \in Orders /\ (cart[UserOf[b]] = None \/ b \in unread))
  BY DEF Written, q
<1>e. Written(b)' = (pc'[q] = "run" /\ at'[b] \in {"wrote", "done"} =>
                      \/ DocOf(b) \in wrote'[q] \/ ~ (txn'[q] \in {"idle", "open"})
                      \/ b \in Orders /\ (cart'[UserOf[b]] = None \/ b \in unread'))
  BY DEF Written, q, TxnUsable
<1> USE DEF TxnUsable
<1>1. ASSUME pc'[q] = "run" => pc[q] = "run", UNCHANGED <<wrote, cart, unread>>,
             at'[b] \in {"wrote", "done"} => at'[b] = at[b],
             txn'[q] \in {"idle", "open"} => TxnUsable(q)
      PROVE  Written(b)'
  BY <1>0, <1>1, <1>d, <1>e
<1>2. ASSUME NEW o \in Orders, NEW p \in Products, ReviewProduct(o, p) PROVE Written(b)'
  BY <1>1, <1>2 DEF ReviewProduct, txnVars, branchVars, dbVars
<1>3. ASSUME NEW o \in Orders,
             Reject(o) \/ StartTransaction(o) \/ LockOrderTimeout(o) \/ EmitCreated(o)
      PROVE  Written(b)'
  BY <1>1, <1>3, <1>c, <1>t
     DEF Reject, StartTransaction, LockOrderTimeout, EmitCreated, End, txnVars, branchVars, dbVars
<1>4. ASSUME NEW o \in Orders, LockOrder(o) PROVE Written(b)'
  <2>1. /\ pc' = [pc EXCEPT ![o] = "run"] /\ UNCHANGED <<wrote, txn, cart, unread>>
        /\ at' = [c \in Branches |-> IF c \in BranchesOf(o) THEN "reading" ELSE at[c]]
    BY <1>4 DEF LockOrder, txnVars, dbVars
  <2>2. CASE o = q
    BY <1>c, <1>e, <2>1, <2>2
  <2>3. CASE o # q
    BY <1>1, <1>c, <1>t, <2>1, <2>3
  <2> QED
    BY <2>2, <2>3
<1>5. ASSUME NEW o \in Orders, InsertOrder(o) PROVE Written(b)'
  <2>1. UNCHANGED <<pc, at, wrote, cart, unread>>
    BY <1>5 DEF InsertOrder, callVars, dbVars
  <2>2. txn' = txn \/ (TxnUsable(o) /\ txn' = [txn EXCEPT ![o] = "open"])
    BY <1>5 DEF InsertOrder
  <2> QED
    BY <1>1, <1>c, <1>t, <2>1, <2>2
<1>6. ASSUME NEW l \in Lines, ReadProduct(l) PROVE Written(b)'
  <2>1. /\ UNCHANGED <<pc, txn, wrote, cart, unread>>
        /\ at' = [at EXCEPT ![l] = "read"] \/ at' = [at EXCEPT ![l] = "failed"]
    BY <1>6 DEF ReadProduct, callVars, txnVars, dbVars
  <2> QED
    BY <1>1, <1>c, <1>t, <2>1
<1>7. ASSUME NEW o \in Orders, ReadCart(o) PROVE Written(b)'
  <2>1. UNCHANGED <<pc, txn, wrote, cart>> /\ unread \subseteq unread'
    BY <1>7 DEF ReadCart, callVars, txnVars
  <2>2. CASE at' = [at EXCEPT ![o] = "done"] /\ (cart[UserOf[o]] # None => o \in unread')
    BY <1>0, <1>c, <1>d, <1>e, <1>t, <2>1, <2>2
  <2>3. CASE at' = [at EXCEPT ![o] = "read"]
    <3>1. at'[b] \in {"wrote", "done"} => at'[b] = at[b]
      BY <1>c, <1>t, <2>3
    <3> QED
      BY <1>0, <1>d, <1>e, <2>1, <3>1
  <2> QED
    BY <1>7, <2>2, <2>3 DEF ReadCart
<1>8. ASSUME NEW c \in Branches, LockDoc(c) \/ LockDocTimeout(c) PROVE Written(b)'
  <2>1. /\ UNCHANGED <<pc, txn, wrote, cart, unread>>
        /\ at' = [at EXCEPT ![c] = "locked"] \/ at' = [at EXCEPT ![c] = "failed"]
    BY <1>8 DEF LockDoc, LockDocTimeout, callVars, txnVars, dbVars
  <2> QED
    BY <1>1, <1>t, <2>1
<1>9. ASSUME NEW c \in Branches, UnlockDoc(c) PROVE Written(b)'
  <2>1. /\ UNCHANGED <<pc, txn, wrote, cart, unread>>
        /\ \/ at[c] = "wrote" /\ at' = [at EXCEPT ![c] = "done"]
           \/ at' = [at EXCEPT ![c] = "failed"]
    BY <1>9, <1>t DEF UnlockDoc, callVars, txnVars, dbVars
  <2> QED
    BY <1>0, <1>d, <1>e, <1>t, <2>1
<1>10. ASSUME NEW l \in Lines, WriteProduct(l) PROVE Written(b)'
  <2>1. /\ UNCHANGED <<pc, cart, unread>> /\ at' = [at EXCEPT ![l] = "wrote"] /\ TxnUsable(OrderOf[l])
        /\ txn' = [txn EXCEPT ![OrderOf[l]] = "open"]
        /\ wrote' = [wrote EXCEPT ![OrderOf[l]] = @ \cup {ProductOf[l]}]
    BY <1>10 DEF WriteProduct, callVars, dbVars
  <2>2. CASE b = l
    <3>1. q = OrderOf[l] /\ DocOf(b) \in wrote'[q]
      BY <1>c, <1>t, <2>1, <2>2 DEF q
    <3> QED
      BY <1>e, <3>1
  <2>3. CASE b # l
    <3>1. at'[b] = at[b] /\ wrote[q] \subseteq wrote'[q] /\ (TxnUsable(q)' => TxnUsable(q))
      BY <1>c, <1>t, <2>1, <2>3
    <3> QED
      BY <1>0, <1>d, <1>e, <2>1, <3>1
  <2> QED
    BY <2>2, <2>3
<1>11. ASSUME NEW o \in Orders, WriteCart(o) PROVE Written(b)'
  <2>1. /\ UNCHANGED <<pc, cart, unread>> /\ at' = [at EXCEPT ![o] = "wrote"] /\ TxnUsable(o)
        /\ txn' = [txn EXCEPT ![o] = "open"]
        /\ wrote' = [wrote EXCEPT ![o] = @ \cup {UserOf[o]}]
    BY <1>11 DEF WriteCart, callVars, dbVars
  <2>2. CASE b = o
    <3>1. q = o /\ DocOf(b) \in wrote'[q]
      BY <1>c, <1>t, <2>1, <2>2
    <3> QED
      BY <1>e, <3>1
  <2>3. CASE b # o
    <3>1. at'[b] = at[b] /\ wrote[q] \subseteq wrote'[q] /\ (TxnUsable(q)' => TxnUsable(q))
      BY <1>c, <1>t, <2>1, <2>3
    <3> QED
      BY <1>0, <1>d, <1>e, <2>1, <3>1
  <2> QED
    BY <2>2, <2>3
<1>12. ASSUME NEW o \in Orders, DiscardWrites(o), txn' = [txn EXCEPT ![o] = "aborted"],
              UNCHANGED <<cart, unread>>,
              pc'[q] = "run" => pc[q] = "run", at'[b] = at[b] \/ at'[b] = "erred"
       PROVE  Written(b)'
  <2>1. CASE o = q
    BY <1>12, <1>c, <1>e, <1>t, <2>1
  <2>2. CASE o # q
    <3>1. wrote'[q] = wrote[q] /\ txn'[q] = txn[q]
      BY <1>12, <1>c, <1>t, <2>2 DEF DiscardWrites, ForgetWrites
    <3> QED
      BY <1>0, <1>12, <1>d, <1>e, <3>1
  <2> QED
    BY <2>1, <2>2
<1>13. ASSUME NEW c \in Branches, WriteRefused(c) PROVE Written(b)'
  <2>1. /\ Parent(c) \in Orders /\ UNCHANGED <<pc, cart, unread>>
        /\ at'[b] = at[b] \/ at'[b] = "erred"
    BY <1>13, <1>c, <1>t DEF WriteRefused, callVars, dbVars
  <2>2. CASE UNCHANGED txnVars
    BY <1>1, <2>1, <2>2 DEF txnVars
  <2>3. CASE txn' = [txn EXCEPT ![Parent(c)] = "aborted"] /\ DiscardWrites(Parent(c))
    BY <1>12, <2>1, <2>3
  <2> QED
    BY <1>13, <2>2, <2>3 DEF WriteRefused
<1>14. ASSUME NEW o \in Orders, Abort(o) \/ TxnTimeout(o) PROVE Written(b)'
  BY <1>12, <1>14, <1>c, <1>t DEF Abort, TxnTimeout, branchVars, callVars, dbVars
<1>15. ASSUME NEW o \in Orders, Commit(o) \/ CommitUnknown(o) PROVE Written(b)'
  <2>1. /\ ApplyWrites(o) /\ pc[o] = "run" /\ pc' = [pc EXCEPT ![o] = "unlock"] /\ UNCHANGED at
    BY <1>15 DEF Commit, CommitUnknown, AllSettled, branchVars
  <2>2. SUFFICES ASSUME pc'[q] = "run" PROVE Written(b)'
    BY <1>e
  <2>3. o # q /\ pc[q] = "run"
    BY <1>c, <1>t, <2>1, <2>2
  <2>4. cart'[UserOf[q]] = cart[UserOf[q]]
    BY <1>c, <2>1, <2>3, CommitApartCart
  <2>5. wrote'[q] = wrote[q] /\ txn'[q] = txn[q]
    BY <1>c, <1>t, <2>1, <2>3 DEF ApplyWrites, ForgetWrites
  <2>6. unread' = unread
    BY <2>1 DEF ApplyWrites
  <2> QED
    BY <1>0, <1>c, <1>d, <1>e, <2>1, <2>3, <2>4, <2>5, <2>6
<1>16. ASSUME NEW o \in Orders, UnlockOrder(o) PROVE Written(b)'
  <2>1. pc' = [pc EXCEPT ![o] = "emit"] \/ pc' = [pc EXCEPT ![o] = "done"]
    BY <1>16 DEF UnlockOrder, End
  <2> QED
    BY <1>1, <1>16, <1>c, <1>t, <2>1 DEF UnlockOrder, branchVars, txnVars, dbVars
<1>17. ASSUME NEW o \in Orders, Crash(o) PROVE Written(b)'
  <2>1. /\ pc' = [pc EXCEPT ![o] = "crashed"] /\ UNCHANGED <<wrote, txn, cart, unread>>
        /\ at' = [c \in Branches |-> IF c \in BranchesOf(o) THEN "idle" ELSE at[c]]
    BY <1>17 DEF Crash, txnVars, dbVars
  <2>2. pc'[q] = "run" => pc[q] = "run"
    BY <1>c, <1>t, <2>1
  <2> QED
    BY <1>1, <2>1, <2>2
<1>18. ASSUME NEW k \in Docs, Expiry(k) PROVE Written(b)'
  BY <1>1, <1>18 DEF Expiry, ExpireOrderKey, ExpireWriteKey, callVars, txnVars, branchVars, dbVars
<1>19. ASSUME Quiet \/ UNCHANGED vars PROVE Written(b)'
  BY <1>1, <1>19 DEF Quiet, vars, callVars, txnVars, branchVars, dbVars
<1> QED
  BY <1>2, <1>3, <1>4, <1>5, <1>6, <1>7, <1>8, <1>9, <1>10, <1>11, <1>13, <1>14, <1>15, <1>16,
     <1>17, <1>18, <1>19 DEF Next, CallStep, BranchStep

LEMMA AllClaimedNext ==
  ASSUME TypeOK, WritesInScope, FreshCopies, WritesBalanced, AllClaimed,
         \A o \in Orders : ~ RepeatsKey(o), [Next]_vars
  PROVE  AllClaimed'
<1> SUFFICES ASSUME NEW l \in Lines PROVE Claimed(l)'
  BY DEF AllClaimed
<1> DEFINE q == OrderOf[l]
<1>0. Claimed(l)
  BY DEF AllClaimed
<1>t. /\ pc \in [Orders -> Calls] /\ wrote \in [Orders -> SUBSET Docs]
      /\ claimed \in [Orders -> [Products -> StockDocs]]
  BY DEF TypeOK, CallTypes, TxnTypes
<1>c. /\ q \in Orders /\ ProductOf[l] \in Products
      /\ \A o \in Orders : UserOf[o] # ProductOf[l]
      /\ \A m \in Lines : OrderOf[m] \in Orders /\ ProductOf[m] \in Products /\ SkuOf[m] \in Skus
                          /\ Qty[m] \in Nat /\ m \in Branches /\ m \in BranchesOf(OrderOf[m])
      /\ \A c \in Branches : Parent(c) \in Orders
  BY ConstantTypes, CheckoutAssumption DEF Branches, BranchesOf, LinesOf
<1> USE DEF Claimed
<1>1. ASSUME UNCHANGED <<wrote, claimed>>, pc'[q] = "run" => pc[q] = "run" PROVE Claimed(l)'
  BY <1>0, <1>1
<1>2. ASSUME NEW o \in Orders, NEW r \in Products, ReviewProduct(o, r) PROVE Claimed(l)'
  BY <1>1, <1>2 DEF ReviewProduct, txnVars
<1>3. ASSUME NEW o \in Orders,
             \/ Reject(o) \/ StartTransaction(o) \/ LockOrderTimeout(o) \/ EmitCreated(o) \/ Crash(o)
      PROVE  Claimed(l)'
  BY <1>1, <1>3, <1>c, <1>t
     DEF Reject, StartTransaction, LockOrderTimeout, EmitCreated, Crash, End, txnVars
<1>4. ASSUME NEW o \in Orders, LockOrder(o) PROVE Claimed(l)'
  <2>1. /\ pc' = [pc EXCEPT ![o] = "run"] /\ UNCHANGED <<wrote, claimed>> /\ pc[o] = "lock"
    BY <1>4 DEF LockOrder, txnVars
  <2>2. wrote[o] = {}
    BY <2>1 DEF WritesInScope, InScope
  <2> QED
    BY <1>1, <1>c, <1>t, <2>1, <2>2
<1>5. ASSUME NEW o \in Orders, InsertOrder(o) PROVE Claimed(l)'
  BY <1>1, <1>5 DEF InsertOrder, callVars
<1>6. ASSUME NEW b \in Branches,
             \/ ReadProduct(b) \/ ReadCart(b) \/ LockDoc(b) \/ LockDocTimeout(b) \/ UnlockDoc(b)
      PROVE  Claimed(l)'
  BY <1>1, <1>6 DEF ReadProduct, ReadCart, LockDoc, LockDocTimeout, UnlockDoc, callVars, txnVars
<1>7. ASSUME NEW m \in Lines, WriteProduct(m) PROVE Claimed(l)'
  <2> DEFINE o == OrderOf[m]
             r == ProductOf[m]
             s == SkuOf[m]
  <2>1. /\ UNCHANGED pc /\ at[m] = "locked" /\ TxnUsable(o)
        /\ wrote' = [wrote EXCEPT ![o] = @ \cup {r}]
        /\ claimed' = [claimed EXCEPT ![o][r][s] = @ + Qty[m]]
    BY <1>7 DEF WriteProduct, callVars
  <2>2. CASE m = l
    <3>1. SUFFICES ASSUME pc[q] = "run" PROVE claimed'[q][r] = [ZeroDoc EXCEPT ![s] = Qty[l]]
      BY <2>1, <2>2
    <3>2. r \notin wrote[q]
      BY <2>1, <2>2, <3>1 DEF FreshCopies, Fresh
    <3>3. claimed[q][r] = ZeroDoc
      BY <1>c, <2>2, <3>1, <3>2 DEF WritesBalanced, Balanced
    <3>4. claimed'[q][r] = [ZeroDoc EXCEPT ![s] = @ + Qty[l]]
      BY <1>c, <1>t, <2>1, <2>2, <3>3
    <3>5. ZeroDoc[s] + Qty[l] = Qty[l]
      BY <1>c, <2>2 DEF ZeroDoc
    <3> QED
      BY <1>c, <2>2, <3>4, <3>5 DEF ZeroDoc
  <2>3. CASE m # l
    <3>1. o = q => r # ProductOf[l]
      BY <1>c, <2>3 DEF RepeatsKey, LinesOf
    <3>2. claimed'[q][ProductOf[l]] = claimed[q][ProductOf[l]]
      BY <1>c, <1>t, <2>1, <3>1
    <3>3. ProductOf[l] \in wrote'[q] => ProductOf[l] \in wrote[q]
      BY <1>c, <1>t, <2>1, <3>1
    <3> QED
      BY <1>0, <2>1, <3>2, <3>3
  <2> QED
    BY <2>2, <2>3
<1>8. ASSUME NEW o \in Orders, WriteCart(o) PROVE Claimed(l)'
  <2>1. UNCHANGED <<pc, claimed>> /\ wrote' = [wrote EXCEPT ![o] = @ \cup {UserOf[o]}]
    BY <1>8 DEF WriteCart, callVars
  <2>2. ProductOf[l] \in wrote'[q] => ProductOf[l] \in wrote[q]
    BY <1>c, <1>t, <2>1
  <2> QED
    BY <1>0, <2>1, <2>2
<1>9. ASSUME NEW o \in Orders, ForgetWrites(o), pc'[q] = "run" => pc[q] = "run" PROVE Claimed(l)'
  <2>1. ProductOf[l] \in wrote'[q] => o # q /\ ProductOf[l] \in wrote[q]
    BY <1>9, <1>c, <1>t DEF ForgetWrites
  <2>2. o # q => claimed'[q] = claimed[q]
    BY <1>9, <1>c, <1>t DEF ForgetWrites
  <2> QED
    BY <1>0, <1>9, <2>1, <2>2
<1>10. ASSUME NEW b \in Branches, WriteRefused(b) PROVE Claimed(l)'
  <2>1. Parent(b) \in Orders /\ UNCHANGED pc
    BY <1>10, <1>c DEF WriteRefused, callVars
  <2>2. UNCHANGED txnVars \/ ForgetWrites(Parent(b))
    BY <1>10 DEF WriteRefused, DiscardWrites
  <2> QED
    BY <1>1, <1>9, <2>1, <2>2 DEF txnVars
<1>11. ASSUME NEW o \in Orders, Abort(o) \/ TxnTimeout(o) PROVE Claimed(l)'
  BY <1>9, <1>11, <1>c, <1>t DEF Abort, TxnTimeout, DiscardWrites, callVars
<1>12. ASSUME NEW o \in Orders, Commit(o) \/ CommitUnknown(o) PROVE Claimed(l)'
  BY <1>9, <1>12, <1>c, <1>t DEF Commit, CommitUnknown, ApplyWrites
<1>13. ASSUME NEW o \in Orders, UnlockOrder(o) PROVE Claimed(l)'
  <2>1. pc' = [pc EXCEPT ![o] = "emit"] \/ pc' = [pc EXCEPT ![o] = "done"]
    BY <1>13 DEF UnlockOrder, End
  <2> QED
    BY <1>1, <1>13, <1>c, <1>t, <2>1 DEF UnlockOrder, txnVars
<1>14. ASSUME NEW k \in Docs, Expiry(k) PROVE Claimed(l)'
  BY <1>1, <1>14 DEF Expiry, ExpireOrderKey, ExpireWriteKey, callVars, txnVars
<1>15. ASSUME Quiet \/ UNCHANGED vars PROVE Claimed(l)'
  BY <1>1, <1>15 DEF Quiet, vars, callVars, txnVars
<1> QED
  BY <1>2, <1>3, <1>4, <1>5, <1>6, <1>7, <1>8, <1>10, <1>11, <1>12, <1>13, <1>14, <1>15
     DEF Next, CallStep, BranchStep

LEMMA UnorderedNext ==
  ASSUME TypeOK, Unordered, [Next]_vars
  PROVE  Unordered'
<1> SUFFICES ASSUME NEW q \in Orders, pc'[q] \in {"review", "lock", "run"} PROVE q \notin orders'
  BY DEF Unordered
<1>0. pc[q] \in {"review", "lock", "run"} => q \notin orders
  BY DEF Unordered
<1>t. pc \in [Orders -> Calls]
  BY DEF TypeOK, CallTypes
<1>1. ASSUME NEW o \in Orders, Commit(o) \/ CommitUnknown(o) PROVE q \notin orders'
  <2>1. pc[o] = "run" /\ pc' = [pc EXCEPT ![o] = "unlock"] /\ orders' = orders \cup {o}
    BY <1>1 DEF Commit, CommitUnknown, AllSettled, ApplyWrites
  <2> QED
    BY <1>0, <1>t, <2>1
<1>2. ASSUME NEW o \in Orders, LockOrder(o) \/ StartTransaction(o)
      PROVE  pc[q] \in {"review", "lock", "run"}
  BY <1>2, <1>t DEF LockOrder, StartTransaction
<1>3. ASSUME NEW o \in Orders, Reject(o) \/ LockOrderTimeout(o) \/ EmitCreated(o)
      PROVE  pc[q] \in {"review", "lock", "run"}
  BY <1>3, <1>t DEF Reject, LockOrderTimeout, EmitCreated, End
<1>4. ASSUME NEW o \in Orders, Abort(o) \/ UnlockOrder(o) \/ Crash(o)
      PROVE  pc[q] \in {"review", "lock", "run"}
  BY <1>4, <1>t DEF Abort, UnlockOrder, Crash, End
<1>5. ASSUME NEW o \in Orders, NEW p \in Products, ReviewProduct(o, p) PROVE pc' = pc
  BY <1>5 DEF ReviewProduct
<1>6. ASSUME NEW o \in Orders, InsertOrder(o) \/ TxnTimeout(o) PROVE pc' = pc
  BY <1>6 DEF InsertOrder, TxnTimeout, callVars
<1>7. ASSUME NEW b \in Branches, BranchStep(b) PROVE pc' = pc
  BY <1>7 DEF BranchStep, ReadProduct, ReadCart, LockDoc, LockDocTimeout, WriteProduct,
              WriteCart, WriteRefused, UnlockDoc, callVars
<1>8. ASSUME NEW k \in Docs, Expiry(k) PROVE pc' = pc
  BY <1>8 DEF Expiry, ExpireOrderKey, ExpireWriteKey, callVars
<1>9. ASSUME Quiet \/ UNCHANGED vars PROVE pc' = pc
  BY <1>9 DEF Quiet, vars, callVars
<1>10. ASSUME ~ \E o \in Orders : Commit(o) \/ CommitUnknown(o) PROVE q \notin orders'
  <2>1. orders' = orders
    BY <1>10, DbFrame DEF dbVars, ReadCart
  <2>2. pc[q] \in {"review", "lock", "run"}
    BY <1>2, <1>3, <1>4, <1>5, <1>6, <1>7, <1>8, <1>9, <1>10 DEF Next, CallStep
  <2> QED
    BY <1>0, <2>1, <2>2
<1> QED
  BY <1>1, <1>10

LEMMA AllBlindNext ==
  ASSUME TypeOK, KeysHeld, WritesInScope, Unordered, AllBlind, [Next]_vars
  PROVE  AllBlind'
<1> SUFFICES ASSUME NEW q \in Orders PROVE Blind(q)'
  BY DEF AllBlind
<1>0. Blind(q)
  BY DEF AllBlind
<1>t. /\ pc \in [Orders -> Calls] /\ at \in [Branches -> Stations]
      /\ wrote \in [Orders -> SUBSET Docs] /\ cart \in [Users -> {None} \cup SUBSET Items]
  BY DEF TypeOK, CallTypes, BranchTypes, TxnTypes, DbTypes
<1>c. /\ q \in Branches /\ q \notin Lines /\ UserOf[q] \in Users /\ Parent(q) = q
      /\ \A b \in Branches : Parent(b) \in Orders
      /\ \A l \in Lines : l \in Branches /\ OrderOf[l] \in Orders /\ ProductOf[l] # UserOf[q]
  BY ConstantTypes, CheckoutAssumption DEF Branches
<1> USE DEF Blind
<1>1. ASSUME pc'[q] \in {"review", "lock"} => pc[q] \in {"review", "lock"},
             pc'[q] = "run" => /\ pc[q] = "run" /\ wrote'[q] \subseteq wrote[q]
                               /\ cart'[UserOf[q]] = cart[UserOf[q]],
             at'[q] = at[q], UNCHANGED unread, q \in orders' => q \in orders
      PROVE  Blind(q)'
  BY <1>0, <1>1
<1>2. ASSUME NEW o \in Orders, NEW p \in Products, ReviewProduct(o, p) PROVE Blind(q)'
  BY <1>1, <1>2 DEF ReviewProduct, txnVars, branchVars, dbVars
<1>3. ASSUME NEW o \in Orders,
             Reject(o) \/ StartTransaction(o) \/ LockOrderTimeout(o) \/ EmitCreated(o)
      PROVE  Blind(q)'
  BY <1>1, <1>3, <1>t
     DEF Reject, StartTransaction, LockOrderTimeout, EmitCreated, End, txnVars, branchVars, dbVars
<1>4. ASSUME NEW o \in Orders, LockOrder(o) PROVE Blind(q)'
  <2>1. /\ pc' = [pc EXCEPT ![o] = "run"] /\ UNCHANGED <<wrote, cart, unread, orders>>
        /\ pc[o] = "lock" /\ at' = [b \in Branches |-> IF b \in BranchesOf(o) THEN "reading" ELSE at[b]]
    BY <1>4 DEF LockOrder, txnVars, dbVars
  <2>2. CASE o = q
    <3>1. wrote[q] = {} /\ q \in BranchesOf(q) /\ q \notin orders
      BY <2>1, <2>2 DEF WritesInScope, InScope, BranchesOf, Unordered
    <3>2. pc'[q] = "run" /\ at'[q] = "reading" /\ q \notin unread'
      BY <1>0, <1>c, <1>t, <2>1, <2>2, <3>1
    <3> QED
      BY <2>1, <3>1, <3>2
  <2>3. CASE o # q
    <3>1. q \notin BranchesOf(o)
      BY <1>c, <2>3 DEF BranchesOf, LinesOf
    <3> QED
      BY <1>1, <1>c, <1>t, <2>1, <2>3, <3>1
  <2> QED
    BY <2>2, <2>3
<1>5. ASSUME NEW o \in Orders, InsertOrder(o) PROVE Blind(q)'
  BY <1>1, <1>5 DEF InsertOrder, callVars, dbVars
<1>6. ASSUME NEW m \in Lines, ReadProduct(m) PROVE Blind(q)'
  <2>1. at'[q] = at[q] /\ UNCHANGED <<pc, wrote, cart, unread, orders>>
    BY <1>6, <1>c, <1>t DEF ReadProduct, callVars, txnVars, dbVars
  <2> QED
    BY <1>1, <2>1
<1>7. ASSUME NEW o \in Orders, ReadCart(o) PROVE Blind(q)'
  <2>1. UNCHANGED <<pc, wrote, cart, orders>> /\ at[o] = "reading"
    BY <1>7 DEF ReadCart, callVars, txnVars
  <2>2. CASE o = q
    <3>1. pc[q] \notin {"review", "lock"} /\ q \notin orders /\ q \notin unread
      BY <1>0, <2>1, <2>2
    <3>2. CASE at' = [at EXCEPT ![q] = "read"] /\ UNCHANGED unread
      BY <1>0, <1>c, <1>t, <2>1, <2>2, <3>1, <3>2
    <3>3. CASE at' = [at EXCEPT ![q] = "done"] /\ (q \in unread' => cart[UserOf[q]] # None)
      BY <1>0, <1>c, <1>t, <2>1, <2>2, <3>1, <3>3
    <3> QED
      BY <1>7, <2>2, <3>1, <3>2, <3>3 DEF ReadCart
  <2>3. CASE o # q
    <3>1. at'[q] = at[q] /\ (q \in unread' <=> q \in unread)
      BY <1>7, <1>c, <1>t, <2>3 DEF ReadCart
    <3> QED
      BY <1>0, <2>1, <3>1
  <2> QED
    BY <2>2, <2>3
<1>8. ASSUME NEW b \in Branches, LockDoc(b) \/ LockDocTimeout(b) \/ UnlockDoc(b) PROVE Blind(q)'
  <2>1. UNCHANGED <<pc, wrote, cart, unread, orders>>
    BY <1>8 DEF LockDoc, LockDocTimeout, UnlockDoc, callVars, txnVars, dbVars
  <2>2. /\ at[b] \in {"read", "wrote", "erred"} /\ at' = [at EXCEPT ![b] = at'[b]]
        /\ at'[b] = "locked" => at[b] = "read"
        /\ at'[b] \in {"locked", "done", "failed"}
    BY <1>8, <1>t DEF LockDoc, LockDocTimeout, UnlockDoc
  <2>3. CASE b = q
    <3>1. pc[q] \notin {"review", "lock"} /\ q \notin orders /\ q \notin unread
      BY <1>0, <2>2, <2>3
    <3> QED
      BY <1>0, <2>1, <2>2, <2>3, <3>1
  <2>4. CASE b # q
    BY <1>1, <1>c, <1>t, <2>1, <2>2, <2>4
  <2> QED
    BY <2>3, <2>4
<1>9. ASSUME NEW l \in Lines, WriteProduct(l) PROVE Blind(q)'
  <2>1. UNCHANGED <<pc, cart, unread, orders>> /\ at'[q] = at[q]
    BY <1>9, <1>c, <1>t DEF WriteProduct, callVars, dbVars
  <2>2. UserOf[q] \in wrote'[q] => UserOf[q] \in wrote[q]
    BY <1>9, <1>c, <1>t DEF WriteProduct
  <2> QED
    BY <1>0, <2>1, <2>2
<1>10. ASSUME NEW o \in Orders, WriteCart(o) PROVE Blind(q)'
  <2>1. /\ UNCHANGED <<pc, cart, unread, orders>> /\ at[o] = "locked" /\ at' = [at EXCEPT ![o] = "wrote"]
        /\ wrote' = [wrote EXCEPT ![o] = @ \cup {UserOf[o]}]
    BY <1>10 DEF WriteCart, callVars, dbVars
  <2>2. CASE o = q
    <3>1. pc[q] \notin {"review", "lock"} /\ q \notin orders /\ q \notin unread /\ at'[q] = "wrote"
      BY <1>0, <1>c, <1>t, <2>1, <2>2
    <3> QED
      BY <2>1, <3>1
  <2>3. CASE o # q
    BY <1>1, <1>c, <1>t, <2>1, <2>3
  <2> QED
    BY <2>2, <2>3
<1>11. ASSUME NEW o \in Orders, DiscardWrites(o), UNCHANGED <<cart, unread, orders>>,
              pc'[q] \in {"review", "lock"} => pc[q] \in {"review", "lock"},
              pc'[q] = "run" => pc[q] = "run",
              at'[q] = at[q] \/ (at[q] = "locked" /\ at'[q] = "erred")
       PROVE  Blind(q)'
  <2>1. wrote'[q] \subseteq wrote[q]
    BY <1>11, <1>t DEF DiscardWrites, ForgetWrites
  <2>2. CASE at'[q] = at[q]
    BY <1>1, <1>11, <2>1, <2>2
  <2>3. CASE at[q] = "locked" /\ at'[q] = "erred"
    BY <1>0, <1>11, <2>1, <2>3
  <2> QED
    BY <1>11, <2>2, <2>3
<1>12. ASSUME NEW b \in Branches, WriteRefused(b) PROVE Blind(q)'
  <2>1. /\ Parent(b) \in Orders /\ UNCHANGED <<pc, cart, unread, orders>>
        /\ at'[q] = at[q] \/ (at[q] = "locked" /\ at'[q] = "erred")
    BY <1>12, <1>c, <1>t DEF WriteRefused, callVars, dbVars
  <2>2. CASE UNCHANGED txnVars
    BY <1>0, <2>1, <2>2 DEF txnVars
  <2>3. CASE DiscardWrites(Parent(b))
    BY <1>11, <2>1, <2>3
  <2> QED
    BY <1>12, <2>2, <2>3 DEF WriteRefused
<1>13. ASSUME NEW o \in Orders, Abort(o) \/ TxnTimeout(o) PROVE Blind(q)'
  BY <1>11, <1>13, <1>t DEF Abort, TxnTimeout, branchVars, callVars, dbVars
<1>14. ASSUME NEW o \in Orders, Commit(o) \/ CommitUnknown(o) PROVE Blind(q)'
  <2>1. /\ ApplyWrites(o) /\ pc[o] = "run" /\ pc' = [pc EXCEPT ![o] = "unlock"] /\ UNCHANGED at
        /\ at[o] = "done"
    BY <1>14, ConstantTypes DEF Commit, CommitUnknown, AllSettled, branchVars, BranchesOf
  <2>2. unread' = unread /\ orders' = orders \cup {o} /\ wrote'[q] \subseteq wrote[q]
    BY <2>1, <1>t DEF ApplyWrites, ForgetWrites
  <2>3. CASE o = q
    BY <1>0, <1>t, <2>1, <2>2, <2>3
  <2>4. CASE o # q
    <3>1. pc'[q] = pc[q] /\ (pc[q] = "run" => cart'[UserOf[q]] = cart[UserOf[q]])
      BY <1>t, <2>1, <2>4, CommitApartCart
    <3> QED
      BY <1>1, <2>1, <2>2, <2>4, <3>1
  <2> QED
    BY <2>3, <2>4
<1>15. ASSUME NEW o \in Orders, UnlockOrder(o) PROVE Blind(q)'
  <2>1. pc' = [pc EXCEPT ![o] = "emit"] \/ pc' = [pc EXCEPT ![o] = "done"]
    BY <1>15 DEF UnlockOrder, End
  <2> QED
    BY <1>1, <1>15, <1>t, <2>1 DEF UnlockOrder, branchVars, txnVars, dbVars
<1>16. ASSUME NEW o \in Orders, Crash(o) PROVE Blind(q)'
  <2>1. /\ pc' = [pc EXCEPT ![o] = "crashed"] /\ UNCHANGED <<wrote, cart, unread, orders>>
        /\ at' = [b \in Branches |-> IF b \in BranchesOf(o) THEN "idle" ELSE at[b]]
    BY <1>16 DEF Crash, txnVars, dbVars
  <2>2. CASE o = q
    <3>1. pc'[q] = "crashed" /\ at'[q] = "idle"
      BY <1>c, <1>t, <2>1, <2>2 DEF BranchesOf
    <3> QED
      BY <3>1
  <2>3. CASE o # q
    <3>1. q \notin BranchesOf(o)
      BY <1>c, <2>3 DEF BranchesOf, LinesOf
    <3> QED
      BY <1>1, <1>c, <1>t, <2>1, <2>3, <3>1
  <2> QED
    BY <2>2, <2>3
<1>17. ASSUME NEW k \in Docs, Expiry(k) PROVE Blind(q)'
  BY <1>1, <1>17 DEF Expiry, ExpireOrderKey, ExpireWriteKey, callVars, txnVars, branchVars, dbVars
<1>18. ASSUME Quiet \/ UNCHANGED vars PROVE Blind(q)'
  BY <1>1, <1>18 DEF Quiet, vars, callVars, txnVars, branchVars, dbVars
<1> QED
  BY <1>2, <1>3, <1>4, <1>5, <1>6, <1>7, <1>8, <1>9, <1>10, <1>12, <1>13, <1>14, <1>15, <1>16,
     <1>17, <1>18 DEF Next, CallStep, BranchStep

(* What a commit does to the carts.                                        *)
LEMMA CartAtCommit ==
  ASSUME TypeOK, WritesInScope, FreshCarts, AllWritten,
         NEW o \in Orders, AllSettled(o), txn[o] = "open", ApplyWrites(o)
  PROVE  /\ UserOf[o] \in wrote[o] \/ o \notin unread =>
              cart' = [cart EXCEPT ![UserOf[o]] = IF @ = None THEN @ ELSE @ \ ItemsOf(o)]
         /\ UserOf[o] \notin wrote[o] => cart' = cart
<1>1. /\ UserOf[o] \in Users /\ o \in Branches /\ o \in BranchesOf(o)
      /\ Parent(o) = o /\ DocOf(o) = UserOf[o]
  BY ConstantTypes DEF Branches, BranchesOf
<1>2. \A u \in Users \ {UserOf[o]} : u \notin wrote[o]
  BY CheckoutAssumption DEF WritesInScope, InScope, Keys, ProductsOf, LinesOf
<1>3. UserOf[o] \in wrote[o] \/ cart[UserOf[o]] = None \/ o \in unread
  BY <1>1 DEF AllWritten, Written, AllSettled, TxnUsable
<1>4. UserOf[o] \in wrote[o] => cart[UserOf[o]] # None /\ pendCart[o] = cart[UserOf[o]] \ ItemsOf(o)
  BY DEF FreshCarts, FreshCart, AllSettled
<1>5. cart' = [u \in Users |-> IF u \in wrote[o] THEN pendCart[o] ELSE cart[u]]
  BY DEF ApplyWrites
<1>6. cart \in [Users -> {None} \cup SUBSET Items]
  BY DEF TypeOK, DbTypes
<1> QED
  BY <1>1, <1>2, <1>3, <1>4, <1>5, <1>6

LEMMA CartClearedNext ==
  ASSUME TypeOK, WritesInScope, FreshCarts, AllWritten, CartCleared, [Next]_vars
  PROVE  CartCleared'
<1>1. CASE UNCHANGED dbVars
  BY <1>1 DEF CartCleared, dbVars
<1>2. ASSUME NEW o \in Orders, Commit(o) \/ CommitUnknown(o) PROVE CartCleared'
  <2>1. AllSettled(o) /\ txn[o] = "open" /\ ApplyWrites(o)
    BY <1>2 DEF Commit, CommitUnknown
  <2>2. \/ cart' = [cart EXCEPT ![UserOf[o]] = IF @ = None THEN @ ELSE @ \ ItemsOf(o)]
        \/ cart' = cart /\ o \in unread
    BY <2>1, CartAtCommit
  <2>3. orders' = orders \cup {o} /\ unread' = unread
    BY <2>1 DEF ApplyWrites
  <2>4. cart \in [Users -> {None} \cup SUBSET Items] /\ \A q \in orders \cup {o} : UserOf[q] \in Users
    BY ConstantTypes DEF TypeOK, DbTypes
  <2>5. SUFFICES ASSUME NEW q \in (orders \cup {o}) \ unread, cart'[UserOf[q]] # None
                 PROVE  cart'[UserOf[q]] \cap ItemsOf(q) = {}
    BY <2>3 DEF CartCleared
  <2>6. CASE q = o
    BY <2>2, <2>4, <2>5, <2>6
  <2>7. CASE q \in orders
    <3>1. cart[UserOf[q]] # None /\ cart'[UserOf[q]] \subseteq cart[UserOf[q]]
      BY <2>2, <2>4, <2>5
    <3> QED
      BY <2>5, <2>7, <3>1 DEF CartCleared
  <2> QED
    BY <2>5, <2>6, <2>7
<1>3. ASSUME NEW o \in Orders, ReadCart(o) PROVE CartCleared'
  BY <1>3 DEF ReadCart, CartCleared
<1> QED
  BY <1>1, <1>2, <1>3, DbFrame

CartInv == KeysHeld /\ WritesInScope /\ FreshCarts /\ AllWritten

LEMMA CartInvInit == Init => CartInv /\ CartCleared
<1> SUFFICES ASSUME Init PROVE CartInv /\ CartCleared
  OBVIOUS
<1>1. KeysHeld /\ WritesInScope
  BY KeysHeldInit, IndInvInit DEF IndInv
<1>2. FreshCarts /\ AllWritten
  BY ConstantTypes DEF Init, FreshCarts, FreshCart, AllWritten, Written
<1> QED
  BY <1>1, <1>2 DEF Init, CartInv, CartCleared

(* If no key expires under its holder, the items of every committed order  *)
(* that could read its buyer's cart are out of it, however many orders of  *)
(* the buyer are under way and whatever becomes of them.                   *)
THEOREM CartsCleared == "expiry" \notin Faults => (Spec => []CartCleared)
<1> SUFFICES ASSUME "expiry" \notin Faults PROVE Spec => []CartCleared
  OBVIOUS
<1>1. Init => CartInv /\ CartCleared
  BY CartInvInit
<1>2. TypeOK /\ CartInv /\ [Next]_vars => CartInv'
  BY KeysHeldNext, WritesInScopeNext, FreshCartsNext, AllWrittenNext DEF CartInv
<1>3. TypeOK /\ CartInv /\ CartCleared /\ [Next]_vars => CartCleared'
  BY CartClearedNext DEF CartInv
<1> QED
  BY <1>1, <1>2, <1>3, TypeCorrect, PTL DEF Spec

(* The sum over the lines for one variation, in an order that repeats no   *)
(* product: no line, or one.                                               *)
LEMMA NoUnits ==
  ASSUME NEW o, NEW p, NEW s,
         {l \in Lines : OrderOf[l] = o /\ ProductOf[l] = p /\ SkuOf[l] = s} = {}
  PROVE  Ledger!Units(o, p, s) = 0
  BY DEF Ledger!Units, Ledger!Sums!MapThenFoldSet

LEMMA UnitsOfOneLine ==
  ASSUME NEW o, NEW p, NEW s, NEW x \in Lines,
         {l \in Lines : OrderOf[l] = o /\ ProductOf[l] = p /\ SkuOf[l] = s} = {x}
  PROVE  Ledger!Units(o, p, s) = Qty[x]
<1> DEFINE S == {x}
           Sums(f) == f = [t \in SUBSET S |->
                             IF t = {} THEN 0
                             ELSE Qty[CHOOSE l \in t : TRUE] + f[t \ {CHOOSE l \in t : TRUE}]]
           sum == CHOOSE f : Sums(f)
           total == [t \in SUBSET S |-> IF t = {} THEN 0 ELSE Qty[x]]
<1>1. Qty[x] \in Nat
  BY ConstantTypes
<1>2. Sums(total)
  <2>1. \A t \in SUBSET S : t = {} \/ (t = {x} /\ (CHOOSE l \in t : TRUE) = x /\ t \ {x} = {})
    OBVIOUS
  <2> QED
    BY <1>1, <2>1
<1>3. Sums(sum)
  BY <1>2
<1>4. sum[S] = Qty[x]
  <2>1. {} \in SUBSET S /\ S \in SUBSET S /\ S # {}
    OBVIOUS
  <2>2. (CHOOSE l \in S : TRUE) = x /\ S \ {x} = {}
    OBVIOUS
  <2>3. sum[{}] = 0
    BY <1>3, <2>1
  <2>4. sum[S] = Qty[CHOOSE l \in S : TRUE] + sum[S \ {CHOOSE l \in S : TRUE}]
    BY <1>3, <2>1, Zenon
  <2>5. sum[S] = Qty[x] + sum[{}]
    BY <2>2, <2>4
  <2> QED
    BY <1>1, <2>3, <2>5
<1>5. Ledger!Units(o, p, s) = sum[S]
  BY DEF Ledger!Units, Ledger!Sums!MapThenFoldSet
<1> QED
  BY <1>4, <1>5

LedgerInv == IndInv /\ CartInv /\ AllClaimed /\ Unordered /\ AllBlind

(* A commit places the order: what it claims of each product is what the   *)
(* order asks for, and it leaves the cart alone when it has not read it.   *)
LEMMA CommitPlaces ==
  ASSUME TypeOK, LedgerInv, NEW o \in Orders, ~ RepeatsKey(o),
         AllSettled(o), txn[o] = "open", ApplyWrites(o)
  PROVE  Ledger!Place(o) \/ Ledger!PlaceBlind(o)
<1> USE DEF LedgerInv, IndInv, CartInv
<1>1. o \notin orders /\ pc[o] = "run" /\ TxnUsable(o)
  BY DEF Unordered, AllSettled, TxnUsable
<1>t. /\ stock \in [Products -> StockDocs] /\ pendStock \in [Orders -> [Products -> StockDocs]]
      /\ claimed \in [Orders -> [Products -> StockDocs]]
  BY DEF TypeOK, TxnTypes, DbTypes
<1>2. stock' = [p \in Products |-> IF p \in wrote[o] THEN pendStock[o][p] ELSE stock[p]]
  BY DEF ApplyWrites
<1>3. ASSUME NEW p \in Products
      PROVE  /\ stock'[p] \in [Skus -> Nat]
             /\ \A s \in Skus : /\ Ledger!Units(o, p, s) \in Nat
                                /\ stock'[p][s] + Ledger!Units(o, p, s) = stock[p][s]
  <2>1. stock'[p] \in [Skus -> Nat]
    BY <1>t, <1>2 DEF StockDocs
  <2>2. CASE \E l \in LinesOf(o) : ProductOf[l] = p
    <3>1. PICK l \in LinesOf(o) : ProductOf[l] = p
      BY <2>2
    <3>2. /\ l \in Lines /\ OrderOf[l] = o /\ l \in Branches /\ l \in BranchesOf(o) /\ l \notin Orders
          /\ Parent(l) = o /\ DocOf(l) = p /\ SkuOf[l] \in Skus /\ Qty[l] \in Nat
      BY <3>1, ConstantTypes DEF LinesOf, Branches, BranchesOf
    <3>3. p \in wrote[o]
      BY <1>1, <3>2 DEF AllWritten, Written, AllSettled
    <3>4. claimed[o][p] = [ZeroDoc EXCEPT ![SkuOf[l]] = Qty[l]]
      BY <1>1, <3>1, <3>2, <3>3 DEF AllClaimed, Claimed
    <3>5. ASSUME NEW s \in Skus PROVE Ledger!Units(o, p, s) = claimed[o][p][s]
      <4>1. \A m \in Lines : OrderOf[m] = o /\ ProductOf[m] = p => m = l
        BY <3>1, <3>2 DEF RepeatsKey, LinesOf
      <4>2. CASE s = SkuOf[l]
        <5>1. {m \in Lines : OrderOf[m] = o /\ ProductOf[m] = p /\ SkuOf[m] = s} = {l}
          BY <3>1, <3>2, <4>1, <4>2
        <5>2. claimed[o][p][s] = Qty[l]
          BY <3>2, <3>4, <4>2 DEF ZeroDoc
        <5> QED
          BY <3>2, <5>1, <5>2, UnitsOfOneLine
      <4>3. CASE s # SkuOf[l]
        <5>1. {m \in Lines : OrderOf[m] = o /\ ProductOf[m] = p /\ SkuOf[m] = s} = {}
          BY <4>1, <4>3
        <5>2. claimed[o][p][s] = 0
          BY <3>4, <4>3 DEF ZeroDoc
        <5> QED
          BY <5>1, <5>2, NoUnits
      <4> QED
        BY <4>2, <4>3
    <3>6. \A s \in Skus : pendStock[o][p][s] + claimed[o][p][s] = stock[p][s]
      BY <1>1, <3>3 DEF WritesBalanced, Balanced
    <3>7. \A s \in Skus : claimed[o][p][s] \in Nat
      BY <1>t DEF StockDocs
    <3>8. stock'[p] = pendStock[o][p]
      BY <1>2, <3>3
    <3> QED
      BY <2>1, <3>5, <3>6, <3>7, <3>8
  <2>3. CASE ~ \E l \in LinesOf(o) : ProductOf[l] = p
    <3>1. p \notin wrote[o]
      BY <2>3, CheckoutAssumption DEF WritesInScope, InScope, Keys, ProductsOf
    <3>2. \A s \in Skus : Ledger!Units(o, p, s) = 0
      BY <2>3, NoUnits DEF LinesOf
    <3>3. stock'[p] = stock[p] /\ \A s \in Skus : stock[p][s] \in Nat
      BY <1>t, <1>2, <3>1 DEF StockDocs
    <3> QED
      BY <2>1, <3>2, <3>3
  <2> QED
    BY <2>2, <2>3
<1>4. \A p \in Products, s \in Skus : stock[p][s] >= Ledger!Units(o, p, s)
  <2> SUFFICES ASSUME NEW p \in Products, NEW s \in Skus PROVE stock[p][s] >= Ledger!Units(o, p, s)
    OBVIOUS
  <2>1. stock'[p][s] \in Nat /\ Ledger!Units(o, p, s) \in Nat
        /\ stock'[p][s] + Ledger!Units(o, p, s) = stock[p][s]
    BY <1>3
  <2> QED
    BY <2>1
<1>5. stock' = [p \in Products |-> [s \in Skus |-> stock[p][s] - Ledger!Units(o, p, s)]]
  <2>1. \A p \in Products : stock'[p] = [s \in Skus |-> stock[p][s] - Ledger!Units(o, p, s)]
    BY <1>3
  <2> QED
    BY <1>2, <2>1
<1>6. orders' = orders \cup {o} /\ unread' = unread
  BY DEF ApplyWrites
<1>7. Ledger!Sell(o)
  BY <1>1, <1>4, <1>5, <1>6 DEF Ledger!Sell
<1>8. CASE o \notin unread
  <2>1. Ledger!ItemsOf(o) = ItemsOf(o)
    BY DEF Ledger!ItemsOf, ItemsOf, LinesOf
  <2>2. cart' = [cart EXCEPT ![UserOf[o]] = IF @ = None THEN @ ELSE @ \ Ledger!ItemsOf(o)]
    BY <1>8, <2>1, CartAtCommit
  <2> QED
    BY <1>6, <1>7, <1>8, <2>2 DEF Ledger!Place
<1>9. CASE o \in unread
  <2>1. UserOf[o] \notin wrote[o] /\ cart[UserOf[o]] # None
    BY <1>1, <1>9 DEF AllBlind, Blind
  <2>2. cart' = cart
    BY <2>1, CartAtCommit
  <2> QED
    BY <1>6, <1>7, <1>9, <2>1, <2>2 DEF Ledger!PlaceBlind
<1> QED
  BY <1>8, <1>9

(* If no key expires under its holder and no order names a product in two  *)
(* lines, the checkout implements the ledger: seen from the collections,   *)
(* orders are placed one at a time and whole, only those that could not    *)
(* read the cart leave it as it is, and nothing else happens.              *)
THEOREM LedgerImplemented ==
  "expiry" \notin Faults /\ (\A o \in Orders : ~ RepeatsKey(o)) => (Spec => ImplementsLedger)
<1> SUFFICES ASSUME "expiry" \notin Faults, \A o \in Orders : ~ RepeatsKey(o)
             PROVE  Spec => ImplementsLedger
  OBVIOUS
<1>1. Init => LedgerInv /\ Ledger!Init
  BY IndInvInit, CartInvInit, ConstantTypes
     DEF Init, LedgerInv, AllClaimed, Claimed, Unordered, AllBlind, Blind, Branches, Ledger!Init
<1>2. TypeOK /\ LedgerInv /\ [Next]_vars => LedgerInv'
  BY KeysHeldNext, WritesInScopeNext, FreshCopiesNext, WritesBalancedNext, StockConservedNext,
     FreshCartsNext, AllWrittenNext, AllClaimedNext, UnorderedNext, AllBlindNext
     DEF LedgerInv, IndInv, CartInv
<1>3. TypeOK /\ LedgerInv /\ [Next]_vars => [Ledger!Next]_(Ledger!ledgerVars)
  <2> SUFFICES ASSUME TypeOK, LedgerInv, [Next]_vars PROVE [Ledger!Next]_(Ledger!ledgerVars)
    OBVIOUS
  <2>1. CASE UNCHANGED dbVars
    BY <2>1 DEF dbVars, Ledger!ledgerVars
  <2>2. ASSUME NEW o \in Orders, Commit(o) \/ CommitUnknown(o) PROVE Ledger!Next
    BY <2>2, CommitPlaces DEF Commit, CommitUnknown, Ledger!Next
  <2>3. ASSUME NEW o \in Orders, ReadCart(o) PROVE UNCHANGED Ledger!ledgerVars
    <3>1. o \notin orders
      BY <2>3 DEF ReadCart, LedgerInv, AllBlind, Blind
    <3>2. UNCHANGED <<stock, cart, orders>> /\ unread' \cap orders = unread \cap orders
      BY <2>3, <3>1 DEF ReadCart
    <3> QED
      BY <3>2 DEF Ledger!ledgerVars
  <2> QED
    BY <2>1, <2>2, <2>3, DbFrame
<1> QED
  BY <1>1, <1>2, <1>3, TypeCorrect, PTL DEF Spec, ImplementsLedger, Ledger!Spec

-----------------------------------------------------------------------------
(* What the caller is told, and what becomes of the session.               *)

(* A call that is past its commit without a failure has its order; an open *)
(* session belongs to a call between its start and its finally block, or   *)
(* to one that did not get its keys.                                       *)
Accounted(o) ==
  /\ pc[o] = "emit" \/ (pc[o] = "unlock" /\ outcome[o] = "none") \/ outcome[o] = "ok" => o \in orders
  /\ o \in sessions => \/ pc[o] \in {"lock", "run", "unlock"}
                       \/ pc[o] = "done" /\ outcome[o] = "busy"

(* Until the commit there is no order, and a failure is never told of one. *)
Truthful(o) ==
  /\ pc[o] \in {"review", "lock", "run"} => outcome[o] = "none" /\ o \notin orders
  /\ pc[o] = "unlock" => outcome[o] \in {"none", "failed"}
  /\ outcome[o] \in {"rejected", "busy", "failed"} => o \notin orders

LEMMA AccountedNext ==
  ASSUME TypeOK, NEW q \in Orders, Accounted(q), [Next]_vars
  PROVE  Accounted(q)'
<1>t. pc \in [Orders -> Calls] /\ outcome \in [Orders -> Outcomes]
  BY DEF TypeOK, CallTypes
<1> USE DEF Accounted
<1>1. ASSUME NEW o \in Orders, NEW p \in Products, ReviewProduct(o, p) PROVE Accounted(q)'
  BY <1>1 DEF ReviewProduct, dbVars
<1>2. ASSUME NEW o \in Orders, Reject(o) \/ LockOrderTimeout(o) \/ EmitCreated(o) PROVE Accounted(q)'
  BY <1>2, <1>t DEF Reject, LockOrderTimeout, EmitCreated, End, dbVars
<1>3. ASSUME NEW o \in Orders, StartTransaction(o) PROVE Accounted(q)'
  BY <1>3, <1>t DEF StartTransaction, dbVars
<1>4. ASSUME NEW o \in Orders, LockOrder(o) PROVE Accounted(q)'
  BY <1>4, <1>t DEF LockOrder, dbVars
<1>5. ASSUME NEW o \in Orders, InsertOrder(o) \/ TxnTimeout(o) PROVE Accounted(q)'
  BY <1>5 DEF InsertOrder, TxnTimeout, callVars, dbVars
<1>6. ASSUME NEW o \in Orders, Commit(o) \/ CommitUnknown(o) PROVE Accounted(q)'
  <2>1. orders' = orders \cup {o}
    BY <1>6 DEF Commit, CommitUnknown, ApplyWrites
  <2>2. /\ pc' = [pc EXCEPT ![o] = "unlock"] /\ UNCHANGED sessions
        /\ outcome' = outcome \/ outcome' = [outcome EXCEPT ![o] = "failed"]
    BY <1>6 DEF Commit, CommitUnknown
  <2>3. pc[o] = "run"
    BY <1>6 DEF Commit, CommitUnknown, AllSettled
  <2> QED
    BY <1>t, <2>1, <2>2, <2>3
<1>7. ASSUME NEW o \in Orders, Abort(o) PROVE Accounted(q)'
  BY <1>7, <1>t DEF Abort, dbVars
<1>8. ASSUME NEW o \in Orders, UnlockOrder(o) PROVE Accounted(q)'
  <2>1. UNCHANGED orders /\ sessions' = sessions \ {o} /\ pc[o] = "unlock"
    BY <1>8 DEF UnlockOrder, dbVars
  <2>2. \/ outcome[o] = "none" /\ pc' = [pc EXCEPT ![o] = "emit"] /\ UNCHANGED outcome
        \/ End(o, "failed")
    BY <1>8 DEF UnlockOrder
  <2> QED
    BY <1>t, <2>1, <2>2 DEF End
<1>9. ASSUME NEW o \in Orders, Crash(o) PROVE Accounted(q)'
  BY <1>9, <1>t DEF Crash, dbVars
<1>10. ASSUME NEW b \in Branches, BranchStep(b) PROVE Accounted(q)'
  BY <1>10 DEF BranchStep, ReadProduct, ReadCart, LockDoc, LockDocTimeout, WriteProduct,
               WriteCart, WriteRefused, UnlockDoc, callVars, dbVars
<1>11. ASSUME NEW k \in Docs, Expiry(k) PROVE Accounted(q)'
  BY <1>11 DEF Expiry, ExpireOrderKey, ExpireWriteKey, callVars, dbVars
<1>12. ASSUME Quiet \/ UNCHANGED vars PROVE Accounted(q)'
  BY <1>12 DEF Quiet, vars, callVars, dbVars
<1> QED
  BY <1>1, <1>2, <1>3, <1>4, <1>5, <1>6, <1>7, <1>8, <1>9, <1>10, <1>11, <1>12 DEF Next, CallStep

LEMMA TruthfulNext ==
  ASSUME "reply" \notin Faults, TypeOK, KeysHeld, NEW q \in Orders, ~ RepeatsKey(q),
         Truthful(q), [Next]_vars
  PROVE  Truthful(q)'
<1>t. pc \in [Orders -> Calls] /\ outcome \in [Orders -> Outcomes]
  BY DEF TypeOK, CallTypes
<1> USE DEF Truthful
<1>1. ASSUME NEW o \in Orders, NEW p \in Products, ReviewProduct(o, p) PROVE Truthful(q)'
  BY <1>1 DEF ReviewProduct, dbVars
<1>2. ASSUME NEW o \in Orders, Reject(o) \/ LockOrderTimeout(o) \/ EmitCreated(o) PROVE Truthful(q)'
  BY <1>2, <1>t DEF Reject, LockOrderTimeout, EmitCreated, End, dbVars
<1>3. ASSUME NEW o \in Orders, StartTransaction(o) PROVE Truthful(q)'
  BY <1>3, <1>t DEF StartTransaction, dbVars
<1>4. ASSUME NEW o \in Orders, LockOrder(o) PROVE Truthful(q)'
  BY <1>4, <1>t DEF LockOrder, dbVars
<1>5. ASSUME NEW o \in Orders, InsertOrder(o) \/ TxnTimeout(o) PROVE Truthful(q)'
  BY <1>5 DEF InsertOrder, TxnTimeout, callVars, dbVars
<1>6. ASSUME NEW o \in Orders, Commit(o) PROVE Truthful(q)'
  <2>1. orders' = orders \cup {o}
    BY <1>6 DEF Commit, ApplyWrites
  <2>2. pc[o] = "run" /\ pc' = [pc EXCEPT ![o] = "unlock"] /\ UNCHANGED outcome
    BY <1>6 DEF Commit, AllSettled
  <2> QED
    BY <1>t, <2>1, <2>2
<1>7. ASSUME NEW o \in Orders, Abort(o) PROVE Truthful(q)'
  BY <1>7, <1>t DEF Abort, dbVars
<1>8. ASSUME NEW o \in Orders, UnlockOrder(o) PROVE Truthful(q)'
  <2>1. UNCHANGED orders /\ pc[o] = "unlock"
    BY <1>8 DEF UnlockOrder, dbVars
  <2>2. CASE o = q
    <3>1. Holds(orderLock, Keys(q), q)
      BY <2>1, <2>2 DEF KeysHeld, InCriticalSection
    <3>2. \/ pc' = [pc EXCEPT ![q] = "emit"] /\ UNCHANGED outcome
          \/ outcome[q] # "none" /\ End(q, "failed")
      BY <1>8, <2>2, <3>1 DEF UnlockOrder
    <3>3. outcome[q] # "none" => q \notin orders
      BY <2>1, <2>2
    <3> QED
      BY <1>t, <2>1, <3>2, <3>3 DEF End
  <2>3. CASE o # q
    <3>1. pc'[q] = pc[q] /\ outcome'[q] = outcome[q]
      BY <1>8, <1>t, <2>3 DEF UnlockOrder, End
    <3> QED
      BY <2>1, <3>1
  <2> QED
    BY <2>2, <2>3
<1>9. ASSUME NEW o \in Orders, Crash(o) PROVE Truthful(q)'
  BY <1>9, <1>t DEF Crash, dbVars
<1>10. ASSUME NEW b \in Branches, BranchStep(b) PROVE Truthful(q)'
  BY <1>10 DEF BranchStep, ReadProduct, ReadCart, LockDoc, LockDocTimeout, WriteProduct,
               WriteCart, WriteRefused, UnlockDoc, callVars, dbVars
<1>11. ASSUME NEW k \in Docs, Expiry(k) PROVE Truthful(q)'
  BY <1>11 DEF Expiry, ExpireOrderKey, ExpireWriteKey, callVars, dbVars
<1>12. ASSUME Quiet \/ UNCHANGED vars PROVE Truthful(q)'
  BY <1>12 DEF Quiet, vars, callVars, dbVars
<1>13. ASSUME NEW o \in Orders, CommitUnknown(o) PROVE FALSE
  BY <1>13 DEF CommitUnknown
<1> QED
  BY <1>1, <1>2, <1>3, <1>4, <1>5, <1>6, <1>7, <1>8, <1>9, <1>10, <1>11, <1>12, <1>13
     DEF Next, CallStep

(* With every fault there is: a caller who is told of success has an order *)
(* (newOrderCreated included), and no session is left open but those of    *)
(* the calls that did not get their keys.                                  *)
THEOREM HonestSuccess == Spec => [](SuccessMeansOrdered /\ OnlyBusyLeaksSession)
<1> DEFINE AllAccounted == \A o \in Orders : Accounted(o)
<1>1. Init => AllAccounted
  BY DEF Init, Accounted
<1>2. TypeOK /\ AllAccounted /\ [Next]_vars => AllAccounted'
  BY AccountedNext
<1>3. AllAccounted /\ TypeOK => SuccessMeansOrdered /\ OnlyBusyLeaksSession
  BY DEF Accounted, SuccessMeansOrdered, OnlyBusyLeaksSession, TypeOK, CallTypes
<1> QED
  <2> HIDE DEF AllAccounted
  <2> QED
    BY <1>1, <1>2, <1>3, TypeCorrect, PTL DEF Spec

(* If moreover no key expires under its holder, no reply to a commit is    *)
(* lost and no order repeats a product, a caller who is told of a failure  *)
(* has no order.                                                           *)
THEOREM HonestFailure ==
  Faults = {} /\ (\A o \in Orders : ~ RepeatsKey(o)) => (Spec => []FailureMeansNoOrder)
<1> SUFFICES ASSUME Faults = {}, \A o \in Orders : ~ RepeatsKey(o)
             PROVE  Spec => []FailureMeansNoOrder
  OBVIOUS
<1> DEFINE AllTruthful == \A o \in Orders : Truthful(o)
<1>1. Init => KeysHeld /\ AllTruthful
  BY KeysHeldInit DEF Init, Truthful
<1>2. TypeOK /\ KeysHeld /\ AllTruthful /\ [Next]_vars => KeysHeld' /\ AllTruthful'
  BY KeysHeldNext, TruthfulNext
<1>3. AllTruthful => FailureMeansNoOrder
  BY DEF Truthful, FailureMeansNoOrder
<1> QED
  <2> HIDE DEF AllTruthful
  <2> QED
    BY <1>1, <1>2, <1>3, TypeCorrect, PTL DEF Spec
=============================================================================
