------------------------------ MODULE Checkout ------------------------------
(***************************************************************************)
(* CheckoutService.createOrder (apps/order/src/checkout-ord) with every    *)
(* call it makes: the review, the Redis locks, the MongoDB transaction     *)
(* whose branches run side by side under Promise.all, the commit or abort, *)
(* the finally block and the event to the communications service.          *)
(*                                                                         *)
(* An order is one call of createOrder.  Its branches are the insert of    *)
(* the order document, one branch per line (reduceStock) and the cart      *)
(* branch (removeProductFromCart).  A line's branch is named by the line,  *)
(* the cart branch by the order.  Branches go on by themselves after       *)
(* another branch has failed, as promises do.                              *)
(***************************************************************************)
EXTENDS Naturals, FiniteSets, Redlock

CONSTANTS
  Orders,      \* calls of createOrder
  Lines,       \* the productSelected entries of all the calls
  Users, Products, Skus,
  UserOf,      \* the buyer of an order
  OrderOf,     \* the order a line belongs to
  ProductOf, SkuOf, Qty,   \* productId, sku and quantity of a line
  InitStock,   \* stock of every variation of every product
  InitCart,    \* the items of every user's cart, or None: no cart document
  Faults       \* "expiry": a TTL may run out under a live holder;
               \* "reply": the answer to a commit may be lost

Items == Products \X Skus
StockDocs == [Skus -> Nat]
Branches == Lines \cup Orders
Docs == Products \cup Users

ASSUME CheckoutAssumption ==
  /\ UserOf \in [Orders -> Users]
  /\ OrderOf \in [Lines -> Orders]
  /\ ProductOf \in [Lines -> Products]
  /\ SkuOf \in [Lines -> Skus]
  /\ Qty \in [Lines -> Nat \ {0}]
  /\ InitStock \in [Products -> StockDocs]
  /\ InitCart \in [Users -> {None} \cup SUBSET Items]
  /\ Faults \subseteq {"expiry", "reply"}
  /\ Lines \cap Orders = {} /\ Products \cap Users = {}
  /\ None \notin Branches /\ \A cartItems \in SUBSET Items : cartItems # None

LinesOf(o) == {l \in Lines : OrderOf[l] = o}
ProductsOf(o) == {ProductOf[l] : l \in LinesOf(o)}
ItemsOf(o) == {<<ProductOf[l], SkuOf[l]>> : l \in LinesOf(o)}
Parent(b) == IF b \in Lines THEN OrderOf[b] ELSE b
BranchesOf(o) == LinesOf(o) \cup {o}

(* The document a branch writes: a product, or the buyer's cart.           *)
DocOf(b) == IF b \in Lines THEN ProductOf[b] ELSE UserOf[b]

(* order_create:user:<id> and one order_create:product:<id> per line.  The *)
(* Set is built from ObjectId objects, which are never equal, so a product *)
(* ordered in two lines contributes its key twice.                         *)
Mutant_NoProductKeys(o) == {UserOf[o]}
Mutant_NoBuyerKey(o) == ProductsOf(o)
Keys(o) == {UserOf[o]} \cup ProductsOf(o)
RepeatsKey(o) == \E l, m \in LinesOf(o) : l # m /\ ProductOf[l] = ProductOf[m]

VARIABLES
  pc,          \* where the call stands
  reviewed,    \* products reviewOrder has read and found in stock
  outcome,     \* what the caller is told
  sessions,    \* calls whose ClientSession is open
  insert,      \* the branch that inserts the order document
  at,          \* where each line and cart branch stands
  copy,        \* a line's copy of the product, after its own decrement
  cartCopy,    \* the cart branch's copy of the cart, after the filter
  txn,         \* the transaction on the server
  wrote,       \* documents the transaction has written so far
  pendStock, pendCart,   \* what it has written in them
  stale,       \* documents committed by others since the snapshot
  orderLock,   \* the order_create:* keys
  writeLock,   \* the update_product:* and update_cart:* keys
  stock, cart, orders,   \* the committed database
  claimed,     \* history: units the transaction's writes stand for
  sold,        \* history: units of the committed orders
  unread       \* history: calls whose failing read of the cart was taken for no cart

callVars == <<pc, reviewed, outcome, sessions>>
branchVars == <<insert, at, copy, cartCopy>>
txnVars == <<txn, wrote, pendStock, pendCart, stale, claimed>>
lockVars == <<orderLock, writeLock>>
dbVars == <<stock, cart, orders, sold, unread>>
vars == <<callVars, branchVars, txnVars, lockVars, dbVars>>

Calls == {"review", "lock", "run", "unlock", "emit", "done", "crashed"}
Outcomes == {"none", "rejected", "busy", "failed", "ok"}
Stations == {"idle", "reading", "read", "locked", "wrote", "erred", "done", "failed"}

CallTypes ==
  /\ pc \in [Orders -> Calls]
  /\ reviewed \in [Orders -> SUBSET Products]
  /\ outcome \in [Orders -> Outcomes]
  /\ sessions \subseteq Orders

BranchTypes ==
  /\ insert \in [Orders -> {"idle", "sending", "done", "failed"}]
  /\ at \in [Branches -> Stations]
  /\ copy \in [Lines -> StockDocs]
  /\ cartCopy \in [Orders -> SUBSET Items]

TxnTypes ==
  /\ txn \in [Orders -> {"idle", "open", "committed", "aborted"}]
  /\ wrote \in [Orders -> SUBSET Docs]
  /\ pendStock \in [Orders -> [Products -> StockDocs]]
  /\ pendCart \in [Orders -> SUBSET Items]
  /\ stale \in [Orders -> SUBSET Docs]
  /\ claimed \in [Orders -> [Products -> StockDocs]]

LockTypes ==
  /\ orderLock \in [Docs -> {None} \cup Orders]
  /\ writeLock \in [Docs -> {None} \cup Branches]

DbTypes ==
  /\ stock \in [Products -> StockDocs]
  /\ cart \in [Users -> {None} \cup SUBSET Items]
  /\ orders \subseteq Orders
  /\ sold \in [Products -> StockDocs]
  /\ unread \subseteq Orders

(* Every variable keeps its type: no stock, committed or in a copy, ever   *)
(* falls below zero.                                                       *)
TypeOK == CallTypes /\ BranchTypes /\ TxnTypes /\ LockTypes /\ DbTypes

ZeroDoc == [s \in Skus |-> 0]
ZeroStock == [p \in Products |-> ZeroDoc]

Init ==
  /\ pc = [o \in Orders |-> "review"]
  /\ reviewed = [o \in Orders |-> {}]
  /\ outcome = [o \in Orders |-> "none"]
  /\ sessions = {}
  /\ insert = [o \in Orders |-> "idle"]
  /\ at = [b \in Branches |-> "idle"]
  /\ copy = [l \in Lines |-> ZeroDoc]
  /\ cartCopy = [o \in Orders |-> {}]
  /\ txn = [o \in Orders |-> "idle"]
  /\ wrote = [o \in Orders |-> {}]
  /\ pendStock = [o \in Orders |-> ZeroStock]
  /\ pendCart = [o \in Orders |-> {}]
  /\ stale = [o \in Orders |-> {}]
  /\ orderLock = [k \in Docs |-> None]
  /\ writeLock = [k \in Docs |-> None]
  /\ stock = InitStock
  /\ cart = InitCart
  /\ orders = {}
  /\ claimed = [o \in Orders |-> ZeroStock]
  /\ sold = ZeroStock
  /\ unread = {}

-----------------------------------------------------------------------------
(* The review, the session and the locks.                                  *)

End(o, result) ==
  /\ pc' = [pc EXCEPT ![o] = "done"]
  /\ outcome' = [outcome EXCEPT ![o] = result]

InStock(l, doc) == doc[SkuOf[l]] >= Qty[l]

(* reviewOrder reads each distinct product once, outside any lock and any  *)
(* transaction, and checks the stock of the lines that ask for it.         *)
ReviewProduct(o, p) ==
  /\ pc[o] = "review"
  /\ p \in ProductsOf(o) \ reviewed[o]
  /\ \A l \in LinesOf(o) : ProductOf[l] = p => InStock(l, stock[p])
  /\ reviewed' = [reviewed EXCEPT ![o] = @ \cup {p}]
  /\ UNCHANGED <<pc, outcome, sessions, branchVars, txnVars, lockVars, dbVars>>

(* A variation out of stock, or any other reason to refuse: no address, a  *)
(* product or sku that is not there or not active, no shipping fee, no     *)
(* return url or payment url.  Nothing has been opened or locked yet.      *)
Reject(o) ==
  /\ pc[o] = "review"
  /\ End(o, "rejected")
  /\ reviewed' = [reviewed EXCEPT ![o] = {}]
  /\ UNCHANGED <<sessions, branchVars, txnVars, lockVars, dbVars>>

(* The session is opened before the lock is asked for.  reviewed is of no  *)
(* further use: it is reset, like every local of a call or branch that is  *)
(* over, to keep equal situations equal.                                   *)
StartTransaction(o) ==
  /\ pc[o] = "review"
  /\ reviewed[o] = ProductsOf(o)
  /\ pc' = [pc EXCEPT ![o] = "lock"]
  /\ reviewed' = [reviewed EXCEPT ![o] = {}]
  /\ sessions' = sessions \cup {o}
  /\ UNCHANGED <<outcome, branchVars, txnVars, lockVars, dbVars>>

(* redlockService.lock(resources, 5000) succeeds and Promise.all starts    *)
(* every branch.                                                           *)
LockOrder(o) ==
  /\ pc[o] = "lock"
  /\ Free(orderLock, Keys(o))
  /\ orderLock' = Acquire(orderLock, Keys(o), o)
  /\ pc' = [pc EXCEPT ![o] = "run"]
  /\ insert' = [insert EXCEPT ![o] = "sending"]
  /\ at' = [b \in Branches |-> IF b \in BranchesOf(o) THEN "reading" ELSE at[b]]
  /\ UNCHANGED <<reviewed, outcome, sessions, copy, cartCopy, txnVars, writeLock, dbVars>>

(* The last attempt found a key set.  The call is made before the try      *)
(* block, so nothing ends the session.                                     *)
LockOrderTimeout(o) ==
  /\ pc[o] = "lock"
  /\ ~ Free(orderLock, Keys(o))
  /\ End(o, "busy")
  /\ UNCHANGED <<reviewed, sessions, branchVars, txnVars, lockVars, dbVars>>

-----------------------------------------------------------------------------
(* The branches.                                                           *)

TxnUsable(o) == txn[o] \in {"idle", "open"}

(* MongoDB lets a transaction write a document unless another transaction  *)
(* has an uncommitted write of it, or committed one after the snapshot     *)
(* this transaction took with its first operation.                         *)
Conflict(o, d) ==
  \/ d \in stale[o]
  \/ \E other \in Orders \ {o} : txn[other] = "open" /\ d \in wrote[other]

ForgetWrites(o) ==
  /\ wrote' = [wrote EXCEPT ![o] = {}]
  /\ pendStock' = [pendStock EXCEPT ![o] = ZeroStock]
  /\ pendCart' = [pendCart EXCEPT ![o] = {}]
  /\ claimed' = [claimed EXCEPT ![o] = ZeroStock]

DiscardWrites(o) ==
  /\ ForgetWrites(o)
  /\ stale' = [stale EXCEPT ![o] = {}]

(* Mutant: the session is not handed to the insert.                        *)
Mutant_InsertWithoutSession(o) ==
  /\ insert[o] = "sending"
  /\ insert' = [insert EXCEPT ![o] = "done"]
  /\ txn' = [txn EXCEPT ![o] = IF TxnUsable(o) THEN "open" ELSE @]
  /\ orders' = orders \cup {o}
  /\ UNCHANGED <<callVars, at, copy, cartCopy, wrote, pendStock, pendCart, stale, claimed,
                 lockVars, stock, cart, sold, unread>>

(* orderService.createOrder(newOrder, session): the insert is usually the  *)
(* first operation of the transaction, and fails once it is aborted.       *)
InsertOrder(o) ==
  /\ insert[o] = "sending"
  /\ \/ /\ TxnUsable(o)
        /\ insert' = [insert EXCEPT ![o] = "done"]
        /\ txn' = [txn EXCEPT ![o] = "open"]
     \/ /\ ~ TxnUsable(o)
        /\ insert' = [insert EXCEPT ![o] = "failed"]
        /\ txn' = txn
  /\ UNCHANGED <<callVars, at, copy, cartCopy, wrote, pendStock, pendCart, stale, claimed,
                 lockVars, dbVars>>

(* Mutant: the quantity is not checked a second time, under the lock.      *)
Mutant_ReadUnchecked(l) ==
  /\ at[l] = "reading"
  /\ at' = [at EXCEPT ![l] = "read"]
  /\ copy' = [copy EXCEPT ![l] = [stock[ProductOf[l]] EXCEPT ![SkuOf[l]] = @ - Qty[l]]]
  /\ UNCHANGED <<callVars, insert, cartCopy, txnVars, lockVars, dbVars>>

(* reduceStock reads the product without the session, so it sees committed *)
(* data only, checks the quantity again and decrements its own copy.       *)
ReadProduct(l) ==
  LET doc == stock[ProductOf[l]] IN
  /\ at[l] = "reading"
  /\ IF InStock(l, doc)
       THEN /\ at' = [at EXCEPT ![l] = "read"]
            /\ copy' = [copy EXCEPT ![l] = [doc EXCEPT ![SkuOf[l]] = @ - Qty[l]]]
       ELSE /\ at' = [at EXCEPT ![l] = "failed"]
            /\ UNCHANGED copy
  /\ UNCHANGED <<callVars, insert, cartCopy, txnVars, lockVars, dbVars>>

(* removeProductFromCart: without a cart there is nothing to do, and a     *)
(* read that fails looks the same, since getCartByUserIdOrFail turns every *)
(* error into null: the order goes on and its items stay in the cart.      *)
ReadCart(o) ==
  LET found == cart[UserOf[o]] IN
  /\ at[o] = "reading"
  /\ \/ /\ found # None
        /\ at' = [at EXCEPT ![o] = "read"]
        /\ cartCopy' = [cartCopy EXCEPT ![o] = found \ ItemsOf(o)]
        /\ UNCHANGED unread
     \/ /\ at' = [at EXCEPT ![o] = "done"]
        /\ unread' = IF found = None THEN unread ELSE unread \cup {o}
        /\ UNCHANGED cartCopy
  /\ UNCHANGED <<callVars, insert, copy, txnVars, lockVars, stock, cart, orders, sold>>

(* update_product:<id> or update_cart:<id>, held around one write.         *)
LockDoc(b) ==
  /\ at[b] = "read"
  /\ Free(writeLock, {DocOf(b)})
  /\ writeLock' = Acquire(writeLock, {DocOf(b)}, b)
  /\ at' = [at EXCEPT ![b] = "locked"]
  /\ UNCHANGED <<callVars, insert, copy, cartCopy, txnVars, orderLock, dbVars>>

ForgetCopy(b) ==
  /\ copy' = [l \in Lines |-> IF l = b THEN ZeroDoc ELSE copy[l]]
  /\ cartCopy' = [o \in Orders |-> IF o = b THEN {} ELSE cartCopy[o]]

LockDocTimeout(b) ==
  /\ at[b] = "read"
  /\ ~ Free(writeLock, {DocOf(b)})
  /\ at' = [at EXCEPT ![b] = "failed"]
  /\ ForgetCopy(b)
  /\ UNCHANGED <<callVars, insert, txnVars, lockVars, dbVars>>

(* Mutant: the session is not handed to the write of the product.          *)
Mutant_WriteWithoutSession(l) ==
  LET p == ProductOf[l] IN
  /\ at[l] = "locked"
  /\ stock' = [stock EXCEPT ![p] = copy[l]]
  /\ claimed' = [claimed EXCEPT ![OrderOf[l]][p][SkuOf[l]] = @ + Qty[l]]
  /\ at' = [at EXCEPT ![l] = "wrote"]
  /\ UNCHANGED <<callVars, insert, copy, cartCopy, txn, wrote, pendStock, pendCart, stale,
                 lockVars, cart, orders, sold, unread>>

(* updateProductByIdLockSession replaces the product, all its variations   *)
(* included, by the line's copy, inside the transaction.                   *)
WriteProduct(l) ==
  LET o == OrderOf[l]
      p == ProductOf[l] IN
  /\ at[l] = "locked"
  /\ TxnUsable(o) /\ ~ Conflict(o, p)
  /\ txn' = [txn EXCEPT ![o] = "open"]
  /\ wrote' = [wrote EXCEPT ![o] = @ \cup {p}]
  /\ pendStock' = [pendStock EXCEPT ![o][p] = copy[l]]
  /\ claimed' = [claimed EXCEPT ![o][p][SkuOf[l]] = @ + Qty[l]]
  /\ at' = [at EXCEPT ![l] = "wrote"]
  /\ UNCHANGED <<callVars, insert, copy, cartCopy, pendCart, stale, lockVars, dbVars>>

(* Mutant: the session is not handed to the write of the cart.             *)
Mutant_CartWithoutSession(o) ==
  /\ at[o] = "locked"
  /\ cart' = [cart EXCEPT ![UserOf[o]] = cartCopy[o]]
  /\ at' = [at EXCEPT ![o] = "wrote"]
  /\ UNCHANGED <<callVars, insert, copy, cartCopy, txnVars, lockVars, stock, orders, sold, unread>>

(* updateCartLockSession: the cart inside the transaction.                 *)
WriteCart(o) ==
  /\ at[o] = "locked"
  /\ TxnUsable(o) /\ ~ Conflict(o, UserOf[o])
  /\ txn' = [txn EXCEPT ![o] = "open"]
  /\ wrote' = [wrote EXCEPT ![o] = @ \cup {UserOf[o]}]
  /\ pendCart' = [pendCart EXCEPT ![o] = cartCopy[o]]
  /\ at' = [at EXCEPT ![o] = "wrote"]
  /\ UNCHANGED <<callVars, insert, copy, cartCopy, pendStock, stale, claimed,
                 lockVars, dbVars>>

(* A write conflict aborts the transaction on the server; a write after    *)
(* the abort is refused.  Either way the write throws inside the try.      *)
WriteRefused(b) ==
  LET o == Parent(b) IN
  /\ at[b] = "locked"
  /\ ~ TxnUsable(o) \/ Conflict(o, DocOf(b))
  /\ at' = [at EXCEPT ![b] = "erred"]
  /\ \/ TxnUsable(o) /\ txn' = [txn EXCEPT ![o] = "aborted"] /\ DiscardWrites(o)
     \/ ~ TxnUsable(o) /\ UNCHANGED txnVars
  /\ UNCHANGED <<callVars, insert, copy, cartCopy, lockVars, dbVars>>

(* Mutant: no finally block, a write that throws leaves the key set.       *)
Mutant_UnlockOnlyAfterWrite(b) ==
  /\ at[b] \in {"wrote", "erred"}
  /\ writeLock' = IF at[b] = "wrote" THEN Release(writeLock, {DocOf(b)}, b) ELSE writeLock
  /\ at' = [at EXCEPT ![b] = IF @ = "wrote" THEN "done" ELSE "failed"]
  /\ ForgetCopy(b)
  /\ UNCHANGED <<callVars, insert, txnVars, orderLock, dbVars>>

(* The finally block around the write.  release throws if the key was lost.*)
UnlockDoc(b) ==
  /\ at[b] \in {"wrote", "erred"}
  /\ writeLock' = Release(writeLock, {DocOf(b)}, b)
  /\ at' = [at EXCEPT ![b] = IF @ = "wrote" /\ Holds(writeLock, {DocOf(b)}, b)
                               THEN "done" ELSE "failed"]
  /\ ForgetCopy(b)
  /\ UNCHANGED <<callVars, insert, txnVars, orderLock, dbVars>>

-----------------------------------------------------------------------------
(* The end of the transaction, the finally block and the event.            *)

AllSettled(o) ==
  /\ pc[o] = "run"
  /\ insert[o] = "done"
  /\ \A b \in BranchesOf(o) : at[b] = "done"

(* The server makes the transaction's writes visible in one step.          *)
ApplyWrites(o) ==
  /\ stock' = [p \in Products |-> IF p \in wrote[o] THEN pendStock[o][p] ELSE stock[p]]
  /\ cart' = [u \in Users |-> IF u \in wrote[o] THEN pendCart[o] ELSE cart[u]]
  /\ orders' = orders \cup {o}
  /\ sold' = [p \in Products |-> [s \in Skus |-> sold[p][s] + claimed[o][p][s]]]
  /\ txn' = [txn EXCEPT ![o] = "committed"]
  /\ stale' = [other \in Orders |->
                 IF other = o THEN {}
                 ELSE IF txn[other] = "open" THEN stale[other] \cup wrote[o]
                 ELSE stale[other]]
  /\ ForgetWrites(o)
  /\ UNCHANGED unread

Commit(o) ==
  /\ AllSettled(o) /\ txn[o] = "open"
  /\ ApplyWrites(o)
  /\ pc' = [pc EXCEPT ![o] = "unlock"]
  /\ UNCHANGED <<reviewed, outcome, sessions, branchVars, lockVars>>

(* The commit happened and its answer was lost: commitTransaction throws,  *)
(* and so does the abortTransaction of the catch block.                    *)
CommitUnknown(o) ==
  /\ "reply" \in Faults
  /\ AllSettled(o) /\ txn[o] = "open"
  /\ ApplyWrites(o)
  /\ pc' = [pc EXCEPT ![o] = "unlock"]
  /\ outcome' = [outcome EXCEPT ![o] = "failed"]
  /\ UNCHANGED <<reviewed, sessions, branchVars, lockVars>>

(* The catch block: a branch has failed, or the server has given the       *)
(* transaction up before the commit.                                       *)
Mutant_LineErrorsSwallowed(o) ==
  insert[o] = "failed" \/ (AllSettled(o) /\ txn[o] = "aborted")
SomeFailed(o) ==
  \/ insert[o] = "failed"
  \/ \E b \in BranchesOf(o) : at[b] = "failed"
  \/ AllSettled(o) /\ txn[o] = "aborted"

Abort(o) ==
  /\ pc[o] = "run" /\ SomeFailed(o)
  /\ txn' = [txn EXCEPT ![o] = "aborted"]
  /\ DiscardWrites(o)
  /\ pc' = [pc EXCEPT ![o] = "unlock"]
  /\ outcome' = [outcome EXCEPT ![o] = "failed"]
  /\ UNCHANGED <<reviewed, sessions, branchVars, lockVars, dbVars>>

(* Mutants: the catch block does not throw; the session is not ended.      *)
Mutant_ErrorSwallowed(o) ==
  /\ pc[o] = "unlock"
  /\ orderLock' = Release(orderLock, Keys(o), o)
  /\ sessions' = sessions \ {o}
  /\ pc' = [pc EXCEPT ![o] = "emit"]
  /\ UNCHANGED <<reviewed, outcome, branchVars, txnVars, writeLock, dbVars>>


(* finally: unlock and endSession.  The release throws when a key is no    *)
(* longer the call's own, or was asked for twice: the caller is told of a  *)
(* failure whatever the transaction did.                                   *)
UnlockOrder(o) ==
  /\ pc[o] = "unlock"
  /\ orderLock' = Release(orderLock, Keys(o), o)
  /\ sessions' = sessions \ {o}
  /\ IF outcome[o] = "none" /\ Holds(orderLock, Keys(o), o) /\ ~ RepeatsKey(o)
       THEN pc' = [pc EXCEPT ![o] = "emit"] /\ UNCHANGED outcome
       ELSE End(o, "failed")
  /\ UNCHANGED <<reviewed, branchVars, txnVars, writeLock, dbVars>>

(* newOrderCreated goes to the communications service, and the order to    *)
(* the caller.                                                             *)
EmitCreated(o) ==
  /\ pc[o] = "emit"
  /\ End(o, "ok")
  /\ UNCHANGED <<reviewed, sessions, branchVars, txnVars, lockVars, dbVars>>

-----------------------------------------------------------------------------
(* What happens to the service: crashes, TTLs, the server's own timeout.   *)

Alive(o) == pc[o] # "crashed"

Running(b) == at[b] \in {"reading", "read", "locked", "wrote", "erred"}

(* The instance that runs the call dies.  The message was acknowledged     *)
(* before the work began, so nobody runs the call again, and its branches  *)
(* are gone with everything they held in memory.                           *)
Crash(o) ==
  /\ Alive(o)
  /\ pc[o] = "done" => \E b \in BranchesOf(o) : Running(b)
  /\ pc' = [pc EXCEPT ![o] = "crashed"]
  /\ sessions' = sessions \ {o}
  /\ reviewed' = [reviewed EXCEPT ![o] = {}]
  /\ insert' = [insert EXCEPT ![o] = "idle"]
  /\ at' = [b \in Branches |-> IF b \in BranchesOf(o) THEN "idle" ELSE at[b]]
  /\ copy' = [l \in Lines |-> IF OrderOf[l] = o THEN ZeroDoc ELSE copy[l]]
  /\ cartCopy' = [cartCopy EXCEPT ![o] = {}]
  /\ UNCHANGED <<outcome, txnVars, lockVars, dbVars>>

(* A transaction that nobody finishes is aborted by the server.            *)
TxnTimeout(o) ==
  /\ txn[o] = "open" /\ pc[o] \in {"run", "crashed"}
  /\ txn' = [txn EXCEPT ![o] = "aborted"]
  /\ DiscardWrites(o)
  /\ UNCHANGED <<callVars, branchVars, lockVars, dbVars>>

MayExpire(o) == ~ Alive(o) \/ "expiry" \in Faults

ExpireOrderKey(k) ==
  /\ orderLock[k] # None /\ MayExpire(orderLock[k])
  /\ orderLock' = Expired(orderLock, k)
  /\ UNCHANGED <<callVars, branchVars, txnVars, writeLock, dbVars>>

ExpireWriteKey(k) ==
  /\ writeLock[k] # None /\ MayExpire(Parent(writeLock[k]))
  /\ writeLock' = Expired(writeLock, k)
  /\ UNCHANGED <<callVars, branchVars, txnVars, orderLock, dbVars>>

(* Nothing is left to do.                                                  *)
Quiet ==
  /\ \A o \in Orders : pc[o] \in {"done", "crashed"}
  /\ \A b \in Branches : ~ Running(b)
  /\ UNCHANGED vars

-----------------------------------------------------------------------------
CallStep(o) ==
  \/ \E p \in Products : ReviewProduct(o, p)
  \/ Reject(o) \/ StartTransaction(o)
  \/ LockOrder(o) \/ LockOrderTimeout(o)
  \/ InsertOrder(o)
  \/ Commit(o) \/ CommitUnknown(o) \/ Abort(o)
  \/ UnlockOrder(o) \/ EmitCreated(o)

BranchStep(b) ==
  \/ b \in Lines /\ (ReadProduct(b) \/ WriteProduct(b))
  \/ b \in Orders /\ (ReadCart(b) \/ WriteCart(b))
  \/ LockDoc(b) \/ LockDocTimeout(b) \/ WriteRefused(b) \/ UnlockDoc(b)

Expiry(k) == ExpireOrderKey(k) \/ ExpireWriteKey(k)

Next ==
  \/ \E o \in Orders : CallStep(o) \/ Crash(o) \/ TxnTimeout(o)
  \/ \E b \in Branches : BranchStep(b)
  \/ \E k \in Docs : Expiry(k)
  \/ Quiet

Spec == Init /\ [][Next]_vars

(* Promises settle, the database and Redis answer, TTLs run out, and the   *)
(* server gives up the transactions of dead clients.  Crashes and the      *)
(* server's timeout of live transactions need not happen.                  *)
Fairness ==
  /\ \A o \in Orders : /\ WF_vars(CallStep(o))
                       /\ WF_vars(~ Alive(o) /\ TxnTimeout(o))
  /\ \A b \in Branches : WF_vars(BranchStep(b))
  /\ \A k \in Docs : WF_vars(Expiry(k))

FairSpec == Spec /\ Fairness

-----------------------------------------------------------------------------
(* Safety.                                                                 *)

InCriticalSection(o) == pc[o] \in {"run", "unlock"}

(* createOrder runs for one order at a time per buyer and per product:     *)
(* from the lock of line 261 to the unlock of line 284 no other call that  *)
(* shares the buyer or a product is between the two.                       *)
CreateOrderExclusive ==
  \A o, q \in Orders :
    o # q /\ InCriticalSection(o) /\ InCriticalSection(q) =>
      UserOf[o] # UserOf[q] /\ ProductsOf(o) \cap ProductsOf(q) = {}

(* No unit is lost and none is sold twice: for every variation, what is    *)
(* left in the product document and what the committed orders took add up  *)
(* to the initial stock.  reduceStock replaces the whole document by a     *)
(* copy it read outside the transaction, so this rests on the locks and on *)
(* MongoDB's write conflicts.                                              *)
StockConserved ==
  \A p \in Products, s \in Skus : stock[p][s] + sold[p][s] = InitStock[p][s]

(* The items of a committed order are still in the buyer's cart only when  *)
(* the order's own read of the cart failed: no write of a stale copy, by   *)
(* an order of the same buyer that was under way with it, brings back what *)
(* was taken out, and no other failure leaves the two apart.               *)
CartCleared ==
  \A o \in orders \ unread :
    cart[UserOf[o]] # None => cart[UserOf[o]] \cap ItemsOf(o) = {}

(* A caller who is told of success has an order; newOrderCreated is only   *)
(* ever emitted for a committed order.                                     *)
SuccessMeansOrdered == \A o \in Orders : outcome[o] = "ok" => o \in orders

(* A caller who is told of a failure, and asked to try again (line 280),   *)
(* has no order.                                                           *)
FailureMeansNoOrder ==
  \A o \in Orders : outcome[o] \in {"rejected", "busy", "failed"} => o \notin orders

(* The session is ended on every way out but one: lock() is called before  *)
(* the try block, so a call that cannot get its keys leaves it open.       *)
OnlyBusyLeaksSession ==
  \A o \in sessions : pc[o] \in {"done", "crashed"} => outcome[o] = "busy"

(* Stock, carts and orders change as in the ledger: one whole order at a   *)
(* time, or not at all.  The orders that leave the cart as it is are those *)
(* whose read of it failed, and no others.                                 *)
Ledger == INSTANCE OrderLedger WITH NoCart <- None, blind <- unread \cap orders
ImplementsLedger == Ledger!Spec

-----------------------------------------------------------------------------
(* Why StockConserved holds: the parts of its inductive invariant.         *)

(* From lock to unlock a call holds every key it asked for.                *)
KeysHeld == \A o \in Orders : InCriticalSection(o) => Holds(orderLock, Keys(o), o)

(* A call writes nothing before it has its keys; after the abort or the    *)
(* commit the branches that are still under way can write nothing either.  *)
InScope(o) ==
  /\ pc[o] \in {"review", "lock"} => wrote[o] = {} /\ claimed[o] = ZeroStock
  /\ TxnUsable(o) /\ pc[o] # "run" => \A b \in BranchesOf(o) : at[b] = "idle"
  /\ wrote[o] \subseteq Keys(o)

WritesInScope == \A o \in Orders : InScope(o)

(* What a line of a running order has read and decremented is still what   *)
(* the database holds, up to its own decrement: no other call has changed  *)
(* the product since, and none will before this one commits.               *)
Fresh(l) ==
  LET doc == stock[ProductOf[l]] IN
  pc[OrderOf[l]] = "run" =>
    /\ at[l] \in {"idle", "reading", "read", "locked"} => ProductOf[l] \notin wrote[OrderOf[l]]
    /\ at[l] \in {"read", "locked"} => copy[l] = [doc EXCEPT ![SkuOf[l]] = @ - Qty[l]]

FreshCopies == \A l \in Lines : Fresh(l)

(* The documents a running transaction has written differ from the         *)
(* committed ones by exactly the units its lines claim.                    *)
Balanced(o, p) ==
  pc[o] = "run" =>
    IF p \in wrote[o] THEN \A s \in Skus : pendStock[o][p][s] + claimed[o][p][s] = stock[p][s]
                      ELSE claimed[o][p] = ZeroDoc

WritesBalanced == \A o \in Orders, p \in Products : Balanced(o, p)

IndInv == KeysHeld /\ WritesInScope /\ FreshCopies /\ WritesBalanced /\ StockConserved

-----------------------------------------------------------------------------
(* Liveness.                                                               *)

(* Every call of createOrder comes to an end, whoever else holds the keys  *)
(* it needs.                                                               *)
EveryCallEnds == \A o \in Orders : <>(pc[o] \in {"done", "crashed"})

(* No key stays set for good, whichever branch failed and whoever died.    *)
LocksReleased ==
  \A k \in Docs : []<>(orderLock[k] = None) /\ []<>(writeLock[k] = None)
=============================================================================
