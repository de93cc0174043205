------------------------------- MODULE Carts -------------------------------
(***************************************************************************)
(* The cart of one buyer: addProductToCart and deleteProductsCart          *)
(* (CartsOrdService) beside the branch of createOrder that takes ordered   *)
(* items out of the cart (removeProductFromCart, CheckoutService).  The    *)
(* cart service reads the cart and writes it back whole, without any lock. *)
(*                                                                         *)
(* The buyer's carts are a sequence, in the order the collection yields    *)
(* them: nothing in the schema keeps a second one out, and findOne and     *)
(* findOneAndUpdate by userId take the first.  The order of a cart's lines *)
(* and its dates are left out.  A crash loses the jobs that are under way: *)
(* they take no further step.                                              *)
(***************************************************************************)
EXTENDS Integers, Sequences, FiniteSets

CONSTANTS
  Calls,       \* calls for this buyer
  Items,       \* variations (product and sku), of different products
  Menu,        \* the requests they may carry
  FirstLines,  \* lines of the cart the buyer may start with
  Shelves,     \* the states of the products: subset of [Items -> Shelf]
  Whole        \* marks the job of a call that is about the whole cart

(* An item on the shelf: whether its product is active, and the stock of   *)
(* the variations that have its sku (none when the sku is unknown).        *)
Shelf == [active : BOOLEAN, stocks : SUBSET Nat]
Lines == Items \X (Nat \ {0})
Cart == [products : SUBSET Lines, cartCountProducts : Nat]

(* What a cart request or an order can ask for.                            *)
Requests ==
  [kind : {"add"}, items : {{i} : i \in Items}, quantity : Int]
    \cup [kind : {"delete"}, items : (SUBSET Items) \ {{}}, quantity : {-1}]
    \cup [kind : {"clear"}, items : {Items}, quantity : {0}]
    \cup [kind : {"order"}, items : (SUBSET Items) \ {{}}, quantity : {0}]

NoRequest == [kind |-> "-", items |-> {}, quantity |-> 0]

OneLineEach(lines) == \A k, l \in lines : k[1] = l[1] => k = l

ASSUME CartsAssumption ==
  /\ Menu \subseteq Requests
  /\ FirstLines \subseteq Lines /\ IsFiniteSet(FirstLines) /\ OneLineEach(FirstLines)
  /\ Shelves \subseteq [Items -> Shelf]
  /\ Whole \notin Items

VARIABLES
  carts,     \* the buyer's cart documents
  shelf,     \* what the products collection says of the items
  request,   \* what a call was asked
  at,        \* where a job stands
  copy,      \* the lines a job will write back
  before,    \* history: the lines of the first cart when the call began
  alone      \* history: no other call was under way while this one was

vars == <<carts, shelf, request, at, copy, before, alone>>

(* A delete runs addProductToCart once for each of its items, side by      *)
(* side; an add is one such job, a clear or an order a job <<c, Whole>>.   *)
Jobs == Calls \X (Items \cup {Whole})
Stations == {"idle", "validate", "count", "new", "read", "write", "again", "done", "unread",
             "failed"}

TypeOK ==
  /\ carts \in Seq(Cart)
  /\ shelf \in Shelves
  /\ request \in [Calls -> Requests \cup {NoRequest}]
  /\ at \in [Jobs -> Stations]
  /\ copy \in [Jobs -> SUBSET Lines]
  /\ before \in [Calls -> SUBSET Lines]
  /\ alone \in [Calls -> BOOLEAN]

(* carts-ord.service.ts and carts.service.ts always store the number of    *)
(* lines with the lines.                                                   *)
CartOf(lines) == [products |-> lines, cartCountProducts |-> Cardinality(lines)]

Init ==
  /\ carts \in {<<>>, <<CartOf(FirstLines)>>}
  /\ shelf \in Shelves
  /\ request = [c \in Calls |-> NoRequest]
  /\ at = [j \in Jobs |-> "idle"]
  /\ copy = [j \in Jobs |-> {}]
  /\ before = [c \in Calls |-> {}]
  /\ alone = [c \in Calls |-> FALSE]

-----------------------------------------------------------------------------
FirstCart == IF carts = <<>> THEN {} ELSE carts[1].products

JobsOf(c) == {c} \X (IF request[c].kind \in {"add", "delete"} THEN request[c].items ELSE {Whole})
UnderWay(c) == \E j \in JobsOf(c) : at[j] \notin {"idle", "done", "unread", "failed"}

Without(lines, items) == {l \in lines : l[1] \notin items}

(* A call begins.  createOrder holds the buyer's order_create key, so two  *)
(* orders of one buyer do not get here together.                           *)
Start(c, r) ==
  /\ request[c] = NoRequest
  /\ r.kind = "order" => \A d \in Calls : request[d].kind = "order" => ~ UnderWay(d)
  /\ request' = [request EXCEPT ![c] = r]
  /\ at' = [j \in Jobs |->
       IF j \notin JobsOf(c)' THEN at[j] ELSE IF j[2] = Whole THEN "read" ELSE "validate"]
  /\ before' = [before EXCEPT ![c] = FirstCart]
  /\ alone' = [d \in Calls |-> IF d = c THEN \A other \in Calls : ~ UnderWay(other)
                                        ELSE alone[d] /\ ~ UnderWay(d)]
  /\ UNCHANGED <<carts, shelf, copy>>

Goes(j, from, to) == at[j] = from /\ at' = [at EXCEPT ![j] = to]

History == <<request, before, alone>>

-----------------------------------------------------------------------------
(* addProductToCart for one item.  getProduct replaces the condition on    *)
(* variations by its own, so an unknown sku passes.                        *)
Available(item, quantity) ==
  /\ shelf[item].active
  /\ \A stock \in shelf[item].stocks : stock >= quantity

Validate(c, item) ==
  /\ Goes(<<c, item>>, "validate",
          IF Available(item, request[c].quantity) THEN "count" ELSE "failed")
  /\ UNCHANGED <<carts, shelf, copy, History>>

(* countCartUser; buildNewCart refuses what is no addition.                *)
Mutant_CountIgnored(c, item) ==
  /\ Goes(<<c, item>>, "count", IF request[c].quantity > 0 THEN "new" ELSE "read")
  /\ UNCHANGED <<carts, shelf, copy, History>>
CountCarts(c, item) ==
  /\ Goes(<<c, item>>, "count",
          CASE carts # <<>> -> "read"
            [] carts = <<>> /\ request[c].quantity > 0 -> "new"
            [] OTHER -> "failed")
  /\ UNCHANGED <<carts, shelf, copy, History>>

CreateCart(c, item) ==
  /\ Goes(<<c, item>>, "new", "done")
  /\ carts' = Append(carts, CartOf({<<item, request[c].quantity>>}))
  /\ UNCHANGED <<shelf, copy, History>>

(* The line of an item is replaced, or taken out when the quantity is not  *)
(* positive; the item need not be there when it is.  (The DTO and the      *)
(* comments here speak of changing the quantity by what is sent.)          *)
Mutant_NewList(lines, item, quantity) == IF quantity > 0 THEN {<<item, quantity>>} ELSE {}
UpdateCartUtil(lines, item, quantity) ==
  Without(lines, {item}) \cup (IF quantity > 0 THEN {<<item, quantity>>} ELSE {})

NothingToReduce(lines, item, quantity) ==
  quantity <= 0 /\ Without(lines, {item}) = lines

ReadCart(c, item) ==
  LET j == <<c, item>>
      q == request[c].quantity
  IN /\ carts # <<>>
     /\ IF NothingToReduce(FirstCart, item, q)
        THEN Goes(j, "read", "failed") /\ UNCHANGED copy
        ELSE /\ Goes(j, "read", "write")
             /\ copy' = [copy EXCEPT ![j] = UpdateCartUtil(FirstCart, item, q)]
     /\ UNCHANGED <<carts, shelf, History>>

(* CartsService.updateCart, an upsert by userId.                           *)
Upserted(cart) == IF carts = <<>> THEN <<cart>> ELSE [carts EXCEPT ![1] = cart]

UpdateCart(c, item) ==
  LET j == <<c, item>> IN
  /\ Goes(j, "write", "done")
  /\ carts' = Upserted(CartOf(copy[j]))
  /\ UNCHANGED <<shelf, copy, History>>

-----------------------------------------------------------------------------
(* deleteProductsCart with isAll: the empty cart is written twice.         *)
ReadForClear(c) ==
  LET j == <<c, Whole>> IN
  /\ request[c].kind = "clear"
  /\ Goes(j, "read", IF carts = <<>> THEN "failed" ELSE "write")
  /\ copy' = [copy EXCEPT ![j] = {}]
  /\ UNCHANGED <<carts, shelf, History>>

ClearCart(c) ==
  LET j == <<c, Whole>> IN
  /\ request[c].kind = "clear"
  /\ Goes(j, "write", "again") \/ Goes(j, "again", "done")
  /\ carts' = Upserted(CartOf(copy[j]))
  /\ UNCHANGED <<shelf, copy, History>>

-----------------------------------------------------------------------------
(* The cart's branch of createOrder: a buyer without a cart has nothing to *)
(* remove.  A read that fails is taken for that (getCartByUserIdOrFail):   *)
(* the order goes on and the cart stays as it is.                          *)
ReadFails(c) ==
  /\ carts # <<>>
  /\ Goes(<<c, Whole>>, "read", "unread")
  /\ UNCHANGED copy

Mutant_KeepsOrdered(c) ==
  LET j == <<c, Whole>> IN
  /\ request[c].kind = "order"
  /\ Goes(j, "read", IF carts = <<>> THEN "done" ELSE "write")
  /\ copy' = [copy EXCEPT ![j] = FirstCart \ Without(FirstCart, request[c].items)]
  /\ UNCHANGED <<carts, shelf, History>>
ReadForOrder(c) ==
  LET j == <<c, Whole>> IN
  /\ request[c].kind = "order"
  /\ \/ ReadFails(c)
     \/ /\ Goes(j, "read", IF carts = <<>> THEN "done" ELSE "write")
        /\ copy' = [copy EXCEPT ![j] = Without(FirstCart, request[c].items)]
  /\ UNCHANGED <<carts, shelf, History>>

(* The write, which needs the document to be there, becomes visible with   *)
(* the commit.  (A write of the cart service in between waits for it;      *)
(* module Checkout has the transaction.)                                   *)
CommitOrder(c) ==
  LET j == <<c, Whole>> IN
  /\ request[c].kind = "order"
  /\ Goes(j, "write", "done")
  /\ carts # <<>>
  /\ carts' = [carts EXCEPT ![1] = CartOf(copy[j])]
  /\ UNCHANGED <<shelf, copy, History>>

(* Another branch fails, or the cart was written since the transaction     *)
(* began: the order is aborted.                                            *)
AbortOrder(c) ==
  /\ request[c].kind = "order"
  /\ Goes(<<c, Whole>>, "write", "failed")
  /\ UNCHANGED <<carts, shelf, copy, History>>

-----------------------------------------------------------------------------
(* Staff and checkouts change the products.                                *)
ChangeShelf ==
  /\ shelf' \in Shelves \ {shelf}
  /\ UNCHANGED <<carts, request, at, copy, before, alone>>

AddStep(c, i) ==
  Validate(c, i) \/ CountCarts(c, i) \/ CreateCart(c, i) \/ ReadCart(c, i) \/ UpdateCart(c, i)

WholeStep(c) ==
  ReadForClear(c) \/ ClearCart(c) \/ ReadForOrder(c) \/ CommitOrder(c) \/ AbortOrder(c)

Quiet ==
  /\ \A c \in Calls : request[c] # NoRequest /\ ~ UnderWay(c)
  /\ UNCHANGED vars

Next ==
  \/ \E c \in Calls : \E r \in Menu : Start(c, r)
  \/ \E c \in Calls, i \in Items : AddStep(c, i)
  \/ \E c \in Calls : WholeStep(c)
  \/ ChangeShelf
  \/ Quiet

Spec == Init /\ [][Next]_vars

-----------------------------------------------------------------------------
(* However calls overlap, no cart has two lines for one variation:         *)
(* updateCartUtil looks for the line before it adds one, and what is       *)
(* written back whole was such a cart when it was read.                    *)
OneLinePerItem == \A n \in DOMAIN carts : OneLineEach(carts[n].products)

(* Both writers of the collection, the cart service and the checkout, keep *)
(* cartCountProducts equal to the number of lines.                         *)
CountsMatch ==
  \A n \in DOMAIN carts : carts[n].cartCountProducts = Cardinality(carts[n].products)

(* Lost updates may bring back a line or lose one, but never make up a     *)
(* quantity: each line of each cart is one the buyer started with or one   *)
(* that some call asked to add.  It is never a sum or a difference of      *)
(* requests, which is what the DTO says it is.                             *)
Asked(c) == request[c].items \X {request[c].quantity}

NothingMadeUp ==
  \A n \in DOMAIN carts :
    carts[n].products \subseteq FirstLines \cup UNION {Asked(c) : c \in Calls}

(* And they are only lost to calls that are about them: as long as no      *)
(* request has named an item, no step changes its line, although every     *)
(* write replaces all lines.                                               *)
Untouched(i) == \A c \in Calls : i \notin request[c].items

LineOf(lines, i) == {l \in lines : l[1] = i}

UntouchedStays ==
  [][\A i \in Items : Untouched(i)' => LineOf(FirstCart, i)' = LineOf(FirstCart, i)]_vars

(* A second cart takes a race: calls that did not run alone, one more than *)
(* the carts they made too many of.  (countCartUser, then createCart.)     *)
SecondCartNeedsRace ==
  Len(carts) > 1 =>
    Cardinality({c \in Calls : request[c].kind = "add" /\ ~ alone[c]}) >= Len(carts)

(* What a call that ran alone has done to the first cart when it ends.  An *)
(* addition replaces the line.  A delete of several items overlaps with    *)
(* itself, and only one of its removals is certain.  An order whose branch *)
(* failed, or could not read the cart, has left it alone.                  *)
AllDone(c) == \A j \in JobsOf(c) : at[j] = "done"

Outcome(c) ==
  LET r == request[c] IN
  CASE r.kind = "add" /\ AllDone(c) ->
         \A i \in r.items : FirstCart = UpdateCartUtil(before[c], i, r.quantity)
    [] r.kind = "delete" /\ AllDone(c) ->
         /\ Without(FirstCart, r.items) = Without(before[c], r.items)
         /\ FirstCart \subseteq before[c]
         /\ \E i \in r.items : Without(FirstCart, {i}) = FirstCart
    [] r.kind = "clear" /\ AllDone(c) -> FirstCart = {}
    [] r.kind = "order" /\ AllDone(c) -> FirstCart = Without(before[c], r.items)
    [] r.kind \in {"add", "clear", "order"} /\ ~ AllDone(c) -> FirstCart = before[c]
    [] OTHER -> Without(FirstCart, r.items) = Without(before[c], r.items)

Ends(c) == UnderWay(c) /\ ~ UnderWay(c)'

AloneMeansExact == [][\A c \in Calls : Ends(c) /\ alone[c] => Outcome(c)']_vars

(* However many calls overlap later, none undoes what a call that ran      *)
(* alone has done to an item that no other call is about: every copy of    *)
(* the cart they write back was read after it.                             *)
Left(c, i) ==
  IF request[c].kind = "add" /\ request[c].quantity > 0 THEN {<<i, request[c].quantity>>} ELSE {}

Only(c, i) == i \in request[c].items /\ \A d \in Calls \ {c} : i \notin request[d].items

DoneStays ==
  \A c \in Calls, i \in Items :
    request[c].kind \in {"add", "order"} /\ AllDone(c) /\ alone[c] /\ Only(c, i) =>
      LineOf(FirstCart, i) = Left(c, i)
=============================================================================
