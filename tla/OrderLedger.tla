---------------------------- MODULE OrderLedger ----------------------------
(***************************************************************************)
(* What the checkout promises, with nothing of how: an order is placed in  *)
(* one step that takes every one of its lines out of stock, takes the      *)
(* ordered items out of the buyer's cart and records the order, and that   *)
(* happens only when all the lines are in stock.  An order may be placed   *)
(* blind, when the cart could not be read: then the cart stays as it is.   *)
(* Nothing else ever changes stock, carts or orders.  Checkout implements  *)
(* this module.                                                            *)
(***************************************************************************)
EXTENDS Naturals, FiniteSets

CONSTANTS Orders, Lines, Users, Products, Skus,
          UserOf, OrderOf, ProductOf, SkuOf, Qty, InitStock, InitCart, NoCart

VARIABLES
  stock, cart, orders,
  blind   \* the orders placed without a look at the cart

ledgerVars == <<stock, cart, orders, blind>>

Sums == INSTANCE Folds

(* The units of variation s of product p that order o asks for, over all   *)
(* of its lines.                                                           *)
Units(o, p, s) ==
  Sums!MapThenFoldSet(+, 0, LAMBDA l : Qty[l], LAMBDA S : CHOOSE l \in S : TRUE,
                  {l \in Lines : OrderOf[l] = o /\ ProductOf[l] = p /\ SkuOf[l] = s})

ItemsOf(o) == {<<ProductOf[l], SkuOf[l]>> : l \in {m \in Lines : OrderOf[m] = o}}

Init ==
  /\ stock = InitStock
  /\ cart = InitCart
  /\ orders = {}
  /\ blind = {}

(* The stock and the record of an order, which always go together.         *)
Sell(o) ==
  /\ o \notin orders
  /\ \A p \in Products, s \in Skus : stock[p][s] >= Units(o, p, s)
  /\ stock' = [p \in Products |-> [s \in Skus |-> stock[p][s] - Units(o, p, s)]]
  /\ orders' = orders \cup {o}

Place(o) ==
  /\ Sell(o)
  /\ cart' = [cart EXCEPT ![UserOf[o]] = IF @ = NoCart THEN @ ELSE @ \ ItemsOf(o)]
  /\ UNCHANGED blind

PlaceBlind(o) ==
  /\ Sell(o)
  /\ cart[UserOf[o]] # NoCart
  /\ blind' = blind \cup {o}
  /\ UNCHANGED cart

Next == \E o \in Orders : Place(o) \/ PlaceBlind(o)

Spec == Init /\ [][Next]_ledgerVars
=============================================================================
