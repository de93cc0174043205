----------------------------- MODULE MCCheckout -----------------------------
(* Instances of Checkout for TLC.                                          *)
EXTENDS Checkout, TLC

CONSTANTS o1, o2, u1, u2, p1, p2, s1, s2, la, lb, lc

StockOf(m, n) == p1 :> (s1 :> m @@ s2 :> n) @@ p2 :> (s1 :> n @@ s2 :> m)

(* Two buyers: o1 orders both products and o2 the second one, of which     *)
(* there is enough for either order but not for both.  u2 has no cart.     *)
ContendUserOf == o1 :> u1 @@ o2 :> u2
ContendOrderOf == la :> o1 @@ lb :> o1 @@ lc :> o2
ContendProductOf == la :> p1 @@ lb :> p2 @@ lc :> p2
ContendSkuOf == la :> s1 @@ lb :> s1 @@ lc :> s1
ContendQty == la :> 1 @@ lb :> 1 @@ lc :> 2
ContendStock == StockOf(1, 2)
ContendCart == u1 :> {<<p1, s1>>, <<p2, s1>>, <<p2, s2>>} @@ u2 :> None

(* One buyer with two orders under way for different products.             *)
SameBuyerUserOf == o1 :> u1 @@ o2 :> u1
SameBuyerOrderOf == la :> o1 @@ lb :> o2
SameBuyerProductOf == la :> p1 @@ lb :> p2
SameBuyerSkuOf == la :> s1 @@ lb :> s1
SameBuyerQty == la :> 1 @@ lb :> 1
SameBuyerStock == StockOf(2, 2)
SameBuyerCart == u1 :> {<<p1, s1>>, <<p2, s1>>}
=============================================================================
