------------------------------ MODULE MCCarts ------------------------------
(* Three calls of one buyer, whose cart holds two items, while the shelves   *)
(* of the products may change.                                             *)
EXTENDS Carts, TLC

CONSTANTS i1, i2, c1, c2, c3

Add(i, q) == [kind |-> "add", items |-> {i}, quantity |-> q]
Delete(items) == [kind |-> "delete", items |-> items, quantity |-> -1]
Clear == [kind |-> "clear", items |-> Items, quantity |-> 0]
Order(items) == [kind |-> "order", items |-> items, quantity |-> 0]

FullMenu == {Add(i1, 2), Add(i2, 1), Add(i1, 0), Delete({i1, i2}), Delete({i2}), Clear, Order({i1})}
Started == {<<i1, 1>>, <<i2, 2>>}
Has(stocks) == [active |-> TRUE, stocks |-> stocks]
Gone == [active |-> FALSE, stocks |-> {2}]
InStock == i1 :> Has({2}) @@ i2 :> Has({1})
ChangingShelves == {InStock, i1 :> Gone @@ i2 :> Has({})}

SymCalls == Permutations(Calls)
=============================================================================
