---------------------------- MODULE MCProductsMnt ----------------------------
(* Instances of ProductsMnt: a product on sale, another one or a free id.  *)
EXTENDS ProductsMnt, TLC

CONSTANTS p1, p2, s1, s2, s3, size, color, weight, i1, i2, c1, c2, c3

Labelled == s1 :> {color} @@ s2 :> {color} @@ s3 :> {color}
WithUnit == {<<s2, s3>>}
V(sku, stock) == [sku |-> sku, stock |-> stock, gone |-> FALSE]
Doc(variations, images) ==
  [live |-> TRUE, general |-> {size}, variations |-> variations, images |-> images]

OneProduct == p1 :> Doc(<<V(s1, 1), V(s2, 2)>>, {i1}) @@ p2 :> None

StockMenu ==
  {[kind |-> "put", p |-> p1, doc |-> Doc(<<V(s1, 2), V(s3, 0)>>, {})],
   [kind |-> "drop", p |-> p1, sku |-> s2],
   [kind |-> "delete", p |-> p1],
   [kind |-> "create", p |-> p2, doc |-> Doc(<<V(s1, 1)>>, {i2})]}
    \cup {[kind |-> "sale", p |-> p1, sku |-> s2]}

ImageMenu ==
  {[kind |-> "sweep"], [kind |-> "upload", image |-> i2], [kind |-> "avatar", image |-> i1]}

OtherMenu ==
  {[kind |-> "category", given |-> FALSE, labels |-> {}],
   [kind |-> "category", given |-> TRUE, labels |-> {weight}],
   [kind |-> "label", label |-> weight]}

FullMenu == StockMenu \cup ImageMenu \cup OtherMenu
SymCalls == Permutations(Calls)
=============================================================================
