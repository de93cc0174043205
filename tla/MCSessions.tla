----------------------------- MODULE MCSessions ------------------------------
(* An instance of Sessions: a call that signs in or changes the role, one    *)
(* that refreshes or blocks, and a third one that goes through the gateway.  *)
(* A staff member's token meets every kind of guard; the token of c1 may be  *)
(* a customer's, for whom two reads are never acknowledged.                  *)
EXTENDS Sessions

CONSTANTS c1, c2, c3

Call(ops, tokens) ==
  [kind : {"call"}, route : {r \in Routes : r.op \in ops}, with : tokens]

GatewayMenu ==
  Call({"createProduct", "getStats", "updateUserInfo", "getProductById", "getUsers", "isHealthy"}, {First})
    \cup Call({"getUserOrders", "createOrder", "getProductById"}, {c1})
    \cup Call({"vnpayIpnUrl", "getProductById", "createProduct"}, {None})

TheMenu ==
  [c \in Calls |->
     IF c = c1 THEN {[kind |-> "login"], [kind |-> "role", role |-> "User"], [kind |-> "refresh", with |-> First]}
     ELSE IF c = c2 THEN {[kind |-> "refresh", with |-> t] : t \in {First, c1}}
                           \cup {[kind |-> "block", blocked |-> TRUE]}
     ELSE GatewayMenu \cup {[kind |-> "refresh", with |-> First]}]
=============================================================================
