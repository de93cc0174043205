-------------------------- MODULE MCCommunications ---------------------------
(* Two orders, a change of status, a member of the staff, who is connected, *)
(* the customer, who is not, and a mail.                                    *)
EXTENDS Communications, TLC

CONSTANTS o1, o2, c1, a1, u, l1, m1

Symmetric == Permutations(Orders)
=============================================================================
