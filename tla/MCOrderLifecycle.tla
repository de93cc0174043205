-------------------------- MODULE MCOrderLifecycle --------------------------
(* Instances of OrderLifecycle for TLC.                                    *)
EXTENDS OrderLifecycle

Ipn(args) == [handler : {"ipn"}, arg : args]
Customer == [handler : {"cancel", "repay"}, arg : {"-"}]
Staff(statuses) == [handler : {"status"}, arg : statuses]

(* Every handler; of the statuses the staff may set, those that the        *)
(* handlers tell apart and one that stands for the others.                 *)
CoreMenu == Ipn({"paid", "failed", "invalid"}) \cup Customer
              \cup Staff({"pending", "cancelled", "completed"})

(* The gateway and the customer only.                                      *)
BuyerMenu == Ipn({"paid", "failed"}) \cup Customer
=============================================================================
