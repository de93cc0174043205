----------------------------- MODULE MCUsersMnt -----------------------------
(* An instance of UsersMnt: two managers or a manager and a member of the  *)
(* staff, another one of the staff, and a mail address that is still free. *)
EXTENDS UsersMnt, TLC

CONSTANTS m1, m2, s, n, c1, c2, c3

Doc(role) == [role |-> role, block |-> None, address |-> <<>>]
OldDoc(role) ==
  [role |-> role, block |-> [isBlocked |-> FALSE, activityLogs |-> <<>>], address |-> <<TRUE>>]

Starts ==
  {m1 :> Doc("Manager") @@ m2 :> Doc(role) @@ s :> OldDoc("Staff") @@ n :> None :
     role \in {"Manager", "Staff"}}

StaffMenu ==
  {[kind |-> "Block", victim |-> s, actor |-> a] : a \in {m1, m2}}
    \cup {[kind |-> "Unblock", victim |-> s, actor |-> m1],
          [kind |-> "Block", victim |-> m2, actor |-> m1]}
    \cup {[kind |-> "role", victim |-> m2, actor |-> m1, role |-> role] : role \in {"Manager", "User"}}
    \cup {[kind |-> "role", victim |-> m1, actor |-> a, role |-> "Staff"] : a \in {m1, m2}}

OwnMenu ==
  {[kind |-> "info", victim |-> u] : u \in {m2, s}}
    \cup {[kind |-> "address", victim |-> s, address |-> a] : a \in {<<FALSE, FALSE>>, <<TRUE, TRUE>>}}
    \cup {[kind |-> "create", victim |-> n, role |-> role] : role \in {"Manager", "Staff"}}

FullMenu == StaffMenu \cup OwnMenu
SymCalls == Permutations(Calls)
=============================================================================
