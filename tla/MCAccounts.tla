----------------------------- MODULE MCAccounts -----------------------------
(* An instance of Accounts: no account yet, or one not verified.            *)
EXTENDS Accounts, TLC

Starts == {None} \cup {[verified |-> FALSE, password |-> First]}
FullMenu == Requests
SymCalls == Permutations(Calls)
=============================================================================
