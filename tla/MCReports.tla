------------------------------ MODULE MCReports -------------------------------
(* An instance of Reports: two years of two months, of 31, 28, 31 and 30     *)
(* days.  Today is the second day of the second year's second month; one     *)
(* order is of noon on the day 31 before, the other comes today.             *)
EXTENDS Reports

CONSTANTS o1, o2, c1, c2, k1, k2

TheStarts == <<0, 31, 59, 90, 120>>
TheToday == 91
TheCreated == o1 :> 2 * 89 + 1 @@ o2 :> 2 * 91 + 1
Symmetric == Permutations(Copies)

Revenue(split, from, to, refresh) ==
  [type : {"revenue"}, split : {split}, from : {from}, to : {to}, refresh : refresh]
Numbers(split, from, status) ==
  [type |-> "orders", split |-> split, from |-> from, to |-> TheToday, status |-> status]

FirstMenu ==
  Revenue("day", 89, 90, {FALSE}) \cup Revenue("month", 90, TheToday, {FALSE}) \cup Revenue("year", 59, TheToday, {FALSE})
    \cup {Numbers("year", 0, "completed"), Numbers("month", 59, "any"), Numbers("day", 89, "any")}
    \cup {[type |-> "statuses", from |-> 59, to |-> TheToday]}
SecondMenu == Revenue("day", 89, 89, {TRUE}) \cup Revenue("year", 59, TheToday, {TRUE})
TheMenu == c1 :> FirstMenu @@ c2 :> SecondMenu
=============================================================================
