--------------------------- MODULE OrdersCollection --------------------------
(***************************************************************************)
(* The orders collection as the statistics and the backup read it, and the *)
(* calendar its dates are in.  Days are numbered through the months of the *)
(* calendar; a day has two moments, its midnight and the rest of it.       *)
(***************************************************************************)
EXTENDS Integers, Sequences, FiniteSets

CONSTANTS
  None,
  Orders,
  Created,       \* [Orders -> moments]: createdAt
  MonthStarts,   \* the first day of each month, and the day after the last month
  MonthsPerYear, \* 12 in the code
  Today,         \* the day on which everything happens
  MaxChanges     \* bound of the changes of orders

Months == Len(MonthStarts) - 1
StartOf(m) == MonthStarts[m + 1]     \* months are counted from 0
Days == 0..StartOf(Months) - 1
Midnight(n) == 2 * n
Day(t) == t \div 2
Moments(first, last) == Midnight(first)..Midnight(last) + 1

MonthOf(n) == CHOOSE m \in 0..Months - 1 : StartOf(m) <= n /\ n < StartOf(m + 1)
YearOf(n) == MonthOf(n) \div MonthsPerYear
Date(n) == n - StartOf(MonthOf(n)) + 1     \* getDate()

(* new Date(year, month, date): a date past the month runs into the next.  *)
NewDate(month, date) == StartOf(IF month <= Months THEN month ELSE Months) + date - 1

ASSUME OrdersAssumption ==
  /\ None \notin Orders \cup {"open", "completed"}
  /\ MonthStarts \in Seq(Nat) /\ Len(MonthStarts) > 1 /\ StartOf(0) = 0
  /\ \A m \in 0..Months - 1 : StartOf(m + 1) - StartOf(m) \in 28..31
  /\ Today \in Days /\ \A o \in Orders : Created[o] \in Moments(0, Today)
  /\ MonthsPerYear \in Nat \ {0} /\ MaxChanges \in Nat

VARIABLES
  orders,   \* the state of an order, or None as long as it is not there
  changes

Statuses == <<"open", "completed">>   \* completed: by status and by payment

OrdersInit ==
  /\ orders = [o \in Orders |-> IF Created[o] \in Moments(Today, Today) THEN None ELSE "open"]
  /\ changes = 0

(* createOrder, the payments and the staff.                                *)
Change(o) ==
  /\ changes < MaxChanges
  /\ changes' = changes + 1
  /\ orders' = [orders EXCEPT ![o] = IF @ = "open" THEN "completed" ELSE "open"]
=============================================================================
