-------------------------------- MODULE Stats --------------------------------
(***************************************************************************)
(* Statistics of orders (StatsMntService, StatisticsService): numbers of   *)
(* orders and revenue, split by day, month or year, the revenue cached in  *)
(* Redis, and numbers of orders by status.                                 *)
(*                                                                         *)
(* A sum is abstracted to the set of the orders it sums.  The bounds of    *)
(* the periods and the test for the current one are kept as they are       *)
(* written: revenue of a month or a year ends with the midnight that       *)
(* begins its day 31, and months counted from 0 are compared with months   *)
(* counted from 1.                                                         *)
(***************************************************************************)
EXTENDS OrdersCollection, Functions, TLC

CONSTANTS
  Calls,
  Menu,       \* [Calls -> SUBSET Requests]: what a call may ask for
  ShortTtl,   \* 5m
  LongTtl,    \* 30m
  MaxTime,    \* bound of the clock
  MaxFaults   \* bound of the failing queries

Splits == {"day", "month", "year"}

Requests ==
  [type : {"revenue"}, split : Splits, from : Days, to : Days, refresh : BOOLEAN]
    \cup [type : {"orders"}, split : Splits, from : Days, to : Days, status : {"any", "completed"}]
    \cup [type : {"statuses"}, from : Days, to : Days]

ASSUME StatsAssumption ==
  /\ \A c \in Calls : Menu[c] \subseteq Requests
  /\ LongTtl \in Nat /\ ShortTtl \in 1..LongTtl /\ MaxTime \in Nat /\ MaxFaults \in Nat

VARIABLES
  now,
  cache,     \* the cached revenue by split and period, and when it ends
  call,      \* where a call stands
  request,
  keys,      \* the keys it has listed to be deleted
  part,      \* where the query of each of its dates, or statuses, stands
  sum,       \* and what it has found
  faults,
  started,   \* history: when a call started
  alone,     \* history: no other call was under way
  missed,    \* history: the orders changed since a call started
  changed,   \* history: the last change of an order, and whether no call was under way
  swallowed      \* history: a query failed

statsVars == <<now, cache, call, request, keys, part, sum, faults, started, alone, missed, changed, swallowed>>

-----------------------------------------------------------------------------
(* resolveDateRange: setDate, setMonth or setFullYear, until toDate.       *)
Following(n, split) ==
  CASE split = "day" -> n + 1
    [] split = "month" -> NewDate(MonthOf(n) + 1, Date(n))
    [] split = "year" -> NewDate(MonthOf(n) + MonthsPerYear, Date(n))

DatesOf(r) ==
  LET from[n \in r.from..StartOf(Months) + 31] ==
        IF n > r.to THEN {} ELSE {n} \cup from[Following(n, r.split)]
  IN from[r.from]

ResolveDateRange ==
  [r \in UNION {Menu[c] : c \in Calls} |-> IF r.type = "statuses" THEN {} ELSE DatesOf(r)]

FirstMonth(n) == YearOf(n) * MonthsPerYear

(* calculateRevenueDay, -Month and -Year.                                  *)
RevenueMoments(n, split) ==
  CASE split = "day" -> Moments(n, n)
    [] split = "month" -> Midnight(NewDate(MonthOf(n), 1))..Midnight(NewDate(MonthOf(n), 31))
    [] split = "year" ->
         Midnight(NewDate(FirstMonth(n), 1))..Midnight(NewDate(FirstMonth(n) + MonthsPerYear, 1) - 1)

(* calculateOrders.                                                        *)
Mutant_LikeRevenue(n, split) == RevenueMoments(n, split)
OrderMoments(n, split) ==
  CASE split = "day" -> Moments(n, n)
    [] split = "month" -> Moments(NewDate(MonthOf(n), 1), NewDate(MonthOf(n) + 1, 1) - 1)
    [] split = "year" ->
         Moments(NewDate(FirstMonth(n), 1), NewDate(FirstMonth(n) + MonthsPerYear, 1) - 1)

MonthInYear(n) == MonthOf(n) % MonthsPerYear
IsCurrentTime(n, split) ==
  /\ YearOf(n) = YearOf(Today)
  /\ split # "year" => MonthInYear(n) = MonthInYear(Today) + 1
  /\ split = "day" => Date(n) = Date(Today)

Period(n, split) ==
  CASE split = "day" -> n [] split = "month" -> MonthOf(n) [] split = "year" -> YearOf(n)

Ttl(n, split) == IF IsCurrentTime(n, split) THEN ShortTtl ELSE LongTtl

-----------------------------------------------------------------------------
Parts(r) == IF r.type = "statuses" THEN DOMAIN Statuses ELSE ResolveDateRange[r]

Looks(r) == [p \in Parts(r) |-> IF r.type = "revenue" /\ ~ IsCurrentTime(p, r.split) THEN "get" ELSE "find"]

UnderWay(c) ==
  \/ call[c] \in {"keys", "delete", "query"}
  \/ call[c] = "failed" /\ (keys[c] # {} \/ \E p \in DOMAIN part[c] : part[c][p] # "done")

Begin(c, r) ==
  /\ call[c] = "idle"
  /\ request' = [request EXCEPT ![c] = r]
  /\ part' = [part EXCEPT ![c] = Looks(r)]
  /\ sum' = [sum EXCEPT ![c] = [p \in Parts(r) |-> {}]]
  /\ started' = [started EXCEPT ![c] = now]
  /\ LET busy == {d \in Calls : UnderWay(d)} IN
       alone' = [d \in Calls |-> IF d = c THEN busy = {} ELSE alone[d] /\ d \notin busy]

GetStats(c, r) ==
  /\ Begin(c, r)
  /\ call' = [call EXCEPT ![c] = IF r.type = "revenue" /\ r.refresh THEN "keys" ELSE "query"]
  /\ UNCHANGED <<now, cache, keys, faults, missed, changed, swallowed>>

(* refreshCache: list the keys of the split, and delete them.              *)
ListKeys(c) ==
  /\ call[c] = "keys"
  /\ keys' = [keys EXCEPT ![c] = {k \in DOMAIN cache : k[1] = request[c].split}]
  /\ call' = [call EXCEPT ![c] = IF keys'[c] = {} THEN "query" ELSE "delete"]
  /\ UNCHANGED <<now, cache, request, part, sum, faults, started, alone, missed, changed, swallowed>>

DeleteKey(c) ==
  /\ call[c] \in {"delete", "failed"}
  /\ \E k \in keys[c] :
       /\ cache' = Restrict(cache, DOMAIN cache \ {k})
       /\ keys' = [keys EXCEPT ![c] = @ \ {k}]
       /\ call' = [call EXCEPT ![c] = IF @ = "delete" /\ keys[c] = {k} THEN "query" ELSE @]
  /\ UNCHANGED <<now, request, part, sum, faults, started, alone, missed, changed, swallowed>>

(* The dates are queried side by side, the statuses one after the other.   *)
MayQuery(c, p) ==
  /\ call[c] \in {"query", "failed"}
  /\ p \in DOMAIN part[c]
  /\ request[c].type = "statuses" => \A q \in 1..p - 1 : part[c][q] = "done"

Settle(c, p, found) ==
  /\ part' = [part EXCEPT ![c][p] = "done"]
  /\ sum' = [sum EXCEPT ![c][p] = found]
  /\ call' = [call EXCEPT ![c] = IF @ = "query" /\ \A q \in DOMAIN part[c] \ {p} : part[c][q] = "done"
                                   THEN "done" ELSE @]

KeyOf(c, p) == <<request[c].split, Period(p, request[c].split)>>

GetCached(c, p) ==
  /\ MayQuery(c, p) /\ part[c][p] = "get"
  /\ IF KeyOf(c, p) \in DOMAIN cache
       THEN Settle(c, p, cache[KeyOf(c, p)].orders)
       ELSE part' = [part EXCEPT ![c][p] = "find"] /\ UNCHANGED <<sum, call>>
  /\ UNCHANGED <<now, cache, request, keys, faults, started, alone, missed, changed, swallowed>>

Wanted(r, p, o) ==
  CASE r.type = "revenue" -> orders[o] = "completed" /\ Created[o] \in RevenueMoments(p, r.split)
    [] r.type = "orders" -> orders[o] # None /\ (r.status = "any" \/ orders[o] = r.status)
                              /\ Created[o] \in OrderMoments(p, r.split)
    [] r.type = "statuses" -> orders[o] = Statuses[p] /\ Created[o] \in Midnight(r.from)..Midnight(r.to)

(* Revenue is stored in the cache before it is answered.                   *)
Found(c, p, found) ==
  IF request[c].type = "revenue"
    THEN /\ part' = [part EXCEPT ![c][p] = "set"]
         /\ sum' = [sum EXCEPT ![c][p] = found]
         /\ UNCHANGED call
    ELSE Settle(c, p, found)

Query(c, p) ==
  /\ MayQuery(c, p) /\ part[c][p] = "find"
  /\ Found(c, p, {o \in Orders : Wanted(request[c], p, o)})
  /\ UNCHANGED <<now, cache, request, keys, faults, started, alone, missed, changed, swallowed>>

(* getOrdersOrNull takes any error for no orders: the revenue is nothing,  *)
(* and is cached as that.                                                  *)
QueryFails(c, p) ==
  /\ faults < MaxFaults
  /\ MayQuery(c, p) /\ part[c][p] = "find" /\ request[c].type = "revenue"
  /\ faults' = faults + 1
  /\ swallowed' = TRUE
  /\ Found(c, p, {})
  /\ UNCHANGED <<now, cache, request, keys, started, alone, missed, changed>>

With(stored, key, entry) == [k \in DOMAIN stored \cup {key} |-> IF k = key THEN entry ELSE stored[k]]

Mutant_NoTtl(c, p) ==
  /\ MayQuery(c, p) /\ part[c][p] = "set"
  /\ cache' = With(cache, KeyOf(c, p), [orders |-> sum[c][p], until |-> MaxTime + 1])
  /\ Settle(c, p, sum[c][p])
  /\ UNCHANGED <<now, request, keys, faults, started, alone, missed, changed, swallowed>>
SetCached(c, p) ==
  /\ MayQuery(c, p) /\ part[c][p] = "set"
  /\ cache' = With(cache, KeyOf(c, p), [orders |-> sum[c][p], until |-> now + Ttl(p, request[c].split)])
  /\ Settle(c, p, sum[c][p])
  /\ UNCHANGED <<now, request, keys, faults, started, alone, missed, changed, swallowed>>

(* Redis fails, or a count: the caller is told so, other queries go on.    *)
CallFails(c) ==
  /\ faults < MaxFaults
  /\ call[c] \in {"keys", "delete", "query"}
  /\ faults' = faults + 1
  /\ call' = [call EXCEPT ![c] = "failed"]
  /\ part' = [part EXCEPT ![c] = IF call[c] = "query" /\ request[c].type # "statuses" THEN @ ELSE <<>>]
  /\ UNCHANGED <<now, cache, request, keys, sum, started, alone, missed, changed, swallowed>>

-----------------------------------------------------------------------------
Tick ==
  /\ now < MaxTime
  /\ now' = now + 1
  /\ cache' = Restrict(cache, {k \in DOMAIN cache : cache[k].until > now'})
  /\ UNCHANGED <<call, request, keys, part, sum, faults, started, alone, missed, changed, swallowed>>

(* What the histories make of a change of an order.                        *)
Notice(o) ==
  /\ missed' = [c \in Calls |-> IF call[c] = "idle" THEN missed[c] ELSE missed[c] \cup {o}]
  /\ changed' = [changed EXCEPT ![o] =
       [at |-> now, quiet |-> \A c \in Calls : ~ UnderWay(c)]]
  /\ UNCHANGED <<now, cache, call, request, keys, part, sum, faults, started, alone, swallowed>>

StatsInit ==
  /\ now = 0
  /\ cache = <<>>
  /\ call = [c \in Calls |-> "idle"]
  /\ request = [c \in Calls |-> None]
  /\ keys = [c \in Calls |-> {}]
  /\ part = [c \in Calls |-> <<>>]
  /\ sum = [c \in Calls |-> <<>>]
  /\ faults = 0
  /\ started = [c \in Calls |-> 0]
  /\ alone = [c \in Calls |-> TRUE]
  /\ missed = [c \in Calls |-> {}]
  /\ changed = [o \in Orders |-> [at |-> 0, quiet |-> TRUE]]
  /\ swallowed = FALSE

StatsStep(c) ==
  \/ \E r \in Menu[c] : GetStats(c, r)
  \/ ListKeys(c) \/ DeleteKey(c) \/ CallFails(c)
  \/ \E p \in DOMAIN part[c] : GetCached(c, p) \/ Query(c, p) \/ QueryFails(c, p) \/ SetCached(c, p)

-----------------------------------------------------------------------------
Times(c, o) == Cardinality({p \in DOMAIN sum[c] : o \in sum[c][p]})
AskedFor(r, o) ==
  IF r.type = "statuses" THEN Created[o] \in Midnight(r.from)..Midnight(r.to)
  ELSE \E n \in ResolveDateRange[r] :
         Period(Day(Created[o]), r.split) \in Period(r.from, r.split)..Period(n, r.split)

(* Numbers of orders add up: an order that stays as it is during the call  *)
(* is counted in one period, or under one status, if its period is one of  *)
(* those from the first date to the last, and nowhere else.  Ranges by     *)
(* month or year have to begin before day 29: from a later one setMonth    *)
(* skips the shorter months.                                               *)
BeforeDay29(r) == r.type = "orders" /\ r.split # "day" => Date(r.from) <= 28
CountedOnce ==
  \A c \in Calls : call[c] = "done" /\ request[c].type # "revenue" /\ BeforeDay29(request[c]) =>
    \A o \in Orders \ missed[c] :
      LET r == request[c]
          asked == /\ orders[o] # None /\ AskedFor(r, o)
                   /\ r.type = "orders" => r.status = "any" \/ orders[o] = r.status
      IN Times(c, o) = IF asked THEN 1 ELSE 0

(* The revenue that is answered is what the completed orders make, if the  *)
(* call refreshes the cache and runs alone, or if they changed while no    *)
(* statistics were under way and as long ago as the cache lasts.  Neither  *)
(* helps when a query has failed.                                          *)
UpToDate ==
  \A c \in Calls : call[c] = "done" /\ request[c].type = "revenue" /\ ~ swallowed =>
    \A o \in Orders \ missed[c], p \in DOMAIN sum[c] :
      \/ request[c].refresh /\ alone[c]
      \/ changed[o].quiet /\ changed[o].at + LongTtl <= started[c]
      => (o \in sum[c][p] <=> Wanted(request[c], p, o))
=============================================================================
