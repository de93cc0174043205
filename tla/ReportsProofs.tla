---------------------------- MODULE ReportsProofs ----------------------------
(***************************************************************************)
(* What the backup keeps to for every number of orders, of overlapping     *)
(* runs and of failures: between the delete and the insert of a document   *)
(* nothing else is at stake, and a run that ends well, alone, has copied   *)
(* everything it read.  And how fresh revenue is behind its cache, for     *)
(* every number of calls, every calendar and every lifetime of the cache.  *)
(***************************************************************************)
EXTENDS Reports, FiniteSetTheorems, WellFoundedInduction, TLAPS

State == {"open", "completed"}
Working == {"delete", "insert"}

BackupTypes ==
  /\ orders \in [Orders -> State \cup {None}]
  /\ copy \in [Copies -> {"idle", "copy", "done", "failed"} \cup Working]
  /\ left \in [Copies -> SUBSET Servers]
  /\ rejected \subseteq Copies
  /\ backup \in [Servers -> [Orders -> State \cup {None}]]
  /\ ever \in [Servers -> SUBSET Orders]
  /\ single \in [Copies -> BOOLEAN]

(* What find() has given a run, and what is left of it.                    *)
ReadTypes ==
  /\ DOMAIN read = Copies
  /\ \A k \in Copies :
       /\ DOMAIN read[k] \subseteq Orders
       /\ \A o \in DOMAIN read[k] : read[k][o] \in State /\ read[k][o] # None
  /\ todo \in [Copies -> SUBSET Orders]
  /\ doc \in [Copies -> Orders \cup {None}]
  /\ \A k \in Copies :
       /\ todo[k] \subseteq DOMAIN read[k]
       /\ copy[k] \in Working => doc[k] \in DOMAIN read[k] /\ doc[k] \notin todo[k]

(* A document that is missing on a server is owed to it by a run that has  *)
(* it under way and has not inserted it there yet, or will never.          *)
Owes(k, s) ==
  \/ copy[k] \in {"delete", "failed"}
  \/ copy[k] = "insert" /\ (s \in left[k] \/ k \in rejected)

Owed ==
  \A s \in Servers : \A o \in ever[s] :
    backup[s][o] = None => \E k \in Copies : doc[k] = o /\ Owes(k, s)

(* A run that has the day to itself keeps what it has copied.              *)
Alone == \A k \in Copies : single[k] => \A j \in Copies \ {k} : ~ Busy(j)

Ends == \A k \in rejected : copy[k] \in Working \cup {"failed"}

Under(k, s) ==
  /\ copy[k] = "delete" /\ s \notin left[k] => backup[s][doc[k]] = None
  /\ copy[k] = "insert" /\ s \in left[k] => backup[s][doc[k]] = None
  /\ copy[k] = "insert" /\ s \notin left[k] /\ k \notin rejected => backup[s][doc[k]] = read[k][doc[k]]
Copied ==
  \A k \in Copies, s \in Servers : single[k] =>
    /\ k \notin rejected => Under(k, s)
    /\ copy[k] \in {"copy", "done"} \cup Working =>
         \A o \in DOMAIN read[k] \ todo[k] :
           (copy[k] \in Working /\ o = doc[k]) \/ backup[s][o] = read[k][o]
    /\ copy[k] = "done" => todo[k] = {}

Inv == BackupTypes /\ ReadTypes /\ Owed /\ Alone /\ Ends /\ Copied

LEMMA BackupTypesStep ==
  ASSUME BackupTypes, ReadTypes, NEW k \in Copies, BackupStep(k), UNCHANGED orders
  PROVE  BackupTypes'
<1>1. CASE CopyPrimaryToBackup(k)
  BY <1>1 DEF CopyPrimaryToBackup, BackupTypes, ReadTypes, Working
<1>2. CASE NextDocument(k)
  BY <1>2 DEF NextDocument, BackupTypes, ReadTypes, Working
<1>3. CASE Finish(k)
  BY <1>3 DEF Finish, BackupTypes, ReadTypes, Working
<1>4. ASSUME NEW s \in Servers, Delete(k, s) PROVE BackupTypes'
  <2>1. /\ copy' \in [Copies -> {"idle", "copy", "done", "failed"} \cup Working]
        /\ left' \in [Copies -> SUBSET Servers] /\ rejected' \subseteq Copies
    BY <1>4 DEF Delete, Answered, BackupTypes, Working
  <2>2. backup' \in [Servers -> [Orders -> State \cup {None}]] /\ ever' \in [Servers -> SUBSET Orders]
    BY <1>4 DEF Delete, BackupTypes, ReadTypes, Working
  <2>3. UNCHANGED <<orders, single>>
    BY <1>4 DEF Delete
  <2> QED
    BY <2>1, <2>2, <2>3 DEF BackupTypes
<1>5. ASSUME NEW s \in Servers, Insert(k, s) PROVE BackupTypes'
  <2>1. /\ copy' \in [Copies -> {"idle", "copy", "done", "failed"} \cup Working]
        /\ left' \in [Copies -> SUBSET Servers] /\ rejected' \subseteq Copies
    BY <1>5 DEF Insert, Answered, BackupTypes, Working
  <2>2. backup' \in [Servers -> [Orders -> State \cup {None}]] /\ ever' \in [Servers -> SUBSET Orders]
    BY <1>5 DEF Insert, BackupTypes, ReadTypes, Working
  <2>3. UNCHANGED <<orders, single>>
    BY <1>5 DEF Insert
  <2> QED
    BY <2>1, <2>2, <2>3 DEF BackupTypes
<1>6. ASSUME NEW s \in Servers, WriteFails(k, s) PROVE BackupTypes'
  <2>1. /\ copy' \in [Copies -> {"idle", "copy", "done", "failed"} \cup Working]
        /\ left' \in [Copies -> SUBSET Servers] /\ rejected' \subseteq Copies
    BY <1>6 DEF WriteFails, Answered, BackupTypes, Working
  <2>2. backup' \in [Servers -> [Orders -> State \cup {None}]] /\ ever' \in [Servers -> SUBSET Orders]
    BY <1>6 DEF WriteFails, BackupTypes, ReadTypes, Working
  <2>3. UNCHANGED <<orders, single>>
    BY <1>6 DEF WriteFails
  <2> QED
    BY <2>1, <2>2, <2>3 DEF BackupTypes
<1> QED
  BY <1>1, <1>2, <1>3, <1>4, <1>5, <1>6 DEF BackupStep

LEMMA ReadTypesStep ==
  ASSUME BackupTypes, ReadTypes, NEW k \in Copies, BackupStep(k), UNCHANGED orders
  PROVE  ReadTypes'
<1>1. CASE CopyPrimaryToBackup(k)
  BY <1>1 DEF CopyPrimaryToBackup, BackupTypes, ReadTypes, Working
<1>2. CASE NextDocument(k)
  BY <1>2 DEF NextDocument, BackupTypes, ReadTypes, Working
<1>3. CASE Finish(k)
  BY <1>3 DEF Finish, BackupTypes, ReadTypes, Working
<1>4. ASSUME NEW s \in Servers, Delete(k, s) PROVE ReadTypes'
  BY <1>4 DEF Delete, Answered, BackupTypes, ReadTypes, Working
<1>5. ASSUME NEW s \in Servers, Insert(k, s) PROVE ReadTypes'
  BY <1>5 DEF Insert, Answered, BackupTypes, ReadTypes, Working
<1>6. ASSUME NEW s \in Servers, WriteFails(k, s) PROVE ReadTypes'
  BY <1>6 DEF WriteFails, Answered, BackupTypes, ReadTypes, Working
<1> QED
  BY <1>1, <1>2, <1>3, <1>4, <1>5, <1>6 DEF BackupStep

LEMMA OwedStep ==
  ASSUME BackupTypes, ReadTypes, Owed, NEW k \in Copies, BackupStep(k), UNCHANGED orders
  PROVE  Owed'
<1>1. CASE CopyPrimaryToBackup(k)
  BY <1>1 DEF CopyPrimaryToBackup, BackupTypes, ReadTypes, Working, Owed, Owes
<1>2. CASE NextDocument(k)
  BY <1>2 DEF NextDocument, BackupTypes, ReadTypes, Working, Owed, Owes
<1>3. CASE Finish(k)
  BY <1>3 DEF Finish, BackupTypes, ReadTypes, Working, Owed, Owes
<1>4. ASSUME NEW s \in Servers, Delete(k, s) PROVE Owed'
  BY <1>4 DEF Delete, Answered, BackupTypes, ReadTypes, Working, Owed, Owes
<1>5. ASSUME NEW s \in Servers, Insert(k, s) PROVE Owed'
  <2> DEFINE d == doc[k]
  <2>1. /\ copy[k] = "insert" /\ s \in left[k] /\ d \in Orders
        /\ UNCHANGED doc /\ rejected \subseteq rejected'
        /\ \A j \in Copies \ {k} : copy'[j] = copy[j] /\ left'[j] = left[j]
    BY <1>5 DEF Insert, Answered, BackupTypes, ReadTypes, Working
  <2>2. \A j \in Copies \ {k}, z \in Servers : Owes(j, z) => Owes(j, z)'
    BY <2>1 DEF Owes
  <2>3. \A z \in Servers \ {s} : Owes(k, z) => Owes(k, z)'
    BY <1>5, <2>1 DEF Owes, Insert, Answered, BackupTypes
  <2>4. \A z \in Servers, o \in Orders :
          /\ z # s \/ o # d => backup'[z][o] = backup[z][o] /\ (o \in ever'[z] => o \in ever[z])
          /\ backup'[s][d] # None
    BY <1>5, <2>1 DEF Insert, BackupTypes, ReadTypes, Working
  <2>5. ASSUME NEW z \in Servers, NEW o \in ever'[z], backup'[z][o] = None
        PROVE  \E j \in Copies : doc[j] = o /\ Owes(j, z)'
    <3>1. o \in Orders /\ (z # s \/ o # d)
      BY <2>4, <2>5, BackupTypesStep DEF BackupTypes
    <3>2. PICK j \in Copies : doc[j] = o /\ Owes(j, z)
      BY <3>1, <2>4, <2>5 DEF Owed
    <3>3. j = k => z # s
      BY <3>1, <3>2
    <3> QED
      BY <3>2, <3>3, <2>2, <2>3
  <2> QED
    BY <2>1, <2>5 DEF Owed
<1>6. ASSUME NEW s \in Servers, WriteFails(k, s) PROVE Owed'
  BY <1>6 DEF WriteFails, Answered, BackupTypes, ReadTypes, Working, Owed, Owes
<1> QED
  BY <1>1, <1>2, <1>3, <1>4, <1>5, <1>6 DEF BackupStep

LEMMA AloneStep ==
  ASSUME BackupTypes, Alone, NEW k \in Copies, BackupStep(k), UNCHANGED orders
  PROVE  Alone'
<1>1. CASE CopyPrimaryToBackup(k)
  BY <1>1 DEF CopyPrimaryToBackup, BackupTypes, Alone, Busy
<1>2. CASE NextDocument(k)
  BY <1>2 DEF NextDocument, BackupTypes, Alone, Busy
<1>3. CASE Finish(k)
  BY <1>3 DEF Finish, BackupTypes, Alone, Busy
<1>4. ASSUME NEW s \in Servers, Delete(k, s) PROVE Alone'
  BY <1>4 DEF Delete, Answered, BackupTypes, Alone, Busy
<1>5. ASSUME NEW s \in Servers, Insert(k, s) PROVE Alone'
  BY <1>5 DEF Insert, Answered, BackupTypes, Alone, Busy
<1>6. ASSUME NEW s \in Servers, WriteFails(k, s) PROVE Alone'
  BY <1>6 DEF WriteFails, Answered, BackupTypes, Alone, Busy
<1> QED
  BY <1>1, <1>2, <1>3, <1>4, <1>5, <1>6 DEF BackupStep

LEMMA EndsStep ==
  ASSUME BackupTypes, Ends, NEW k \in Copies, BackupStep(k), UNCHANGED orders
  PROVE  Ends'
<1>1. CASE CopyPrimaryToBackup(k)
  BY <1>1 DEF CopyPrimaryToBackup, BackupTypes, Ends, Working
<1>2. CASE NextDocument(k)
  BY <1>2 DEF NextDocument, BackupTypes, Ends, Working
<1>3. CASE Finish(k)
  BY <1>3 DEF Finish, BackupTypes, Ends, Working
<1>4. ASSUME NEW s \in Servers, Delete(k, s) PROVE Ends'
  BY <1>4 DEF Delete, Answered, BackupTypes, Ends, Working
<1>5. ASSUME NEW s \in Servers, Insert(k, s) PROVE Ends'
  BY <1>5 DEF Insert, Answered, BackupTypes, Ends, Working
<1>6. ASSUME NEW s \in Servers, WriteFails(k, s) PROVE Ends'
  BY <1>6 DEF WriteFails, Answered, BackupTypes, Ends, Working
<1> QED
  BY <1>1, <1>2, <1>3, <1>4, <1>5, <1>6 DEF BackupStep

LEMMA CopiedStep ==
  ASSUME BackupTypes, ReadTypes, Alone, Ends, Copied, NEW k \in Copies, BackupStep(k), UNCHANGED orders
  PROVE  Copied'
<1>1. CASE CopyPrimaryToBackup(k)
  BY <1>1 DEF CopyPrimaryToBackup, BackupTypes, ReadTypes, Working, Copied, Under, Alone, Busy, Ends
<1>2. CASE NextDocument(k)
  BY <1>2 DEF NextDocument, BackupTypes, ReadTypes, Working, Copied, Under, Alone, Busy, Ends
<1>3. CASE Finish(k)
  BY <1>3 DEF Finish, BackupTypes, ReadTypes, Working, Copied, Under, Alone, Busy, Ends
<1>4. ASSUME NEW s \in Servers, Delete(k, s) PROVE Copied'
  BY <1>4 DEF Delete, Answered, BackupTypes, ReadTypes, Working, Copied, Under, Alone, Busy, Ends
<1>5. ASSUME NEW s \in Servers, Insert(k, s) PROVE Copied'
  BY <1>5 DEF Insert, Answered, BackupTypes, ReadTypes, Working, Copied, Under, Alone, Busy, Ends
<1>6. ASSUME NEW s \in Servers, WriteFails(k, s) PROVE Copied'
  BY <1>6 DEF WriteFails, Answered, BackupTypes, ReadTypes, Working, Copied, Under, Alone, Busy, Ends
<1> QED
  BY <1>1, <1>2, <1>3, <1>4, <1>5, <1>6 DEF BackupStep

-----------------------------------------------------------------------------
LEMMA InvInit == Init => Inv
BY OrdersAssumption
   DEF Init, OrdersInit, BackupInit, Inv, BackupTypes, ReadTypes, Owed, Alone, Ends, Copied, Under,
       State, Working, Busy

(* Nothing but the backup's own steps and its restarts touches its state,  *)
(* and an order that changes stays one of the states.                      *)
LEMMA InvElsewhere ==
  ASSUME Inv, UNCHANGED backupVars, orders' \in [Orders -> State \cup {None}]
  PROVE  Inv'
<1>1. BackupTypes' /\ ReadTypes'
  BY DEF Inv, backupVars, BackupTypes, ReadTypes
<1>2. Owed' /\ Alone' /\ Ends' /\ Copied'
  BY DEF Inv, backupVars, Owed, Owes, Alone, Busy, Ends, Copied, Under
<1> QED
  BY <1>1, <1>2 DEF Inv

(* A restart leaves what was under way as failed, and owed for ever.       *)
LEMMA InvRestart ==
  ASSUME Inv, Restart, UNCHANGED orders
  PROVE  Inv'
<1>1. BackupTypes' /\ ReadTypes'
  BY DEF Inv, Restart, BackupTypes, ReadTypes, Working, Busy
<1>2. \A k \in Copies, s \in Servers : Owes(k, s) => Owes(k, s)'
  BY DEF Inv, Restart, BackupTypes, Working, Owes, Busy
<1>3. Owed'
  BY <1>2 DEF Restart, Owed, Inv
<1>4. Alone' /\ Ends'
  BY DEF Inv, Restart, BackupTypes, Working, Alone, Ends, Busy
<1>5. Copied'
  BY DEF Inv, Restart, BackupTypes, Working, Copied, Under, Busy
<1> QED
  BY <1>1, <1>3, <1>4, <1>5 DEF Inv

LEMMA InvNext == Inv /\ [Next]_vars => Inv'
<1> SUFFICES ASSUME Inv, [Next]_vars PROVE Inv'
  OBVIOUS
<1>1. ASSUME NEW o \in Orders, OrderChanges(o) PROVE Inv'
  <2>1. orders' \in [Orders -> State \cup {None}]
    BY <1>1 DEF OrderChanges, Change, Inv, BackupTypes, State
  <2> QED
    BY <1>1, <2>1, InvElsewhere DEF OrderChanges
<1>2. CASE TimePasses \/ (\E c \in Calls : StatsCall(c)) \/ UNCHANGED vars
  BY <1>2, InvElsewhere DEF TimePasses, StatsCall, vars, Inv, BackupTypes
<1>3. ASSUME NEW k \in Copies, BackupRun(k) PROVE Inv'
  BY <1>3, BackupTypesStep, ReadTypesStep, OwedStep, AloneStep, EndsStep, CopiedStep DEF BackupRun, Inv
<1>4. CASE BackupRestart
  BY <1>4, InvRestart DEF BackupRestart
<1> QED
  BY <1>1, <1>2, <1>3, <1>4 DEF Next

LEMMA InvHere == Inv => CrashCostsOne /\ FinishedIsComplete
<1> SUFFICES ASSUME Inv PROVE CrashCostsOne /\ FinishedIsComplete
  OBVIOUS
<1>1. CrashCostsOne
  BY DEF Inv, Owed, Owes, CrashCostsOne
<1>2. FinishedIsComplete
  BY DEF Inv, Copied, Working, FinishedIsComplete, BackupTypes
<1> QED
  BY <1>1, <1>2

(* However many runs of the backup overlap, fail or are cut off, what is   *)
(* missing on a server is a document that some run has, or had, under way. *)
THEOREM BackupLosesOne == Spec => []CrashCostsOne
  BY InvInit, InvNext, InvHere, PTL DEF Spec

(* A run that ends well and overlapped with no other has left on both      *)
(* servers what it read, for every number of documents and whatever        *)
(* happens to the orders meanwhile.                                        *)
THEOREM BackupIsComplete == Spec => []FinishedIsComplete
  BY InvInit, InvNext, InvHere, PTL DEF Spec

-----------------------------------------------------------------------------
(* How fresh the revenue is.                                               *)

StatTypes ==
  /\ now \in Nat
  /\ call \in [Calls -> {"idle", "keys", "delete", "query", "done", "failed"}]
  /\ DOMAIN request = Calls /\ \A c \in Calls : call[c] # "idle" => request[c] \in Menu[c]
  /\ DOMAIN keys = Calls /\ \A c \in Calls : call[c] \in {"idle", "query"} => keys[c] = {}
  /\ DOMAIN part = Calls /\ DOMAIN sum = Calls
  /\ \A c \in Calls : /\ DOMAIN part[c] \subseteq DOMAIN sum[c]
                      /\ call[c] # "failed" => DOMAIN part[c] = DOMAIN sum[c]
                      /\ call[c] = "done" => \A p \in DOMAIN part[c] : part[c][p] = "done"
                      /\ call[c] \in {"keys", "delete"} => \A p \in DOMAIN part[c] : part[c][p] \in {"get", "find"}
                      /\ \A p \in DOMAIN part[c] :
                           part[c][p] = "set" => call[c] # "idle" /\ request[c].type = "revenue"
  /\ started \in [Calls -> Nat] /\ \A c \in Calls : started[c] <= now
  /\ missed \in [Calls -> SUBSET Orders] /\ \A c \in Calls : call[c] = "idle" => missed[c] = {}
  /\ changed \in [Orders -> [at : Nat, quiet : BOOLEAN]]
  /\ \A k \in DOMAIN cache : cache[k].until \in Nat

(* The moments a key of the cache stands for, and that a sum is right      *)
(* about an order.                                                         *)
KeyMoments(k) ==
  CASE k[1] = "day" -> Moments(k[2], k[2])
    [] k[1] = "month" -> Midnight(NewDate(k[2], 1))..Midnight(NewDate(k[2], 31))
    [] k[1] = "year" -> Midnight(NewDate(k[2] * MonthsPerYear, 1))
                          ..Midnight(NewDate(k[2] * MonthsPerYear + MonthsPerYear, 1) - 1)

Right(k, found, o) == o \in found <=> orders[o] = "completed" /\ Created[o] \in KeyMoments(k)

(* Nothing stays in the cache past its end.                                *)
Lasting == \A k \in DOMAIN cache : now < cache[k].until /\ cache[k].until <= now + LongTtl

(* What is cached is right, but for orders that changed while somebody     *)
(* was at work, and for what was cached before an order's last change.     *)
CacheRight ==
  \A k \in DOMAIN cache, o \in Orders :
    \/ swallowed \/ ~ changed[o].quiet
    \/ cache[k].until <= changed[o].at + LongTtl
    \/ Right(k, cache[k].orders, o)

(* Whoever is at work and has missed a change makes that change unquiet.   *)
Unquiet == \A c \in Calls : UnderWay(c) => \A o \in missed[c] : ~ changed[o].quiet

(* A call that has the statistics to itself.                               *)
OnItsOwn ==
  \A c \in Calls : alone[c] /\ UnderWay(c) => \A d \in Calls \ {c} : ~ UnderWay(d)

Renews(c) == call[c] # "idle" /\ request[c].type = "revenue" /\ request[c].refresh /\ alone[c]

(* Such a call, when it renews the cache, leaves there nothing of its      *)
(* split that is wrong about what it has not missed.                       *)
Renewed ==
  \A c \in Calls : ~ swallowed /\ Renews(c) /\ call[c] \in {"delete", "query"} =>
    \A k \in DOMAIN cache \ keys[c], o \in Orders \ missed[c] :
      k[1] = request[c].split => Right(k, cache[k].orders, o)

Old(c, o) == changed[o].quiet /\ changed[o].at + LongTtl <= started[c]

SumsRight ==
  \A c \in Calls : ~ swallowed /\ call[c] # "idle" /\ request[c].type = "revenue" =>
    \A p \in DOMAIN part[c], o \in Orders \ missed[c] :
      \/ part[c][p] = "set"
      \/ part[c][p] = "done" /\ (Old(c, o) \/ (Renews(c) /\ call[c] \in {"query", "done"}))
      => Right(KeyOf(c, p), sum[c][p], o)

Fresh == StatTypes /\ Lasting /\ CacheRight /\ Unquiet /\ OnItsOwn /\ Renewed /\ SumsRight

(* The moments of a date's period are those of its key.                    *)
LEMMA MomentsOfKey ==
  ASSUME NEW p, NEW split \in Splits
  PROVE  RevenueMoments(p, split) = KeyMoments(<<split, Period(p, split)>>)
<1>1. CASE split = "day"
  BY <1>1 DEF RevenueMoments, KeyMoments, Period
<1>2. CASE split = "month"
  BY <1>2 DEF RevenueMoments, KeyMoments, Period
<1>3. CASE split = "year"
  BY <1>3 DEF RevenueMoments, KeyMoments, Period, FirstMonth
<1> QED
  BY <1>1, <1>2, <1>3 DEF Splits

LEMMA RevenueRequests ==
  ASSUME StatTypes, NEW c \in Calls, call[c] # "idle", request[c].type = "revenue"
  PROVE  request[c].split \in Splits /\ request[c].refresh \in BOOLEAN
<1>1. request[c] \in Requests
  BY StatsAssumption DEF StatTypes
<1> QED
  BY <1>1 DEF Requests

LEMMA WantedIsRight ==
  ASSUME StatTypes, NEW c \in Calls, call[c] # "idle", request[c].type = "revenue", NEW p, NEW o, NEW found
  PROVE  (o \in found <=> Wanted(request[c], p, o)) <=> Right(KeyOf(c, p), found, o)
<1>1. RevenueMoments(p, request[c].split) = KeyMoments(KeyOf(c, p))
  BY RevenueRequests, MomentsOfKey DEF KeyOf
<1> QED
  BY <1>1 DEF Wanted, Right

LEMMA TtlType == \A n, split : Ttl(n, split) \in 1..LongTtl /\ LongTtl \in Nat
  BY StatsAssumption DEF Ttl

(* Only a beginning call adds to the work that is under way.               *)
Proceeds(c) ==
  \/ ListKeys(c) \/ DeleteKey(c) \/ CallFails(c)
  \/ \E p \in DOMAIN part[c] : GetCached(c, p) \/ Query(c, p) \/ QueryFails(c, p) \/ SetCached(c, p)

Worked(c) ==
  /\ UnderWay(c) /\ \A d \in Calls : UnderWay(d)' => UnderWay(d)
  /\ \A d \in Calls \ {c} :
       call'[d] = call[d] /\ keys'[d] = keys[d] /\ part'[d] = part[d] /\ sum'[d] = sum[d]
  /\ call[c] # "idle" /\ call'[c] # "idle"
  /\ swallowed => swallowed'
  /\ UNCHANGED <<now, request, started, alone, missed, changed>>

LEMMA NoNewWork ==
  ASSUME StatTypes, NEW c \in Calls, Proceeds(c)
  PROVE  Worked(c)
<1> USE DEF StatTypes, UnderWay, Worked
<1>1. CASE ListKeys(c)
  BY <1>1 DEF ListKeys
<1>2. CASE DeleteKey(c)
  BY <1>2 DEF DeleteKey
<1>3. CASE CallFails(c)
  BY <1>3 DEF CallFails
<1>4. ASSUME NEW p \in DOMAIN part[c], GetCached(c, p) PROVE Worked(c)
  BY <1>4 DEF GetCached, Settle, MayQuery
<1>5. ASSUME NEW p \in DOMAIN part[c], Query(c, p) \/ QueryFails(c, p) PROVE Worked(c)
  BY <1>5 DEF Query, QueryFails, Found, Settle, MayQuery
<1>6. ASSUME NEW p \in DOMAIN part[c], SetCached(c, p) PROVE Worked(c)
  BY <1>6 DEF SetCached, Settle, MayQuery
<1> QED
  BY <1>1, <1>2, <1>3, <1>4, <1>5, <1>6 DEF Proceeds

(* A call that begins finds nothing of its own, and shares the statistics  *)
(* with whoever is at work.                                                *)
Begun(c, r) ==
  /\ call[c] = "idle" /\ missed[c] = {} /\ keys[c] = {}
  /\ call'[c] = (IF r.type = "revenue" /\ r.refresh THEN "keys" ELSE "query")
  /\ request'[c] = r /\ started'[c] = now /\ alone'[c] = (\A d \in Calls : ~ UnderWay(d))
  /\ DOMAIN part'[c] = DOMAIN sum'[c]
  /\ \A p \in DOMAIN part'[c] : part'[c][p] \in {"get", "find"}
  /\ \A d \in Calls \ {c} :
       /\ call'[d] = call[d] /\ request'[d] = request[d] /\ part'[d] = part[d] /\ sum'[d] = sum[d]
       /\ started'[d] = started[d] /\ alone'[d] = (alone[d] /\ ~ UnderWay(d))
       /\ UnderWay(d)' = UnderWay(d)
  /\ DOMAIN call' = Calls /\ DOMAIN request' = Calls /\ DOMAIN part' = Calls
  /\ DOMAIN sum' = Calls /\ DOMAIN started' = Calls
  /\ UNCHANGED <<now, cache, keys, faults, missed, changed, swallowed>>

LEMMA Begins ==
  ASSUME StatTypes, NEW c \in Calls, NEW r \in Menu[c], GetStats(c, r)
  PROVE  Begun(c, r)
<1>1. /\ call[c] = "idle" /\ missed[c] = {} /\ keys[c] = {}
      /\ UNCHANGED <<now, cache, keys, faults, missed, changed, swallowed>>
  BY DEF GetStats, Begin, StatTypes
<1>2. /\ part'[c] = Looks(r) /\ \A d \in Calls \ {c} : part'[d] = part[d]
      /\ sum'[c] = [p \in Parts(r) |-> {}] /\ \A d \in Calls \ {c} : sum'[d] = sum[d]
      /\ DOMAIN part' = Calls /\ DOMAIN sum' = Calls
  BY DEF GetStats, Begin, StatTypes
<1>3. /\ request'[c] = r /\ \A d \in Calls \ {c} : request'[d] = request[d]
      /\ started'[c] = now /\ \A d \in Calls \ {c} : started'[d] = started[d]
      /\ call'[c] = (IF r.type = "revenue" /\ r.refresh THEN "keys" ELSE "query")
      /\ \A d \in Calls \ {c} : call'[d] = call[d]
      /\ DOMAIN call' = Calls /\ DOMAIN request' = Calls /\ DOMAIN started' = Calls
  BY DEF GetStats, Begin, StatTypes
<1>4. /\ alone'[c] = (\A d \in Calls : ~ UnderWay(d))
      /\ \A d \in Calls \ {c} : alone'[d] = (alone[d] /\ ~ UnderWay(d))
  <2>1. PICK busy : /\ busy = {d \in Calls : UnderWay(d)}
                    /\ alone' = [d \in Calls |-> IF d = c THEN busy = {} ELSE alone[d] /\ d \notin busy]
    BY DEF GetStats, Begin
  <2> QED
    BY <2>1
<1>5. DOMAIN part'[c] = DOMAIN sum'[c] /\ \A p \in DOMAIN part'[c] : part'[c][p] \in {"get", "find"}
  BY <1>2 DEF Looks
<1>6. \A d \in Calls \ {c} : UnderWay(d)' = UnderWay(d)
  BY <1>1, <1>2, <1>3 DEF UnderWay
<1> QED
  BY <1>1, <1>2, <1>3, <1>4, <1>5, <1>6 DEF Begun

(* What a step does to a date.                                             *)
LEMMA Settles ==
  ASSUME StatTypes, NEW c \in Calls, NEW p \in DOMAIN part[c], NEW found, Settle(c, p, found),
         call[c] \in {"query", "failed"}
  PROVE  /\ DOMAIN part' = Calls /\ DOMAIN sum' = Calls /\ DOMAIN call' = Calls
         /\ DOMAIN part'[c] = DOMAIN part[c] /\ DOMAIN sum'[c] = DOMAIN sum[c]
         /\ part'[c][p] = "done" /\ sum'[c][p] = found
         /\ \A q \in DOMAIN part[c] \ {p} : part'[c][q] = part[c][q] /\ sum'[c][q] = sum[c][q]
         /\ call'[c] \in {"query", "done", "failed"} /\ (call'[c] = "failed") = (call[c] = "failed")
         /\ call'[c] = "done" => \A q \in DOMAIN part'[c] : part'[c][q] = "done"
         /\ \A d \in Calls \ {c} : call'[d] = call[d] /\ part'[d] = part[d] /\ sum'[d] = sum[d]
<1>1. /\ DOMAIN part' = Calls /\ DOMAIN sum' = Calls /\ DOMAIN call' = Calls
      /\ DOMAIN part'[c] = DOMAIN part[c] /\ DOMAIN sum'[c] = DOMAIN sum[c]
      /\ part'[c][p] = "done" /\ sum'[c][p] = found
      /\ \A q \in DOMAIN part[c] \ {p} : part'[c][q] = part[c][q] /\ sum'[c][q] = sum[c][q]
      /\ \A d \in Calls \ {c} : call'[d] = call[d] /\ part'[d] = part[d] /\ sum'[d] = sum[d]
  BY DEF Settle, StatTypes
<1>2. call'[c] = IF call[c] = "query" /\ \A q \in DOMAIN part[c] \ {p} : part[c][q] = "done"
                   THEN "done" ELSE call[c]
  BY DEF Settle, StatTypes
<1> QED
  BY <1>1, <1>2

LEMMA Finds ==
  ASSUME StatTypes, NEW c \in Calls, NEW p \in DOMAIN part[c], NEW found,
         request[c].type = "revenue", Found(c, p, found)
  PROVE  /\ DOMAIN part' = Calls /\ DOMAIN sum' = Calls /\ UNCHANGED call
         /\ DOMAIN part'[c] = DOMAIN part[c] /\ DOMAIN sum'[c] = DOMAIN sum[c]
         /\ part'[c][p] = "set" /\ sum'[c][p] = found
         /\ \A q \in DOMAIN part[c] \ {p} : part'[c][q] = part[c][q] /\ sum'[c][q] = sum[c][q]
         /\ \A d \in Calls \ {c} : part'[d] = part[d] /\ sum'[d] = sum[d]
  BY DEF Found, StatTypes

(* Types and the life of cached entries.                                   *)
LEMMA StatTypesStep ==
  ASSUME StatTypes, Lasting, NEW c \in Calls, StatsStep(c)
  PROVE  StatTypes' /\ Lasting'
<1>1. ASSUME NEW r \in Menu[c], GetStats(c, r) PROVE StatTypes' /\ Lasting'
  <2>0. Begun(c, r)
    BY <1>1, Begins
  <2>1. /\ call' \in [Calls -> {"idle", "keys", "delete", "query", "done", "failed"}]
        /\ started' \in [Calls -> Nat] /\ \A d \in Calls : started'[d] <= now'
    BY <1>1 DEF GetStats, Begin, StatTypes
  <2>2. /\ DOMAIN keys' = Calls /\ \A d \in Calls : call'[d] \in {"idle", "query"} => keys'[d] = {}
        /\ missed' \in [Calls -> SUBSET Orders] /\ \A d \in Calls : call'[d] = "idle" => missed'[d] = {}
    BY <2>0 DEF Begun, StatTypes
  <2>3. \A d \in Calls : /\ DOMAIN part'[d] \subseteq DOMAIN sum'[d]
                         /\ call'[d] # "failed" => DOMAIN part'[d] = DOMAIN sum'[d]
                         /\ call'[d] = "done" => \A p \in DOMAIN part'[d] : part'[d][p] = "done"
                         /\ call'[d] \in {"keys", "delete"} => \A p \in DOMAIN part'[d] : part'[d][p] \in {"get", "find"}
                         /\ \A p \in DOMAIN part'[d] :
                              part'[d][p] = "set" => call'[d] # "idle" /\ request'[d].type = "revenue"
    BY <2>0 DEF Begun, StatTypes
  <2>4. DOMAIN request' = Calls /\ \A d \in Calls : call'[d] # "idle" => request'[d] \in Menu[d]
    BY <2>0 DEF Begun, StatTypes
  <2> QED
    BY <2>0, <2>1, <2>2, <2>3, <2>4 DEF Begun, StatTypes, Lasting
<1>2. CASE ListKeys(c)
  BY <1>2 DEF ListKeys, StatTypes, Lasting
<1>3. CASE DeleteKey(c)
  BY <1>3 DEF DeleteKey, Restrict, StatTypes, Lasting
<1>4. CASE CallFails(c)
  BY <1>4 DEF CallFails, StatTypes, Lasting
<1>5. ASSUME NEW p \in DOMAIN part[c], NEW found, Settle(c, p, found), call[c] \in {"query", "failed"},
             UNCHANGED <<now, request, keys, started, alone, missed, changed>>,
             \A k \in DOMAIN cache' : /\ cache'[k].until \in Nat
                                      /\ now < cache'[k].until /\ cache'[k].until <= now + LongTtl
      PROVE  StatTypes' /\ Lasting'
  <2>1. /\ call' \in [Calls -> {"idle", "keys", "delete", "query", "done", "failed"}]
        /\ \A d \in Calls : call'[d] # "idle" => request'[d] \in Menu[d]
        /\ \A d \in Calls : call'[d] \in {"idle", "query"} => keys'[d] = {}
        /\ \A d \in Calls : call'[d] = "idle" => missed'[d] = {}
    <3>1. call' \in [Calls -> {"idle", "keys", "delete", "query", "done", "failed"}]
      BY <1>5 DEF Settle, StatTypes
    <3> QED
      BY <1>5, <3>1, Settles DEF StatTypes
  <2>2. \A d \in Calls : /\ DOMAIN part'[d] \subseteq DOMAIN sum'[d]
                         /\ call'[d] # "failed" => DOMAIN part'[d] = DOMAIN sum'[d]
                         /\ call'[d] = "done" => \A q \in DOMAIN part'[d] : part'[d][q] = "done"
                         /\ call'[d] \in {"keys", "delete"} => \A q \in DOMAIN part'[d] : part'[d][q] \in {"get", "find"}
                         /\ \A q \in DOMAIN part'[d] :
                              part'[d][q] = "set" => call'[d] # "idle" /\ request'[d].type = "revenue"
    BY <1>5, Settles DEF StatTypes
  <2> QED
    BY <1>5, <2>1, <2>2, Settles DEF StatTypes, Lasting
<1>6. ASSUME NEW p \in DOMAIN part[c], GetCached(c, p) PROVE StatTypes' /\ Lasting'
  <2>1. CASE KeyOf(c, p) \in DOMAIN cache
    BY <1>5, <1>6, <2>1 DEF GetCached, MayQuery, StatTypes, Lasting
  <2>2. CASE KeyOf(c, p) \notin DOMAIN cache
    BY <1>6, <2>2 DEF GetCached, MayQuery, StatTypes, Lasting
  <2> QED
    BY <2>1, <2>2
<1>7. ASSUME NEW p \in DOMAIN part[c], NEW found, Found(c, p, found), call[c] \in {"query", "failed"},
             UNCHANGED <<now, cache, request, keys, started, alone, missed, changed>>
      PROVE  StatTypes' /\ Lasting'
  <2>1. CASE request[c].type = "revenue"
    <3>1. /\ UNCHANGED call
          /\ \A d \in Calls :
               /\ DOMAIN part'[d] \subseteq DOMAIN sum'[d]
               /\ call[d] # "failed" => DOMAIN part'[d] = DOMAIN sum'[d]
               /\ call[d] = "done" => \A q \in DOMAIN part'[d] : part'[d][q] = "done"
               /\ call[d] \in {"keys", "delete"} => \A q \in DOMAIN part'[d] : part'[d][q] \in {"get", "find"}
               /\ \A q \in DOMAIN part'[d] :
                    part'[d][q] = "set" => call[d] # "idle" /\ request[d].type = "revenue"
      BY <1>7, <2>1, Finds DEF StatTypes
    <3> QED
      BY <1>7, <2>1, <3>1, Finds DEF StatTypes, Lasting
  <2>2. CASE request[c].type # "revenue"
    BY <1>5, <1>7, <2>2 DEF Found, StatTypes, Lasting
  <2> QED
    BY <2>1, <2>2
<1>8. ASSUME NEW p \in DOMAIN part[c], Query(c, p) \/ QueryFails(c, p) PROVE StatTypes' /\ Lasting'
  BY <1>7, <1>8 DEF Query, QueryFails, MayQuery
<1>9. ASSUME NEW p \in DOMAIN part[c], SetCached(c, p) PROVE StatTypes' /\ Lasting'
  <2>1. now + Ttl(p, request[c].split) \in Nat /\ now < now + Ttl(p, request[c].split)
        /\ now + Ttl(p, request[c].split) <= now + LongTtl
    BY TtlType DEF StatTypes
  <2>2. \A k \in DOMAIN cache' :
          cache'[k].until \in Nat /\ now < cache'[k].until /\ cache'[k].until <= now + LongTtl
    BY <1>9, <2>1 DEF SetCached, With, StatTypes, Lasting
  <2> QED
    BY <1>5, <1>9, <2>2 DEF SetCached, MayQuery
<1> QED
  BY <1>1, <1>2, <1>3, <1>4, <1>6, <1>8, <1>9 DEF StatsStep

LEMMA StepIs ==
  ASSUME NEW c \in Calls, StatsStep(c)
  PROVE  (\E r \in Menu[c] : GetStats(c, r)) \/ Proceeds(c)
  BY DEF StatsStep, Proceeds

LEMMA WorkStep ==
  ASSUME StatTypes, Unquiet, OnItsOwn, NEW c \in Calls, StatsStep(c)
  PROVE  Unquiet' /\ OnItsOwn'
<1>1. ASSUME NEW r \in Menu[c], GetStats(c, r) PROVE Unquiet' /\ OnItsOwn'
  <2>1. Begun(c, r)
    BY <1>1, Begins
  <2> QED
    BY <2>1 DEF Begun, Unquiet, OnItsOwn
<1>2. CASE Proceeds(c)
  <2>1. Worked(c)
    BY <1>2, NoNewWork
  <2> QED
    BY <2>1 DEF Worked, Unquiet, OnItsOwn
<1> QED
  BY <1>1, <1>2, StepIs

(* What a call that is under way may store is right, or it knows why not.  *)
LEMMA StoredIsRight ==
  ASSUME StatTypes, SumsRight, NEW c \in Calls, NEW p \in DOMAIN part[c], SetCached(c, p), ~ swallowed,
         NEW o \in Orders \ missed[c]
  PROVE  Right(KeyOf(c, p), sum[c][p], o)
<1>1. part[c][p] = "set" /\ call[c] # "idle" /\ request[c].type = "revenue"
  BY DEF SetCached, StatTypes
<1> QED
  BY <1>1 DEF SumsRight

LEMMA CacheRightStep ==
  ASSUME StatTypes, CacheRight, Unquiet, SumsRight, NEW c \in Calls, StatsStep(c), UNCHANGED orders
  PROVE  CacheRight'
<1>1. ASSUME NEW r \in Menu[c], GetStats(c, r) PROVE CacheRight'
  BY <1>1 DEF GetStats, CacheRight, Right
<1>2. CASE Proceeds(c)
  <2>1. Worked(c)
    BY <1>2, NoNewWork
  <2>2. CASE DOMAIN cache' \subseteq DOMAIN cache /\ \A k \in DOMAIN cache' : cache'[k] = cache[k]
    BY <2>1, <2>2 DEF Worked, CacheRight, Right
  <2>3. ASSUME NEW p \in DOMAIN part[c], SetCached(c, p) PROVE CacheRight'
    <3>1. ASSUME NEW k \in DOMAIN cache', NEW o \in Orders, ~ swallowed, changed[o].quiet,
                 ~ (cache'[k].until <= changed[o].at + LongTtl)
          PROVE  Right(k, cache'[k].orders, o)
      <4>1. CASE k = KeyOf(c, p)
        <5>1. cache'[k].orders = sum[c][p]
          BY <2>3, <4>1 DEF SetCached, With
        <5>2. o \notin missed[c]
          BY <2>1, <3>1 DEF Worked, Unquiet
        <5> QED
          BY <2>3, <3>1, <4>1, <5>1, <5>2, StoredIsRight
      <4>2. CASE k # KeyOf(c, p)
        <5>1. k \in DOMAIN cache /\ cache'[k] = cache[k]
          BY <2>3, <4>2, <3>1 DEF SetCached, With
        <5> QED
          BY <3>1, <5>1 DEF CacheRight
      <4> QED
        BY <4>1, <4>2
    <3> QED
      BY <2>1, <3>1 DEF Worked, CacheRight, Right
  <2>4. CASE DeleteKey(c)
    BY <2>2, <2>4 DEF DeleteKey, Restrict
  <2>5. CASE UNCHANGED cache
    BY <2>2, <2>5
  <2> QED
    BY <1>2, <2>3, <2>4, <2>5 DEF Proceeds, ListKeys, CallFails, GetCached, Query, QueryFails
<1> QED
  BY <1>1, <1>2, StepIs

LEMMA RenewedStep ==
  ASSUME StatTypes, OnItsOwn, Renewed, SumsRight, NEW c \in Calls, StatsStep(c), UNCHANGED orders
  PROVE  Renewed'
<1>1. ASSUME NEW r \in Menu[c], GetStats(c, r) PROVE Renewed'
  <2>1. Begun(c, r)
    BY <1>1, Begins
  <2>2. ~ (Renews(c)' /\ call'[c] \in {"delete", "query"})
    BY <2>1 DEF Begun, Renews
  <2>3. \A d \in Calls \ {c} : Renews(d)' => Renews(d)
    BY <2>1 DEF Begun, Renews
  <2> QED
    BY <2>1, <2>2, <2>3 DEF Begun, Renewed, Right
<1>2. CASE Proceeds(c)
  <2>1. Worked(c)
    BY <1>2, NoNewWork
  <2>2. \A d \in Calls : Renews(d)' = Renews(d)
    BY <2>1 DEF Worked, Renews
  <2>3. ASSUME ~ swallowed', NEW d \in Calls \ {c}, Renews(d)', call'[d] \in {"delete", "query"},
               NEW k \in DOMAIN cache' \ keys'[d], NEW o \in Orders \ missed'[d], k[1] = request'[d].split
        PROVE  Right(k, cache[k].orders, o)'
    <3>1. Renews(d) /\ call[d] \in {"delete", "query"}
      BY <2>1, <2>2, <2>3 DEF Worked
    <3>2. ~ UnderWay(d) \/ ~ UnderWay(c)
      BY <3>1 DEF Renews, OnItsOwn
    <3>3. part[d] = part[d] /\ ~ UnderWay(d)
      BY <2>1, <3>2 DEF Worked
    <3> QED
      BY <3>1, <3>3 DEF UnderWay
  <2>4. ASSUME ~ swallowed', Renews(c)', call'[c] \in {"delete", "query"},
               NEW k \in DOMAIN cache' \ keys'[c], NEW o \in Orders \ missed'[c], k[1] = request'[c].split
        PROVE  Right(k, cache[k].orders, o)'
    <3> DEFINE Was == call[c] \in {"delete", "query"} /\ k \in DOMAIN cache \ keys[c] /\ cache'[k] = cache[k]
    <3>0. Renews(c) /\ ~ swallowed /\ o \in Orders \ missed[c] /\ k[1] = request[c].split
      BY <2>1, <2>2, <2>4 DEF Worked
    <3>1. CASE Was
      BY <3>0, <3>1 DEF Renewed, Right
    <3>2. ~ ListKeys(c)
      BY <2>4, <3>0 DEF ListKeys, StatTypes
    <3>3. CASE DeleteKey(c)
      BY <2>4, <3>1, <3>3 DEF DeleteKey, Restrict, StatTypes
    <3>4. ~ CallFails(c)
      BY <2>4 DEF CallFails, StatTypes
    <3>5. ASSUME NEW p \in DOMAIN part[c], GetCached(c, p) \/ Query(c, p) \/ QueryFails(c, p)
          PROVE  Was
      <4>1. UNCHANGED <<cache, keys>>
        BY <3>5 DEF GetCached, Query, QueryFails
      <4>2. call[c] \in {"query", "failed"} /\ (call[c] = "failed" => call'[c] = "failed")
        BY <3>5 DEF GetCached, Query, QueryFails, MayQuery, Found, Settle, StatTypes
      <4> QED
        BY <2>4, <4>1, <4>2
    <3>6. ASSUME NEW p \in DOMAIN part[c], SetCached(c, p)
          PROVE  Right(k, cache[k].orders, o)'
      <4>1. call[c] \in {"query", "failed"} /\ (call[c] = "failed" => call'[c] = "failed") /\ UNCHANGED keys
        BY <3>6 DEF SetCached, MayQuery, Settle, StatTypes
      <4>2. CASE k = KeyOf(c, p)
        <5>1. cache'[k].orders = sum[c][p]
          BY <3>6, <4>2 DEF SetCached, With
        <5> QED
          BY <3>0, <3>6, <4>2, <5>1, StoredIsRight DEF Right
      <4>3. CASE k # KeyOf(c, p)
        <5>1. k \in DOMAIN cache /\ cache'[k] = cache[k]
          BY <2>4, <3>6, <4>3 DEF SetCached, With
        <5> QED
          BY <2>4, <3>1, <4>1, <5>1
      <4> QED
        BY <4>2, <4>3
    <3> QED
      BY <1>2, <3>1, <3>2, <3>3, <3>4, <3>5, <3>6 DEF Proceeds
  <2> QED
    BY <2>3, <2>4 DEF Renewed
<1> QED
  BY <1>1, <1>2, StepIs

(* A cached sum may be answered by a call that is alone and has renewed    *)
(* the cache, and when an order has changed before the cache's life.       *)
LEMMA CachedIsRight ==
  ASSUME StatTypes, Lasting, CacheRight, Renewed, ~ swallowed,
         NEW c \in Calls, NEW p, KeyOf(c, p) \in DOMAIN cache, NEW o \in Orders \ missed[c],
         call[c] \in {"query", "failed"}, Old(c, o) \/ (Renews(c) /\ call[c] = "query")
  PROVE  Right(KeyOf(c, p), cache[KeyOf(c, p)].orders, o)
<1> DEFINE key == KeyOf(c, p)
<1>1. CASE Old(c, o)
  <2>1. /\ cache[key].until \in Nat /\ now \in Nat /\ started[c] \in Nat /\ changed[o].at \in Nat
        /\ started[c] <= now /\ now < cache[key].until /\ changed[o].at + LongTtl <= started[c]
    BY <1>1 DEF StatTypes, Lasting, Old
  <2>2. ~ (cache[key].until <= changed[o].at + LongTtl)
    BY <2>1, TtlType
  <2> QED
    BY <1>1, <2>2 DEF CacheRight, Old
<1>2. CASE Renews(c) /\ call[c] = "query"
  <2>1. keys[c] = {} /\ key[1] = request[c].split
    BY <1>2 DEF StatTypes, KeyOf
  <2> QED
    BY <1>2, <2>1 DEF Renewed
<1> QED
  BY <1>1, <1>2

(* What SumsRight says of one date and one order.                          *)
SumRight(c, p, o) ==
  \/ part[c][p] = "set"
  \/ part[c][p] = "done" /\ (Old(c, o) \/ (Renews(c) /\ call[c] \in {"query", "done"}))
  => Right(KeyOf(c, p), sum[c][p], o)

Revenue(c) == ~ swallowed /\ call[c] # "idle" /\ request[c].type = "revenue"

LEMMA SumsAre == SumsRight <=> \A c \in Calls : Revenue(c) =>
                                 \A p \in DOMAIN part[c], o \in Orders \ missed[c] : SumRight(c, p, o)
  BY DEF SumsRight, SumRight, Revenue

LEMMA SumsRightStep ==
  ASSUME StatTypes, Lasting, CacheRight, Renewed, SumsRight, NEW c \in Calls, StatsStep(c), UNCHANGED orders
  PROVE  SumsRight'
<1>1. ASSUME NEW r \in Menu[c], GetStats(c, r) PROVE SumsRight'
  <2>1. Begun(c, r)
    BY <1>1, Begins
  <2>2. \A p \in DOMAIN part'[c] : \A o : SumRight(c, p, o)'
    BY <2>1 DEF Begun, SumRight
  <2>3. \A d \in Calls \ {c} : Renews(d)' => Renews(d) /\ call[d] = call'[d]
    BY <2>1 DEF Begun, Renews
  <2>4. \A d \in Calls \ {c} : \A o : Old(d, o)' = Old(d, o)
    BY <2>1 DEF Begun, Old
  <2>5. \A d \in Calls \ {c} : \A p : KeyOf(d, p)' = KeyOf(d, p)
    BY <2>1 DEF Begun, KeyOf
  <2>6. \A d \in Calls \ {c} : \A p, o : SumRight(d, p, o) => SumRight(d, p, o)'
    BY <2>1, <2>3, <2>4, <2>5 DEF Begun, SumRight, Right
  <2>7. \A d \in Calls \ {c} : /\ Revenue(d)' => Revenue(d)
                               /\ part'[d] = part[d] /\ missed'[d] = missed[d]
    BY <2>1 DEF Begun, Revenue
  <2>8. \A d \in Calls : Revenue(d)' => \A p \in DOMAIN part'[d], o \in Orders \ missed'[d] : SumRight(d, p, o)'
    BY <2>2, <2>6, <2>7, SumsAre
  <2> QED
    BY <2>8 DEF SumsRight, SumRight, Revenue
<1>2. CASE Proceeds(c)
  <2>1. Worked(c)
    BY <1>2, NoNewWork
  <2>2. \A d \in Calls : \A o : Renews(d)' = Renews(d) /\ Old(d, o)' = Old(d, o)
    BY <2>1 DEF Worked, Renews, Old
  <2>3. \A d \in Calls : \A p : KeyOf(d, p)' = KeyOf(d, p)
    BY <2>1 DEF Worked, KeyOf
  <2>4. \A d \in Calls \ {c} : \A p, o : SumRight(d, p, o) => SumRight(d, p, o)'
    BY <2>1, <2>2, <2>3 DEF Worked, SumRight, Right
  <2>5. \A d \in Calls : Revenue(d)' => Revenue(d)
    BY <2>1 DEF Worked, Revenue
  <2>6. ASSUME Revenue(c)', NEW p \in DOMAIN part'[c], NEW o \in Orders \ missed'[c]
        PROVE  SumRight(c, p, o)'
    <3>0. Revenue(c) /\ o \in Orders \ missed[c]
      BY <2>1, <2>5, <2>6 DEF Worked
    <3> DEFINE Was(q) == /\ q \in DOMAIN part[c] /\ part'[c][q] = part[c][q] /\ sum'[c][q] = sum[c][q]
                         /\ call'[c] \in {"query", "done"} => call[c] \in {"query", "done"} \/ part[c][q] # "done"
    <3>1. CASE Was(p)
      <4>1. SumRight(c, p, o)
        BY <3>0, <3>1, SumsAre
      <4> QED
        BY <2>2, <2>3, <3>1, <4>1 DEF SumRight, Right
    <3>2. CASE ListKeys(c) \/ DeleteKey(c)
      <4>1. call[c] = "failed" => call'[c] = "failed"
        BY <3>2 DEF ListKeys, DeleteKey, StatTypes
      <4>2. call[c] \in {"keys", "delete", "failed"} /\ UNCHANGED <<part, sum>>
        BY <3>2 DEF ListKeys, DeleteKey
      <4>3. call[c] \in {"keys", "delete"} => part[c][p] # "done"
        BY <2>6, <4>2 DEF StatTypes
      <4> QED
        BY <2>6, <3>1, <4>1, <4>2, <4>3
    <3>3. CASE CallFails(c)
      BY <2>6, <3>1, <3>3 DEF CallFails, StatTypes
    <3>4. ASSUME NEW q \in DOMAIN part[c], GetCached(c, q) PROVE SumRight(c, p, o)'
      <4>1. call[c] \in {"query", "failed"}
        BY <3>4 DEF GetCached, MayQuery
      <4>2. CASE KeyOf(c, q) \in DOMAIN cache
        <5>1. Settle(c, q, cache[KeyOf(c, q)].orders)
          BY <3>4, <4>2 DEF GetCached
        <5>2. /\ DOMAIN part'[c] = DOMAIN part[c] /\ sum'[c][q] = cache[KeyOf(c, q)].orders
              /\ p # q => part'[c][p] = part[c][p] /\ sum'[c][p] = sum[c][p]
              /\ part'[c][q] = "done" /\ (call'[c] \in {"query", "done"} => call[c] = "query")
          BY <2>6, <4>1, <5>1, Settles
        <5>3. CASE p = q
          <6>1. ASSUME Old(c, o) \/ (Renews(c) /\ call[c] = "query")
                PROVE  Right(KeyOf(c, p), cache[KeyOf(c, p)].orders, o)
            BY <3>0, <4>1, <4>2, <5>3, <6>1, CachedIsRight DEF Revenue
          <6>2. ASSUME Old(c, o)' \/ (Renews(c)' /\ call'[c] \in {"query", "done"})
                PROVE  Right(KeyOf(c, p), sum[c][p], o)'
            BY <2>2, <2>3, <5>2, <5>3, <6>1, <6>2 DEF Right
          <6> QED
            BY <5>2, <5>3, <6>2 DEF SumRight
        <5>4. CASE p # q
          BY <2>6, <3>1, <5>2, <5>4
        <5> QED
          BY <5>3, <5>4
      <4>3. CASE KeyOf(c, q) \notin DOMAIN cache
        <5>1. /\ DOMAIN part'[c] = DOMAIN part[c] /\ UNCHANGED <<sum, call>>
              /\ p # q => part'[c][p] = part[c][p]
              /\ part'[c][q] = "find"
          BY <3>4, <4>3 DEF GetCached, StatTypes
        <5>2. CASE p = q
          BY <5>1, <5>2 DEF SumRight
        <5>3. CASE p # q
          BY <2>6, <3>1, <5>1, <5>3
        <5> QED
          BY <5>2, <5>3
      <4> QED
        BY <4>2, <4>3
    <3>5. ASSUME NEW q \in DOMAIN part[c], Query(c, q) PROVE SumRight(c, p, o)'
      <4> DEFINE found == {x \in Orders : Wanted(request[c], q, x)}
      <4>1. Found(c, q, found)
        BY <3>5 DEF Query
      <4>2. request[c].type = "revenue"
        BY <3>0 DEF Revenue
      <4>3. /\ DOMAIN part'[c] = DOMAIN part[c] /\ UNCHANGED call /\ sum'[c][q] = found
            /\ p # q => part'[c][p] = part[c][p] /\ sum'[c][p] = sum[c][p]
        <5> HIDE DEF found
        <5> QED
          BY <2>6, <4>1, <4>2, Finds
      <4>4. CASE p = q
        <5>1. o \in found <=> Wanted(request[c], q, o)
          BY <3>0
        <5>2. Right(KeyOf(c, q), found, o)
          <6> HIDE DEF found
          <6> QED
            BY <3>0, <4>2, <5>1, WantedIsRight DEF Revenue
        <5> QED
          BY <2>3, <4>3, <4>4, <5>2 DEF SumRight, Right
      <4>5. CASE p # q
        BY <2>6, <3>1, <4>3, <4>5
      <4> QED
        BY <4>4, <4>5
    <3>6. ASSUME NEW q \in DOMAIN part[c], QueryFails(c, q) PROVE FALSE
      BY <2>6, <3>6 DEF QueryFails, Revenue
    <3>7. ASSUME NEW q \in DOMAIN part[c], SetCached(c, q) PROVE SumRight(c, p, o)'
      <4>1. call[c] \in {"query", "failed"} /\ Settle(c, q, sum[c][q])
        BY <3>7 DEF SetCached, MayQuery
      <4>2. /\ DOMAIN part'[c] = DOMAIN part[c] /\ sum'[c][q] = sum[c][q]
            /\ p # q => part'[c][p] = part[c][p] /\ sum'[c][p] = sum[c][p]
            /\ call'[c] \in {"query", "done"} => call[c] = "query"
        BY <2>6, <4>1, Settles
      <4>3. CASE p = q
        BY <2>3, <3>0, <3>7, <4>2, <4>3, StoredIsRight DEF SumRight, Right, Revenue
      <4>4. CASE p # q
        BY <2>6, <3>1, <4>2, <4>4
      <4> QED
        BY <4>3, <4>4
    <3> QED
      BY <1>2, <3>2, <3>3, <3>4, <3>5, <3>6, <3>7 DEF Proceeds
  <2>7. \A d \in Calls : Revenue(d)' => \A p \in DOMAIN part'[d], o \in Orders \ missed'[d] : SumRight(d, p, o)'
    <3>1. ASSUME NEW d \in Calls \ {c}, Revenue(d)', NEW p \in DOMAIN part'[d], NEW o \in Orders \ missed'[d]
          PROVE  SumRight(d, p, o)'
      <4>1. Revenue(d) /\ p \in DOMAIN part[d] /\ o \in Orders \ missed[d]
        BY <2>1, <2>5, <3>1 DEF Worked
      <4> QED
        BY <2>4, <4>1, SumsAre
    <3> QED
      BY <2>6, <3>1
  <2> QED
    BY <2>7 DEF SumsRight, SumRight, Revenue
<1> QED
  BY <1>1, <1>2, StepIs

LEMMA FreshInit == Init => Fresh
  BY StatsAssumption, OrdersAssumption
     DEF Init, StatsInit, Fresh, StatTypes, Lasting, CacheRight, Unquiet, OnItsOwn, Renewed, SumsRight, UnderWay

LEMMA FreshStatsStep ==
  ASSUME Fresh, NEW c \in Calls, StatsStep(c), UNCHANGED orders
  PROVE  Fresh'
  BY StatTypesStep, WorkStep, CacheRightStep, RenewedStep, SumsRightStep DEF Fresh

(* Time only takes from the cache.                                         *)
LEMMA FreshTick ==
  ASSUME Fresh, Tick, UNCHANGED orders
  PROVE  Fresh'
<1> USE DEF Fresh
<1>1. /\ UNCHANGED <<call, request, keys, part, sum, started, alone, missed, changed, swallowed>>
      /\ now \in Nat /\ now' = now + 1
      /\ DOMAIN cache' \subseteq DOMAIN cache
      /\ \A k \in DOMAIN cache' : cache'[k] = cache[k] /\ now' < cache[k].until
  BY DEF Tick, Restrict, StatTypes
<1>2. StatTypes'
  BY <1>1 DEF StatTypes
<1>3. Lasting'
  <2>1. \A k \in DOMAIN cache' : cache[k].until \in Nat /\ cache[k].until <= now + LongTtl
    BY <1>1 DEF StatTypes, Lasting
  <2> QED
    BY <1>1, <2>1, TtlType DEF Lasting
<1>4. CacheRight'
  BY <1>1 DEF CacheRight, Right
<1>5. Unquiet' /\ OnItsOwn'
  BY <1>1 DEF Unquiet, OnItsOwn, UnderWay
<1>6. Renewed'
  BY <1>1 DEF Renewed, Renews, Right
<1>7. SumsRight'
  BY <1>1 DEF SumsRight, Renews, Old, Right, KeyOf
<1> QED
  BY <1>2, <1>3, <1>4, <1>5, <1>6, <1>7

(* An order that changes is missed by every call that is not yet to come,  *)
(* and what is cached of it ends soon enough, unless somebody is at work.  *)
LEMMA FreshChange ==
  ASSUME Fresh, NEW o \in Orders, Change(o), Notice(o)
  PROVE  Fresh'
<1> USE DEF Fresh
<1>1. /\ UNCHANGED <<now, cache, call, request, keys, part, sum, started, alone, swallowed>>
      /\ missed' = [c \in Calls |-> IF call[c] = "idle" THEN missed[c] ELSE missed[c] \cup {o}]
      /\ \A x \in Orders \ {o} : orders'[x] = orders[x] /\ changed'[x] = changed[x]
      /\ changed'[o].at = now /\ changed'[o].quiet = (\A c \in Calls : ~ UnderWay(c))
  BY DEF Change, Notice, StatTypes
<1>2. StatTypes'
  <2>1. changed' \in [Orders -> [at : Nat, quiet : BOOLEAN]]
    BY DEF Notice, StatTypes
  <2> QED
    BY <1>1, <2>1 DEF StatTypes
<1>3. Lasting'
  BY <1>1 DEF Lasting
<1>4. CacheRight'
  <2>1. \A k \in DOMAIN cache : cache[k].until <= changed'[o].at + LongTtl
    BY <1>1 DEF Lasting
  <2>2. \A k \in DOMAIN cache, x \in Orders \ {o} :
          Right(k, cache[k].orders, x)' = Right(k, cache[k].orders, x)
    BY <1>1 DEF Right
  <2> QED
    BY <1>1, <2>1, <2>2 DEF CacheRight
<1>5. Unquiet'
  <2>1. \A c \in Calls : UnderWay(c)' = UnderWay(c) /\ (UnderWay(c) => call[c] # "idle")
    BY <1>1 DEF UnderWay
  <2>2. ASSUME NEW c \in Calls, UnderWay(c)', NEW x \in missed'[c] PROVE ~ changed'[x].quiet
    <3>1. CASE x = o
      BY <1>1, <2>1, <2>2, <3>1
    <3>2. CASE x # o
      <4>1. x \in missed[c] /\ x \in Orders
        BY <1>1, <2>2, <3>2 DEF StatTypes
      <4> QED
        BY <1>1, <2>1, <2>2, <3>2, <4>1 DEF Unquiet
    <3> QED
      BY <3>1, <3>2
  <2> QED
    BY <2>2 DEF Unquiet
<1>6. OnItsOwn'
  BY <1>1 DEF OnItsOwn, UnderWay
<1>7. Renewed'
  BY <1>1 DEF Renewed, Renews, Right
<1>8. SumsRight'
  <2>1. \A c \in Calls : \A p : Renews(c)' = Renews(c) /\ KeyOf(c, p)' = KeyOf(c, p)
    BY <1>1 DEF Renews, KeyOf
  <2>2. ASSUME NEW c \in Calls, Revenue(c)', NEW p \in DOMAIN part'[c], NEW x \in Orders \ missed'[c]
        PROVE  SumRight(c, p, x)'
    <3>1. Revenue(c) /\ p \in DOMAIN part[c] /\ x \in Orders \ missed[c] /\ x # o
      BY <1>1, <2>2 DEF Revenue
    <3>2. SumRight(c, p, x)
      BY <3>1, SumsAre
    <3>3. Old(c, x)' = Old(c, x)
      BY <1>1, <3>1 DEF Old
    <3> QED
      BY <1>1, <2>1, <3>1, <3>2, <3>3 DEF SumRight, Right
  <2> QED
    BY <2>2 DEF SumsRight, SumRight, Revenue
<1> QED
  BY <1>2, <1>3, <1>4, <1>5, <1>6, <1>7, <1>8

LEMMA FreshElsewhere ==
  ASSUME Fresh, UNCHANGED statsVars, UNCHANGED orders
  PROVE  Fresh'
<1> USE DEF statsVars
<1>1. StatTypes' /\ Lasting' /\ CacheRight'
  BY DEF Fresh, StatTypes, Lasting, CacheRight, Right
<1>2. Unquiet' /\ OnItsOwn'
  BY DEF Fresh, Unquiet, OnItsOwn, UnderWay
<1>3. Renewed' /\ SumsRight'
  BY DEF Fresh, Renewed, SumsRight, Renews, Old, Right, KeyOf
<1> QED
  BY <1>1, <1>2, <1>3 DEF Fresh

LEMMA FreshNext == Fresh /\ [Next]_vars => Fresh'
<1> SUFFICES ASSUME Fresh, [Next]_vars PROVE Fresh'
  OBVIOUS
<1>1. ASSUME NEW o \in Orders, OrderChanges(o) PROVE Fresh'
  BY <1>1, FreshChange DEF OrderChanges
<1>2. CASE TimePasses
  BY <1>2, FreshTick DEF TimePasses
<1>3. ASSUME NEW c \in Calls, StatsCall(c) PROVE Fresh'
  BY <1>3, FreshStatsStep DEF StatsCall
<1>4. CASE (\E k \in Copies : BackupRun(k)) \/ BackupRestart \/ UNCHANGED vars
  BY <1>4, FreshElsewhere DEF BackupRun, BackupRestart, vars
<1> QED
  BY <1>1, <1>2, <1>3, <1>4 DEF Next

LEMMA FreshAnswers == Fresh => UpToDate
<1> SUFFICES ASSUME Fresh, NEW c \in Calls, call[c] = "done", request[c].type = "revenue", ~ swallowed,
                    NEW o \in Orders \ missed[c], NEW p \in DOMAIN sum[c],
                    (request[c].refresh /\ alone[c]) \/ Old(c, o)
             PROVE  o \in sum[c][p] <=> Wanted(request[c], p, o)
  BY DEF UpToDate, Old
<1>1. p \in DOMAIN part[c] /\ part[c][p] = "done"
  BY DEF Fresh, StatTypes
<1>2. Right(KeyOf(c, p), sum[c][p], o)
  BY <1>1 DEF Fresh, SumsRight, Renews
<1> QED
  BY <1>2, WantedIsRight DEF Fresh

(* Revenue is right about an order in the two cases in which the cache     *)
(* cannot spoil it, for every calendar, every set of requests, every       *)
(* lifetime of what is cached and every order in which the answers of      *)
(* Redis and of the database come back.                                    *)
THEOREM RevenueIsFresh == Spec => []UpToDate
  BY FreshInit, FreshNext, FreshAnswers, PTL DEF Spec

-----------------------------------------------------------------------------
(* The calendar.                                                           *)

(* A set of numbers has a least one: the smaller numbers of each would be  *)
(* finite sets each within the other.                                      *)
LEMMA Least ==
  ASSUME NEW T, T \subseteq Nat, T # {}
  PROVE  \E x \in T : \A y \in T : x <= y
<1> DEFINE F == {0..x : x \in T}
<1>1. F \subseteq FiniteSubsetsOf(Nat) /\ F # {}
  <2>1. ASSUME NEW x \in T PROVE 0..x \in SUBSET Nat /\ IsFiniteSet(0..x)
    <3>1. 0 \in Int /\ x \in Int
      OBVIOUS
    <3> QED
      BY <3>1, FS_Interval
  <2> QED
    BY <2>1 DEF FiniteSubsetsOf
<1>2. PICK X \in F : \A Y \in F : <<Y, X>> \notin StrictSubsetOrdering(Nat)
  <2> HIDE DEF F
  <2> QED
    BY <1>1, FS_StrictSubsetOrderingWellFounded, WFMin
<1>3. PICK x \in T : X = 0..x
  OBVIOUS
<1>4. ASSUME NEW y \in T, y < x PROVE FALSE
  <2>1. 0..y \in F /\ 0..y \in SUBSET Nat /\ X \in SUBSET Nat
    BY <1>3
  <2>2. 0..y \subseteq X /\ 0..y # X
    BY <1>3, <1>4
  <2> QED
    BY <2>1, <2>2, <1>2 DEF StrictSubsetOrdering
<1> QED
  BY <1>4

LEMMA Calendar ==
  /\ Months \in Nat \ {0} /\ MonthsPerYear \in Nat \ {0}
  /\ \A m \in 0..Months : StartOf(m) \in Nat
  /\ StartOf(0) = 0
  /\ \A m \in 0..Months - 1 : StartOf(m) + 28 <= StartOf(m + 1) /\ StartOf(m + 1) <= StartOf(m) + 31
<1>1. Len(MonthStarts) \in Nat /\ \A i \in 1..Len(MonthStarts) : MonthStarts[i] \in Nat
  BY OrdersAssumption
<1>2. Months \in Nat \ {0} /\ \A m \in 0..Months : StartOf(m) \in Nat
  BY <1>1, OrdersAssumption DEF Months, StartOf
<1>3. ASSUME NEW m \in 0..Months - 1
      PROVE  StartOf(m) + 28 <= StartOf(m + 1) /\ StartOf(m + 1) <= StartOf(m) + 31
  <2>1. m \in 0..Months /\ m + 1 \in 0..Months
    BY <1>2
  <2>2. StartOf(m) \in Nat /\ StartOf(m + 1) \in Nat
    BY <1>2, <2>1
  <2>3. StartOf(m + 1) - StartOf(m) \in 28..31
    BY OrdersAssumption
  <2> QED
    BY <2>2, <2>3
<1> QED
  BY <1>2, <1>3, OrdersAssumption

LEMMA StartsGrow ==
  ASSUME NEW i \in 0..Months, NEW j \in 0..Months, i < j
  PROVE  StartOf(i) + 28 <= StartOf(j)
<1> DEFINE T == {k \in 0..Months : i < k /\ ~ (StartOf(i) + 28 <= StartOf(k))}
<1> SUFFICES ASSUME T # {} PROVE FALSE
  OBVIOUS
<1>0. Months \in Nat /\ \A m \in 0..Months : StartOf(m) \in Nat
  BY Calendar
<1>1. PICK k \in T : \A y \in T : k <= y
  <2>1. T \subseteq Nat
    BY <1>0
  <2> HIDE DEF T
  <2> QED
    BY <2>1, Least
<1>2. k - 1 \in 0..Months - 1 /\ k - 1 \in 0..Months /\ (k - 1) + 1 = k
  BY <1>0, <1>1
<1>3. StartOf(k - 1) + 28 <= StartOf(k)
  BY <1>2, Calendar
<1>4. CASE k - 1 = i
  BY <1>1, <1>3, <1>4
<1>5. CASE i < k - 1
  <2>1. k - 1 \notin T
    BY <1>0, <1>1, <1>2
  <2>2. StartOf(i) + 28 <= StartOf(k - 1)
    BY <1>2, <1>5, <2>1
  <2> QED
    BY <1>0, <1>1, <1>2, <1>3, <2>2
<1> QED
  BY <1>0, <1>1, <1>2, <1>4, <1>5

(* Every day is in one month.                                              *)
LEMMA MonthIs ==
  ASSUME NEW n \in Days
  PROVE  /\ n \in Nat /\ n < StartOf(Months)
         /\ MonthOf(n) \in 0..Months - 1
         /\ StartOf(MonthOf(n)) <= n /\ n < StartOf(MonthOf(n) + 1)
<1>0. Months \in Nat \ {0} /\ \A m \in 0..Months : StartOf(m) \in Nat
  BY Calendar
<1>1. n \in Nat /\ n < StartOf(Months)
  BY <1>0 DEF Days
<1> DEFINE T == {m \in 0..Months - 1 : n < StartOf(m + 1)}
<1>2. Months - 1 \in T
  BY <1>0, <1>1
<1>3. PICK m \in T : \A y \in T : m <= y
  <2>1. T \subseteq Nat /\ T # {}
    BY <1>0, <1>2
  <2> HIDE DEF T
  <2> QED
    BY <2>1, Least
<1>4. StartOf(m) <= n
  <2>1. CASE m = 0
    BY <1>1, <2>1, Calendar
  <2>2. CASE m # 0
    <3>1. m - 1 \in 0..Months - 1 /\ (m - 1) + 1 = m /\ m - 1 \notin T /\ m \in 0..Months
      BY <1>0, <1>3, <2>2
    <3>2. ~ (n < StartOf(m))
      BY <3>1
    <3> QED
      BY <1>0, <1>1, <3>1, <3>2
  <2> QED
    BY <2>1, <2>2
<1> QED
  BY <1>1, <1>3, <1>4 DEF MonthOf

LEMMA Reaches ==
  ASSUME NEW n \in Days, NEW j \in 0..Months
  PROVE  StartOf(j) <= n <=> j <= MonthOf(n)
<1> DEFINE m == MonthOf(n)
<1>0. Months \in Nat \ {0} /\ \A i \in 0..Months : StartOf(i) \in Nat
  BY Calendar
<1>1. n \in Nat /\ m \in 0..Months - 1 /\ StartOf(m) <= n /\ n < StartOf(m + 1)
  BY MonthIs
<1> HIDE DEF m
<1>2. m \in 0..Months /\ m + 1 \in 0..Months
  BY <1>0, <1>1
<1>3. j < m => StartOf(j) + 28 <= StartOf(m)
  BY <1>2, StartsGrow
<1>4. m + 1 < j => StartOf(m + 1) + 28 <= StartOf(j)
  BY <1>2, StartsGrow
<1>5. j < m \/ j = m \/ j = m + 1 \/ m + 1 < j
  BY <1>2, <1>0
<1>6. StartOf(j) \in Nat /\ StartOf(m) \in Nat /\ StartOf(m + 1) \in Nat
  BY <1>0, <1>2
<1>7. CASE j < m
  BY <1>0, <1>1, <1>2, <1>3, <1>6, <1>7 DEF m
<1>8. CASE j = m
  BY <1>1, <1>2, <1>8 DEF m
<1>9. CASE j = m + 1
  <2>1. ~ (j <= m) /\ ~ (StartOf(j) <= n)
    BY <1>1, <1>2, <1>6, <1>9
  <2> QED
    BY <2>1 DEF m
<1>10. CASE m + 1 < j
  <2>1. ~ (j <= m) /\ ~ (StartOf(j) <= n)
    BY <1>1, <1>2, <1>4, <1>6, <1>10
  <2> QED
    BY <2>1 DEF m
<1> QED
  BY <1>5, <1>7, <1>8, <1>9, <1>10

(* Quotients.                                                              *)
LEMMA Quotient ==
  ASSUME NEW a \in Nat, NEW b \in Nat \ {0}
  PROVE  /\ a \div b \in Nat
         /\ (a \div b) * b <= a /\ a < (a \div b) * b + b
  OBVIOUS

LEMMA Multiples ==
  ASSUME NEW x \in Nat, NEW y \in Nat, NEW b \in Nat, x < y
  PROVE  x * b + b <= y * b
<1>1. PICK z \in Nat : y = x + 1 + z
  <2>1. y - x - 1 \in Nat /\ y = x + 1 + (y - x - 1)
    OBVIOUS
  <2> QED
    BY <2>1
<1>2. (x + 1 + z) * b = x * b + b + z * b /\ z * b \in Nat /\ x * b \in Nat
  OBVIOUS
<1> QED
  BY <1>1, <1>2

LEMMA QuotientOnly ==
  ASSUME NEW a \in Nat, NEW b \in Nat \ {0}, NEW q \in Nat, q * b <= a, a < q * b + b
  PROVE  a \div b = q
<1> DEFINE p == a \div b
<1>1. p \in Nat /\ p * b <= a /\ a < p * b + b
  BY Quotient
<1> HIDE DEF p
<1>2. p * b \in Nat /\ q * b \in Nat
  BY <1>1
<1>3. p < q => p * b + b <= q * b
  BY <1>1, Multiples
<1>4. q < p => q * b + b <= p * b
  BY <1>1, Multiples
<1>5. p = q
  BY <1>1, <1>2, <1>3, <1>4
<1> QED
  BY <1>5 DEF p

LEMMA DateIs ==
  ASSUME NEW n \in Days
  PROVE  Date(n) \in 1..31 /\ n = StartOf(MonthOf(n)) + Date(n) - 1
<1> DEFINE m == MonthOf(n)
<1>1. n \in Nat /\ m \in 0..Months - 1 /\ StartOf(m) <= n /\ n < StartOf(m + 1)
  BY MonthIs
<1>2. Months \in Nat /\ StartOf(m) \in Nat /\ StartOf(m + 1) \in Nat /\ StartOf(m + 1) <= StartOf(m) + 31
  <2>1. Months \in Nat /\ m \in 0..Months /\ m + 1 \in 0..Months
    BY <1>1, Calendar
  <2> QED
    BY <1>1, <2>1, Calendar
<1>3. Date(n) = n - StartOf(m) + 1
  BY DEF Date
<1> QED
  BY <1>1, <1>2, <1>3

LEMMA YearIs ==
  ASSUME NEW n \in Days
  PROVE  /\ YearOf(n) \in Nat /\ FirstMonth(n) \in Nat /\ FirstMonth(n) = YearOf(n) * MonthsPerYear
         /\ FirstMonth(n) <= MonthOf(n) /\ MonthOf(n) < FirstMonth(n) + MonthsPerYear
<1>1. MonthOf(n) \in Nat /\ MonthsPerYear \in Nat \ {0}
  BY MonthIs, Calendar
<1> QED
  BY <1>1, Quotient DEF YearOf, FirstMonth

LEMMA SameYear ==
  ASSUME NEW n \in Days, NEW k \in Days
  PROVE  YearOf(k) = YearOf(n) <=>
           FirstMonth(n) <= MonthOf(k) /\ MonthOf(k) < FirstMonth(n) + MonthsPerYear
<1>1. MonthOf(k) \in Nat /\ MonthsPerYear \in Nat \ {0}
  BY MonthIs, Calendar
<1>2. ASSUME FirstMonth(n) <= MonthOf(k), MonthOf(k) < FirstMonth(n) + MonthsPerYear
      PROVE  YearOf(k) = YearOf(n)
  BY <1>1, <1>2, YearIs, QuotientOnly DEF YearOf
<1>3. ASSUME YearOf(k) = YearOf(n)
      PROVE  FirstMonth(n) <= MonthOf(k) /\ MonthOf(k) < FirstMonth(n) + MonthsPerYear
  <2>1. FirstMonth(k) = FirstMonth(n)
    BY <1>3 DEF FirstMonth
  <2> QED
    BY <2>1, YearIs
<1> QED
  BY <1>2, <1>3

(* new Date(year, month, date) for a date that every month has.            *)
LEMMA NewDateIs ==
  ASSUME NEW month \in Nat, NEW date \in 1..31
  PROVE  /\ NewDate(month, date) \in 0..StartOf(Months) + 30
         /\ \A n \in Days : MonthOf(n) < month => n < NewDate(month, date)
         /\ date <= 28 /\ NewDate(month, date) \in Days =>
              MonthOf(NewDate(month, date)) = month /\ Date(NewDate(month, date)) = date
<1> DEFINE j == IF month <= Months THEN month ELSE Months
           d == NewDate(month, date)
<1>0. Months \in Nat \ {0} /\ (\A i \in 0..Months : StartOf(i) \in Nat) /\ j \in 0..Months
  BY Calendar
<1>1. d = StartOf(j) + date - 1
  BY DEF NewDate
<1> HIDE DEF d
<1>2. StartOf(j) <= StartOf(Months)
  <2>1. j < Months => StartOf(j) + 28 <= StartOf(Months)
    BY <1>0, StartsGrow
  <2>2. j = Months \/ j < Months
    BY <1>0
  <2> QED
    BY <1>0, <2>1, <2>2
<1>3. StartOf(j) \in Nat /\ StartOf(Months) \in Nat
  BY <1>0
<1>4. d \in 0..StartOf(Months) + 30
  BY <1>1, <1>2, <1>3
<1>5. ASSUME NEW n \in Days, MonthOf(n) < month PROVE n < d
  <2>1. n \in Nat /\ MonthOf(n) \in 0..Months - 1
    BY MonthIs
  <2>2. ~ (j <= MonthOf(n))
    BY <1>0, <1>5, <2>1
  <2>3. ~ (StartOf(j) <= n)
    BY <1>0, <2>2, Reaches
  <2> QED
    BY <1>1, <1>3, <2>1, <2>3
<1>6. ASSUME date <= 28, d \in Days PROVE MonthOf(d) = month /\ Date(d) = date
  <2>1. d \in Nat /\ d < StartOf(Months) /\ MonthOf(d) \in 0..Months - 1
    BY <1>6, MonthIs
  <2>2. j # Months
    BY <1>1, <1>3, <2>1
  <2>3. j = month /\ j \in 0..Months - 1 /\ j + 1 \in 0..Months
    BY <1>0, <2>2
  <2>4. StartOf(j) + 28 <= StartOf(j + 1) /\ StartOf(j + 1) \in Nat
    BY <1>0, <2>3, Calendar
  <2>5. StartOf(j) <= d /\ ~ (StartOf(j + 1) <= d)
    BY <1>1, <1>3, <1>6, <2>1, <2>4
  <2>6. j <= MonthOf(d) /\ ~ (j + 1 <= MonthOf(d))
    BY <1>0, <1>6, <2>3, <2>5, Reaches
  <2>7. MonthOf(d) = j
    <3> HIDE DEF j
    <3> QED
      BY <1>0, <2>1, <2>3, <2>6
  <2>8. Date(d) = d - StartOf(j) + 1
    BY <2>7 DEF Date
  <2> QED
    BY <1>1, <1>3, <2>3, <2>7, <2>8
<1> QED
  BY <1>4, <1>5, <1>6 DEF d

(* The moments of a period are those of its days.                          *)
LEMMA MomentsOfDays ==
  ASSUME NEW a \in Int, NEW b \in Int, NEW t \in Nat
  PROVE  t \in Moments(a, b) <=> a <= Day(t) /\ Day(t) <= b
  BY DEF Moments, Midnight, Day

LEMMA PeriodIs ==
  ASSUME NEW n \in Days, NEW split \in Splits
  PROVE  Period(n, split) \in Nat
<1>1. n \in Nat /\ MonthOf(n) \in Nat /\ YearOf(n) \in Nat
  BY MonthIs, YearIs
<1> QED
  BY <1>1 DEF Period, Splits

LEMMA MomentsOfPeriod ==
  ASSUME NEW n \in Days, NEW split \in Splits, NEW t \in Nat, Day(t) \in Days
  PROVE  t \in OrderMoments(n, split) <=> Period(Day(t), split) = Period(n, split)
<1> DEFINE k == Day(t)
<1>0. Months \in Nat \ {0} /\ (\A i \in 0..Months : StartOf(i) \in Nat) /\ MonthsPerYear \in Nat \ {0}
  BY Calendar
<1>1. /\ n \in Nat /\ MonthOf(n) \in 0..Months - 1
      /\ k \in Nat /\ MonthOf(k) \in 0..Months - 1
  BY MonthIs
<1> HIDE DEF k
<1>2. ASSUME NEW first \in 0..Months, NEW last \in Nat
      PROVE  LET end == IF last <= Months THEN last ELSE Months IN
             t \in Moments(NewDate(first, 1), NewDate(last, 1) - 1) <=> first <= MonthOf(k) /\ MonthOf(k) < last
  <2> DEFINE end == IF last <= Months THEN last ELSE Months
  <2>1. end \in 0..Months
    BY <1>0
  <2>2. NewDate(first, 1) = StartOf(first) /\ NewDate(last, 1) = StartOf(end)
    <3>1. StartOf(first) + 1 - 1 = StartOf(first) /\ StartOf(end) + 1 - 1 = StartOf(end)
      BY <1>0, <2>1
    <3>2. NewDate(first, 1) = StartOf(first) + 1 - 1 /\ NewDate(last, 1) = StartOf(end) + 1 - 1
      BY <1>0 DEF NewDate
    <3> QED
      BY <3>1, <3>2
  <2>3. StartOf(first) <= k <=> first <= MonthOf(k)
    BY Reaches DEF k
  <2>4. StartOf(end) <= k <=> end <= MonthOf(k)
    BY <2>1, Reaches DEF k
  <2>5. end <= MonthOf(k) <=> last <= MonthOf(k)
    BY <1>0, <1>1
  <2>6. StartOf(first) \in Nat /\ StartOf(end) \in Nat
    BY <1>0, <2>1
  <2>7. t \in Moments(StartOf(first), StartOf(end) - 1) <=> StartOf(first) <= k /\ k <= StartOf(end) - 1
    <3> HIDE DEF end
    <3>1. StartOf(first) \in Int /\ StartOf(end) - 1 \in Int
      BY <2>6
    <3> QED
      BY <3>1, MomentsOfDays DEF k
  <2>8. k <= StartOf(end) - 1 <=> ~ (StartOf(end) <= k)
    <3> HIDE DEF end
    <3> QED
      BY <1>1, <2>6
  <2>9. MonthOf(k) < last <=> ~ (last <= MonthOf(k))
    BY <1>1
  <2> HIDE DEF end
  <2> QED
    BY <2>2, <2>3, <2>4, <2>5, <2>7, <2>8, <2>9
<1>3. CASE split = "day"
  <2>1. t \in Moments(n, n) <=> n <= k /\ k <= n
    BY <1>1, MomentsOfDays DEF k
  <2> QED
    BY <1>1, <1>3, <2>1 DEF OrderMoments, Period, k
<1>4. CASE split = "month"
  <2>1. MonthOf(n) \in 0..Months /\ MonthOf(n) + 1 \in Nat
    BY <1>0, <1>1
  <2>2. t \in Moments(NewDate(MonthOf(n), 1), NewDate(MonthOf(n) + 1, 1) - 1)
          <=> MonthOf(n) <= MonthOf(k) /\ MonthOf(k) < MonthOf(n) + 1
    BY <1>2, <2>1
  <2>3. MonthOf(n) <= MonthOf(k) /\ MonthOf(k) < MonthOf(n) + 1 <=> MonthOf(k) = MonthOf(n)
    BY <1>1
  <2> QED
    BY <1>4, <2>2, <2>3 DEF OrderMoments, Period, k
<1>5. CASE split = "year"
  <2>1. FirstMonth(n) \in 0..Months /\ FirstMonth(n) + MonthsPerYear \in Nat
    BY <1>0, <1>1, YearIs
  <2>2. t \in Moments(NewDate(FirstMonth(n), 1), NewDate(FirstMonth(n) + MonthsPerYear, 1) - 1)
          <=> FirstMonth(n) <= MonthOf(k) /\ MonthOf(k) < FirstMonth(n) + MonthsPerYear
    BY <1>2, <2>1
  <2>3. FirstMonth(n) <= MonthOf(k) /\ MonthOf(k) < FirstMonth(n) + MonthsPerYear <=> YearOf(k) = YearOf(n)
    BY SameYear DEF k
  <2> QED
    BY <1>5, <2>2, <2>3 DEF OrderMoments, Period, k
<1> QED
  BY <1>3, <1>4, <1>5 DEF Splits

-----------------------------------------------------------------------------
(* resolveDateRange.  Dates that every month has are met period by period. *)
Steady(n, split) == split # "day" => Date(n) <= 28

LEMMA NextDate ==
  ASSUME NEW n \in Days, NEW split \in Splits
  PROVE  /\ Following(n, split) \in n + 1..StartOf(Months) + 31
         /\ Following(n, split) \in Days /\ Steady(n, split) =>
              /\ Period(Following(n, split), split) = Period(n, split) + 1
              /\ Steady(Following(n, split), split)
<1>0. StartOf(Months) \in Nat /\ MonthsPerYear \in Nat \ {0}
  BY Calendar
<1>1. n \in Nat /\ n < StartOf(Months) /\ MonthOf(n) \in Nat /\ Date(n) \in 1..31
  BY MonthIs, DateIs
<1>2. CASE split = "day"
  <2>1. Following(n, split) = n + 1
    BY <1>2 DEF Following
  <2> QED
    BY <1>0, <1>1, <1>2, <2>1 DEF Period, Steady
<1>3. ASSUME NEW month \in Nat, MonthOf(n) < month
      PROVE  /\ NewDate(month, Date(n)) \in n + 1..StartOf(Months) + 31
             /\ NewDate(month, Date(n)) \in Days /\ Date(n) <= 28 =>
                  /\ MonthOf(NewDate(month, Date(n))) = month
                  /\ Date(NewDate(month, Date(n))) <= 28
  <2> DEFINE d == NewDate(month, Date(n))
  <2>1. d \in 0..StartOf(Months) + 30 /\ n < d
    BY <1>1, <1>3, NewDateIs
  <2>2. d \in Days /\ Date(n) <= 28 => MonthOf(d) = month /\ Date(d) = Date(n)
    BY <1>1, <1>3, NewDateIs
  <2> HIDE DEF d
  <2>3. d \in n + 1..StartOf(Months) + 31
    BY <1>0, <1>1, <2>1
  <2> QED
    BY <2>2, <2>3 DEF d
<1>4. CASE split = "month"
  <2>1. Following(n, split) = NewDate(MonthOf(n) + 1, Date(n))
    BY <1>4 DEF Following
  <2>2. MonthOf(n) + 1 \in Nat /\ MonthOf(n) < MonthOf(n) + 1
    BY <1>1
  <2> QED
    BY <1>3, <1>4, <2>1, <2>2 DEF Period, Steady
<1>5. CASE split = "year"
  <2>1. Following(n, split) = NewDate(MonthOf(n) + MonthsPerYear, Date(n))
    BY <1>5 DEF Following
  <2>2. MonthOf(n) + MonthsPerYear \in Nat /\ MonthOf(n) < MonthOf(n) + MonthsPerYear
    BY <1>0, <1>1
  <2>3. (MonthOf(n) + MonthsPerYear) \div MonthsPerYear = YearOf(n) + 1
    <3>1. /\ YearOf(n) \in Nat /\ YearOf(n) * MonthsPerYear <= MonthOf(n)
          /\ MonthOf(n) < YearOf(n) * MonthsPerYear + MonthsPerYear
      BY YearIs
    <3>2. (YearOf(n) + 1) * MonthsPerYear = YearOf(n) * MonthsPerYear + MonthsPerYear
          /\ YearOf(n) * MonthsPerYear \in Nat
      BY <1>0, <3>1
    <3> QED
      BY <1>0, <1>1, <2>2, <3>1, <3>2, QuotientOnly
  <2>4. Following(n, split) \in Days /\ Steady(n, split) =>
          /\ MonthOf(Following(n, split)) = MonthOf(n) + MonthsPerYear
          /\ Date(Following(n, split)) <= 28
    BY <1>3, <1>5, <2>1, <2>2 DEF Steady
  <2> QED
    BY <1>3, <1>5, <2>1, <2>2, <2>3, <2>4 DEF Period, Steady, YearOf
<1> QED
  BY <1>2, <1>4, <1>5 DEF Splits

(* The loop ends, since every date is followed by a later one: there is a  *)
(* function that does what it says.                                        *)
LEMMA LoopEnds ==
  ASSUME NEW from \in Days, NEW to \in Days, NEW split \in Splits
  PROVE  \E f : f = [n \in from..StartOf(Months) + 31 |->
                       IF n > to THEN {} ELSE {n} \cup f[Following(n, split)]]
<1> DEFINE D == from..StartOf(Months) + 31
           Fol(n) == Following(n, split)
           Closed(S) == \A x \in S : x <= to => Fol(x) \in S
           Chain(n) == {d \in n..to : \A S \in SUBSET D : n \in S /\ Closed(S) => d \in S}
<1>0. from \in Nat /\ to \in Nat /\ StartOf(Months) \in Nat /\ from < StartOf(Months) /\ to < StartOf(Months)
  BY MonthIs, Calendar
<1>1. ASSUME NEW x \in D, x <= to PROVE Fol(x) \in D /\ x < Fol(x)
  <2>1. x \in Days
    BY <1>0, <1>1 DEF Days
  <2>2. Fol(x) \in x + 1..StartOf(Months) + 31
    BY <2>1, NextDate
  <2> HIDE DEF Fol
  <2> QED
    BY <1>0, <1>1, <2>2
<1> HIDE DEF Fol
<1>2. ASSUME NEW n \in D, n > to PROVE Chain(n) = {}
  BY <1>0, <1>2
<1>3. ASSUME NEW n \in D, n <= to PROVE Chain(n) = {n} \cup Chain(Fol(n))
  <2>1. Fol(n) \in D /\ n < Fol(n)
    BY <1>1, <1>3
  <2>2. n \in Chain(n)
    BY <1>0, <1>3
  <2>3. ASSUME NEW d \in Chain(Fol(n)) PROVE d \in Chain(n)
    <3>1. d \in n..to
      BY <1>0, <2>1, <2>3
    <3>2. ASSUME NEW S \in SUBSET D, n \in S, Closed(S) PROVE d \in S
      <4>1. Fol(n) \in S
        BY <1>3, <3>2
      <4> QED
        BY <2>3, <3>2, <4>1
    <3> QED
      BY <3>1, <3>2
  <2>4. ASSUME NEW d \in Chain(n), d # n PROVE d \in Chain(Fol(n))
    <3>1. d \in n..to /\ \A S \in SUBSET D : n \in S /\ Closed(S) => d \in S
      BY <2>4
    <3>2. d \in Fol(n)..to
      <4> DEFINE S == {n} \cup {x \in D : Fol(n) <= x}
      <4>1. S \in SUBSET D /\ n \in S
        OBVIOUS
      <4>2. Closed(S)
        <5> SUFFICES ASSUME NEW x \in S, x <= to PROVE Fol(x) \in S
          OBVIOUS
        <5>1. x \in D /\ Fol(x) \in D /\ x < Fol(x)
          BY <1>1
        <5>2. CASE x = n
          BY <1>0, <2>1, <5>2
        <5>3. CASE Fol(n) <= x
          BY <1>0, <2>1, <5>1, <5>3
        <5> QED
          BY <5>2, <5>3
      <4>3. d \in S
        BY <3>1, <4>1, <4>2
      <4> QED
        BY <1>0, <2>1, <2>4, <3>1, <4>3
    <3>3. ASSUME NEW S \in SUBSET D, Fol(n) \in S, Closed(S) PROVE d \in S
      <4>1. S \cup {n} \in SUBSET D /\ n \in S \cup {n} /\ Closed(S \cup {n})
        BY <3>3
      <4>2. d \in S \cup {n}
        BY <3>1, <4>1
      <4> QED
        BY <2>4, <4>2
    <3> QED
      BY <3>2, <3>3
  <2> HIDE DEF Chain
  <2> QED
    BY <2>2, <2>3, <2>4
<1> DEFINE f == [n \in D |-> Chain(n)]
<1>4. ASSUME NEW n \in D
      PROVE  f[n] = IF n > to THEN {} ELSE {n} \cup f[Fol(n)]
  <2> HIDE DEF Chain
  <2>1. CASE n > to
    BY <1>2, <2>1
  <2>2. CASE n <= to
    <3>1. Fol(n) \in D /\ Chain(n) = {n} \cup Chain(Fol(n)) /\ ~ (n > to)
      BY <1>0, <1>1, <1>3, <2>2
    <3>2. f[n] = Chain(n) /\ f[Fol(n)] = Chain(Fol(n))
      <4> HIDE DEF D
      <4> QED
        BY <3>1
    <3> HIDE DEF f, D
    <3> QED
      BY <3>1, <3>2
  <2> QED
    BY <1>0, <2>1, <2>2
<1>5. f = [n \in D |-> IF n > to THEN {} ELSE {n} \cup f[Fol(n)]]
  <2> HIDE DEF Chain
  <2>1. f = [n \in D |-> f[n]]
    OBVIOUS
  <2> HIDE DEF f
  <2> QED
    BY <1>4, <2>1
<1> QED
  BY <1>5 DEF Fol

(* What a date and those after it make: every period once.                 *)
Row(S, n, split) ==
  /\ S \subseteq Days /\ n \in S
  /\ \A d \in S : /\ Period(n, split) <= Period(d, split)
                  /\ \A q \in Period(n, split)..Period(d, split) : \E e \in S : Period(e, split) = q
  /\ \A d, e \in S : Period(d, split) = Period(e, split) => d = e

LEMMA RowGrows ==
  ASSUME NEW split \in Splits, NEW n \in Days, NEW m \in Days, NEW S, Row(S, m, split),
         Period(m, split) = Period(n, split) + 1
  PROVE  Row({n} \cup S, n, split)
<1> DEFINE P(d) == Period(d, split)
<1>1. \A d \in Days : P(d) \in Nat
  BY PeriodIs
<1>2. /\ S \subseteq Days /\ m \in S
      /\ \A d \in S : /\ P(m) <= P(d)
                      /\ \A q \in P(m)..P(d) : \E e \in S : P(e) = q
      /\ \A d, e \in S : P(d) = P(e) => d = e
      /\ P(m) = P(n) + 1
  BY DEF Row
<1> HIDE DEF P
<1>3. \A d \in S : P(n) < P(d)
  BY <1>1, <1>2
<1>4. ASSUME NEW d \in {n} \cup S, NEW q \in P(n)..P(d) PROVE \E e \in {n} \cup S : P(e) = q
  <2>1. CASE q = P(n)
    BY <2>1
  <2>2. CASE q # P(n)
    <3>1. d \in S /\ q \in P(m)..P(d)
      BY <1>1, <1>2, <1>4, <2>2
    <3> QED
      BY <1>2, <3>1
  <2> QED
    BY <2>1, <2>2
<1>5. \A d \in {n} \cup S : P(n) <= P(d)
  BY <1>1, <1>2, <1>3
<1>6. ASSUME NEW d \in {n} \cup S, NEW e \in {n} \cup S, P(d) = P(e) PROVE d = e
  BY <1>1, <1>2, <1>3, <1>6
<1> QED
  BY <1>2, <1>4, <1>5, <1>6 DEF Row, P

LEMMA EachPeriodOnce ==
  ASSUME NEW from \in Days, NEW to \in Days, NEW split \in Splits, from <= to, Steady(from, split),
         NEW f, f = [n \in from..StartOf(Months) + 31 |->
                       IF n > to THEN {} ELSE {n} \cup f[Following(n, split)]]
  PROVE  Row(f[from], from, split)
<1> DEFINE Bad == {n \in from..to : Steady(n, split) /\ ~ Row(f[n], n, split)}
           T == {to - n : n \in Bad}
<1>0. from \in Nat /\ to \in Nat /\ StartOf(Months) \in Nat /\ from < StartOf(Months) /\ to < StartOf(Months)
  BY MonthIs, Calendar
<1>1. \A n \in from..StartOf(Months) + 31 : f[n] = IF n > to THEN {} ELSE {n} \cup f[Following(n, split)]
  BY Zenon
<1>10. from \in from..to
  BY <1>0
<1> SUFFICES ASSUME Bad # {} PROVE FALSE
  BY <1>10, Zenon
<1>2. PICK x \in T : \A y \in T : x <= y
  <2>1. T # {}
    BY Zenon
  <2>2. \A n \in from..to : to - n \in Nat
    BY <1>0
  <2>3. T \subseteq Nat
    BY <2>2, Zenon
  <2> HIDE DEF T
  <2> QED
    BY <2>1, <2>3, Least
<1>3. PICK n \in Bad : x = to - n
  BY <1>2
<1>4. n \in Days /\ n \in from..to /\ Steady(n, split) /\ ~ Row(f[n], n, split)
  BY <1>0, <1>3 DEF Days
<1> DEFINE m == Following(n, split)
<1>5. /\ m \in n + 1..StartOf(Months) + 31
      /\ m \in Days => Period(m, split) = Period(n, split) + 1 /\ Steady(m, split)
  BY <1>4, NextDate
<1>6. f[n] = {n} \cup f[m]
  <2>1. n \in from..StartOf(Months) + 31 /\ ~ (n > to)
    BY <1>0, <1>4
  <2> QED
    BY <1>1, <2>1
<1>7. m \in from..StartOf(Months) + 31
  BY <1>0, <1>4, <1>5
<1> HIDE DEF m
<1>8. CASE m > to
  <2>1. f[n] = {n}
    BY <1>1, <1>6, <1>7, <1>8
  <2>2. Period(n, split) \in Nat
    BY <1>4, PeriodIs
  <2>3. Row({n}, n, split)
    BY <1>4, <2>2 DEF Row
  <2> QED
    BY <1>4, <2>1, <2>3
<1>9. CASE m <= to
  <2>1. m \in Days /\ m \in from..to
    BY <1>0, <1>7, <1>9 DEF Days
  <2>2. m \notin Bad
    <3>1. to - m < to - n
      BY <1>0, <1>4, <1>5, <2>1
    <3>2. to - m \notin T
      <4>1. to - m \in Int /\ to - n \in Int /\ ~ (to - n <= to - m)
        BY <1>0, <1>4, <2>1, <3>1
      <4> HIDE DEF T, Bad
      <4> QED
        BY <1>2, <1>3, <4>1, Zenon
    <3> QED
      BY <3>2, Zenon
  <2>3. Row(f[m], m, split)
    BY <1>5, <2>1, <2>2
  <2>4. Row({n} \cup f[m], n, split)
    BY <1>4, <1>5, <2>1, <2>3, RowGrows
  <2> QED
    BY <1>4, <1>6, <2>4
<1> QED
  BY <1>0, <1>7, <1>8, <1>9

(* ResolveDateRange meets every period from the first date to the last.    *)
LEMMA DatesAre ==
  ASSUME NEW c \in Calls, NEW r \in Menu[c], r.type = "orders"
  PROVE  /\ r.from \in Days /\ r.to \in Days /\ r.split \in Splits
         /\ r.to < r.from => ResolveDateRange[r] = {}
         /\ r.from <= r.to /\ Steady(r.from, r.split) => Row(ResolveDateRange[r], r.from, r.split)
<1>1. r \in Requests
  BY StatsAssumption
<1>2. r.from \in Days /\ r.to \in Days /\ r.split \in Splits
  BY <1>1 DEF Requests
<1> DEFINE IsLoop(g) == g = [n \in r.from..StartOf(Months) + 31 |->
                               IF n > r.to THEN {} ELSE {n} \cup g[Following(n, r.split)]]
           f == CHOOSE g : IsLoop(g)
<1>3. IsLoop(f)
  <2>1. \E g : IsLoop(g)
    BY <1>2, LoopEnds
  <2> HIDE DEF IsLoop
  <2> QED
    BY <2>1, Zenon
<1>4. DatesOf(r) = f[r.from]
  BY Zenon DEF DatesOf
<1>5. ResolveDateRange[r] = f[r.from]
  <2>1. r \in UNION {Menu[d] : d \in Calls}
    OBVIOUS
  <2>2. ResolveDateRange[r] = IF r.type = "statuses" THEN {} ELSE DatesOf(r)
    <3> HIDE DEF f
    <3> QED
      BY <2>1, Zenon DEF ResolveDateRange
  <2> QED
    BY <1>4, <2>2
<1> HIDE DEF f
<1>6. ASSUME r.to < r.from PROVE f[r.from] = {}
  <2>1. r.from \in Nat /\ r.to \in Nat /\ StartOf(Months) \in Nat /\ r.from < StartOf(Months)
    BY <1>2, MonthIs, Calendar
  <2>2. r.from \in r.from..StartOf(Months) + 31 /\ r.from > r.to
    BY <1>6, <2>1
  <2> QED
    BY <1>3, <2>2
<1>7. ASSUME r.from <= r.to, Steady(r.from, r.split) PROVE Row(f[r.from], r.from, r.split)
  BY <1>2, <1>3, <1>7, EachPeriodOnce
<1> QED
  BY <1>2, <1>5, <1>6, <1>7

-----------------------------------------------------------------------------
(* What a call has counted is right about every order it has not missed a  *)
(* change of.                                                              *)
Counted(c) ==
  /\ call[c] # "failed" => DOMAIN part[c] = Parts(request[c])
  /\ \A p \in DOMAIN part[c] : part[c][p] \in {"find", "done"}
  /\ \A p \in DOMAIN part[c], o \in Orders \ missed[c] :
       part[c][p] = "done" => (o \in sum[c][p] <=> Wanted(request[c], p, o))

Numbers(c) == call[c] # "idle" /\ request[c].type # "revenue"
Counting == \A c \in Calls : Numbers(c) => Counted(c)

LEMMA WantedStays ==
  ASSUME NEW r, NEW o, orders'[o] = orders[o]
  PROVE  \A p : Wanted(r, p, o)' = Wanted(r, p, o)
  BY DEF Wanted

LEMMA CountedStays ==
  ASSUME NEW c \in Calls, Numbers(c) => Counted(c),
         call'[c] = call[c], request'[c] = request[c], part'[c] = part[c], sum'[c] = sum[c],
         missed[c] \subseteq missed'[c],
         call[c] # "idle" => \A o \in Orders \ missed'[c] : orders'[o] = orders[o]
  PROVE  Numbers(c)' => Counted(c)'
<1> SUFFICES ASSUME Numbers(c)' PROVE Counted(c)'
  OBVIOUS
<1>1. Numbers(c) /\ Counted(c) /\ call[c] # "idle"
  BY DEF Numbers
<1>2. Parts(request[c])' = Parts(request[c])
  BY DEF Parts
<1>3. \A o \in Orders \ missed'[c] : \A p : Wanted(request[c], p, o)' = Wanted(request[c], p, o)
  BY <1>1, WantedStays
<1> QED
  BY <1>1, <1>2, <1>3 DEF Counted

LEMMA CountingStep ==
  ASSUME StatTypes, Counting, NEW c \in Calls, StatsStep(c), UNCHANGED orders
  PROVE  Counting'
<1>1. ASSUME NEW r \in Menu[c], GetStats(c, r) PROVE Counting'
  <2>1. Begun(c, r)
    BY <1>1, Begins
  <2>2. part'[c] = Looks(r)
    BY <1>1 DEF GetStats, Begin, StatTypes
  <2>3. Numbers(c)' => Counted(c)'
    <3> SUFFICES ASSUME Numbers(c)' PROVE Counted(c)'
      OBVIOUS
    <3>1. request'[c] = r /\ r.type # "revenue"
      BY <2>1 DEF Begun, Numbers
    <3>2. DOMAIN part'[c] = Parts(request'[c]) /\ \A p \in DOMAIN part'[c] : part'[c][p] = "find"
      BY <2>2, <3>1 DEF Looks
    <3> QED
      BY <3>2 DEF Counted
  <2>4. ASSUME NEW d \in Calls \ {c} PROVE Numbers(d)' => Counted(d)'
    BY <2>1, CountedStays DEF Begun, Counting
  <2> QED
    BY <2>3, <2>4 DEF Counting
<1>2. CASE Proceeds(c)
  <2>1. Worked(c)
    BY <1>2, NoNewWork
  <2>2. ASSUME NEW d \in Calls \ {c} PROVE Numbers(d)' => Counted(d)'
    BY <2>1, CountedStays DEF Worked, Counting
  <2>3. ASSUME Numbers(c)' PROVE Counted(c)'
    <3>0. Numbers(c) /\ Counted(c) /\ UNCHANGED <<request, missed>>
      BY <2>1, <2>3 DEF Worked, Numbers, Counting
    <3>1. \A p, o : Wanted(request[c], p, o)' = Wanted(request[c], p, o)
      BY <3>0 DEF Wanted
    <3>2. CASE ListKeys(c) \/ DeleteKey(c)
      <4>1. UNCHANGED <<part, sum>> /\ (call[c] = "failed" => call'[c] = "failed")
        BY <3>2 DEF ListKeys, DeleteKey, StatTypes
      <4> QED
        BY <3>0, <3>1, <4>1 DEF Counted
    <3>3. CASE CallFails(c)
      <4>1. call'[c] = "failed" /\ UNCHANGED sum /\ (part'[c] = part[c] \/ part'[c] = <<>>)
        BY <3>3 DEF CallFails, StatTypes
      <4>2. DOMAIN part'[c] \subseteq DOMAIN part[c] /\ \A p \in DOMAIN part'[c] : part'[c][p] = part[c][p]
        BY <4>1
      <4> QED
        BY <3>0, <3>1, <4>1, <4>2 DEF Counted
    <3>4. ASSUME NEW p \in DOMAIN part[c], GetCached(c, p) \/ QueryFails(c, p) \/ SetCached(c, p)
          PROVE  FALSE
      BY <3>0, <3>4 DEF GetCached, QueryFails, SetCached, Numbers, Counted
    <3>5. ASSUME NEW p \in DOMAIN part[c], Query(c, p) PROVE Counted(c)'
      <4> DEFINE found == {o \in Orders : Wanted(request[c], p, o)}
      <4>1. call[c] \in {"query", "failed"} /\ Settle(c, p, found)
        BY <3>0, <3>5 DEF Query, MayQuery, Found, Numbers
      <4>2. /\ DOMAIN part'[c] = DOMAIN part[c] /\ part'[c][p] = "done" /\ sum'[c][p] = found
            /\ \A q \in DOMAIN part[c] \ {p} : part'[c][q] = part[c][q] /\ sum'[c][q] = sum[c][q]
            /\ (call'[c] = "failed") = (call[c] = "failed")
        <5> HIDE DEF found
        <5> QED
          BY <4>1, Settles
      <4>3. \A o \in Orders : o \in found <=> Wanted(request[c], p, o)
        OBVIOUS
      <4> HIDE DEF found
      <4>4. \A q \in DOMAIN part'[c], o \in Orders \ missed'[c] :
              part'[c][q] = "done" => (o \in sum'[c][q] <=> Wanted(request[c], q, o))
        BY <3>0, <4>2, <4>3 DEF Counted
      <4>5. DOMAIN part'[c] = DOMAIN part[c] /\ \A q \in DOMAIN part'[c] : part'[c][q] \in {"find", "done"}
        BY <3>0, <4>2 DEF Counted
      <4>6. call'[c] # "failed" => DOMAIN part'[c] = Parts(request[c])
        BY <3>0, <4>2 DEF Counted
      <4> QED
        BY <3>0, <3>1, <4>4, <4>5, <4>6 DEF Counted
    <3> QED
      BY <1>2, <3>2, <3>3, <3>4, <3>5 DEF Proceeds
  <2> QED
    BY <2>2, <2>3 DEF Counting
<1> QED
  BY <1>1, <1>2, StepIs

LEMMA CountingNext == Fresh /\ Counting /\ [Next]_vars => Counting'
<1> SUFFICES ASSUME Fresh, Counting, [Next]_vars PROVE Counting'
  OBVIOUS
<1>1. ASSUME NEW o \in Orders, OrderChanges(o) PROVE Counting'
  <2>1. ASSUME NEW c \in Calls PROVE Numbers(c)' => Counted(c)'
    <3>1. UNCHANGED <<call, request, part, sum>> /\ missed'[c] = IF call[c] = "idle" THEN missed[c] ELSE missed[c] \cup {o}
      BY <1>1 DEF OrderChanges, Notice
    <3>2. \A x \in Orders \ {o} : orders'[x] = orders[x]
      BY <1>1 DEF OrderChanges, Change
    <3> QED
      BY <3>1, <3>2, CountedStays DEF Counting
  <2> QED
    BY <2>1 DEF Counting
<1>2. ASSUME NEW c \in Calls, StatsCall(c) PROVE Counting'
  BY <1>2, CountingStep DEF StatsCall, Fresh
<1>3. CASE TimePasses \/ (\E k \in Copies : BackupRun(k)) \/ BackupRestart \/ UNCHANGED vars
  <2>1. UNCHANGED <<orders, call, request, part, sum, missed>>
    BY <1>3 DEF TimePasses, Tick, BackupRun, BackupRestart, vars, statsVars
  <2>2. ASSUME NEW c \in Calls PROVE Numbers(c)' => Counted(c)'
    BY <2>1, CountedStays DEF Counting
  <2> QED
    BY <2>2 DEF Counting
<1> QED
  BY <1>1, <1>2, <1>3 DEF Next

(* An order is counted under its status.                                   *)
LEMMA UnderOneStatus ==
  ASSUME Inv, NEW r, r.type = "statuses", NEW o \in Orders
  PROVE  LET W == {p \in Parts(r) : Wanted(r, p, o)} IN
         \/ orders[o] # None /\ AskedFor(r, o) /\ \E p : W = {p}
         \/ ~ (orders[o] # None /\ AskedFor(r, o)) /\ W = {}
<1> DEFINE W == {p \in Parts(r) : Wanted(r, p, o)}
<1>1. Parts(r) = 1..2 /\ Statuses[1] = "open" /\ Statuses[2] = "completed"
  BY DEF Parts, Statuses
<1>2. \A p \in 1..2 : Wanted(r, p, o) <=> orders[o] = Statuses[p] /\ AskedFor(r, o)
  BY DEF Wanted, AskedFor
<1>3. orders[o] \in {"open", "completed", None} /\ None \notin {"open", "completed"}
  BY OrdersAssumption DEF Inv, BackupTypes, State
<1>4. CASE orders[o] = "open" /\ AskedFor(r, o)
  <2>1. W = {1}
    BY <1>1, <1>2, <1>4
  <2> QED
    BY <1>3, <1>4, <2>1
<1>5. CASE orders[o] = "completed" /\ AskedFor(r, o)
  <2>1. W = {2}
    BY <1>1, <1>2, <1>5
  <2> QED
    BY <1>3, <1>5, <2>1
<1>6. CASE orders[o] = None \/ ~ AskedFor(r, o)
  <2>1. \A p \in 1..2 : ~ Wanted(r, p, o)
    <3>1. \A p \in 1..2 : p = 1 \/ p = 2
      OBVIOUS
    <3> QED
      BY <1>1, <1>2, <1>3, <1>6, <3>1
  <2>2. W = {}
    BY <1>1, <2>1
  <2> QED
    BY <1>6, <2>2
<1> QED
  BY <1>3, <1>4, <1>5, <1>6

(* An order is counted in its period.                                      *)
LEMMA InOnePeriod ==
  ASSUME NEW c \in Calls, NEW r \in Menu[c], r.type = "orders", Steady(r.from, r.split), NEW o \in Orders
  PROVE  LET W == {p \in Parts(r) : Wanted(r, p, o)}
             fits == orders[o] # None /\ (r.status = "any" \/ orders[o] = r.status)
         IN \/ fits /\ AskedFor(r, o) /\ \E p : W = {p}
            \/ ~ (fits /\ AskedFor(r, o)) /\ W = {}
<1> DEFINE S == ResolveDateRange[r]
           P(d) == Period(d, r.split)
           k == Day(Created[o])
           fits == orders[o] # None /\ (r.status = "any" \/ orders[o] = r.status)
           W == {p \in S : Wanted(r, p, o)}
<1>0. Parts(r) = S
  BY DEF Parts
<1>1. r.from \in Days /\ r.to \in Days /\ r.split \in Splits
  BY DatesAre
<1>2. Created[o] \in Nat /\ k \in Days
  <2>1. Today \in Days /\ Created[o] \in Moments(0, Today)
    BY OrdersAssumption
  <2>2. Today \in Nat /\ Today < StartOf(Months) /\ StartOf(Months) \in Nat
    BY <2>1, MonthIs, Calendar
  <2>3. Created[o] \in Nat
    BY <2>1, <2>2 DEF Moments, Midnight
  <2>4. 0 <= k /\ k <= Today /\ k \in Int
    BY <2>1, <2>2, <2>3, MomentsOfDays DEF Day
  <2> QED
    BY <2>2, <2>3, <2>4 DEF Days
<1>3. \A d \in Days : P(d) \in Nat
  BY <1>1, PeriodIs
<1>4. \A p \in Days : Wanted(r, p, o) <=> fits /\ P(k) = P(p)
  <2>1. \A p \in Days : Created[o] \in OrderMoments(p, r.split) <=> P(k) = P(p)
    BY <1>1, <1>2, MomentsOfPeriod
  <2> QED
    BY <2>1 DEF Wanted
<1>5. AskedFor(r, o) <=> \E n \in S : P(k) \in P(r.from)..P(n)
  BY DEF AskedFor
<1> HIDE DEF S, P, k, fits
<1>6. CASE r.to < r.from
  <2>1. S = {}
    BY <1>6, DatesAre DEF S
  <2> QED
    BY <1>0, <1>5, <2>1 DEF fits
<1>7. CASE r.from <= r.to
  <2>1. Row(S, r.from, r.split)
    BY <1>7, DatesAre DEF S
  <2>2. /\ S \subseteq Days
        /\ \A d \in S : /\ P(r.from) <= P(d)
                        /\ \A q \in P(r.from)..P(d) : \E e \in S : P(e) = q
        /\ \A d, e \in S : P(d) = P(e) => d = e
    BY <2>1 DEF Row, P
  <2>3. CASE fits /\ AskedFor(r, o)
    <3>1. PICK p \in S : P(p) = P(k)
      BY <1>5, <2>2, <2>3
    <3>2. W = {p}
      BY <1>4, <2>2, <2>3, <3>1
    <3> QED
      BY <1>0, <2>3, <3>2 DEF fits
  <2>4. CASE ~ (fits /\ AskedFor(r, o))
    <3>1. ASSUME NEW p \in S, Wanted(r, p, o) PROVE FALSE
      <4>1. fits /\ P(k) = P(p)
        BY <1>4, <2>2, <3>1
      <4>2. P(k) \in P(r.from)..P(p)
        BY <1>1, <1>2, <1>3, <2>2, <4>1
      <4> QED
        BY <1>5, <2>4, <4>1, <4>2
    <3>2. W = {}
      BY <3>1
    <3> QED
      BY <1>0, <2>4, <3>2 DEF fits
  <2> QED
    BY <2>3, <2>4
<1>8. r.from \in Nat /\ r.to \in Nat
  BY <1>1, MonthIs
<1>9. r.to < r.from \/ r.from <= r.to
  BY <1>8
<1> QED
  BY <1>6, <1>7, <1>9, Zenon

LEMMA CountedAnswers == Inv /\ Fresh /\ Counting => CountedOnce
<1> SUFFICES ASSUME Inv, Fresh, Counting,
                    NEW c \in Calls, call[c] = "done", request[c].type # "revenue",
                    BeforeDay29(request[c]),
                    NEW o \in Orders \ missed[c]
             PROVE  LET r == request[c]
                        asks == /\ orders[o] # None /\ AskedFor(r, o)
                                /\ r.type = "orders" => r.status = "any" \/ orders[o] = r.status
                    IN Times(c, o) = IF asks THEN 1 ELSE 0
  BY DEF CountedOnce
<1> DEFINE r == request[c]
           W == {p \in Parts(r) : Wanted(r, p, o)}
           asks == /\ orders[o] # None /\ AskedFor(r, o)
                   /\ r.type = "orders" => r.status = "any" \/ orders[o] = r.status
<1>1. r \in Menu[c] /\ Counted(c)
  BY DEF Fresh, StatTypes, Counting, Numbers
<1>2. r \in Requests
  BY <1>1, StatsAssumption
<1>3. r.type = "orders" \/ r.type = "statuses"
  BY <1>2 DEF Requests
<1>4. /\ DOMAIN sum[c] = Parts(r)
      /\ \A p \in Parts(r) : o \in sum[c][p] <=> Wanted(r, p, o)
  BY <1>1 DEF Fresh, StatTypes, Counted
<1>5. Times(c, o) = Cardinality(W)
  <2>1. {p \in DOMAIN sum[c] : o \in sum[c][p]} = W
    BY <1>4
  <2> HIDE DEF W
  <2> QED
    BY <2>1 DEF Times
<1>6. \/ asks /\ \E p : W = {p}
      \/ ~ asks /\ W = {}
  <2>1. CASE r.type = "statuses"
    BY <2>1, UnderOneStatus
  <2>2. CASE r.type = "orders"
    <3>1. Steady(r.from, r.split)
      BY <2>2 DEF Steady, BeforeDay29
    <3> QED
      BY <1>1, <2>2, <3>1, InOnePeriod
  <2> QED
    BY <1>3, <2>1, <2>2
<1>7. CASE asks /\ \E p : W = {p}
  <2>1. Cardinality(W) = 1
    <3> HIDE DEF W
    <3> QED
      BY <1>7, FS_Singleton
  <2> QED
    BY <1>5, <1>7, <2>1
<1>8. CASE ~ asks /\ W = {}
  BY <1>5, <1>8, FS_EmptySet
<1> QED
  BY <1>6, <1>7, <1>8

LEMMA CountingInit == Init => Counting
  BY DEF Init, StatsInit, Counting, Numbers

(* Numbers of orders add up, for every calendar whose months have 28 to 31 *)
(* days and every range that begins on a day all months have: the loop of  *)
(* resolveDateRange meets every period once, and the moments of a period   *)
(* are those of its days.                                                  *)
THEOREM NumbersAddUp == Spec => []CountedOnce
  BY InvInit, InvNext, FreshInit, FreshNext, CountingInit, CountingNext, CountedAnswers, PTL DEF Spec

=============================================================================
