------------------------ MODULE AfterCheckoutProofs -------------------------
(***************************************************************************)
(* What happens to an order after it has been placed: the handlers that    *)
(* change it (OrderLifecycle) and the service that tells about it          *)
(* (Communications), each on its own, for every set of calls and every     *)
(* menu, and for every number of orders, staff, mails and crashes.         *)
(***************************************************************************)
EXTENDS OrderLifecycle, Communications, FiniteSetTheorems, SequenceTheorems, TLAPS

-----------------------------------------------------------------------------
(* The lifecycle of an order.                                              *)

(* Every handler turns an order into an order, and cash on delivery stays  *)
(* cash on delivery.                                                       *)
LEMMA WritesType ==
  ASSUME NEW d \in OrderDocs, NEW r \in Requests, NEW e \in Writes(d, r)
  PROVE  e \in OrderDocs
<1> USE DEF OrderDocs, OrderStatuses, PaymentStatuses, Methods
<1>1. CASE r.handler = "ipn"
  BY <1>1 DEF Writes, AfterIpn
<1>2. CASE r.handler = "cancel"
  BY <1>2 DEF Writes
<1>3. CASE r.handler = "repay"
  BY <1>3 DEF Writes
<1>4. CASE r.handler = "status"
  <2>1. r.arg \in OrderStatuses
    BY <1>4 DEF Requests
  <2> QED
    BY <1>4, <2>1 DEF Writes, AfterStatus
<1> QED
  BY <1>1, <1>2, <1>3, <1>4 DEF Requests

LEMMA TypeInit == Init => TypeOK
<1> SUFFICES ASSUME Init PROVE TypeOK
  OBVIOUS
<1>1. doc \in OrderDocs
  BY DEF Init, NewOrders, OrderDocs, OrderStatuses, PaymentStatuses, Methods
<1> QED
  BY <1>1, LifecycleAssumption DEF Init, TypeOK, Stations, Answers

LEMMA FaultType == ASSUME faults \in 0..MaxFaults, Fault PROVE faults' \in 0..MaxFaults
  BY LifecycleAssumption DEF Fault

LEMMA TypeNext == TypeOK /\ [Next]_vars => TypeOK'
<1> SUFFICES ASSUME TypeOK, [Next]_vars PROVE TypeOK'
  OBVIOUS
<1> USE DEF TypeOK, Stations, Answers
<1>1. ASSUME NEW c \in Calls, NEW r \in Menu, Read(c, r) PROVE TypeOK'
  <2>1. r \in Requests
    BY LifecycleAssumption
  <2>2. copy' \in [Calls -> OrderDocs]
    BY <1>1, <2>1, WritesType DEF Read
  <2> QED
    BY <1>1, <2>1, <2>2 DEF Read, Arrives
<1>2. ASSUME NEW c \in Calls, NEW r \in Menu, Refuse(c, r) PROVE TypeOK'
  <2>1. r \in Requests
    BY LifecycleAssumption
  <2> QED
    BY <1>2, <2>1 DEF Refuse, Arrives, Refusal
<1>3. ASSUME NEW c \in Calls, Lock(c) PROVE TypeOK'
  BY <1>3 DEF Lock, Acquire
<1>4. ASSUME NEW c \in Calls, LockTimeout(c) PROVE TypeOK'
  BY <1>4 DEF LockTimeout, Finish
<1>5. ASSUME NEW c \in Calls, Write(c) PROVE TypeOK'
  BY <1>5 DEF Write
<1>6. ASSUME NEW c \in Calls, WriteFails(c) PROVE TypeOK'
  BY <1>6, FaultType DEF WriteFails
<1>7. ASSUME NEW c \in Calls, Unlock(c) PROVE TypeOK'
  BY <1>7 DEF Unlock, Release, Finish
<1>8. ASSUME NEW c \in Calls, Emit(c) PROVE TypeOK'
  BY <1>8 DEF Emit, Finish
<1>9. ASSUME NEW c \in Calls, Crash(c) PROVE TypeOK'
  BY <1>9, FaultType DEF Crash
<1>10. ASSUME NEW c \in Calls, Redeliver(c) PROVE TypeOK'
  BY <1>10 DEF Redeliver
<1>11. ASSUME ExpireKey PROVE TypeOK'
  BY <1>11, FaultType DEF ExpireKey, Expired
<1>12. ASSUME Quiet \/ UNCHANGED vars PROVE TypeOK'
  BY <1>12 DEF Quiet, vars
<1> QED
  BY <1>1, <1>2, <1>3, <1>4, <1>5, <1>6, <1>7, <1>8, <1>9, <1>10, <1>11, <1>12 DEF Next, CallStep

(* Every variable keeps its type, whatever is asked for and whatever fails. *)
THEOREM LifecycleTypes == Spec => []TypeOK
  BY TypeInit, TypeNext, PTL DEF Spec

-----------------------------------------------------------------------------
(* Money first.  A copy that is about to be written is as justified as the *)
(* document itself.                                                        *)

Justified(d) == d.payment = "completed" => MoneyCame

CopiesJustified ==
  /\ Justified(doc)
  /\ \A c \in Calls : pc[c] \in {"lock", "write"} =>
       Justified(copy[c]) /\ (copy[c].method = "COD" <=> doc.method = "COD")

(* A handler marks an order as paid only when asked by somebody who pays.  *)
LEMMA WritesJustified ==
  ASSUME NEW d \in OrderDocs, NEW r \in Requests, NEW e \in Writes(d, r),
         r.handler = "ipn" /\ r.arg # "invalid" => d.method # "COD"
  PROVE  /\ e.method = "COD" <=> d.method = "COD"
         /\ e.payment = "completed" =>
              \/ d.payment = "completed"
              \/ r = [handler |-> "ipn", arg |-> "paid"]
              \/ r = [handler |-> "status", arg |-> "completed"] /\ d.method = "COD"
<1> USE DEF OrderDocs, Requests
<1>1. CASE r.handler = "ipn"
  BY <1>1 DEF Writes, AfterIpn
<1>2. CASE r.handler = "cancel"
  BY <1>2 DEF Writes
<1>3. CASE r.handler = "repay"
  BY <1>3 DEF Writes
<1>4. CASE r.handler = "status"
  BY <1>4 DEF Writes, AfterStatus
<1> QED
  BY <1>1, <1>2, <1>3, <1>4

LEMMA JustifiedNext ==
  ASSUME TypeOK, CopiesJustified, [Next]_vars
  PROVE  CopiesJustified'
<1> USE DEF TypeOK
<1>0. \A c \in Calls : copy[c] \in OrderDocs
  OBVIOUS
<1>1. ASSUME NEW c \in Calls, NEW r \in Menu, Arrives(c, r), UNCHANGED doc
      PROVE  MoneyCame => MoneyCame'
  BY <1>1 DEF MoneyCame, Arrives, NoRequest
<1>2. ASSUME NEW c \in Calls, NEW r \in Menu, Read(c, r) PROVE CopiesJustified'
  <2>1. r \in Requests /\ UNCHANGED doc /\ Arrives(c, r)
    BY <1>2, LifecycleAssumption DEF Read
  <2>2. PICK e \in Writes(doc, r) : copy' = [copy EXCEPT ![c] = e]
    BY <1>2 DEF Read
  <2>3. /\ e.method = "COD" <=> doc.method = "COD"
        /\ e.payment = "completed" =>
              \/ doc.payment = "completed"
              \/ r = [handler |-> "ipn", arg |-> "paid"]
              \/ r = [handler |-> "status", arg |-> "completed"] /\ doc.method = "COD"
    BY <2>1, WritesJustified DEF Arrives
  <2>4. request'[c] = r
    BY <2>1 DEF Arrives
  <2>5. e.payment = "completed" => MoneyCame'
    BY <1>1, <2>1, <2>3, <2>4 DEF CopiesJustified, Justified, MoneyCame
  <2>6. MoneyCame => MoneyCame'
    BY <1>1, <2>1
  <2>7. pc' = [pc EXCEPT ![c] = "lock"]
    BY <1>2 DEF Read
  <2> QED
    BY <2>1, <2>2, <2>3, <2>5, <2>6, <2>7 DEF CopiesJustified, Justified
<1>3. ASSUME NEW c \in Calls, NEW r \in Menu, Refuse(c, r) PROVE CopiesJustified'
  <2>1. UNCHANGED <<doc, copy>> /\ Arrives(c, r) /\ pc' = [pc EXCEPT ![c] = "done"]
    BY <1>3 DEF Refuse
  <2>2. MoneyCame => MoneyCame'
    BY <1>1, <2>1
  <2> QED
    BY <2>1, <2>2 DEF CopiesJustified, Justified
<1>4. ASSUME UNCHANGED <<doc, request, copy>>,
             \A c \in Calls : pc'[c] \in {"lock", "write"} => pc[c] \in {"lock", "write"}
      PROVE  CopiesJustified'
  BY <1>4 DEF CopiesJustified, Justified, MoneyCame
<1>5. ASSUME NEW c \in Calls,
             \/ Lock(c) \/ LockTimeout(c) \/ WriteFails(c) \/ Unlock(c) \/ Emit(c) \/ Crash(c)
             \/ Redeliver(c)
      PROVE  CopiesJustified'
  <2>1. UNCHANGED <<doc, request, copy>>
    BY <1>5 DEF Lock, LockTimeout, WriteFails, Unlock, Emit, Crash, Redeliver
  <2>2. \/ pc[c] = "lock" /\ pc' = [pc EXCEPT ![c] = "write"]
        \/ \E s \in {"done", "failing", "emit", "crashed", "idle"} : pc' = [pc EXCEPT ![c] = s]
    BY <1>5 DEF Lock, LockTimeout, WriteFails, Unlock, Emit, Crash, Redeliver, Finish
  <2> QED
    BY <1>4, <2>1, <2>2
<1>6. ASSUME NEW c \in Calls, Write(c) PROVE CopiesJustified'
  <2>1. /\ pc[c] = "write" /\ doc' = copy[c] /\ pc' = [pc EXCEPT ![c] = "unlock"]
        /\ UNCHANGED <<request, copy>>
    BY <1>6 DEF Write
  <2>2. Justified(copy[c]) /\ (copy[c].method = "COD" <=> doc.method = "COD")
    BY <2>1 DEF CopiesJustified
  <2>3. MoneyCame <=> MoneyCame'
    BY <2>1, <2>2 DEF MoneyCame
  <2> QED
    BY <2>1, <2>2, <2>3 DEF CopiesJustified, Justified
<1>7. ASSUME ExpireKey PROVE CopiesJustified'
  BY <1>4, <1>7 DEF ExpireKey
<1>8. ASSUME Quiet \/ UNCHANGED vars PROVE CopiesJustified'
  BY <1>4, <1>8 DEF Quiet, vars
<1> QED
  BY <1>2, <1>3, <1>5, <1>6, <1>7, <1>8 DEF Next, CallStep

(* No order is recorded as paid before somebody has paid for it, however   *)
(* many calls overlap, crash and overwrite each other.                     *)
THEOREM MoneyFirst == Spec => []PaidMeansMoney
<1>1. Init => CopiesJustified
  BY DEF Init, NewOrders, CopiesJustified, Justified
<1>2. CopiesJustified => PaidMeansMoney
  BY DEF CopiesJustified, Justified, PaidMeansMoney
<1> QED
  BY <1>1, <1>2, JustifiedNext, LifecycleTypes, PTL DEF Spec

-----------------------------------------------------------------------------
(* One call at a time.  Then what a handler read is still there when it    *)
(* writes, and the whole-document write does what the handler decided.     *)

Alone ==
  /\ \A c, d \in Calls : UnderWay(c) /\ UnderWay(d) => c = d
  /\ \A c \in Calls : pc[c] \in {"lock", "write"} =>
       request[c] \in Menu /\ copy[c] \in Writes(doc, request[c])

(* Only Write changes the document.                                        *)
LEMMA DocFrame == [Next]_vars => UNCHANGED doc \/ \E c \in Calls : Write(c)
  BY DEF Next, CallStep, Read, Refuse, Lock, LockTimeout, WriteFails, Unlock, Emit, Crash,
         Redeliver, ExpireKey, Quiet, vars

LEMMA AloneNext ==
  ASSUME ~ Overlap, TypeOK, Alone, [Next]_vars
  PROVE  Alone'
<1> USE DEF Alone, UnderWay
<1>t. pc \in [Calls -> Stations] /\ copy \in [Calls -> OrderDocs]
      /\ request \in [Calls -> Requests \cup {NoRequest}]
  BY DEF TypeOK
<1>1. ASSUME NEW c \in Calls, NEW r \in Menu, Read(c, r) PROVE Alone'
  <2>1. /\ UNCHANGED doc /\ pc' = [pc EXCEPT ![c] = "lock"]
        /\ request' = [request EXCEPT ![c] = r] /\ \A d \in Calls : ~ UnderWay(d)
    BY <1>1 DEF Read, Arrives, MayStart
  <2>2. PICK e \in Writes(doc, r) : copy' = [copy EXCEPT ![c] = e]
    BY <1>1 DEF Read
  <2> QED
    BY <1>t, <2>1, <2>2
<1>2. ASSUME NEW c \in Calls, NEW r \in Menu, Refuse(c, r) PROVE Alone'
  BY <1>t, <1>2 DEF Refuse, Arrives, MayStart
<1>3. ASSUME NEW c \in Calls,
             \/ Lock(c) \/ LockTimeout(c) \/ WriteFails(c) \/ Unlock(c) \/ Emit(c) \/ Crash(c)
             \/ Redeliver(c)
      PROVE  Alone'
  <2>1. UNCHANGED <<doc, request, copy>>
    BY <1>3 DEF Lock, LockTimeout, WriteFails, Unlock, Emit, Crash, Redeliver
  <2>2. \/ pc[c] = "lock" /\ pc' = [pc EXCEPT ![c] = "write"]
        \/ UnderWay(c) /\ \E s \in {"failing", "emit"} : pc' = [pc EXCEPT ![c] = s]
        \/ \E s \in {"done", "crashed", "idle"} : pc' = [pc EXCEPT ![c] = s]
    BY <1>3 DEF Lock, LockTimeout, WriteFails, Unlock, Emit, Crash, Redeliver, Finish
  <2> QED
    BY <1>t, <2>1, <2>2
<1>4. ASSUME NEW c \in Calls, Write(c) PROVE Alone'
  BY <1>t, <1>4 DEF Write
<1>5. ASSUME ExpireKey \/ Quiet \/ UNCHANGED vars PROVE Alone'
  BY <1>5 DEF ExpireKey, Quiet, vars
<1> QED
  BY <1>1, <1>2, <1>3, <1>4, <1>5 DEF Next, CallStep

(* Without overlapping calls every change of the order is one whole        *)
(* request applied to the order as it stands, and no paid order is         *)
(* cancelled by the customer.                                              *)
THEOREM OneAtATime == ~ Overlap => (Spec => AtomicUpdates /\ CancelOnlyUnpaid)
<1> SUFFICES ASSUME ~ Overlap PROVE Spec => AtomicUpdates /\ CancelOnlyUnpaid
  OBVIOUS
<1>1. Init => Alone
  BY DEF Init, Alone, UnderWay
<1>2. TypeOK /\ Alone /\ [Next]_vars => [\E r \in Menu : doc' \in Writes(doc, r)]_doc
  BY DocFrame DEF Alone, Write
<1>3. TypeOK /\ Alone /\ [Next]_vars =>
        [\A c \in Calls : request[c].handler = "cancel" /\ Write(c) => doc.payment # "completed"]_vars
  BY DEF Alone, Write, Writes, Cancellable
<1> QED
  BY <1>1, <1>2, <1>3, AloneNext, LifecycleTypes, PTL DEF Spec, AtomicUpdates, CancelOnlyUnpaid

-----------------------------------------------------------------------------
(* Confirmed payments.  A handler that decides on the order as it stands   *)
(* never takes a completed payment back.                                   *)
LEMMA WritesKeepPayment ==
  ASSUME NEW d \in OrderDocs, NEW r \in Requests, NEW e \in Writes(d, r)
  PROVE  /\ d.payment = "completed" => e.payment = "completed"
         /\ r = [handler |-> "ipn", arg |-> "paid"] => e.payment = "completed"
<1> USE DEF OrderDocs, Requests
<1>1. CASE r.handler = "ipn"
  BY <1>1 DEF Writes, AfterIpn, Closed
<1>2. CASE r.handler = "cancel"
  BY <1>2 DEF Writes
<1>3. CASE r.handler = "repay"
  BY <1>3 DEF Writes
<1>4. CASE r.handler = "status"
  <2>1. e = AfterStatus(d, r.arg)
    BY <1>4 DEF Writes
  <2>2. d.payment = "completed" => e.payment = "completed"
    BY <2>1 DEF AfterStatus
  <2> QED
    BY <1>4, <2>2
<1> QED
  BY <1>1, <1>2, <1>3, <1>4

(* The answer is given after the write, so the invariant has to know of    *)
(* the call between the two; and only a change of status emits anything.   *)
PaidRequest == [handler |-> "ipn", arg |-> "paid"]
PaymentsStand ==
  /\ \A c \in Calls :
       request[c] = PaidRequest /\ (answer[c] = "ok" \/ pc[c] = "unlock") => doc.payment = "completed"
  /\ \A c \in Calls : pc[c] = "emit" => request[c].handler = "status"

LEMMA PaymentsStandNext ==
  ASSUME TypeOK, Alone, PaymentsStand, [Next]_vars
  PROVE  PaymentsStand'
<1> USE DEF PaymentsStand
<1>t. /\ pc \in [Calls -> Stations] /\ copy \in [Calls -> OrderDocs] /\ answer \in [Calls -> Answers]
      /\ request \in [Calls -> Requests \cup {NoRequest}] /\ doc \in OrderDocs
  BY DEF TypeOK
<1>1. ASSUME NEW c \in Calls, NEW r \in Menu, Read(c, r) \/ Refuse(c, r) PROVE PaymentsStand'
  <2>1. /\ UNCHANGED doc /\ request' = [request EXCEPT ![c] = r] /\ request[c] \in {NoRequest, r}
        /\ \E s \in {"lock", "done"} : pc' = [pc EXCEPT ![c] = s]
        /\ \E a \in {"none", "already", "refused"} : answer' = [answer EXCEPT ![c] = a]
    BY <1>1 DEF Read, Refuse, Arrives, Refusal
  <2> QED
    BY <1>t, <2>1
<1>2. ASSUME NEW c \in Calls,
             Lock(c) \/ LockTimeout(c) \/ WriteFails(c) \/ Crash(c) \/ Redeliver(c)
      PROVE  PaymentsStand'
  <2>1. UNCHANGED <<doc, request>>
    BY <1>2 DEF Lock, LockTimeout, WriteFails, Crash, Redeliver
  <2>2. /\ \E s \in {"write", "done", "failing", "crashed", "idle"} : pc' = [pc EXCEPT ![c] = s]
        /\ answer' = answer \/ answer' = [answer EXCEPT ![c] = "error"]
    BY <1>2 DEF Lock, LockTimeout, WriteFails, Crash, Redeliver, Finish
  <2> QED
    BY <1>t, <2>1, <2>2
<1>3. ASSUME NEW c \in Calls, Write(c) PROVE PaymentsStand'
  <2>1. /\ pc' = [pc EXCEPT ![c] = "unlock"] /\ UNCHANGED <<request, answer>>
        /\ doc' = copy[c] /\ request[c] \in Menu /\ copy[c] \in Writes(doc, request[c])
    BY <1>3 DEF Write, Alone
  <2>2. /\ doc.payment = "completed" => doc'.payment = "completed"
        /\ request[c] = PaidRequest => doc'.payment = "completed"
    BY <1>t, <2>1, WritesKeepPayment, LifecycleAssumption DEF PaidRequest
  <2> QED
    BY <1>t, <2>1, <2>2
<1>4. ASSUME NEW c \in Calls, Unlock(c) PROVE PaymentsStand'
  <2>1. UNCHANGED <<doc, request>>
    BY <1>4 DEF Unlock
  <2>2. \/ pc' = [pc EXCEPT ![c] = "emit"] /\ request[c].handler = "status" /\ UNCHANGED answer
        \/ pc' = [pc EXCEPT ![c] = "done"] /\ pc[c] = "unlock" /\ answer' = [answer EXCEPT ![c] = "ok"]
        \/ pc' = [pc EXCEPT ![c] = "done"] /\ answer' = [answer EXCEPT ![c] = "error"]
    BY <1>4 DEF Unlock, Finish
  <2> QED
    BY <1>t, <2>1, <2>2
<1>5. ASSUME NEW c \in Calls, Emit(c) PROVE PaymentsStand'
  BY <1>t, <1>5 DEF Emit, Finish, PaidRequest
<1>6. ASSUME ExpireKey \/ Quiet \/ UNCHANGED vars PROVE PaymentsStand'
  BY <1>6 DEF ExpireKey, Quiet, vars
<1> QED
  BY <1>1, <1>2, <1>3, <1>4, <1>5, <1>6 DEF Next, CallStep

(* Without overlapping calls a payment that vnpayIpnUrl has confirmed to   *)
(* the gateway stays recorded, with crashes, failing writes, lost keys and *)
(* answers of the gateway that come again.                                 *)
THEOREM ConfirmationsStand == ~ Overlap => (Spec => []ConfirmedPaymentStands)
<1> SUFFICES ASSUME ~ Overlap PROVE Spec => []ConfirmedPaymentStands
  OBVIOUS
<1>1. Init => Alone /\ PaymentsStand
  BY DEF Init, Alone, UnderWay, PaymentsStand
<1>2. PaymentsStand => ConfirmedPaymentStands
  BY DEF PaymentsStand, ConfirmedPaymentStands, PaidRequest
<1> QED
  BY <1>1, <1>2, AloneNext, PaymentsStandNext, LifecycleTypes, PTL DEF Spec

-----------------------------------------------------------------------------
(* The communications service: nobody is told of an order more than twice, *)
(* notifications are read by their recipients only, and a mail is given up *)
(* after all transports.                                                   *)

(* The types in groups that the same steps change.                         *)
EventTypes ==
  /\ now \in 0..MaxTime
  /\ event \in [Events -> {"emitted", "reading", "adding", "stored", "done", "lost"}]
  /\ adding \in [Events -> SUBSET Staff]
  /\ tried \in [Orders \X Staff -> 0..MaxTime \cup {Nothing}]
  /\ \A e \in Events : event[e] = "adding" =>
       e.kind = "created" /\ \A a \in Staff : tried[<<e.of, a>>] \in 0..MaxTime
JobTypes == job \in [JobIds -> Jobs \cup {Nothing}]
NoteTypes ==
  /\ notes \in Seq(Notes)
  /\ mark \in [Marks -> MarkCalls]
OtherTypes ==
  /\ socket \in [Clients -> {"off", "connecting", "on"}]
  /\ mail \in [Mails -> MailStates]
  /\ crashes \in 0..MaxCrashes /\ refusals \in 0..MaxRefusals
Types == EventTypes /\ JobTypes /\ NoteTypes /\ OtherTypes

Created(o) == [kind |-> "created", of |-> o]

(* A job is one of an order that has been announced, under the moment at   *)
(* which it was: of an order and a user there is one job.                  *)
JobsKnown ==
  \A id \in JobIds : job[id] # Nothing =>
    /\ event[Created(job[id].order)] \notin {"emitted", "reading"}
    /\ tried[<<job[id].order, id[2]>>] = id[1]

(* The notifications that tell a user of an order.                         *)
Told(ns, o, a) == {n \in DOMAIN ns : ns[n].to = a /\ ns[n].order = o}
Tells(ns, o, a) == Cardinality(Told(ns, o, a))

(* A job has stored its notification once for every time it has stalled,   *)
(* and once more when it is through.                                       *)
Through(j) == IF j.state \in {"stored", "done", "stalled"} THEN 1 ELSE 0
Counted ==
  /\ \A id \in JobIds : job[id] # Nothing =>
       Tells(notes, job[id].order, id[2]) <= job[id].stalls + Through(job[id])
  /\ \A o \in Orders, a \in Staff : Tells(notes, o, a) # 0 =>
       \E id \in JobIds : id[2] = a /\ job[id] # Nothing /\ job[id].order = o

(* A call that found a notification found one of its own.                  *)
MarksKnown ==
  \A m \in Marks :
    /\ mark[m].state \in {"found", "updated", "success"} =>
         mark[m].note \in DOMAIN notes /\ notes[mark[m].note].to = mark[m].by
    /\ mark[m].state \in {"updated", "success"} => notes[mark[m].note].read
ReadKnown ==
  \A n \in DOMAIN notes : notes[n].read =>
    \E m \in Marks : mark[m].note = n /\ mark[m].by = notes[n].to /\ mark[m].state # "idle"

(* After n failures a mail is at the transport whose turn it is.           *)
TurnOf(n, t, f) ==
  \/ n = 0 /\ t = "sendgrid"
  \/ n = 1 /\ t = "resend" /\ "sendgrid" \in f
  \/ n = 2 /\ t = "gmail" /\ "sendgrid" \in f /\ "resend" \in f
  \/ n > 2 /\ f = Transports
Turn(l) == TurnOf(mail[l].retryCount, mail[l].transporter, mail[l].failed)
Turns ==
  \A l \in Mails : Turn(l) /\ (mail[l].state = "given up" => mail[l].retryCount > 2)

-----------------------------------------------------------------------------
LEMMA EventsOf == \A e \in Events : e.kind = "created" => e.of \in Orders /\ e = Created(e.of)
BY DEF Events, Created

LEMMA TypesInit == CommunicationsInit => Types
BY CommunicationsAssumption
   DEF CommunicationsInit, Types, EventTypes, JobTypes, NoteTypes, OtherTypes, Notes, MarkCalls, MailStates, Transports

LEMMA EventTypesStep ==
  ASSUME Types, NEW e \in Events, EventStep(e)
  PROVE  EventTypes'
<1>1. CASE NewOrderAdmin(e)
  BY <1>1 DEF NewOrderAdmin, Types, EventTypes
<1>2. CASE NewOrderCreated(e)
  BY <1>2, EventsOf DEF NewOrderCreated, Types, EventTypes
<1>3. CASE AddJob(e)
  BY <1>3 DEF AddJob, Types, EventTypes
<1>4. CASE OrderStatusChanged(e)
  BY <1>4 DEF OrderStatusChanged, Types, EventTypes
<1>5. CASE StoreStatusNote(e)
  BY <1>5 DEF StoreStatusNote, Types, EventTypes
<1>6. CASE PushStatus(e)
  BY <1>6 DEF PushStatus, Types, EventTypes
<1> QED
  BY <1>1, <1>2, <1>3, <1>4, <1>5, <1>6 DEF EventStep

LEMMA JobTypesStep ==
  ASSUME Types, NEW e \in Events, EventStep(e)
  PROVE  JobTypes'
<1>1. CASE NewOrderAdmin(e)
  BY <1>1 DEF NewOrderAdmin, Types, EventTypes, JobTypes
<1>2. CASE NewOrderCreated(e)
  BY <1>2 DEF NewOrderCreated, Types, EventTypes, JobTypes
<1>3. CASE AddJob(e)
  BY <1>3, EventsOf DEF AddJob, Types, EventTypes, JobTypes, Added, Jobs, JobIds, MaxStalled
<1>4. CASE OrderStatusChanged(e)
  BY <1>4 DEF OrderStatusChanged, Types, EventTypes, JobTypes
<1>5. CASE StoreStatusNote(e)
  BY <1>5 DEF StoreStatusNote, Types, EventTypes, JobTypes
<1>6. CASE PushStatus(e)
  BY <1>6 DEF PushStatus, Types, EventTypes, JobTypes
<1> QED
  BY <1>1, <1>2, <1>3, <1>4, <1>5, <1>6 DEF EventStep

LEMMA NoteTypesStep ==
  ASSUME Types, NEW e \in Events, EventStep(e)
  PROVE  NoteTypes' /\ OtherTypes'
<1>1. CASE NewOrderAdmin(e)
  BY <1>1 DEF NewOrderAdmin, Types, NoteTypes, OtherTypes
<1>2. CASE NewOrderCreated(e)
  BY <1>2 DEF NewOrderCreated, Types, NoteTypes, OtherTypes
<1>3. CASE AddJob(e)
  BY <1>3 DEF AddJob, Types, NoteTypes, OtherTypes
<1>4. CASE OrderStatusChanged(e)
  BY <1>4 DEF OrderStatusChanged, Types, NoteTypes, OtherTypes
<1>5. CASE StoreStatusNote(e)
  BY <1>5 DEF StoreStatusNote, Types, NoteTypes, OtherTypes, Note, Notes, Users, Payload
<1>6. CASE PushStatus(e)
  BY <1>6 DEF PushStatus, Types, NoteTypes, OtherTypes
<1> QED
  BY <1>1, <1>2, <1>3, <1>4, <1>5, <1>6 DEF EventStep

LEMMA Bounds ==
  /\ \A n \in 0..MaxRefusals : n < MaxRefusals => n + 1 \in 0..MaxRefusals
  /\ \A n \in 0..MaxCrashes : n < MaxCrashes => n + 1 \in 0..MaxCrashes
<1>1. MaxRefusals \in Nat /\ MaxCrashes \in Nat
  BY Zenon, CommunicationsAssumption
<1> QED
  BY <1>1

LEMMA WorkerTypes ==
  ASSUME Types, NEW id \in JobIds, Worker(id)
  PROVE  Types'
<1>1. CASE TakeJob(id)
  BY <1>1 DEF TakeJob, Types, EventTypes, JobTypes, NoteTypes, OtherTypes, Jobs
<1>2. CASE StoreNote(id)
  <2>1. EventTypes' /\ OtherTypes'
    BY <1>2 DEF StoreNote, Types, EventTypes, OtherTypes
  <2>2. id[2] \in Users /\ job[id] \in Jobs
    BY <1>2 DEF StoreNote, Types, JobTypes, JobIds, Users
  <2>3. JobTypes'
    BY <1>2, <2>2 DEF StoreNote, Types, JobTypes, Jobs
  <2>4. Note(id[2], job[id].order) \in Notes
    BY <2>2 DEF Note, Notes, Jobs
  <2>5. NoteTypes'
    BY <1>2, <2>4 DEF StoreNote, Types, NoteTypes
  <2> QED
    BY <2>1, <2>3, <2>5 DEF Types
<1>3. CASE PushNote(id)
  BY <1>3 DEF PushNote, Types, EventTypes, JobTypes, NoteTypes, OtherTypes, Jobs
<1>4. CASE StoreRefused(id)
  <2>1. EventTypes' /\ NoteTypes'
    BY <1>4 DEF StoreRefused, Types, EventTypes, NoteTypes
  <2>2. JobTypes'
    BY <1>4 DEF StoreRefused, Types, JobTypes, Jobs
  <2>3. OtherTypes'
    BY <1>4, Bounds DEF StoreRefused, Types, OtherTypes
  <2> QED
    BY <2>1, <2>2, <2>3 DEF Types
<1> QED
  BY <1>1, <1>2, <1>3, <1>4 DEF Worker

LEMMA MailerTypes ==
  ASSUME Types, NEW l \in Mails, Mailer(l)
  PROVE  Types'
<1>1. CASE SendMail(l)
  BY <1>1 DEF SendMail, Types, EventTypes, JobTypes, NoteTypes, OtherTypes, MailStates
<1>2. CASE MailSent(l)
  BY <1>2 DEF MailSent, Types, EventTypes, JobTypes, NoteTypes, OtherTypes, MailStates
<1>3. CASE MailFails(l)
  <2>1. EventTypes' /\ JobTypes' /\ NoteTypes'
    BY <1>3 DEF MailFails, Types, EventTypes, JobTypes, NoteTypes
  <2>2. mail[l] \in MailStates
    BY DEF Types, OtherTypes
  <2>3. NextTransporter(mail[l].transporter) \in Transports
    BY <2>2 DEF MailStates, NextTransporter, Transports
  <2>4. \A s \in {"given up", "sending"} :
          [state |-> s, transporter |-> NextTransporter(mail[l].transporter),
           retryCount |-> mail[l].retryCount + 1,
           failed |-> mail[l].failed \cup {mail[l].transporter}] \in MailStates
    <3>1. /\ mail[l].retryCount + 1 \in Nat
          /\ mail[l].failed \cup {mail[l].transporter} \in SUBSET Transports
      <4>1. /\ mail[l].retryCount \in Nat /\ mail[l].transporter \in Transports
            /\ mail[l].failed \in SUBSET Transports
        BY <2>2 DEF MailStates
      <4> QED
        BY <4>1
    <3> QED
      BY <3>1, <2>3 DEF MailStates
  <2>5. \E s \in {"given up", "sending"} :
          mail' = [mail EXCEPT ![l] =
            [state |-> s, transporter |-> NextTransporter(mail[l].transporter),
             retryCount |-> mail[l].retryCount + 1,
             failed |-> mail[l].failed \cup {mail[l].transporter}]]
    BY <1>3 DEF MailFails
  <2>6. mail' \in [Mails -> MailStates]
    BY <2>4, <2>5 DEF Types, OtherTypes
  <2> QED
    BY <1>3, <2>1, <2>6 DEF MailFails, Types, OtherTypes
<1> QED
  BY <1>1, <1>2, <1>3 DEF Mailer

LEMMA ClientTypes ==
  ASSUME Types, NEW u \in Clients, HandleConnection(u) \/ JoinRooms(u)
  PROVE  Types'
BY DEF HandleConnection, JoinRooms, Types, EventTypes, JobTypes, NoteTypes, OtherTypes

LEMMA MarkTypes ==
  ASSUME Types, NEW m \in Marks,
         (\E u \in Clients, n \in 1..Len(notes) : FindNote(m, u, n)) \/ UpdateNote(m)
           \/ NoteUpdated(m) \/ UpdateRefused(m)
  PROVE  Types'
<1>1. ASSUME NEW u \in Clients, NEW n \in 1..Len(notes), FindNote(m, u, n) PROVE Types'
  <2>1. u \in Users /\ n \in Nat
    BY CommunicationsAssumption DEF Types, NoteTypes
  <2> QED
    BY <1>1, <2>1 DEF FindNote, Types, EventTypes, JobTypes, NoteTypes, OtherTypes, MarkCalls
<1>2. CASE UpdateNote(m)
  <2>1. EventTypes' /\ JobTypes' /\ OtherTypes'
    BY <1>2 DEF UpdateNote, Types, EventTypes, JobTypes, OtherTypes
  <2>2. mark' \in [Marks -> MarkCalls]
    BY <1>2 DEF UpdateNote, Types, NoteTypes, MarkCalls
  <2>3. notes' \in Seq(Notes)
    <3> DEFINE n == mark[m].note
               note == [notes[n] EXCEPT !.read = TRUE]
    <3>1. notes \in Seq(Notes) /\ notes' = [notes EXCEPT ![n] = note]
      BY <1>2 DEF UpdateNote, Types, NoteTypes
    <3>2. CASE n \in 1..Len(notes)
      <4>1. note \in Notes
        <5>1. notes[n] \in Notes
          BY <3>1, <3>2
        <5> QED
          BY <5>1 DEF Notes
      <4> QED
        BY <3>1, <3>2, <4>1, ExceptSeq
    <3>3. CASE n \notin 1..Len(notes)
      <4>1. notes' = notes
        BY <3>1, <3>3
      <4> QED
        BY <3>1, <4>1
    <3> QED
      BY <3>2, <3>3
  <2> QED
    BY <2>1, <2>2, <2>3 DEF Types, NoteTypes
<1>3. CASE UpdateRefused(m)
  <2>1. EventTypes' /\ JobTypes'
    BY <1>3 DEF UpdateRefused, Types, EventTypes, JobTypes
  <2>2. NoteTypes'
    BY <1>3 DEF UpdateRefused, Types, NoteTypes, MarkCalls
  <2>3. OtherTypes'
    BY <1>3, Bounds DEF UpdateRefused, Types, OtherTypes
  <2> QED
    BY <2>1, <2>2, <2>3 DEF Types
<1>4. CASE NoteUpdated(m)
  <2>1. EventTypes' /\ JobTypes' /\ OtherTypes'
    BY <1>4 DEF NoteUpdated, Types, EventTypes, JobTypes, OtherTypes
  <2>2. NoteTypes'
    BY <1>4 DEF NoteUpdated, Types, NoteTypes, MarkCalls
  <2> QED
    BY <2>1, <2>2 DEF Types
<1> QED
  BY <1>1, <1>2, <1>3, <1>4

LEMMA AgainIsJob == ASSUME NEW j \in Jobs PROVE Requeued(j) \in Jobs
<1>1. CASE j.stalls < 1
  <2>1. j.stalls + 1 \in 0..1 /\ Requeued(j) = [order |-> j.order, state |-> "wait", stalls |-> j.stalls + 1]
    <3>1. j.stalls \in 0..1
      BY DEF Jobs, MaxStalled
    <3>2. j.stalls + 1 \in 0..1
      BY <1>1, <3>1
    <3>3. Requeued(j) = [j EXCEPT !.state = "wait", !.stalls = @ + 1]
      BY <1>1 DEF Requeued, MaxStalled
    <3> QED
      BY <3>2, <3>3 DEF Jobs
  <2> QED
    BY <2>1 DEF Jobs, MaxStalled
<1>2. CASE ~ (j.stalls < 1)
  BY <1>2 DEF Requeued, Jobs, MaxStalled
<1> QED
  BY <1>1, <1>2

LEMMA CrashTypes ==
  ASSUME Types, ServiceCrash
  PROVE  Types'
<1>1. EventTypes'
  BY DEF ServiceCrash, Types, EventTypes
<1>2. JobTypes'
  BY AgainIsJob DEF ServiceCrash, Types, JobTypes
<1>3. NoteTypes'
  BY DEF ServiceCrash, Types, NoteTypes, MarkCalls
<1>4. OtherTypes'
  <2>1. mail' \in [Mails -> MailStates]
    BY DEF ServiceCrash, Types, OtherTypes, MailStates
  <2> QED
    BY <2>1, Bounds DEF ServiceCrash, Types, OtherTypes
<1> QED
  BY <1>1, <1>2, <1>3, <1>4 DEF Types

LEMMA QuietTypes ==
  ASSUME Types, Tick \/ UNCHANGED communicationsVars
  PROVE  Types'
BY CommunicationsAssumption DEF Tick, communicationsVars, Types, EventTypes, JobTypes, NoteTypes, OtherTypes

LEMMA TypesNext == Types /\ [CommunicationsNext]_communicationsVars => Types'
<1> SUFFICES ASSUME Types, [CommunicationsNext]_communicationsVars PROVE Types'
  OBVIOUS
<1>1. ASSUME NEW e \in Events, EventStep(e) PROVE Types'
  BY <1>1, EventTypesStep, JobTypesStep, NoteTypesStep DEF Types
<1> QED
  BY <1>1, WorkerTypes, MailerTypes, ClientTypes, MarkTypes, CrashTypes, QuietTypes DEF CommunicationsNext

LEMMA TypesAre == Types => CommunicationsTypeOK
BY DEF Types, EventTypes, JobTypes, NoteTypes, OtherTypes, CommunicationsTypeOK

(* Every variable keeps its type.                                          *)
THEOREM CommunicationsTypes == CommunicationsSpec => []CommunicationsTypeOK
  BY TypesInit, TypesNext, TypesAre, PTL DEF CommunicationsSpec

-----------------------------------------------------------------------------
(* How the number of notifications of an order changes.                    *)
LEMMA ToldFinite ==
  ASSUME NEW ns \in Seq(Notes), NEW o, NEW a
  PROVE  IsFiniteSet(Told(ns, o, a)) /\ Cardinality(Told(ns, o, a)) \in Nat
<1>1. IsFiniteSet(1..Len(ns))
  BY FS_Interval
<1>2. Told(ns, o, a) \subseteq 1..Len(ns)
  BY DEF Told
<1> QED
  BY <1>1, <1>2, FS_Subset, FS_CardinalityType

LEMMA ToldMore ==
  ASSUME NEW ns \in Seq(Notes), NEW note \in Notes, NEW o, NEW a
  PROVE  LET more == Told(Append(ns, note), o, a) IN
           IF note.to = a /\ note.order = o
             THEN Cardinality(more) = Cardinality(Told(ns, o, a)) + 1
             ELSE more = Told(ns, o, a)
<1> DEFINE more == Told(Append(ns, note), o, a)
<1>1. /\ DOMAIN Append(ns, note) = 1..Len(ns) + 1 /\ DOMAIN ns = 1..Len(ns) /\ Len(ns) \in Nat
      /\ \A n \in 1..Len(ns) : Append(ns, note)[n] = ns[n]
      /\ Append(ns, note)[Len(ns) + 1] = note
  OBVIOUS
<1>2. CASE note.to = a /\ note.order = o
  <2>1. more = Told(ns, o, a) \cup {Len(ns) + 1} /\ Len(ns) + 1 \notin Told(ns, o, a)
    BY <1>1, <1>2 DEF Told
  <2>2. IsFiniteSet(Told(ns, o, a))
    BY ToldFinite
  <2>3. Cardinality(Told(ns, o, a) \cup {Len(ns) + 1}) = Cardinality(Told(ns, o, a)) + 1
    BY <2>1, <2>2, FS_AddElement
  <2> QED
    BY <1>2, <2>1, <2>3
<1>3. CASE ~ (note.to = a /\ note.order = o)
  BY <1>1, <1>3 DEF Told
<1> QED
  BY <1>2, <1>3

-----------------------------------------------------------------------------
(* The jobs of an order and a user.                                        *)
LEMMA OneJob ==
  ASSUME JobsKnown, NEW i \in JobIds, NEW j \in JobIds,
         job[i] # Nothing, job[j] # Nothing, job[i].order = job[j].order, i[2] = j[2]
  PROVE  i = j
<1>1. i = <<i[1], i[2]>> /\ j = <<j[1], j[2]>>
  BY DEF JobIds
<1>2. i[1] = j[1]
  BY DEF JobsKnown
<1> QED
  BY <1>1, <1>2

LEMMA CreatedIsEvent == \A o \in Orders : Created(o) \in Events
BY DEF Created, Events

LEMMA JobOrders ==
  ASSUME Types
  PROVE  \A id \in JobIds : job[id] # Nothing =>
           /\ job[id] \in Jobs /\ job[id].order \in Orders /\ id[2] \in Staff
           /\ <<job[id].order, id[2]>> \in Orders \X Staff
           /\ Created(job[id].order) \in Events
BY CreatedIsEvent DEF Types, JobTypes, Jobs, JobIds

LEMMA JobsKnownStep ==
  ASSUME Types, JobsKnown, NEW e \in Events, EventStep(e)
  PROVE  JobsKnown'
<1>1. CASE NewOrderAdmin(e)
  BY <1>1, JobOrders DEF NewOrderAdmin, Types, EventTypes, JobsKnown
<1>2. CASE NewOrderCreated(e)
  BY <1>2, JobOrders, EventsOf DEF NewOrderCreated, Types, EventTypes, JobsKnown
<1>3. CASE AddJob(e)
  <2>1. PICK a \in adding[e] :
          /\ job' = Added(job, <<tried[<<e.of, a>>], a>>, e.of)
          /\ event' = [event EXCEPT ![e] = IF adding[e] = {a} THEN "done" ELSE event[e]]
    BY <1>3 DEF AddJob
  <2> DEFINE it == <<tried[<<e.of, a>>], a>>
  <2>2. /\ event[e] = "adding" /\ a \in Staff /\ tried' = tried
        /\ e.kind = "created" /\ e.of \in Orders /\ e = Created(e.of)
    BY <1>3, <2>1, EventsOf DEF AddJob, Types, EventTypes
  <2>3. it \in JobIds
    BY <2>2 DEF Types, EventTypes, JobIds
  <2>4. \A f \in Events : event[f] \notin {"emitted", "reading"} => event'[f] \notin {"emitted", "reading"}
    BY <2>1, <2>2 DEF Types, EventTypes
  <2>5. ASSUME NEW id \in JobIds, job'[id] # Nothing
        PROVE  /\ event'[Created(job'[id].order)] \notin {"emitted", "reading"}
               /\ tried[<<job'[id].order, id[2]>>] = id[1]
    <3>1. CASE job'[id] = job[id]
      BY <2>4, <2>5, <3>1, JobOrders DEF JobsKnown
    <3>2. CASE job'[id] # job[id]
      <4>1. id = it /\ job'[id].order = e.of
        BY <2>1, <2>3, <3>2 DEF Added, Types, JobTypes
      <4> QED
        BY <2>2, <2>4, <4>1
    <3> QED
      BY <3>1, <3>2
  <2> QED
    BY <2>2, <2>5 DEF JobsKnown, Created
<1>4. CASE OrderStatusChanged(e)
  BY <1>4, JobOrders DEF OrderStatusChanged, Types, EventTypes, JobsKnown
<1>5. CASE StoreStatusNote(e)
  BY <1>5, JobOrders DEF StoreStatusNote, Types, EventTypes, JobsKnown
<1>6. CASE PushStatus(e)
  BY <1>6, JobOrders DEF PushStatus, Types, EventTypes, JobsKnown
<1> QED
  BY <1>1, <1>2, <1>3, <1>4, <1>5, <1>6 DEF EventStep

LEMMA JobsKnownKept ==
  ASSUME Types, JobsKnown, tried' = tried,
         \A e \in Events : event[e] \notin {"emitted", "reading"} => event'[e] \notin {"emitted", "reading"},
         \A id \in JobIds : job'[id] # Nothing => job[id] # Nothing /\ job'[id].order = job[id].order
  PROVE  JobsKnown'
<1> SUFFICES ASSUME NEW id \in JobIds, job'[id] # Nothing
             PROVE  /\ event'[Created(job'[id].order)] \notin {"emitted", "reading"}
                    /\ tried'[<<job'[id].order, id[2]>>] = id[1]
  BY DEF JobsKnown, Created
<1> QED
  BY JobOrders DEF JobsKnown

(* Where neither the jobs' progress nor what they have told of changes.    *)
LEMMA CountedKept ==
  ASSUME Types, Counted,
         \A o \in Orders, a \in Staff : Told(notes', o, a) = Told(notes, o, a),
         \A id \in JobIds :
           /\ job[id] # Nothing <=> job'[id] # Nothing
           /\ job'[id] # Nothing =>
                /\ job'[id].order = job[id].order
                /\ job'[id].stalls + Through(job'[id]) >= job[id].stalls + Through(job[id])
                /\ job'[id].stalls \in Nat
  PROVE  Counted'
<1>1. \A o \in Orders, a \in Staff : Tells(notes', o, a) = Tells(notes, o, a) /\ Tells(notes, o, a) \in Nat
  BY ToldFinite DEF Types, NoteTypes, Tells
<1>2. ASSUME NEW id \in JobIds, job'[id] # Nothing
      PROVE  Tells(notes', job'[id].order, id[2]) <= job'[id].stalls + Through(job'[id])
  <2>1. job[id] # Nothing /\ job'[id].order = job[id].order
    BY <1>2
  <2>2. job[id].order \in Orders /\ id[2] \in Staff /\ job[id].stalls \in Nat
    <3>1. job[id] \in Jobs /\ id[2] \in Staff
      BY <2>1, JobOrders
    <3> QED
      BY <3>1 DEF Jobs, MaxStalled
  <2>3. Through(job[id]) \in Nat /\ Through(job'[id]) \in Nat
    BY DEF Through
  <2>4. Tells(notes, job[id].order, id[2]) <= job[id].stalls + Through(job[id])
    BY <2>1 DEF Counted
  <2>5. /\ Tells(notes', job[id].order, id[2]) = Tells(notes, job[id].order, id[2])
        /\ Tells(notes, job[id].order, id[2]) \in Nat
    BY <1>1, <2>2
  <2>6. job'[id].stalls + Through(job'[id]) >= job[id].stalls + Through(job[id]) /\ job'[id].stalls \in Nat
    BY <1>2
  <2> QED
    BY <2>1, <2>2, <2>3, <2>4, <2>5, <2>6
<1>3. ASSUME NEW o \in Orders, NEW a \in Staff, Tells(notes', o, a) # 0
      PROVE  \E id \in JobIds : id[2] = a /\ job'[id] # Nothing /\ job'[id].order = o
  <2>1. PICK id \in JobIds : id[2] = a /\ job[id] # Nothing /\ job[id].order = o
    BY <1>1, <1>3 DEF Counted
  <2> QED
    BY <2>1
<1> QED
  BY <1>2, <1>3 DEF Counted, Tells, Told, Through

LEMMA CountedStep ==
  ASSUME Types, JobsKnown, Counted, NEW e \in Events, EventStep(e)
  PROVE  Counted'
<1>1. CASE NewOrderAdmin(e) \/ NewOrderCreated(e) \/ OrderStatusChanged(e) \/ PushStatus(e)
  <2>1. notes' = notes /\ job' = job
    BY <1>1 DEF NewOrderAdmin, NewOrderCreated, OrderStatusChanged, PushStatus
  <2> QED
    BY <2>1 DEF Counted, Tells, Told, Through
<1>2. CASE StoreStatusNote(e)
  <2>1. Note(Customer, Payload(e)) \in Notes /\ notes \in Seq(Notes)
    BY <1>2 DEF StoreStatusNote, Note, Notes, Users, Payload, Types, NoteTypes
  <2>2. \A a \in Staff : a # Customer
    BY Zenon, CommunicationsAssumption
  <2>3. \A o \in Orders, a \in Staff : Told(notes', o, a) = Told(notes, o, a)
    BY <1>2, <2>1, <2>2, ToldMore DEF StoreStatusNote, Note
  <2>4. job' = job
    BY <1>2 DEF StoreStatusNote
  <2>5. \A id \in JobIds : job[id] # Nothing =>
          job[id].stalls \in Nat /\ job[id].stalls + Through(job[id]) \in Nat
    <3> SUFFICES ASSUME NEW id \in JobIds, job[id] # Nothing
                 PROVE  job[id].stalls \in Nat /\ job[id].stalls + Through(job[id]) \in Nat
      OBVIOUS
    <3>1. job[id] \in Jobs
      BY JobOrders
    <3> QED
      BY <3>1 DEF Jobs, MaxStalled, Through
  <2> QED
    BY <2>3, <2>4, <2>5, CountedKept
<1>3. CASE AddJob(e)
  <2>1. PICK a \in adding[e] : job' = Added(job, <<tried[<<e.of, a>>], a>>, e.of)
    BY <1>3 DEF AddJob
  <2> DEFINE it == <<tried[<<e.of, a>>], a>>
  <2>2. /\ notes' = notes /\ e.of \in Orders /\ a \in Staff /\ it \in JobIds /\ it[2] = a
    BY <1>3, EventsOf DEF AddJob, Types, EventTypes, JobIds
  <2>3. CASE job[it] # Nothing
    BY <2>1, <2>2, <2>3 DEF Added, Counted, Tells, Told, Through
  <2>4. CASE job[it] = Nothing
    <3>1. job' = [job EXCEPT ![it] = [order |-> e.of, state |-> "wait", stalls |-> 0]]
      BY <2>1, <2>4 DEF Added
    <3>2. \A id \in JobIds : id # it => job'[id] = job[id]
      BY <3>1
    <3>3. job'[it] = [order |-> e.of, state |-> "wait", stalls |-> 0]
      BY <2>2, <3>1 DEF Types, JobTypes
    <3>4. Tells(notes, e.of, a) = 0
      <4> SUFFICES ASSUME Tells(notes, e.of, a) # 0 PROVE FALSE
        OBVIOUS
      <4>1. PICK id \in JobIds : id[2] = a /\ job[id] # Nothing /\ job[id].order = e.of
        BY <2>2 DEF Counted
      <4>2. id[1] = it[1] /\ id[2] = it[2]
        BY <4>1 DEF JobsKnown
      <4>3. id = <<id[1], id[2]>>
        BY DEF JobIds
      <4> QED
        BY <2>4, <4>1, <4>2, <4>3
    <3>5. ASSUME NEW id \in JobIds, job'[id] # Nothing
          PROVE  Tells(notes, job'[id].order, id[2]) <= job'[id].stalls + Through(job'[id])
      <4>1. CASE id = it
        BY <2>2, <3>3, <3>4, <4>1 DEF Through
      <4>2. CASE id # it
        BY <3>2, <3>5, <4>2 DEF Counted
      <4> QED
        BY <4>1, <4>2
    <3>6. ASSUME NEW o \in Orders, NEW b \in Staff, Tells(notes, o, b) # 0
          PROVE  \E id \in JobIds : id[2] = b /\ job'[id] # Nothing /\ job'[id].order = o
      BY <2>4, <3>2, <3>6 DEF Counted
    <3> QED
      BY <2>2, <3>5, <3>6 DEF Counted
  <2> QED
    BY <2>3, <2>4
<1> QED
  BY <1>1, <1>2, <1>3 DEF EventStep

LEMMA CountedLater ==
  ASSUME \A id \in JobIds : job'[id] # Nothing =>
           Tells(notes', job'[id].order, id[2]) <= job'[id].stalls + Through(job'[id]),
         \A o \in Orders, a \in Staff : Tells(notes', o, a) # 0 =>
           \E id \in JobIds : id[2] = a /\ job'[id] # Nothing /\ job'[id].order = o
  PROVE  Counted'
BY DEF Counted, Tells, Told, Through

(* A worker's step on a job.                                               *)
LEMMA WorkerHeld ==
  ASSUME Types, JobsKnown, Counted, NEW it \in JobIds, Worker(it)
  PROVE  JobsKnown' /\ Counted'
<1>1. /\ job[it] # Nothing /\ job[it] \in Jobs /\ job[it].order \in Orders /\ it[2] \in Staff
      /\ tried' = tried /\ event' = event
      /\ \E s \in {"active", "stored", "done"} : job' = [job EXCEPT ![it].state = s]
  BY JobOrders DEF Worker, TakeJob, StoreNote, PushNote, StoreRefused
<1>2. \A i \in JobIds : /\ i # it => job'[i] = job[i]
                        /\ job'[i] # Nothing => job[i] # Nothing /\ job'[i].order = job[i].order
                        /\ job'[i] # Nothing => job'[i].stalls = job[i].stalls
  BY <1>1 DEF Types, JobTypes, Jobs
<1>3. JobsKnown'
  BY <1>1, <1>2, JobsKnownKept
<1>4. Types'
  BY WorkerTypes
<1>5. \A i \in JobIds : job[i] # Nothing => job'[i] # Nothing
  <2>1. Nothing \notin Jobs
    BY Zenon, CommunicationsAssumption
  <2>2. \E j \in Jobs : job' = [job EXCEPT ![it] = j]
    BY <1>1 DEF Jobs
  <2> QED
    BY <2>1, <2>2 DEF Types, JobTypes
<1>6. CASE StoreNote(it)
  <2> DEFINE o == job[it].order
             a == it[2]
             note == Note(a, o)
  <2>1. /\ note \in Notes /\ notes \in Seq(Notes) /\ notes' = Append(notes, note)
        /\ note.to = a /\ note.order = o
    BY <1>1, <1>6 DEF StoreNote, Note, Notes, Users, Types, NoteTypes
  <2>2. /\ Tells(notes', o, a) = Tells(notes, o, a) + 1
        /\ \A p, b : p # o \/ b # a => Tells(notes', p, b) = Tells(notes, p, b)
    BY <2>1, ToldMore DEF Tells
  <2>3. /\ Tells(notes, o, a) \in Nat /\ job[it].stalls \in Nat
        /\ Tells(notes, o, a) <= job[it].stalls
    <3>1. Through(job[it]) = 0
      BY <1>6 DEF StoreNote, Through
    <3>2. job[it].stalls \in Nat
      BY <1>1 DEF Jobs, MaxStalled
    <3> QED
      BY <1>1, <2>1, <3>1, <3>2, ToldFinite DEF Counted, Tells
  <2>4. job'[it].stalls = job[it].stalls /\ Through(job'[it]) = 1 /\ job'[it].order = o
    BY <1>1, <1>6 DEF StoreNote, Through, Types, JobTypes, Jobs
  <2>5. ASSUME NEW i \in JobIds, job'[i] # Nothing
        PROVE  Tells(notes', job'[i].order, i[2]) <= job'[i].stalls + Through(job'[i])
    <3>1. CASE i = it
      BY <2>2, <2>3, <2>4, <3>1
    <3>2. CASE i # it
      <4>1. job'[i] = job[i] /\ job[i] # Nothing
        BY <1>2, <2>5, <3>2
      <4>2. job[i].order # o \/ i[2] # a
        BY <1>1, <3>2, <4>1, OneJob
      <4> QED
        BY <2>2, <4>1, <4>2 DEF Counted
    <3> QED
      BY <3>1, <3>2
  <2>6. ASSUME NEW p \in Orders, NEW b \in Staff, Tells(notes', p, b) # 0
        PROVE  \E i \in JobIds : i[2] = b /\ job'[i] # Nothing /\ job'[i].order = p
    <3>1. CASE p = o /\ b = a
      BY <1>1, <1>5, <2>4, <3>1
    <3>2. CASE p # o \/ b # a
      <4>1. PICK i \in JobIds : i[2] = b /\ job[i] # Nothing /\ job[i].order = p
        BY <2>2, <2>6, <3>2 DEF Counted
      <4> QED
        BY <1>2, <1>5, <4>1
    <3> QED
      BY <3>1, <3>2
  <2> QED
    BY <1>3, <2>5, <2>6, CountedLater
<1>7. CASE TakeJob(it) \/ PushNote(it) \/ StoreRefused(it)
  <2>1. notes' = notes
    BY <1>7 DEF TakeJob, PushNote, StoreRefused
  <2>2. /\ job'[it].stalls = job[it].stalls /\ job[it].stalls \in Nat
        /\ Through(job'[it]) >= Through(job[it])
    BY <1>1, <1>7 DEF TakeJob, PushNote, StoreRefused, Through, Types, JobTypes, Jobs, MaxStalled
  <2>3. \A i \in JobIds :
          /\ job[i] # Nothing <=> job'[i] # Nothing
          /\ job'[i] # Nothing =>
               /\ job'[i].order = job[i].order
               /\ job'[i].stalls + Through(job'[i]) >= job[i].stalls + Through(job[i])
               /\ job'[i].stalls \in Nat
    <3> SUFFICES ASSUME NEW i \in JobIds, job'[i] # Nothing
                 PROVE  /\ job'[i].stalls + Through(job'[i]) >= job[i].stalls + Through(job[i])
                        /\ job'[i].stalls \in Nat
      BY <1>2, <1>5
    <3>1. Through(job[i]) \in Nat /\ Through(job'[i]) \in Nat
      BY DEF Through
    <3>2. CASE i = it
      BY <2>2, <3>1, <3>2
    <3>3. CASE i # it
      <4>1. job'[i] = job[i] /\ job[i] \in Jobs
        BY <1>2, <3>3, JobOrders
      <4>2. job[i].stalls \in Nat
        BY <4>1 DEF Jobs, MaxStalled
      <4> QED
        BY <3>1, <4>1, <4>2
    <3> QED
      BY <3>2, <3>3
  <2>4. \A o \in Orders, a \in Staff : Told(notes', o, a) = Told(notes, o, a)
    BY <2>1
  <2> QED
    BY <1>3, <2>3, <2>4, CountedKept
<1> QED
  BY <1>3, <1>6, <1>7 DEF Worker

(* A crash gives every job that was active to the next process, or stalls  *)
(* it for good.                                                            *)
LEMMA CrashHeld ==
  ASSUME Types, JobsKnown, Counted, ServiceCrash
  PROVE  JobsKnown' /\ Counted'
<1>1. /\ tried' = tried /\ notes' = notes
      /\ \A e \in Events : event[e] \notin {"emitted", "reading"} => event'[e] \notin {"emitted", "reading"}
      /\ \A i \in JobIds :
           job'[i] = IF job[i] # Nothing /\ job[i].state \in {"active", "stored"} THEN Requeued(job[i]) ELSE job[i]
  BY DEF ServiceCrash
<1>2. ASSUME NEW i \in JobIds, job[i] # Nothing
      PROVE  /\ job'[i] \in Jobs /\ job'[i].order = job[i].order
             /\ job'[i].stalls + Through(job'[i]) >= job[i].stalls + Through(job[i])
             /\ job'[i].stalls \in Nat
  <2>1. job[i] \in Jobs /\ job[i].stalls \in 0..1
    BY <1>2, JobOrders DEF Jobs, MaxStalled
  <2>2. CASE job[i].state \notin {"active", "stored"}
    <3>1. job'[i] = job[i] /\ Through(job[i]) \in Nat
      BY <1>1, <2>2 DEF Through
    <3> QED
      BY <2>1, <3>1
  <2>3. CASE job[i].state \in {"active", "stored"} /\ job[i].stalls < 1
    <3>1. job[i].stalls = 0
      BY <2>1, <2>3
    <3>2. job'[i] = Requeued(job[i])
      BY <1>1, <1>2, <2>3
    <3>3. Requeued(job[i]) = [job[i] EXCEPT !.state = "wait", !.stalls = job[i].stalls + 1]
      BY <2>3 DEF Requeued, MaxStalled
    <3>4. job'[i].order = job[i].order /\ job'[i].state = "wait" /\ job'[i].stalls = 1
      BY <2>1, <3>1, <3>2, <3>3 DEF Jobs
    <3>5. job'[i] \in Jobs
      BY <2>1, <3>2, AgainIsJob
    <3>6. Through(job[i]) \in {0, 1} /\ Through(job'[i]) = 0
      BY <3>4 DEF Through
    <3> QED
      BY <2>1, <3>1, <3>4, <3>5, <3>6
  <2>4. CASE job[i].state \in {"active", "stored"} /\ ~ (job[i].stalls < 1)
    <3>1. job'[i] = [job[i] EXCEPT !.state = "stalled"]
      BY <1>1, <1>2, <2>4 DEF Requeued, MaxStalled
    <3>2. Through(job[i]) \in {0, 1} /\ Through(job'[i]) = 1
      BY <2>1, <3>1 DEF Through, Jobs
    <3> QED
      BY <2>1, <3>1, <3>2 DEF Jobs
  <2> QED
    BY <2>2, <2>3, <2>4
<1>3. Nothing \notin Jobs
  BY Zenon, CommunicationsAssumption
<1>4. JobsKnown'
  <2>1. \A i \in JobIds : job'[i] # Nothing => job[i] # Nothing /\ job'[i].order = job[i].order
    BY <1>1, <1>2
  <2> QED
    BY <1>1, <2>1, JobsKnownKept
<1>5. \A o \in Orders, a \in Staff : Told(notes', o, a) = Told(notes, o, a)
  BY <1>1
<1>6. \A i \in JobIds :
        /\ job[i] # Nothing <=> job'[i] # Nothing
        /\ job'[i] # Nothing =>
             /\ job'[i].order = job[i].order
             /\ job'[i].stalls + Through(job'[i]) >= job[i].stalls + Through(job[i])
             /\ job'[i].stalls \in Nat
  BY <1>1, <1>2, <1>3
<1> QED
  BY <1>4, <1>5, <1>6, CountedKept

(* Marking a notification changes nothing of whom it tells what.           *)
LEMMA MarkHeld ==
  ASSUME Types, JobsKnown, Counted, NEW m \in Marks,
         (\E u \in Clients, n \in 1..Len(notes) : FindNote(m, u, n)) \/ UpdateNote(m)
           \/ NoteUpdated(m) \/ UpdateRefused(m)
  PROVE  JobsKnown' /\ Counted'
<1>1. /\ event' = event /\ job' = job /\ tried' = tried
      /\ notes' = notes \/ notes' = [notes EXCEPT ![mark[m].note].read = TRUE]
  BY DEF FindNote, UpdateNote, NoteUpdated, UpdateRefused
<1>2. \A o \in Orders, a \in Staff : Told(notes', o, a) = Told(notes, o, a)
  <2>1. /\ DOMAIN notes' = DOMAIN notes
        /\ \A n \in DOMAIN notes : notes[n] \in Notes
    BY <1>1 DEF Types, NoteTypes
  <2>2. \A n \in DOMAIN notes : notes'[n].to = notes[n].to /\ notes'[n].order = notes[n].order
    BY <1>1, <2>1 DEF Notes
  <2> QED
    BY <2>1, <2>2 DEF Told
<1>3. JobsKnown'
  BY <1>1 DEF JobsKnown, Created
<1>4. \A o \in Orders, a \in Staff : Tells(notes', o, a) = Tells(notes, o, a)
  BY <1>2 DEF Tells
<1>5. \A id \in JobIds : job'[id] # Nothing =>
        Tells(notes', job'[id].order, id[2]) <= job'[id].stalls + Through(job'[id])
  <2> SUFFICES ASSUME NEW id \in JobIds, job[id] # Nothing
               PROVE  Tells(notes', job[id].order, id[2]) <= job[id].stalls + Through(job[id])
    BY <1>1
  <2>1. job[id].order \in Orders /\ id[2] \in Staff
    BY JobOrders
  <2> QED
    BY <1>4, <2>1 DEF Counted
<1>6. \A o \in Orders, a \in Staff : Tells(notes', o, a) # 0 =>
        \E id \in JobIds : id[2] = a /\ job'[id] # Nothing /\ job'[id].order = o
  BY <1>1, <1>4 DEF Counted
<1> QED
  BY <1>3, <1>5, <1>6, CountedLater

LEMMA ElseHeld ==
  ASSUME JobsKnown, Counted, UNCHANGED <<event, job, tried, notes>>
  PROVE  JobsKnown' /\ Counted'
BY DEF JobsKnown, Created, Counted, Tells, Told, Through

LEMMA CountedNext == Types /\ JobsKnown /\ Counted /\ [CommunicationsNext]_communicationsVars => JobsKnown' /\ Counted'
<1> SUFFICES ASSUME Types, JobsKnown, Counted, [CommunicationsNext]_communicationsVars PROVE JobsKnown' /\ Counted'
  OBVIOUS
<1>1. ASSUME NEW e \in Events, EventStep(e) PROVE JobsKnown' /\ Counted'
  BY <1>1, JobsKnownStep, CountedStep
<1>2. ASSUME NEW l \in Mails, Mailer(l) PROVE JobsKnown' /\ Counted'
  BY <1>2, ElseHeld DEF Mailer, SendMail, MailSent, MailFails
<1>3. ASSUME NEW u \in Clients, HandleConnection(u) \/ JoinRooms(u) PROVE JobsKnown' /\ Counted'
  BY <1>3, ElseHeld DEF HandleConnection, JoinRooms
<1>4. CASE Tick \/ UNCHANGED communicationsVars
  BY <1>4, ElseHeld DEF Tick, communicationsVars
<1> QED
  BY <1>1, <1>2, <1>3, <1>4, WorkerHeld, MarkHeld, CrashHeld DEF CommunicationsNext

LEMMA CountedInit == CommunicationsInit => JobsKnown /\ Counted
<1> SUFFICES ASSUME CommunicationsInit PROVE JobsKnown /\ Counted
  OBVIOUS
<1>1. JobsKnown /\ \A id \in JobIds : job[id] = Nothing
  BY DEF CommunicationsInit, JobsKnown
<1>2. \A o \in Orders, a \in Staff : Tells(notes, o, a) = 0
  <2>1. \A o, a : Told(notes, o, a) = {}
    BY DEF CommunicationsInit, Told
  <2> QED
    BY <2>1, FS_EmptySet DEF Tells
<1> QED
  BY <1>1, <1>2 DEF Counted

LEMMA CountedHere == Types /\ Counted => AtMostTwice
<1> SUFFICES ASSUME Types, Counted, NEW o \in Orders, NEW a \in Staff
             PROVE  Count(o, a) <= 1 + MaxStalled
  BY DEF AtMostTwice
<1>1. Count(o, a) = Tells(notes, o, a) /\ Tells(notes, o, a) \in Nat
  BY ToldFinite DEF Count, Tells, Told, Types, NoteTypes
<1>2. CASE Tells(notes, o, a) # 0
  <2>1. PICK id \in JobIds : id[2] = a /\ job[id] # Nothing /\ job[id].order = o
    BY <1>2 DEF Counted
  <2>2. Tells(notes, o, a) <= job[id].stalls + Through(job[id])
    BY <2>1 DEF Counted
  <2>3. job[id] \in Jobs
    BY <2>1, JobOrders
  <2>4. job[id].stalls \in 0..1 /\ Through(job[id]) \in {0, 1}
    BY <2>3 DEF Jobs, MaxStalled, Through
  <2> QED
    BY <1>1, <2>2, <2>4 DEF MaxStalled
<1> QED
  BY <1>1, <1>2 DEF MaxStalled

(* However many crashes, members of the staff and orders there are, and    *)
(* whichever jobs share an id: nobody is told of an order more than twice. *)
THEOREM ToldAtMostTwice == CommunicationsSpec => []AtMostTwice
<1>1. CommunicationsInit => Types /\ JobsKnown /\ Counted
  BY TypesInit, CountedInit
<1>2. Types /\ JobsKnown /\ Counted /\ [CommunicationsNext]_communicationsVars => (Types /\ JobsKnown /\ Counted)'
  BY TypesNext, CountedNext
<1> QED
  BY <1>1, <1>2, CountedHere, PTL DEF CommunicationsSpec

-----------------------------------------------------------------------------
(* One notification each.  While nothing crashes and nothing is refused, a *)
(* job that has stored its notification has told its recipient once of the *)
(* orders that share it, and one that has not, not at all.                 *)
TellOf(ns, some, a) == {n \in DOMAIN ns : ns[n].to = a /\ ns[n].order \in some}
Sharing(id) == {p \in Orders : tried[<<p, id[2]>>] = id[1]}
Stored(j) == j # Nothing /\ j.state \in {"stored", "done"}
Exact ==
  crashes = 0 /\ refusals = 0 =>
    \A id \in JobIds :
      Cardinality(TellOf(notes, Sharing(id), id[2])) = IF Stored(job[id]) THEN 1 ELSE 0

(* newOrderCreated goes on adding until all the staff have a job.          *)
HasJob(o, a) == tried[<<o, a>>] \in 0..MaxTime /\ job[<<tried[<<o, a>>], a>>] # Nothing
AllAsked(o) ==
  /\ event[Created(o)] # "stored"
  /\ event[Created(o)] = "adding" => \A a \in Staff \ adding[Created(o)] : HasJob(o, a)
  /\ event[Created(o)] = "done" => \A a \in Staff : HasJob(o, a)
Announced == \A o \in Orders : AllAsked(o)

LEMMA TellMore ==
  ASSUME NEW ns \in Seq(Notes), NEW note \in Notes, NEW some, NEW a
  PROVE  LET more == TellOf(Append(ns, note), some, a) IN
           IF note.to = a /\ note.order \in some
             THEN Cardinality(TellOf(ns, some, a)) = 0 => Cardinality(more) = 1
             ELSE more = TellOf(ns, some, a)
<1> DEFINE told == TellOf(ns, some, a)
           more == TellOf(Append(ns, note), some, a)
<1>1. /\ DOMAIN Append(ns, note) = 1..Len(ns) + 1 /\ DOMAIN ns = 1..Len(ns) /\ Len(ns) \in Nat
      /\ \A n \in 1..Len(ns) : Append(ns, note)[n] = ns[n]
      /\ Append(ns, note)[Len(ns) + 1] = note
  OBVIOUS
<1>2. CASE note.to = a /\ note.order \in some
  <2>1. more = told \cup {Len(ns) + 1}
    BY <1>1, <1>2 DEF TellOf
  <2>2. IsFiniteSet(told)
    <3>1. told \subseteq 1..Len(ns) /\ IsFiniteSet(1..Len(ns))
      BY <1>1, FS_Interval DEF TellOf
    <3> QED
      BY <3>1, FS_Subset
  <2>3. Cardinality(told) = 0 => more = {Len(ns) + 1}
    BY <2>1, <2>2, FS_EmptySet
  <2>4. Cardinality({Len(ns) + 1}) = 1
    BY FS_Singleton
  <2> QED
    BY <1>2, <2>3, <2>4
<1>3. CASE ~ (note.to = a /\ note.order \in some)
  BY <1>1, <1>3 DEF TellOf
<1> QED
  BY <1>2, <1>3

(* Where neither what was told changes nor which jobs have stored.         *)
LEMMA ExactKept ==
  ASSUME Exact, UNCHANGED <<crashes, refusals, tried>>,
         \A id \in JobIds : Stored(job'[id]) <=> Stored(job[id]),
         \A id \in JobIds : TellOf(notes', Sharing(id), id[2]) = TellOf(notes, Sharing(id), id[2])
  PROVE  Exact'
<1>1. \A id \in JobIds : Sharing(id)' = Sharing(id)
  BY DEF Sharing
<1>2. ASSUME crashes' = 0 /\ refusals' = 0, NEW id \in JobIds
      PROVE  Cardinality(TellOf(notes', Sharing(id)', id[2])) = IF Stored(job'[id]) THEN 1 ELSE 0
  <2>1. Cardinality(TellOf(notes, Sharing(id), id[2])) = IF Stored(job[id]) THEN 1 ELSE 0
    BY <1>2 DEF Exact
  <2> QED
    BY <1>1, <2>1
<1> QED
  BY <1>2 DEF Exact, TellOf, Stored

LEMMA EventExact ==
  ASSUME Types, JobsKnown, Counted, Exact, NEW e \in Events, EventStep(e)
  PROVE  Exact'
<1>1. CASE NewOrderAdmin(e) \/ OrderStatusChanged(e) \/ PushStatus(e)
  BY <1>1, ExactKept DEF NewOrderAdmin, OrderStatusChanged, PushStatus
<1>2. CASE StoreStatusNote(e)
  <2>1. Note(Customer, Payload(e)) \in Notes /\ notes \in Seq(Notes)
    BY <1>2 DEF StoreStatusNote, Note, Notes, Users, Payload, Types, NoteTypes
  <2>2. \A a \in Staff : a # Customer
    BY Zenon, CommunicationsAssumption
  <2>3. \A id \in JobIds : TellOf(notes', Sharing(id), id[2]) = TellOf(notes, Sharing(id), id[2])
    BY <1>2, <2>1, <2>2, TellMore DEF StoreStatusNote, Note, JobIds
  <2> QED
    BY <1>2, <2>3, ExactKept DEF StoreStatusNote
<1>3. CASE AddJob(e)
  <2>1. PICK a \in adding[e] : job' = Added(job, <<tried[<<e.of, a>>], a>>, e.of)
    BY <1>3 DEF AddJob
  <2>2. \A id \in JobIds : Stored(job'[id]) <=> Stored(job[id])
    BY <2>1 DEF Added, Stored, Types, JobTypes
  <2> QED
    BY <1>3, <2>2, ExactKept DEF AddJob
<1>4. CASE NewOrderCreated(e)
  <2>1. /\ e.of \in Orders /\ e = Created(e.of) /\ event[e] = "reading"
        /\ UNCHANGED <<notes, job, crashes, refusals>>
        /\ tried' = [p \in DOMAIN tried |-> IF p[1] = e.of THEN now ELSE tried[p]]
        /\ DOMAIN tried = Orders \X Staff
    BY <1>4, EventsOf DEF NewOrderCreated, Types, EventTypes
  <2>2. ASSUME NEW n \in DOMAIN notes, NEW a \in Staff, notes[n].to = a
        PROVE  notes[n].order # e.of
    <3> SUFFICES ASSUME notes[n].order = e.of PROVE FALSE
      OBVIOUS
    <3>1. n \in Told(notes, e.of, a)
      BY <2>2 DEF Told
    <3>2. Tells(notes, e.of, a) # 0
      BY <3>1, ToldFinite, FS_EmptySet DEF Types, NoteTypes, Tells
    <3>3. PICK id \in JobIds : job[id] # Nothing /\ job[id].order = e.of
      BY <2>1, <3>2 DEF Counted
    <3> QED
      BY <2>1, <3>3 DEF JobsKnown
  <2>3. ASSUME NEW id \in JobIds
        PROVE  TellOf(notes, Sharing(id)', id[2]) = TellOf(notes, Sharing(id), id[2])
    <3>1. id[2] \in Staff
      BY DEF JobIds
    <3>2. \A p \in Orders : p # e.of => tried'[<<p, id[2]>>] = tried[<<p, id[2]>>]
      BY <2>1, <3>1
    <3>3. \A p \in Orders : p # e.of => (p \in Sharing(id)' <=> p \in Sharing(id))
      BY <3>2 DEF Sharing
    <3>4. Sharing(id) \subseteq Orders /\ Sharing(id)' \subseteq Orders
      BY DEF Sharing
    <3> QED
      BY <2>2, <3>1, <3>3, <3>4 DEF TellOf
  <2>4. ASSUME crashes = 0 /\ refusals = 0, NEW id \in JobIds
        PROVE  Cardinality(TellOf(notes, Sharing(id)', id[2])) = IF Stored(job[id]) THEN 1 ELSE 0
    BY <2>3, <2>4 DEF Exact
  <2> QED
    BY <2>1, <2>4 DEF Exact, TellOf, Stored
<1> QED
  BY <1>1, <1>2, <1>3, <1>4 DEF EventStep

LEMMA WorkerExact ==
  ASSUME Types, JobsKnown, Exact, NEW it \in JobIds, Worker(it)
  PROVE  Exact'
<1>1. job[it] # Nothing /\ job[it] \in Jobs /\ job[it].order \in Orders /\ it[2] \in Staff
  BY JobOrders DEF Worker, TakeJob, StoreNote, PushNote, StoreRefused
<1>2. Nothing \notin Jobs
  BY Zenon, CommunicationsAssumption
<1>3. CASE TakeJob(it) \/ PushNote(it)
  <2>1. PICK s \in {"active", "done"} : /\ job' = [job EXCEPT ![it].state = s]
                                        /\ s = "done" <=> job[it].state \in {"stored", "done"}
    BY <1>3 DEF TakeJob, PushNote
  <2>2. job'[it] \in Jobs /\ job'[it].state = s
    BY <1>1, <2>1 DEF Jobs, Types, JobTypes
  <2>3. \A id \in JobIds : Stored(job'[id]) <=> Stored(job[id])
    BY <1>1, <1>2, <2>1, <2>2 DEF Stored, Types, JobTypes
  <2> QED
    BY <1>3, <2>3, ExactKept DEF TakeJob, PushNote
<1>4. CASE StoreRefused(it)
  <2>1. refusals' # 0
    BY <1>4 DEF StoreRefused, Types, OtherTypes
  <2> QED
    BY <2>1 DEF Exact
<1>5. CASE StoreNote(it)
  <2> DEFINE o == job[it].order
             note == Note(it[2], o)
  <2>1. /\ note \in Notes /\ notes \in Seq(Notes) /\ notes' = Append(notes, note)
        /\ note.to = it[2] /\ note.order = o
        /\ UNCHANGED <<crashes, refusals, tried>>
        /\ job' = [job EXCEPT ![it].state = "stored"] /\ job[it].state = "active"
    BY <1>1, <1>5 DEF StoreNote, Note, Notes, Users, Types, NoteTypes
  <2>2. job'[it] \in Jobs /\ job'[it].state = "stored" /\ \A id \in JobIds \ {it} : job'[id] = job[id]
    BY <1>1, <2>1 DEF Jobs, Types, JobTypes
  <2>3. tried[<<o, it[2]>>] = it[1]
    BY <1>1 DEF JobsKnown
  <2>4. ASSUME crashes = 0 /\ refusals = 0, NEW id \in JobIds
        PROVE  Cardinality(TellOf(notes', Sharing(id), id[2])) = IF Stored(job'[id]) THEN 1 ELSE 0
    <3>1. Cardinality(TellOf(notes, Sharing(id), id[2])) = IF Stored(job[id]) THEN 1 ELSE 0
      BY <2>4 DEF Exact
    <3>2. CASE id = it
      <4>1. o \in Sharing(it)
        BY <1>1, <2>3 DEF Sharing
      <4>2. ~ Stored(job[it]) /\ Stored(job'[it])
        BY <1>2, <2>1, <2>2 DEF Stored
      <4> QED
        BY <2>1, <3>1, <3>2, <4>1, <4>2, TellMore
    <3>3. CASE id # it
      <4>1. ~ (it[2] = id[2] /\ o \in Sharing(id))
        <5>1. id = <<id[1], id[2]>> /\ it = <<it[1], it[2]>>
          BY DEF JobIds
        <5> QED
          BY <2>3, <3>3, <5>1 DEF Sharing
      <4>2. TellOf(notes', Sharing(id), id[2]) = TellOf(notes, Sharing(id), id[2])
        BY <2>1, <4>1, TellMore
      <4> QED
        BY <2>2, <3>1, <3>3, <4>2
    <3> QED
      BY <3>2, <3>3
  <2>5. \A id \in JobIds : Sharing(id)' = Sharing(id)
    BY <2>1 DEF Sharing
  <2> QED
    BY <2>1, <2>4, <2>5 DEF Exact, TellOf, Stored
<1> QED
  BY <1>3, <1>4, <1>5 DEF Worker

LEMMA MarkExact ==
  ASSUME Types, Exact, NEW m \in Marks,
         (\E u \in Clients, n \in 1..Len(notes) : FindNote(m, u, n)) \/ UpdateNote(m)
           \/ NoteUpdated(m) \/ UpdateRefused(m)
  PROVE  Exact'
<1>1. CASE \E u \in Clients, n \in 1..Len(notes) : FindNote(m, u, n)
  BY <1>1, ExactKept DEF FindNote
<1>2. CASE UpdateNote(m)
  <2>1. /\ DOMAIN notes' = DOMAIN notes
        /\ \A n \in DOMAIN notes : notes[n] \in Notes
        /\ notes' = [notes EXCEPT ![mark[m].note].read = TRUE]
    BY <1>2 DEF UpdateNote, Types, NoteTypes
  <2>2. \A n \in DOMAIN notes : notes'[n].to = notes[n].to /\ notes'[n].order = notes[n].order
    BY <2>1 DEF Notes
  <2>3. \A id \in JobIds : TellOf(notes', Sharing(id), id[2]) = TellOf(notes, Sharing(id), id[2])
    BY <2>1, <2>2 DEF TellOf
  <2> QED
    BY <1>2, <2>3, ExactKept DEF UpdateNote
<1>3. CASE UpdateRefused(m)
  <2>1. refusals' # 0
    BY <1>3 DEF UpdateRefused, Types, OtherTypes
  <2> QED
    BY <2>1 DEF Exact
<1>4. CASE NoteUpdated(m)
  BY <1>4, ExactKept DEF NoteUpdated
<1> QED
  BY <1>1, <1>2, <1>3, <1>4

LEMMA ExactNext == Types /\ JobsKnown /\ Counted /\ Exact /\ [CommunicationsNext]_communicationsVars => Exact'
<1> SUFFICES ASSUME Types, JobsKnown, Counted, Exact, [CommunicationsNext]_communicationsVars PROVE Exact'
  OBVIOUS
<1>1. ASSUME UNCHANGED <<job, notes, tried, crashes, refusals>> PROVE Exact'
  BY <1>1 DEF Exact, TellOf, Sharing, Stored
<1>2. ASSUME NEW l \in Mails, Mailer(l) PROVE Exact'
  BY <1>1, <1>2 DEF Mailer, SendMail, MailSent, MailFails
<1>3. ASSUME NEW u \in Clients, HandleConnection(u) \/ JoinRooms(u) PROVE Exact'
  BY <1>1, <1>3 DEF HandleConnection, JoinRooms
<1>4. CASE Tick \/ UNCHANGED communicationsVars
  BY <1>1, <1>4 DEF Tick, communicationsVars
<1>5. CASE ServiceCrash
  <2>1. crashes' # 0
    BY <1>5 DEF ServiceCrash, Types, OtherTypes
  <2> QED
    BY <2>1 DEF Exact
<1> QED
  BY <1>2, <1>3, <1>4, <1>5, EventExact, WorkerExact, MarkExact DEF CommunicationsNext

LEMMA JobsStay ==
  ASSUME Types, [CommunicationsNext]_communicationsVars, NEW id \in JobIds, job[id] # Nothing
  PROVE  job'[id] # Nothing
<1>1. Nothing \notin Jobs
  BY Zenon, CommunicationsAssumption
<1>2. ASSUME NEW e \in Events, AddJob(e) PROVE job'[id] # Nothing
  BY <1>1, <1>2 DEF AddJob, Added
<1>3. ASSUME NEW it \in JobIds, Worker(it) PROVE job'[id] # Nothing
  <2>1. job[it] \in Jobs /\ \E s \in {"active", "stored", "done"} : job' = [job EXCEPT ![it].state = s]
    BY <1>3, JobOrders DEF Worker, TakeJob, StoreNote, PushNote, StoreRefused
  <2>2. \E j \in Jobs : job' = [job EXCEPT ![it] = j]
    BY <2>1 DEF Jobs
  <2> QED
    BY <1>1, <2>2 DEF Types, JobTypes
<1>4. CASE ServiceCrash
  BY <1>1, <1>4, JobOrders, AgainIsJob DEF ServiceCrash
<1>5. ASSUME job' = job PROVE job'[id] # Nothing
  BY <1>5
<1>6. ASSUME NEW e \in Events, EventStep(e), ~ AddJob(e) PROVE job' = job
  BY <1>6 DEF EventStep, NewOrderAdmin, NewOrderCreated, OrderStatusChanged, StoreStatusNote, PushStatus
<1>7. ASSUME NEW l \in Mails, Mailer(l) PROVE job' = job
  BY <1>7 DEF Mailer, SendMail, MailSent, MailFails
<1>8. ASSUME NEW u \in Clients, HandleConnection(u) \/ JoinRooms(u) PROVE job' = job
  BY <1>8 DEF HandleConnection, JoinRooms
<1>9. ASSUME NEW m \in Marks,
             (\E u \in Clients, n \in 1..Len(notes) : FindNote(m, u, n)) \/ UpdateNote(m)
           \/ NoteUpdated(m) \/ UpdateRefused(m)
      PROVE  job' = job
  BY <1>9 DEF FindNote, UpdateNote, NoteUpdated, UpdateRefused
<1>10. Tick \/ UNCHANGED communicationsVars => job' = job
  BY DEF Tick, communicationsVars
<1> QED
  BY <1>2, <1>3, <1>4, <1>5, <1>6, <1>7, <1>8, <1>9, <1>10 DEF CommunicationsNext

LEMMA AnnouncedNext == Types /\ Announced /\ [CommunicationsNext]_communicationsVars => Announced'
<1> SUFFICES ASSUME Types, Announced, [CommunicationsNext]_communicationsVars, NEW o \in Orders PROVE AllAsked(o)'
  BY DEF Announced
<1> DEFINE it == Created(o)
<1>1. it \in Events /\ it.kind = "created" /\ it.of = o /\ AllAsked(o)
  BY CreatedIsEvent DEF Created, Announced
<1>2. ASSUME UNCHANGED <<event, tried, adding>> PROVE AllAsked(o)'
  <2>1. \A a \in Staff : HasJob(o, a) => HasJob(o, a)'
    BY <1>2, JobsStay DEF HasJob, JobIds
  <2> QED
    BY <1>1, <1>2, <2>1 DEF AllAsked, Created
<1>3. ASSUME NEW e \in Events, EventStep(e) PROVE AllAsked(o)'
  <2>1. CASE NewOrderCreated(e) /\ e = it
    BY <1>1, <2>1 DEF NewOrderCreated, Types, EventTypes, AllAsked, Created
  <2>2. tried' = tried \/ (NewOrderCreated(e) /\ tried' = [p \in DOMAIN tried |-> IF p[1] = e.of THEN now ELSE tried[p]])
    BY <1>3 DEF EventStep, NewOrderAdmin, NewOrderCreated, AddJob, OrderStatusChanged, StoreStatusNote, PushStatus
  <2>3. ASSUME ~ (NewOrderCreated(e) /\ e = it), NEW a \in Staff, HasJob(o, a) PROVE HasJob(o, a)'
    <3>1. tried'[<<o, a>>] = tried[<<o, a>>]
      BY <2>2, <2>3, EventsOf DEF NewOrderCreated, Types, EventTypes
    <3> QED
      BY <2>3, <3>1, JobsStay DEF HasJob, JobIds
  <2>4. CASE e # it
    <3>1. event'[it] = event[it] /\ adding'[it] = adding[it]
      <4>1. /\ \E s : event' = [event EXCEPT ![e] = s]
            /\ adding' = adding \/ \E s : adding' = [adding EXCEPT ![e] = s]
        BY <1>3
           DEF EventStep, NewOrderAdmin, NewOrderCreated, AddJob, OrderStatusChanged, StoreStatusNote, PushStatus
      <4> QED
        BY <1>1, <2>4, <4>1 DEF Types, EventTypes
    <3> QED
      BY <1>1, <2>3, <2>4, <3>1 DEF AllAsked, Created
  <2>5. CASE e = it /\ NewOrderAdmin(e)
    BY <1>1, <2>5 DEF NewOrderAdmin, Types, EventTypes, AllAsked, Created
  <2>6. CASE e = it /\ AddJob(e)
    <3>1. PICK a \in adding[it] :
            /\ job' = Added(job, <<tried[<<o, a>>], a>>, o)
            /\ adding' = [adding EXCEPT ![it] = adding[it] \ {a}]
            /\ event' = [event EXCEPT ![it] = IF adding[it] = {a} THEN "done" ELSE event[it]]
      BY <1>1, <2>6 DEF AddJob
    <3>2. /\ event[it] = "adding" /\ tried' = tried /\ a \in Staff
          /\ tried[<<o, a>>] \in 0..MaxTime /\ <<tried[<<o, a>>], a>> \in JobIds
      BY <1>1, <2>6 DEF AddJob, Types, EventTypes, JobIds
    <3>3. HasJob(o, a)'
      <4>1. Nothing \notin Jobs
        BY Zenon, CommunicationsAssumption
      <4>2. [order |-> o, state |-> "wait", stalls |-> 0] \in Jobs
        BY DEF Jobs, MaxStalled
      <4> QED
        BY <3>1, <3>2, <4>1, <4>2 DEF HasJob, Added, Types, JobTypes
    <3>4. /\ ~ NewOrderCreated(e)
          /\ adding'[it] = adding[it] \ {a}
          /\ event'[it] \in {"adding", "done"} /\ (event'[it] = "done" => adding[it] = {a})
      BY <1>1, <2>6, <3>1, <3>2 DEF NewOrderCreated, Types, EventTypes
    <3>5. \A b \in Staff \ adding'[it] : HasJob(o, b)'
      BY <1>1, <2>3, <3>2, <3>3, <3>4 DEF AllAsked
    <3> QED
      BY <3>4, <3>5 DEF AllAsked, Created
  <2>7. ~ (e = it /\ (OrderStatusChanged(e) \/ StoreStatusNote(e) \/ PushStatus(e)))
    BY <1>1 DEF OrderStatusChanged, StoreStatusNote, PushStatus, AllAsked
  <2> QED
    BY <1>3, <2>1, <2>4, <2>5, <2>6, <2>7 DEF EventStep
<1>4. CASE ServiceCrash
  <2>1. \A a \in Staff : HasJob(o, a) => HasJob(o, a)'
    BY <1>4, JobsStay DEF HasJob, JobIds, ServiceCrash
  <2>2. event'[it] \notin {"stored", "adding"} /\ (event'[it] = "done" => event[it] = "done")
    BY <1>1, <1>4 DEF ServiceCrash
  <2> QED
    BY <1>1, <2>1, <2>2 DEF AllAsked, Created
<1>5. ASSUME NEW id \in JobIds, Worker(id) PROVE UNCHANGED <<event, tried, adding>>
  BY <1>5 DEF Worker, TakeJob, StoreNote, PushNote, StoreRefused
<1>6. ASSUME NEW l \in Mails, Mailer(l) PROVE UNCHANGED <<event, tried, adding>>
  BY <1>6 DEF Mailer, SendMail, MailSent, MailFails
<1>7. ASSUME NEW u \in Clients, HandleConnection(u) \/ JoinRooms(u) PROVE UNCHANGED <<event, tried, adding>>
  BY <1>7 DEF HandleConnection, JoinRooms
<1>8. ASSUME NEW m \in Marks,
             (\E u \in Clients, n \in 1..Len(notes) : FindNote(m, u, n)) \/ UpdateNote(m)
           \/ NoteUpdated(m) \/ UpdateRefused(m)
      PROVE  UNCHANGED <<event, tried, adding>>
  BY <1>8 DEF FindNote, UpdateNote, NoteUpdated, UpdateRefused
<1>9. Tick \/ UNCHANGED communicationsVars => UNCHANGED <<event, tried, adding>>
  BY DEF Tick, communicationsVars
<1> QED
  BY <1>2, <1>3, <1>4, <1>5, <1>6, <1>7, <1>8, <1>9 DEF CommunicationsNext

(* Where nothing crashes and nothing is refused, every member of the staff *)
(* gets one notification of each order whose job is done, or one of the    *)
(* orders announced in its millisecond.                                    *)
THEOREM AllToldOnce == CommunicationsSpec => []OneNoteEach
<1>1. CommunicationsInit => Exact /\ Announced
  <2> SUFFICES ASSUME CommunicationsInit PROVE Exact /\ Announced
    OBVIOUS
  <2>1. \A some, a : TellOf(notes, some, a) = {}
    BY DEF CommunicationsInit, TellOf
  <2>2. \A id \in JobIds : ~ Stored(job[id])
    BY DEF CommunicationsInit, Stored
  <2>3. Exact
    BY <2>1, <2>2, FS_EmptySet DEF Exact
  <2>4. Announced
    BY CreatedIsEvent DEF CommunicationsInit, Announced, AllAsked
  <2> QED
    BY <2>3, <2>4
<1>2. Exact /\ Announced => OneNoteEach
  <2> SUFFICES ASSUME Exact, Announced, crashes = 0, refusals = 0,
                      NEW o \in Orders, NEW a \in Staff, Finished(o, a)
               PROVE  LET together == {p \in Orders : tried[<<p, a>>] = tried[<<o, a>>]} IN
                        Cardinality({n \in DOMAIN notes : notes[n].to = a /\ notes[n].order \in together}) = 1
    BY DEF OneNoteEach
  <2> DEFINE id == <<tried[<<o, a>>], a>>
  <2>1. id \in JobIds /\ job[id] # Nothing /\ job[id].state = "done"
    BY DEF Finished, Announced, AllAsked, HasJob, Created, JobIds
  <2>2. Cardinality(TellOf(notes, Sharing(id), a)) = IF Stored(job[id]) THEN 1 ELSE 0
    BY <2>1 DEF Exact
  <2> QED
    BY <2>1, <2>2 DEF TellOf, Sharing, Stored
<1>3. Types /\ JobsKnown /\ Counted /\ Exact /\ Announced /\ [CommunicationsNext]_communicationsVars
        => (Types /\ JobsKnown /\ Counted /\ Exact /\ Announced)'
  BY TypesNext, CountedNext, ExactNext, AnnouncedNext
<1> QED
  BY <1>1, <1>2, <1>3, TypesInit, CountedInit, PTL DEF CommunicationsSpec

-----------------------------------------------------------------------------
LEMMA NotesAre ==
  ASSUME Types
  PROVE  /\ DOMAIN notes = 1..Len(notes) /\ Len(notes) \in Nat
         /\ \A n \in DOMAIN notes : notes[n] \in Notes
         /\ mark \in [Marks -> MarkCalls]
BY DEF Types, NoteTypes

(* A new notification is unread and leaves the others where they are.      *)
LEMMA AppendMarks ==
  ASSUME Types, MarksKnown, ReadKnown, mark' = mark,
         NEW u, NEW o, notes' = Append(notes, Note(u, o)), Note(u, o) \in Notes
  PROVE  MarksKnown' /\ ReadKnown'
<1>1. /\ DOMAIN notes' = 1..Len(notes) + 1
      /\ \A n \in DOMAIN notes : n \in DOMAIN notes' /\ notes'[n] = notes[n]
      /\ \A n \in DOMAIN notes' : n \in DOMAIN notes \/ ~ notes'[n].read
  BY NotesAre DEF Note, Types, NoteTypes
<1>2. MarksKnown'
  BY <1>1 DEF MarksKnown
<1>3. ReadKnown'
  BY <1>1 DEF ReadKnown
<1> QED
  BY <1>2, <1>3

LEMMA EventMarks ==
  ASSUME Types, MarksKnown, ReadKnown, NEW e \in Events, EventStep(e)
  PROVE  MarksKnown' /\ ReadKnown'
<1>1. CASE StoreStatusNote(e)
  <2>1. Note(Customer, Payload(e)) \in Notes
    BY <1>1 DEF StoreStatusNote, Note, Notes, Users, Payload
  <2> QED
    BY <1>1, <2>1, AppendMarks DEF StoreStatusNote
<1>2. CASE ~ StoreStatusNote(e)
  <2>1. UNCHANGED <<notes, mark>>
    BY <1>2 DEF EventStep, NewOrderAdmin, NewOrderCreated, AddJob, OrderStatusChanged, PushStatus
  <2> QED
    BY <2>1 DEF MarksKnown, ReadKnown
<1> QED
  BY <1>1, <1>2

LEMMA WorkerMarks ==
  ASSUME Types, MarksKnown, ReadKnown, NEW it \in JobIds, Worker(it)
  PROVE  MarksKnown' /\ ReadKnown'
<1>1. CASE StoreNote(it)
  <2>1. Note(it[2], job[it].order) \in Notes
    BY <1>1, JobOrders DEF StoreNote, Note, Notes, Users, Jobs
  <2> QED
    BY <1>1, <2>1, AppendMarks DEF StoreNote
<1>2. CASE TakeJob(it) \/ PushNote(it) \/ StoreRefused(it)
  BY <1>2 DEF TakeJob, PushNote, StoreRefused, MarksKnown, ReadKnown
<1> QED
  BY <1>1, <1>2 DEF Worker

LEMMA FindMarks ==
  ASSUME Types, MarksKnown, ReadKnown, NEW m \in Marks, NEW u \in Clients, NEW n \in 1..Len(notes),
         FindNote(m, u, n)
  PROVE  MarksKnown' /\ ReadKnown'
<1>1. /\ mark[m].state = "idle" /\ notes' = notes
      /\ \A k \in Marks \ {m} : mark'[k] = mark[k]
      /\ mark'[m].note = n /\ mark'[m].by = u
      /\ mark'[m].state \in {"found", "success", "already"}
      /\ mark'[m].state \in {"found", "success"} => Own(u, n)
      /\ mark'[m].state = "success" => notes[n].read
  BY NotesAre DEF FindNote
<1>2. MarksKnown'
  BY <1>1 DEF MarksKnown, Own
<1>3. ReadKnown'
  BY <1>1 DEF ReadKnown
<1> QED
  BY <1>2, <1>3

LEMMA UpdateMarks ==
  ASSUME Types, MarksKnown, ReadKnown, NEW m \in Marks, UpdateNote(m)
  PROVE  MarksKnown' /\ ReadKnown'
<1> DEFINE n == mark[m].note
<1>1. /\ mark[m].state = "found" /\ n \in DOMAIN notes /\ notes[n].to = mark[m].by
      /\ notes' = [notes EXCEPT ![n].read = TRUE]
      /\ mark' = [mark EXCEPT ![m].state = "updated"]
  BY DEF UpdateNote, MarksKnown
<1>2. /\ \A k \in Marks \ {m} : mark'[k] = mark[k]
      /\ mark'[m].state = "updated" /\ mark'[m].note = n /\ mark'[m].by = mark[m].by
  BY <1>1, NotesAre DEF MarkCalls
<1>3. /\ DOMAIN notes' = DOMAIN notes /\ \A i \in DOMAIN notes : i # n => notes'[i] = notes[i]
      /\ notes'[n].read /\ notes'[n].to = notes[n].to
  BY <1>1, NotesAre DEF Notes
<1>4. MarksKnown'
  BY <1>1, <1>2, <1>3 DEF MarksKnown
<1>5. ReadKnown'
  BY <1>1, <1>2, <1>3 DEF ReadKnown
<1> QED
  BY <1>4, <1>5

(* However a call that has found something ends, what is read stays read.  *)
LEMMA LostMarks ==
  ASSUME Types, MarksKnown, ReadKnown, ServiceCrash \/ \E m \in Marks : UpdateRefused(m) \/ NoteUpdated(m)
  PROVE  MarksKnown' /\ ReadKnown'
<1>1. /\ notes' = notes
      /\ \A k \in Marks : mark'[k] = mark[k]
           \/ /\ mark[k].state \in {"found", "updated"} /\ mark'[k].state \in {"lost", "already"}
              /\ mark'[k].note = mark[k].note /\ mark'[k].by = mark[k].by
           \/ /\ mark[k].state = "updated" /\ mark'[k].state = "success"
              /\ mark'[k].note = mark[k].note /\ mark'[k].by = mark[k].by
  <2>1. CASE ServiceCrash
    BY <2>1, NotesAre DEF ServiceCrash, MarkCalls
  <2>2. ASSUME NEW m \in Marks, UpdateRefused(m) \/ NoteUpdated(m)
        PROVE  /\ notes' = notes
               /\ \A k \in Marks \ {m} : mark'[k] = mark[k]
               /\ \/ mark[m].state \in {"found", "updated"} /\ mark'[m].state = "already"
                  \/ mark[m].state = "updated" /\ mark'[m].state = "success"
               /\ mark'[m].note = mark[m].note /\ mark'[m].by = mark[m].by
    BY <2>2, NotesAre DEF UpdateRefused, NoteUpdated, MarkCalls
  <2> QED
    BY <2>1, <2>2
<1>2. MarksKnown'
  BY <1>1 DEF MarksKnown
<1>3. ReadKnown'
  BY <1>1 DEF ReadKnown
<1> QED
  BY <1>2, <1>3

LEMMA MarksNext == Types /\ MarksKnown /\ ReadKnown /\ [CommunicationsNext]_communicationsVars => MarksKnown' /\ ReadKnown'
<1> SUFFICES ASSUME Types, MarksKnown, ReadKnown, [CommunicationsNext]_communicationsVars PROVE MarksKnown' /\ ReadKnown'
  OBVIOUS
<1>1. ASSUME UNCHANGED <<notes, mark>> PROVE MarksKnown' /\ ReadKnown'
  BY <1>1 DEF MarksKnown, ReadKnown
<1>2. ASSUME NEW l \in Mails, Mailer(l) PROVE MarksKnown' /\ ReadKnown'
  BY <1>1, <1>2 DEF Mailer, SendMail, MailSent, MailFails
<1>3. ASSUME NEW u \in Clients, HandleConnection(u) \/ JoinRooms(u) PROVE MarksKnown' /\ ReadKnown'
  BY <1>1, <1>3 DEF HandleConnection, JoinRooms
<1>4. CASE Tick \/ UNCHANGED communicationsVars
  BY <1>1, <1>4 DEF Tick, communicationsVars
<1> QED
  BY <1>2, <1>3, <1>4, EventMarks, WorkerMarks, FindMarks, UpdateMarks, LostMarks DEF CommunicationsNext

(* A notification is read only by its recipient's doing, whatever else is  *)
(* stored meanwhile, and a call answered with success has read one.        *)
THEOREM OnlyRecipientsRead == CommunicationsSpec => []ReadByRecipient
<1>1. CommunicationsInit => Types /\ MarksKnown /\ ReadKnown
  <2>1. CommunicationsInit => MarksKnown /\ ReadKnown
    BY DEF CommunicationsInit, MarksKnown, ReadKnown
  <2> QED
    BY <2>1, TypesInit
<1>2. Types /\ MarksKnown /\ ReadKnown /\ [CommunicationsNext]_communicationsVars => (Types /\ MarksKnown /\ ReadKnown)'
  BY TypesNext, MarksNext
<1>3. MarksKnown /\ ReadKnown => ReadByRecipient
  BY DEF MarksKnown, ReadKnown, ReadByRecipient
<1> QED
  BY <1>1, <1>2, <1>3, PTL DEF CommunicationsSpec

-----------------------------------------------------------------------------
LEMMA ThreeTransports == MaxRetries = 3
<1>1. IsFiniteSet({"sendgrid"}) /\ Cardinality({"sendgrid"}) = 1
  BY FS_Singleton
<1>2. /\ IsFiniteSet({"sendgrid"} \cup {"resend"})
      /\ Cardinality({"sendgrid"} \cup {"resend"}) = 2
  BY <1>1, FS_AddElement
<1>3. Cardinality(({"sendgrid"} \cup {"resend"}) \cup {"gmail"}) = 3
  BY <1>2, FS_AddElement
<1>4. Transports = ({"sendgrid"} \cup {"resend"}) \cup {"gmail"}
  BY DEF Transports
<1> QED
  BY <1>3, <1>4 DEF MaxRetries

LEMMA NextTurn ==
  ASSUME NEW n \in Nat, NEW t \in Transports, NEW f \in SUBSET Transports, TurnOf(n, t, f)
  PROVE  TurnOf(n + 1, NextTransporter(t), f \cup {t})
<1>1. CASE n = 0
  BY <1>1 DEF TurnOf, NextTransporter
<1>2. CASE n = 1
  BY <1>2 DEF TurnOf, NextTransporter
<1>3. CASE n = 2
  <2>1. t = "gmail" /\ "sendgrid" \in f /\ "resend" \in f
    BY <1>3 DEF TurnOf
  <2>2. f \cup {t} = Transports
    BY <2>1 DEF Transports
  <2>3. n + 1 > 2
    BY <1>3
  <2> QED
    BY <2>2, <2>3 DEF TurnOf
<1>4. CASE n > 2
  BY <1>4 DEF TurnOf
<1> QED
  BY <1>1, <1>2, <1>3, <1>4

LEMMA TurnsNext == Types /\ Turns /\ [CommunicationsNext]_communicationsVars => Turns'
<1> SUFFICES ASSUME Types, Turns, [CommunicationsNext]_communicationsVars PROVE Turns'
  OBVIOUS
<1>1. ASSUME NEW l \in Mails, MailFails(l) PROVE Turns'
  <2>1. /\ mail[l].transporter \in Transports /\ mail[l].retryCount \in Nat
        /\ mail[l].failed \subseteq Transports
    BY DEF Types, OtherTypes, MailStates
  <2>2. /\ \A k \in Mails \ {l} : mail'[k] = mail[k]
        /\ mail'[l].transporter = NextTransporter(mail[l].transporter)
        /\ mail'[l].retryCount = mail[l].retryCount + 1
        /\ mail'[l].failed = mail[l].failed \cup {mail[l].transporter}
        /\ mail'[l].state = "given up" => mail[l].retryCount + 1 > 3
    BY <1>1, ThreeTransports DEF MailFails, Types, OtherTypes
  <2>3. Turn(l)
    BY DEF Turns
  <2>4. TurnOf(mail[l].retryCount + 1, NextTransporter(mail[l].transporter),
               mail[l].failed \cup {mail[l].transporter})
    BY <2>1, <2>3, NextTurn DEF Turn
  <2>5. TurnOf(mail'[l].retryCount, mail'[l].transporter, mail'[l].failed)
    BY <2>2, <2>4
  <2>6. mail'[l].state = "given up" => mail'[l].retryCount > 2
    <3>1. mail[l].retryCount + 1 > 3 => mail[l].retryCount + 1 > 2
      BY <2>1
    <3> QED
      BY <2>2, <3>1
  <2>7. \A k \in Mails \ {l} :
          /\ TurnOf(mail'[k].retryCount, mail'[k].transporter, mail'[k].failed)
          /\ mail'[k].state = "given up" => mail'[k].retryCount > 2
    BY <2>2 DEF Turns, Turn
  <2>8. \A k \in Mails :
          /\ TurnOf(mail'[k].retryCount, mail'[k].transporter, mail'[k].failed)
          /\ mail'[k].state = "given up" => mail'[k].retryCount > 2
    BY <2>5, <2>6, <2>7
  <2> QED
    BY <2>8 DEF Turns, Turn, TurnOf
<1>2. CASE ServiceCrash \/ \E l \in Mails : SendMail(l) \/ MailSent(l)
  <2>1. \A k \in Mails :
          /\ mail'[k].transporter = mail[k].transporter /\ mail'[k].retryCount = mail[k].retryCount
          /\ mail'[k].failed = mail[k].failed
          /\ mail'[k].state = "given up" => mail[k].state = "given up"
    <3>1. \A k \in Mails : \E s \in {"sending", "sent", "lost"} :
            mail'[k] = mail[k] \/ mail'[k] = [mail[k] EXCEPT !.state = s]
      BY <1>2 DEF ServiceCrash, SendMail, MailSent, Types, OtherTypes
    <3>2. TAKE k \in Mails
    <3>3. mail[k] \in MailStates
      BY DEF Types, OtherTypes
    <3>4. CASE mail'[k] = mail[k]
      BY <3>4
    <3>5. ASSUME NEW s \in {"sending", "sent", "lost"}, mail'[k] = [mail[k] EXCEPT !.state = s]
          PROVE  /\ mail'[k].transporter = mail[k].transporter /\ mail'[k].retryCount = mail[k].retryCount
                 /\ mail'[k].failed = mail[k].failed /\ mail'[k].state = s
      BY <3>3, <3>5 DEF MailStates
    <3> QED
      BY <3>1, <3>4, <3>5
  <2> QED
    BY <2>1 DEF Turns, Turn
<1>3. CASE mail' = mail
  BY <1>3 DEF Turns, Turn
<1>4. ASSUME NEW e \in Events, EventStep(e) PROVE mail' = mail
  BY <1>4 DEF EventStep, NewOrderAdmin, NewOrderCreated, AddJob, OrderStatusChanged, StoreStatusNote, PushStatus
<1>5. ASSUME NEW it \in JobIds, Worker(it) PROVE mail' = mail
  BY <1>5 DEF Worker, TakeJob, StoreNote, PushNote, StoreRefused
<1>6. ASSUME NEW u \in Clients, HandleConnection(u) \/ JoinRooms(u) PROVE mail' = mail
  BY <1>6 DEF HandleConnection, JoinRooms
<1>7. ASSUME NEW m \in Marks,
             (\E u \in Clients, n \in 1..Len(notes) : FindNote(m, u, n)) \/ UpdateNote(m)
           \/ NoteUpdated(m) \/ UpdateRefused(m)
      PROVE  mail' = mail
  BY <1>7 DEF FindNote, UpdateNote, NoteUpdated, UpdateRefused
<1>8. Tick \/ UNCHANGED communicationsVars => mail' = mail
  BY DEF Tick, communicationsVars
<1> QED
  BY <1>1, <1>2, <1>3, <1>4, <1>5, <1>6, <1>7, <1>8 DEF CommunicationsNext, Mailer

(* The transports take turns so that a mail is given up only when each of  *)
(* them has failed with it.                                                *)
THEOREM MailsTryAll == CommunicationsSpec => []GivenUpMeansAllTried
<1>1. CommunicationsInit => Types /\ Turns
  <2>1. ASSUME CommunicationsInit PROVE Turns
    <3>1. \A l \in Mails : /\ mail[l].state = "queued" /\ mail[l].transporter = "sendgrid"
                           /\ mail[l].retryCount = 0
      BY <2>1 DEF CommunicationsInit
    <3>2. \A f : TurnOf(0, "sendgrid", f)
      BY DEF TurnOf
    <3> QED
      BY <3>1, <3>2 DEF Turns, Turn
  <2> QED
    BY <2>1, TypesInit
<1>2. Types /\ Turns /\ [CommunicationsNext]_communicationsVars => (Types /\ Turns)'
  BY TypesNext, TurnsNext
<1>3. Types /\ Turns => GivenUpMeansAllTried
  <2>1. \A n \in Nat : \A t, f : TurnOf(n, t, f) /\ n > 2 => f = Transports
    BY DEF TurnOf
  <2> QED
    BY <2>1 DEF Turns, Turn, Types, OtherTypes, MailStates, GivenUpMeansAllTried
<1> QED
  BY <1>1, <1>2, <1>3, PTL DEF CommunicationsSpec
=============================================================================
