--------------------------- MODULE OrderLifecycle ---------------------------
(***************************************************************************)
(* One order after its checkout: the answers of the payment gateway        *)
(* (vnpayIpnUrl), the customer's cancelOrder and reGeneratePaymentUrl (all *)
(* CheckoutService) and the staff's updateOrderStatus (OrdersMntService).  *)
(* Each handler reads the whole order, decides, and only then asks for the *)
(* update_order lock, under which it writes the whole order back.          *)
(*                                                                         *)
(* Orders do not share anything here, so one order stands for all.         *)
(***************************************************************************)
EXTENDS Naturals, Redlock

CONSTANTS
  Calls,      \* calls of the four handlers
  Menu,       \* the requests they may carry
  Overlap,    \* FALSE: a call starts only when no other is under way
  MaxFaults   \* crashes, failing writes and keys lost under their holder

OrderStatuses == {"pending", "cancelled", "processing", "shipping", "completed", "refunded"}
PaymentStatuses == {"processing", "wait_for_payment", "completed", "cancelled"}
Methods == {"COD", "ATM", "VNPAY"}   \* ATM stands for every bank card method

OrderDocs == [order : OrderStatuses, payment : PaymentStatuses, method : Methods]

(* "invalid" is an answer of the gateway that fails the checksum, names no *)
(* order or another amount.                                                *)
Requests ==
  [handler : {"ipn"}, arg : {"paid", "failed", "invalid"}]
    \cup [handler : {"cancel", "repay"}, arg : {"-"}]
    \cup [handler : {"status"}, arg : OrderStatuses]

NoRequest == [handler |-> "-", arg |-> "-"]

(* The orders createOrder makes.                                           *)
NewOrders ==
  {[order |-> "pending", payment |-> "processing", method |-> "COD"]} \cup
  {[order |-> "processing", payment |-> "wait_for_payment", method |-> m] : m \in {"ATM", "VNPAY"}}

ASSUME LifecycleAssumption ==
  /\ Menu \subseteq Requests
  /\ Overlap \in BOOLEAN
  /\ MaxFaults \in Nat
  /\ None \notin Calls

VARIABLES
  doc,       \* the order document
  pc,        \* where a call stands
  request,   \* what it was asked
  copy,      \* the order it will write back
  answer,    \* what its caller is told
  lock,      \* update_order:<id>, a table of one key
  events,    \* calls that emitted orderStatusChanged
  faults     \* faults so far

vars == <<doc, pc, request, copy, answer, lock, events, faults>>

Stations == {"idle", "lock", "write", "unlock", "failing", "emit", "done", "crashed"}
Answers == {"none", "ok", "already", "refused", "error"}
Key == "update_order"

TypeOK ==
  /\ doc \in OrderDocs
  /\ pc \in [Calls -> Stations]
  /\ request \in [Calls -> Requests \cup {NoRequest}]
  /\ copy \in [Calls -> OrderDocs]
  /\ answer \in [Calls -> Answers]
  /\ lock \in [{Key} -> Calls \cup {None}]
  /\ events \subseteq Calls
  /\ faults \in 0..MaxFaults

Init ==
  /\ doc \in NewOrders
  /\ pc = [c \in Calls |-> "idle"]
  /\ request = [c \in Calls |-> NoRequest]
  /\ copy = [c \in Calls |-> doc]
  /\ answer = [c \in Calls |-> "none"]
  /\ lock = [k \in {Key} |-> None]
  /\ events = {}
  /\ faults = 0

-----------------------------------------------------------------------------
(* What a handler makes of the order it reads: the order it will write, or *)
(* nothing, with the answer it gives at once.                              *)

(* Line 366: if payment, or order is completed, or canceled, return error. *)
Mutant_IpnIgnoresPayment(d) == d.order \in {"completed", "cancelled"}
Closed(d) == "completed" \in {d.order, d.payment} \/ d.order = "cancelled"

AfterIpn(d, arg) ==
  IF arg = "paid" THEN [order |-> "processing", payment |-> "completed", method |-> "VNPAY"]
                  ELSE [order |-> "cancelled", payment |-> "cancelled", method |-> "VNPAY"]

(* A COD order is paid when it is completed; no transition of the order    *)
(* status is refused.                                                      *)
Mutant_PaidWhenCompleted(d, s) ==
  [d EXCEPT !.order = s, !.payment = IF s = "completed" THEN "completed" ELSE @]
AfterStatus(d, s) ==
  [d EXCEPT !.order = s,
            !.payment = IF d.method = "COD" /\ s = "completed" THEN "completed" ELSE @]

Cancellable(d) == d.payment # "completed" /\ d.order \in {"processing", "pending"}

(* reGeneratePaymentUrl writes back what it read, with a new url (left     *)
(* out); cash on delivery has none.                                        *)
Writes(d, r) ==
  CASE r.handler = "ipn" -> IF r.arg = "invalid" \/ Closed(d) THEN {} ELSE {AfterIpn(d, r.arg)}
    [] r.handler = "cancel" -> IF Cancellable(d) THEN {[d EXCEPT !.order = "cancelled"]} ELSE {}
    [] r.handler = "repay" -> IF d.method = "COD" THEN {} ELSE {d}
    [] r.handler = "status" -> {AfterStatus(d, r.arg)}

Refusal(d, r) ==
  IF r.handler = "ipn" /\ r.arg # "invalid" THEN "already" ELSE "refused"

-----------------------------------------------------------------------------
UnderWay(c) == pc[c] \in {"lock", "write", "unlock", "failing", "emit"}

MayStart(c) == pc[c] = "idle" /\ (Overlap \/ \A other \in Calls : ~ UnderWay(other))

Fault == faults < MaxFaults /\ faults' = faults + 1

(* A request arrives, for the first time or again.  The gateway knows only *)
(* of orders that have a payment url.                                      *)
Arrives(c, r) ==
  /\ MayStart(c)
  /\ r.handler = "ipn" /\ r.arg # "invalid" => doc.method # "COD"
  /\ request[c] \in {NoRequest, r}
  /\ request' = [request EXCEPT ![c] = r]

(* The handler reads the order, outside any lock, and goes on to ask for   *)
(* the lock with the order it wants to write.                              *)
Read(c, r) ==
  /\ Arrives(c, r)
  /\ \E d \in Writes(doc, r) : copy' = [copy EXCEPT ![c] = d]
  /\ pc' = [pc EXCEPT ![c] = "lock"]
  /\ answer' = [answer EXCEPT ![c] = "none"]
  /\ UNCHANGED <<doc, lock, events, faults>>

Refuse(c, r) ==
  /\ Arrives(c, r)
  /\ Writes(doc, r) = {}
  /\ pc' = [pc EXCEPT ![c] = "done"]
  /\ answer' = [answer EXCEPT ![c] = Refusal(doc, r)]
  /\ UNCHANGED <<doc, copy, lock, events, faults>>

Mutant_ErrorNotAnswered(c, result) ==
  /\ pc' = [pc EXCEPT ![c] = "done"]
  /\ answer' = [answer EXCEPT ![c] = IF result = "error" THEN "none" ELSE result]
Finish(c, result) ==
  /\ pc' = [pc EXCEPT ![c] = "done"]
  /\ answer' = [answer EXCEPT ![c] = result]

(* updateOrderById: lock, findOneAndUpdate, and unlock in the finally      *)
(* block.  Whatever it throws the caller is told of an error; to the       *)
(* gateway that is IpnUnknownError.                                        *)
Lock(c) ==
  /\ pc[c] = "lock"
  /\ Free(lock, {Key})
  /\ lock' = Acquire(lock, {Key}, c)
  /\ pc' = [pc EXCEPT ![c] = "write"]
  /\ UNCHANGED <<doc, request, copy, answer, events, faults>>

LockTimeout(c) ==
  /\ pc[c] = "lock"
  /\ ~ Free(lock, {Key})
  /\ Finish(c, "error")
  /\ UNCHANGED <<doc, request, copy, lock, events, faults>>

Mutant_WriteOnlyPayment(c) ==
  /\ pc[c] = "write"
  /\ doc' = [doc EXCEPT !.payment = copy[c].payment, !.method = copy[c].method]
  /\ pc' = [pc EXCEPT ![c] = "unlock"]
  /\ UNCHANGED <<request, copy, answer, lock, events, faults>>
Write(c) ==
  /\ pc[c] = "write"
  /\ doc' = copy[c]
  /\ pc' = [pc EXCEPT ![c] = "unlock"]
  /\ UNCHANGED <<request, copy, answer, lock, events, faults>>

WriteFails(c) ==
  /\ pc[c] = "write"
  /\ Fault
  /\ pc' = [pc EXCEPT ![c] = "failing"]
  /\ UNCHANGED <<doc, request, copy, answer, lock, events>>

(* release throws if the key was lost meanwhile, though the write is done. *)
Unlock(c) ==
  /\ pc[c] \in {"unlock", "failing"}
  /\ lock' = Release(lock, {Key}, c)
  /\ IF pc[c] = "unlock" /\ Holds(lock, {Key}, c)
       THEN IF request[c].handler = "status"
              THEN pc' = [pc EXCEPT ![c] = "emit"] /\ UNCHANGED answer
              ELSE Finish(c, "ok")
       ELSE Finish(c, "error")
  /\ UNCHANGED <<doc, request, copy, events, faults>>

(* orderStatusChanged goes to the communications service.                  *)
Emit(c) ==
  /\ pc[c] = "emit"
  /\ events' = events \cup {c}
  /\ Finish(c, "ok")
  /\ UNCHANGED <<doc, request, copy, lock, faults>>

-----------------------------------------------------------------------------
(* The process dies with the call: nobody is answered.                     *)
Crash(c) ==
  /\ UnderWay(c)
  /\ Fault
  /\ pc' = [pc EXCEPT ![c] = "crashed"]
  /\ UNCHANGED <<doc, request, copy, answer, lock, events>>

(* The TTL runs out: a fault under a live holder, a relief when the holder *)
(* died (and is perhaps being run again, under a lock of its own).         *)
ExpireKey ==
  /\ lock[Key] # None
  /\ IF pc[lock[Key]] \in {"write", "unlock", "failing"} THEN Fault ELSE UNCHANGED faults
  /\ lock' = Expired(lock, Key)
  /\ UNCHANGED <<doc, pc, request, copy, answer, events>>

(* The gateway repeats what got no answer or IpnUnknownError.              *)
Redeliver(c) ==
  /\ request[c].handler = "ipn"
  /\ pc[c] = "crashed" \/ (pc[c] = "done" /\ answer[c] = "error")
  /\ pc' = [pc EXCEPT ![c] = "idle"]
  /\ UNCHANGED <<doc, request, copy, answer, lock, events, faults>>

(* No call is left to come.                                                *)
Quiet ==
  /\ \A c \in Calls : pc[c] \in {"done", "crashed"}
  /\ UNCHANGED vars

CallStep(c) ==
  \/ Lock(c) \/ LockTimeout(c) \/ Write(c) \/ WriteFails(c) \/ Unlock(c) \/ Emit(c)

Again(c) == \E r \in Menu : request[c] = r /\ (Read(c, r) \/ Refuse(c, r))

Next ==
  \/ \E c \in Calls, r \in Menu : Read(c, r) \/ Refuse(c, r)
  \/ \E c \in Calls : CallStep(c) \/ Crash(c) \/ Redeliver(c)
  \/ ExpireKey
  \/ Quiet

Spec == Init /\ [][Next]_vars

(* Handlers go on, TTLs run out and the gateway repeats itself; requests   *)
(* need not come.                                                          *)
Fairness ==
  /\ \A c \in Calls : WF_vars(CallStep(c)) /\ WF_vars(Redeliver(c)) /\ SF_vars(Again(c))
  /\ WF_vars(ExpireKey)

FairSpec == Spec /\ Fairness

-----------------------------------------------------------------------------
(* Someone has paid: the gateway said so of an order it has a url for, or  *)
(* the staff completed an order that is paid on delivery.                  *)
MoneyCame ==
  \E c \in Calls :
    \/ request[c] = [handler |-> "ipn", arg |-> "paid"]
    \/ request[c] = [handler |-> "status", arg |-> "completed"] /\ doc.method = "COD"

(* No order is recorded as paid before somebody has paid for it, however   *)
(* the calls' whole-document writes overwrite each other.                  *)
PaidMeansMoney == doc.payment = "completed" => MoneyCame

(* Calls that do not overlap change the order one whole request at a time, *)
(* with crashes, lost keys and repeated answers of the gateway.            *)
AtomicUpdates == [][\E r \in Menu : doc' \in Writes(doc, r)]_doc

(* A payment that was confirmed to the gateway stays recorded.             *)
ConfirmedPaymentStands ==
  \A c \in Calls :
    request[c] = [handler |-> "ipn", arg |-> "paid"] /\ answer[c] = "ok" => doc.payment = "completed"

(* "You can not cancel this order when payment completed."                 *)
CancelOnlyUnpaid ==
  [][\A c \in Calls : request[c].handler = "cancel" /\ Write(c) => doc.payment # "completed"]_vars

(* The gateway gets a final answer to everything it asks, though a message *)
(* is acknowledged before it is handled and a crash loses it.              *)
GatewayAnswered ==
  \A c \in Calls : request[c].handler = "ipn" ~> answer[c] \in {"ok", "already", "refused"}
=============================================================================
