--------------------------- MODULE Communications ----------------------------
(***************************************************************************)
(* The communications service: the notifications of orders, which go       *)
(* through a BullMQ queue to every member of the staff, the sockets they   *)
(* are pushed to, the marking of notifications as read, and the mails with *)
(* their three transports.                                                 *)
(*                                                                         *)
(* The handlers of the events do not await what they start: an error there *)
(* is an unhandled rejection, which ends the process, as a crash does.     *)
(* Docker starts it again.  Texts, pages of notifications and the rooms of *)
(* the roles, to which nothing is sent, are left out, and so is            *)
(* pushNotifyToAllUser, which nothing calls.                               *)
(***************************************************************************)
EXTENDS Naturals, Sequences, FiniteSets

CONSTANTS
  Nothing,
  Orders, Staff, Customer,
  Changes,      \* the changes the staff make to the status of the customer's orders
  Clients,      \* the users who connect a socket
  Mails,
  Marks,        \* the calls of markNotificationAsRead
  MaxTime,      \* bound of the clock, in milliseconds
  MaxCrashes,   \* bound of the crashes of the service
  MaxRefusals   \* bound of the writes that MongoDB refuses or leaves without an answer

Users == Staff \cup {Customer}
Events == [kind : {"created"}, of : Orders] \cup [kind : {"changed"}, of : Changes]
Transports == {"sendgrid", "resend", "gmail"}
MaxStalled == 1                    \* maxStalledCount of BullMQ
JobIds == (0..MaxTime) \X Staff    \* `${Date.now()}_${adminUser._id}`
Jobs == [order : Orders, state : {"wait", "active", "stored", "done", "stalled"}, stalls : 0..MaxStalled]

ASSUME CommunicationsAssumption ==
  /\ IsFiniteSet(Staff) /\ Customer \notin Staff
  /\ Clients \subseteq Users
  /\ Nothing \notin Orders /\ Nothing \notin Users /\ Nothing \notin Jobs
  /\ MaxTime \in Nat /\ MaxCrashes \in Nat /\ MaxRefusals \in Nat

VARIABLES
  now,       \* the clock
  event,     \* where the message of an event stands
  adding,    \* the staff whose jobs newOrderCreated still has to add
  job,       \* the jobs, finished ones included: they keep their ids
  notes,     \* the notifications collection, in the order of insertion
  socket,    \* the sockets of the clients
  mark,      \* the calls of markNotificationAsRead
  mail,      \* the mails
  crashes,
  refusals,
  tried      \* history: when the job of an order and a user was added

communicationsVars == <<now, event, adding, job, notes, socket, mark, mail, crashes, refusals, tried>>

Notes == [to : Users, order : Orders \cup {Nothing}, read : BOOLEAN]
MarkCalls == [state : {"idle", "found", "updated", "success", "already", "lost"}, by : Users \cup {Nothing}, note : Nat]
MailStates == [state : {"queued", "sending", "sent", "given up", "lost"},
               transporter : Transports, retryCount : Nat, failed : SUBSET Transports]

CommunicationsTypeOK ==
  /\ now \in 0..MaxTime
  /\ event \in [Events -> {"emitted", "reading", "adding", "stored", "done", "lost"}]
  /\ adding \in [Events -> SUBSET Staff]
  /\ job \in [JobIds -> Jobs \cup {Nothing}]
  /\ notes \in Seq(Notes)
  /\ socket \in [Clients -> {"off", "connecting", "on"}]
  /\ mark \in [Marks -> MarkCalls]
  /\ mail \in [Mails -> MailStates]
  /\ crashes \in 0..MaxCrashes /\ refusals \in 0..MaxRefusals
  /\ tried \in [Orders \X Staff -> 0..MaxTime \cup {Nothing}]

-----------------------------------------------------------------------------
(* The handlers acknowledge at once.  newOrderCreated asks for the staff   *)
(* and adds a job for each of them, all at the same time.                  *)
NewOrderAdmin(e) ==
  /\ e.kind = "created" /\ event[e] = "emitted"
  /\ event' = [event EXCEPT ![e] = "reading"]
  /\ UNCHANGED <<now, adding, job, notes, socket, mark, mail, crashes, refusals, tried>>

NewOrderCreated(e) ==
  /\ e.kind = "created" /\ event[e] = "reading"
  /\ event' = [event EXCEPT ![e] = "adding"]
  /\ adding' = [adding EXCEPT ![e] = Staff]
  /\ tried' = [p \in DOMAIN tried |-> IF p[1] = e.of THEN now ELSE tried[p]]
  /\ UNCHANGED <<now, job, notes, socket, mark, mail, crashes, refusals>>

(* A job whose id is there already, waiting or finished, is not added.     *)
Mutant_AddOver(jobs, id, order) == [jobs EXCEPT ![id] = [order |-> order, state |-> "wait", stalls |-> 0]]
Added(jobs, id, order) ==
  IF jobs[id] # Nothing THEN jobs ELSE [jobs EXCEPT ![id] = [order |-> order, state |-> "wait", stalls |-> 0]]

AddJob(e) ==
  /\ event[e] = "adding"
  /\ \E a \in adding[e] :
       /\ job' = Added(job, <<tried[<<e.of, a>>], a>>, e.of)
       /\ adding' = [adding EXCEPT ![e] = @ \ {a}]
       /\ event' = [event EXCEPT ![e] = IF adding[e] = {a} THEN "done" ELSE @]
  /\ UNCHANGED <<now, notes, socket, mark, mail, crashes, refusals, tried>>

(* orderStatusChanged: updateOrderById has deleted the _id of the very     *)
(* object updateOrderStatus emits, so the notification names no order.     *)
Payload(e) == IF e.kind = "changed" THEN Nothing ELSE e.of
Note(user, order) == [to |-> user, order |-> order, read |-> FALSE]

OrderStatusChanged(e) ==
  /\ e.kind = "changed" /\ event[e] = "emitted"
  /\ event' = [event EXCEPT ![e] = "reading"]
  /\ UNCHANGED <<now, adding, job, notes, socket, mark, mail, crashes, refusals, tried>>

StoreStatusNote(e) ==
  /\ e.kind = "changed" /\ event[e] = "reading"
  /\ event' = [event EXCEPT ![e] = "stored"]
  /\ notes' = Append(notes, Note(Customer, Payload(e)))
  /\ UNCHANGED <<now, adding, job, socket, mark, mail, crashes, refusals, tried>>

PushStatus(e) ==
  /\ event[e] = "stored"
  /\ event' = [event EXCEPT ![e] = "done"]
  /\ UNCHANGED <<now, adding, job, notes, socket, mark, mail, crashes, refusals, tried>>

-----------------------------------------------------------------------------
(* The worker of CreateNotificationProcessor.                              *)
TakeJob(id) ==
  /\ job[id] # Nothing /\ job[id].state = "wait"
  /\ job' = [job EXCEPT ![id].state = "active"]
  /\ UNCHANGED <<now, event, adding, notes, socket, mark, mail, crashes, refusals, tried>>

StoreNote(id) ==
  /\ job[id] # Nothing /\ job[id].state = "active"
  /\ job' = [job EXCEPT ![id].state = "stored"]
  /\ notes' = Append(notes, Note(id[2], job[id].order))
  /\ UNCHANGED <<now, event, adding, socket, mark, mail, crashes, refusals, tried>>

(* The push reaches the sockets in the user's room, and the job is done.   *)
PushNote(id) ==
  /\ job[id] # Nothing /\ job[id].state = "stored"
  /\ job' = [job EXCEPT ![id].state = "done"]
  /\ UNCHANGED <<now, event, adding, notes, socket, mark, mail, crashes, refusals, tried>>

(* The processor swallows the error: the job is done all the same, and its *)
(* five attempts are never used.                                           *)
StoreRefused(id) ==
  /\ refusals < MaxRefusals
  /\ job[id] # Nothing /\ job[id].state = "active"
  /\ refusals' = refusals + 1
  /\ job' = [job EXCEPT ![id].state = "done"]
  /\ UNCHANGED <<now, event, adding, notes, socket, mark, mail, crashes, tried>>

-----------------------------------------------------------------------------
(* handleConnection asks the auth service and then joins the rooms.        *)
HandleConnection(u) ==
  /\ socket[u] = "off"
  /\ socket' = [socket EXCEPT ![u] = "connecting"]
  /\ UNCHANGED <<now, event, adding, job, notes, mark, mail, crashes, refusals, tried>>

JoinRooms(u) ==
  /\ socket[u] = "connecting"
  /\ socket' = [socket EXCEPT ![u] = "on"]
  /\ UNCHANGED <<now, event, adding, job, notes, mark, mail, crashes, refusals, tried>>

(* markNotificationAsRead looks for a notification of the client, and an   *)
(* unread one is updated; findOne throws when there is none, and that is   *)
(* answered as already read.                                               *)
Mutant_AnyonesNote(u, n) == n \in DOMAIN notes
Own(u, n) == n \in DOMAIN notes /\ notes[n].to = u

FindNote(m, u, n) ==
  /\ mark[m].state = "idle" /\ socket[u] = "on"
  /\ mark' = [mark EXCEPT ![m] =
       [state |-> IF ~ Own(u, n) THEN "already" ELSE IF notes[n].read THEN "success" ELSE "found",
        by |-> u, note |-> n]]
  /\ UNCHANGED <<now, event, adding, job, notes, socket, mail, crashes, refusals, tried>>

UpdateNote(m) ==
  /\ mark[m].state = "found"
  /\ mark' = [mark EXCEPT ![m].state = "updated"]
  /\ notes' = [notes EXCEPT ![mark[m].note].read = TRUE]
  /\ UNCHANGED <<now, event, adding, job, socket, mail, crashes, refusals, tried>>

NoteUpdated(m) ==
  /\ mark[m].state = "updated"
  /\ mark' = [mark EXCEPT ![m].state = "success"]
  /\ UNCHANGED <<now, event, adding, job, notes, socket, mail, crashes, refusals, tried>>

(* The update is refused, or only its answer does not come through: either *)
(* way the client is told that the notification was read already.          *)
UpdateRefused(m) ==
  /\ refusals < MaxRefusals
  /\ mark[m].state \in {"found", "updated"}
  /\ refusals' = refusals + 1
  /\ mark' = [mark EXCEPT ![m].state = "already"]
  /\ UNCHANGED <<now, event, adding, job, notes, socket, mail, crashes, tried>>

-----------------------------------------------------------------------------
(* sendConfirmMail and sendForgotPasswordMail.                             *)
MaxRetries == Cardinality(Transports)

Mutant_NeverGmail(t) == IF t = "sendgrid" THEN "resend" ELSE "sendgrid"
NextTransporter(t) == CASE t = "sendgrid" -> "resend" [] t = "resend" -> "gmail" [] t = "gmail" -> "sendgrid"

SendMail(l) ==
  /\ mail[l].state = "queued"
  /\ mail' = [mail EXCEPT ![l].state = "sending"]
  /\ UNCHANGED <<now, event, adding, job, notes, socket, mark, crashes, refusals, tried>>

MailSent(l) ==
  /\ mail[l].state = "sending"
  /\ mail' = [mail EXCEPT ![l].state = "sent"]
  /\ UNCHANGED <<now, event, adding, job, notes, socket, mark, crashes, refusals, tried>>

MailFails(l) ==
  /\ mail[l].state = "sending"
  /\ mail' = [mail EXCEPT ![l] =
       [state |-> IF mail[l].retryCount + 1 > MaxRetries THEN "given up" ELSE "sending",
        transporter |-> NextTransporter(mail[l].transporter),
        retryCount |-> mail[l].retryCount + 1,
        failed |-> mail[l].failed \cup {mail[l].transporter}]]
  /\ UNCHANGED <<now, event, adding, job, notes, socket, mark, crashes, refusals, tried>>

-----------------------------------------------------------------------------
(* The process ends: acknowledged events and mails are gone, the sockets   *)
(* too, and BullMQ gives jobs that were active to the next process, once.  *)
Mutant_AlwaysAgain(j) == [j EXCEPT !.state = "wait"]
Requeued(j) == IF j.stalls < MaxStalled THEN [j EXCEPT !.state = "wait", !.stalls = @ + 1]
            ELSE [j EXCEPT !.state = "stalled"]

ServiceCrash ==
  /\ crashes < MaxCrashes
  /\ crashes' = crashes + 1
  /\ event' = [e \in Events |-> IF event[e] \in {"emitted", "done"} THEN event[e] ELSE "lost"]
  /\ adding' = [e \in Events |-> {}]
  /\ job' = [id \in JobIds |-> IF job[id] # Nothing /\ job[id].state \in {"active", "stored"}
                                 THEN Requeued(job[id]) ELSE job[id]]
  /\ socket' = [u \in Clients |-> "off"]
  /\ mark' = [m \in Marks |-> IF mark[m].state \in {"found", "updated"} THEN [mark[m] EXCEPT !.state = "lost"] ELSE mark[m]]
  /\ mail' = [l \in Mails |-> IF mail[l].state = "sending" THEN [mail[l] EXCEPT !.state = "lost"] ELSE mail[l]]
  /\ UNCHANGED <<now, notes, refusals, tried>>

Tick ==
  /\ now < MaxTime
  /\ now' = now + 1
  /\ UNCHANGED <<event, adding, job, notes, socket, mark, mail, crashes, refusals, tried>>

CommunicationsInit ==
  /\ now = 0
  /\ event = [e \in Events |-> "emitted"]
  /\ adding = [e \in Events |-> {}]
  /\ job = [id \in JobIds |-> Nothing]
  /\ notes = <<>>
  /\ socket = [u \in Clients |-> "off"]
  /\ mark = [m \in Marks |-> [state |-> "idle", by |-> Nothing, note |-> 0]]
  /\ mail = [l \in Mails |-> [state |-> "queued", transporter |-> "sendgrid", retryCount |-> 0, failed |-> {}]]
  /\ crashes = 0 /\ refusals = 0
  /\ tried = [p \in Orders \X Staff |-> Nothing]

EventStep(e) ==
  \/ NewOrderAdmin(e) \/ NewOrderCreated(e) \/ AddJob(e)
  \/ OrderStatusChanged(e) \/ StoreStatusNote(e) \/ PushStatus(e)
Worker(id) == TakeJob(id) \/ StoreNote(id) \/ PushNote(id) \/ StoreRefused(id)
Mailer(l) == SendMail(l) \/ MailSent(l) \/ MailFails(l)

CommunicationsNext ==
  \/ \E e \in Events : EventStep(e)
  \/ \E id \in JobIds : Worker(id)
  \/ \E l \in Mails : Mailer(l)
  \/ \E u \in Clients : HandleConnection(u) \/ JoinRooms(u)
  \/ \E m \in Marks : (\E u \in Clients, n \in 1..Len(notes) : FindNote(m, u, n))
                       \/ UpdateNote(m) \/ NoteUpdated(m) \/ UpdateRefused(m)
  \/ ServiceCrash
  \/ Tick

CommunicationsSpec == CommunicationsInit /\ [][CommunicationsNext]_communicationsVars

-----------------------------------------------------------------------------
Count(o, a) == Cardinality({n \in DOMAIN notes : notes[n].to = a /\ notes[n].order = o})
Finished(o, a) ==
  /\ event[[kind |-> "created", of |-> o]] = "done"
  /\ LET id == <<tried[<<o, a>>], a>> IN job[id].state = "done"

(* Without crashes and refused insertions every member of the staff gets   *)
(* one notification of every order, unless another order was announced in  *)
(* the same millisecond: then their jobs have one id, and one of the       *)
(* orders is told of.                                                      *)
OneNoteEach ==
  crashes = 0 /\ refusals = 0 =>
    \A o \in Orders, a \in Staff :
      Finished(o, a) =>
        LET together == {p \in Orders : tried[<<p, a>>] = tried[<<o, a>>]} IN
          Cardinality({n \in DOMAIN notes : notes[n].to = a /\ notes[n].order \in together}) = 1

(* However often the service crashes, nobody is told of an order more than *)
(* twice: a job that stalls a second time is not run again.                *)
AtMostTwice == \A o \in Orders, a \in Staff : Count(o, a) <= 1 + MaxStalled

(* A notification is read only when its recipient has marked it, whatever  *)
(* answer has come of that; and a call that answers with success has found *)
(* it read or made it so.                                                  *)
ReadByRecipient ==
  /\ \A n \in DOMAIN notes : notes[n].read =>
       \E m \in Marks : mark[m].note = n /\ mark[m].by = notes[n].to /\ mark[m].state # "idle"
  /\ \A m \in Marks : mark[m].state = "success" => notes[mark[m].note].read

(* A mail is given up only after every transport has failed.               *)
GivenUpMeansAllTried == \A l \in Mails : mail[l].state = "given up" => mail[l].failed = Transports
=============================================================================
