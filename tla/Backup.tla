-------------------------------- MODULE Backup -------------------------------
(***************************************************************************)
(* copyPrimaryToBackup (DatabaseTaskService): at 4:00, and on request, the *)
(* documents of the primary database are copied into the database of the   *)
(* day on two backup servers, one document after the other: deleted on     *)
(* both, then inserted on both.  Here they are those of the orders, and    *)
(* all copies are of one day: another day has another database.            *)
(***************************************************************************)
EXTENDS OrdersCollection

CONSTANTS
  Copies,      \* the runs of copyPrimaryToBackup
  MaxFailures  \* bound of the failing writes and restarts of the service

Servers == {"backup", "backup2"}

ASSUME BackupAssumption == MaxFailures \in Nat

VARIABLES
  copy,      \* where a run stands
  read,      \* what find() has given it
  todo,      \* what of that is still to be copied
  doc,       \* the document under way
  left,      \* the servers that have not yet answered the step's write
  rejected,  \* the runs of which a write has failed
  backup,    \* the documents of the day's database
  failures,
  ever,      \* history: the documents that have been in it
  single     \* history: no other run was under way, and none has begun since

backupVars == <<copy, read, todo, doc, left, rejected, backup, failures, ever, single>>

Busy(k) == copy[k] \in {"copy", "delete", "insert"}

CopyPrimaryToBackup(k) ==
  /\ copy[k] = "idle"
  /\ copy' = [copy EXCEPT ![k] = "copy"]
  /\ LET there == {o \in Orders : orders[o] # None} IN
       /\ read' = [read EXCEPT ![k] = [o \in there |-> orders[o]]]
       /\ todo' = [todo EXCEPT ![k] = there]
  /\ single' = [j \in Copies |-> j = k /\ ~ \E i \in Copies : Busy(i)]
  /\ UNCHANGED <<doc, left, rejected, backup, failures, ever>>

NextDocument(k) ==
  /\ copy[k] = "copy"
  /\ \E o \in todo[k] :
       /\ todo' = [todo EXCEPT ![k] = @ \ {o}]
       /\ doc' = [doc EXCEPT ![k] = o]
  /\ copy' = [copy EXCEPT ![k] = "delete"]
  /\ left' = [left EXCEPT ![k] = Servers]
  /\ UNCHANGED <<read, rejected, backup, failures, ever, single>>

Finish(k) ==
  /\ copy[k] = "copy" /\ todo[k] = {}
  /\ copy' = [copy EXCEPT ![k] = "done"]
  /\ UNCHANGED <<read, todo, doc, left, rejected, backup, failures, ever, single>>

(* Promise.all: the run goes on when both writes are done, and ends with   *)
(* the first that fails, which does not stop the other one.                *)
Mutant_FirstWins(k, s, next, ok) ==
  /\ s \in left[k]
  /\ rejected' = IF ok THEN rejected ELSE rejected \cup {k}
  /\ copy' = [copy EXCEPT ![k] = IF k \in rejected' THEN "failed" ELSE next]
  /\ left' = [left EXCEPT ![k] = IF next = "insert" THEN Servers ELSE {}]
Answered(k, s, next, ok) ==
  /\ s \in left[k]
  /\ rejected' = IF ok THEN rejected ELSE rejected \cup {k}
  /\ IF left[k] # {s}
       THEN left' = [left EXCEPT ![k] = @ \ {s}] /\ UNCHANGED copy
       ELSE /\ copy' = [copy EXCEPT ![k] = IF k \in rejected' THEN "failed" ELSE next]
            /\ left' = [left EXCEPT ![k] = IF copy'[k] = "insert" THEN Servers ELSE {}]

Mutant_DeleteAll(k, s) ==
  /\ copy[k] = "delete" /\ Answered(k, s, "insert", TRUE)
  /\ backup' = [backup EXCEPT ![s] = [o \in Orders |-> None]]
  /\ UNCHANGED <<read, todo, doc, failures, ever, single>>
Delete(k, s) ==
  /\ copy[k] = "delete" /\ Answered(k, s, "insert", TRUE)
  /\ backup' = [backup EXCEPT ![s][doc[k]] = None]
  /\ UNCHANGED <<read, todo, doc, failures, ever, single>>

(* The insert fails if another run has inserted the document in between.   *)
Insert(k, s) ==
  /\ copy[k] = "insert" /\ Answered(k, s, "copy", backup[s][doc[k]] = None)
  /\ backup' = [backup EXCEPT ![s][doc[k]] = IF @ = None THEN read[k][doc[k]] ELSE @]
  /\ ever' = [ever EXCEPT ![s] = @ \cup {doc[k]}]
  /\ UNCHANGED <<read, todo, doc, failures, single>>

WriteFails(k, s) ==
  /\ failures < MaxFailures
  /\ copy[k] \in {"delete", "insert"} /\ Answered(k, s, "failed", FALSE)
  /\ failures' = failures + 1
  /\ UNCHANGED <<read, todo, doc, backup, ever, single>>

(* The task service ends; nothing resumes its runs.                        *)
Restart ==
  /\ failures < MaxFailures
  /\ failures' = failures + 1
  /\ \E k \in Copies : Busy(k)
  /\ copy' = [k \in Copies |-> IF Busy(k) THEN "failed" ELSE copy[k]]
  /\ left' = [k \in Copies |-> {}]
  /\ UNCHANGED <<read, todo, doc, rejected, backup, ever, single>>

BackupInit ==
  /\ copy = [k \in Copies |-> "idle"]
  /\ read = [k \in Copies |-> <<>>]
  /\ todo = [k \in Copies |-> {}]
  /\ doc = [k \in Copies |-> None]
  /\ left = [k \in Copies |-> {}]
  /\ rejected = {}
  /\ backup = [s \in Servers |-> [o \in Orders |-> None]]
  /\ failures = 0
  /\ ever = [s \in Servers |-> {}]
  /\ single = [k \in Copies |-> FALSE]

BackupStep(k) ==
  \/ CopyPrimaryToBackup(k) \/ NextDocument(k) \/ Finish(k)
  \/ \E s \in Servers : Delete(k, s) \/ Insert(k, s) \/ WriteFails(k, s)

-----------------------------------------------------------------------------
(* A document that has been in a backup of the day is missing from it only *)
(* if it is the one document that a run has under way, or had under way    *)
(* when it failed: between the delete and the insert of a document nothing *)
(* else is at stake, whatever runs overlap, fail or are cut off.           *)
CrashCostsOne ==
  \A s \in Servers : \A o \in ever[s] :
    backup[s][o] = None => \E k \in Copies : doc[k] = o /\ copy[k] \in {"delete", "insert", "failed"}

(* A run that has ended well and overlapped with no other has left, on     *)
(* both servers, every document as find() gave it.                         *)
FinishedIsComplete ==
  \A k \in Copies, s \in Servers : copy[k] = "done" /\ single[k] =>
    \A o \in DOMAIN read[k] : backup[s][o] = read[k][o]
=============================================================================
