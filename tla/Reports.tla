------------------------------- MODULE Reports -------------------------------
(***************************************************************************)
(* What reads the orders collection of its own accord: the statistics of   *)
(* the managements service and the backup of the task service, while       *)
(* customers, the gateway and the staff go on changing the orders.         *)
(*                                                                         *)
(* The two share nothing but the orders, which neither of them changes, so *)
(* a behaviour has one of them: what the other does would only be          *)
(* interleaved with it.                                                    *)
(***************************************************************************)
EXTENDS Stats, Backup

VARIABLE asked   \* which of the two the behaviour is about

vars == <<orders, changes, statsVars, backupVars, asked>>

Init == OrdersInit /\ StatsInit /\ BackupInit /\ asked \in {"stats", "backup"}

OrderChanges(o) == Change(o) /\ Notice(o) /\ UNCHANGED <<backupVars, asked>>

TimePasses == asked = "stats" /\ Tick /\ UNCHANGED <<orders, changes, backupVars, asked>>

StatsCall(c) ==
  /\ asked = "stats" /\ StatsStep(c)
  /\ UNCHANGED <<orders, changes, backupVars, asked>>

BackupRun(k) ==
  /\ asked = "backup" /\ BackupStep(k)
  /\ UNCHANGED <<orders, changes, statsVars, asked>>

BackupRestart ==
  /\ asked = "backup" /\ Restart
  /\ UNCHANGED <<orders, changes, statsVars, asked>>

Next ==
  \/ \E o \in Orders : OrderChanges(o)
  \/ TimePasses
  \/ \E c \in Calls : StatsCall(c)
  \/ \E k \in Copies : BackupRun(k)
  \/ BackupRestart

Spec == Init /\ [][Next]_vars
=============================================================================
