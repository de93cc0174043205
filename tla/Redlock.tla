------------------------------ MODULE Redlock ------------------------------
(***************************************************************************)
(* The locks of RedlockService (libs/common/src/Redis/services): one Redis *)
(* node, a lock is a set of keys written with one random value and a TTL.  *)
(* A lock table is a function from keys to the process whose value the key *)
(* holds, or None.  The redlock package itself is not in the repository:   *)
(* its scripts are modelled from the calls RedlockService makes.           *)
(*                                                                         *)
(* The operators are actions' building blocks: the modules that hold locks *)
(* keep the table in a variable of their own.                              *)
(***************************************************************************)
CONSTANT None

(* The acquire script finds none of the keys set. *)
Free(table, keys) == \A k \in keys : table[k] = None

(* Every one of the keys still holds the value of process p. *)
Holds(table, keys, p) == \A k \in keys : table[k] = p

(* RedlockService.lock: all the keys are set in one script or none is. An  *)
(* attempt that finds a key set is repeated, and after the eleventh the    *)
(* call throws; both outcomes are guarded by Free in the calling modules.  *)
Acquire(table, keys, p) == [k \in DOMAIN table |-> IF k \in keys THEN p ELSE table[k]]

(* RedlockService.unlock: the release script deletes the keys that still   *)
(* hold the lock's value and leaves the others to their new owner. The     *)
(* call throws unless every requested key was deleted (see Holds).         *)
Release(table, keys, p) ==
  [k \in DOMAIN table |-> IF k \in keys /\ table[k] = p THEN None ELSE table[k]]

(* The TTL of one key runs out: nothing in the program extends a lock.     *)
Expired(table, key) == [table EXCEPT ![key] = None]
=============================================================================
