------------------------------ MODULE UsersMnt ------------------------------
(***************************************************************************)
(* The users collection under UsersMntService: blocks, roles, new users    *)
(* and the users' own updates.  Blocks and roles are decided on copies of  *)
(* victim and actor and written as one field; the users' own updates read  *)
(* the document and write all its fields back.  Nothing is locked.         *)
(*                                                                         *)
(* Left out of a document: name, mail address, password, avatar.  A user   *)
(* is known by the mail address, which the collection keeps unique.  A     *)
(* crash loses the calls under way: they take no further step.             *)
(***************************************************************************)
EXTENDS Integers, Sequences

CONSTANTS
  Users, Calls,
  Menu,         \* the requests a call may carry
  FirstUsers,   \* states the collection may start in
  None

UserRole == {"Manager", "Staff", "User"}
BlockActivity == {"Block", "Unblock"}

Block == [isBlocked : BOOLEAN,
          activityLogs : Seq([activity : BlockActivity, activityBy : Users])]
(* An address is whether it is the default one.                            *)
User == [role : UserRole, block : Block \cup {None}, address : Seq(BOOLEAN)]
Collection == [Users -> User \cup {None}]

Requests ==
  [kind : BlockActivity, victim : Users, actor : Users]
    \cup [kind : {"role"}, victim : Users, actor : Users, role : UserRole]
    \cup [kind : {"create"}, victim : Users, role : UserRole]
    \cup [kind : {"info"}, victim : Users]
    \cup [kind : {"address"}, victim : Users, address : Seq(BOOLEAN)]

OneDefault(address) ==
  address # <<>> => \E d \in DOMAIN address : \A e \in DOMAIN address : address[e] <=> e = d

(* Documents as they are before anybody was blocked.                       *)
NeverBlocked(user) ==
  user.block \in {None, [isBlocked |-> FALSE, activityLogs |-> <<>>]}

ASSUME UsersMntAssumption ==
  /\ None \notin User /\ None \notin Requests /\ None \notin Block
  /\ Menu \subseteq Requests
  /\ FirstUsers \subseteq Collection
  /\ \A first \in FirstUsers : \A u \in Users :
       first[u] # None => NeverBlocked(first[u]) /\ OneDefault(first[u].address)

VARIABLES
  users,      \* the collection
  refresh,    \* users with a REQUIRE_USER_REFRESH key
  request,    \* what a call was asked
  at,         \* where a call stands
  victim,     \* the copy of the user it is about
  actor,      \* the copy of the user who asks
  todo,       \* the parallel writes it has left
  first,      \* history: the collection as it was in the beginning
  ranks,      \* history: the roles a user has had
  before,     \* history: the collection when a call began that runs alone
  alone       \* history: no other call was under way while this one was

code == <<users, refresh, request, at, victim, actor, todo>>
vars == <<code, first, ranks, before, alone>>

RoleOf(user) == IF user = None THEN {} ELSE {user.role}

TypeOK ==
  /\ users \in Collection
  /\ refresh \subseteq Users
  /\ request \in [Calls -> Requests \cup {None}]
  /\ at \in [Calls -> {"idle", "read", "write", "done", "failed"}]
  /\ victim \in [Calls -> User \cup {None}]
  /\ actor \in [Calls -> User \cup {None}]
  /\ todo \in [Calls -> SUBSET {"update", "refresh"}]
  /\ first \in FirstUsers
  /\ ranks \in [Users -> SUBSET UserRole]
  /\ before \in [Calls -> Collection \cup {None}]
  /\ alone \in [Calls -> BOOLEAN]

Init ==
  /\ users \in FirstUsers
  /\ refresh = {}
  /\ request = [c \in Calls |-> None]
  /\ at = [c \in Calls |-> "idle"]
  /\ victim = [c \in Calls |-> None]
  /\ actor = [c \in Calls |-> None]
  /\ todo = [c \in Calls |-> {}]
  /\ first = users
  /\ ranks = [u \in Users |-> RoleOf(users[u])]
  /\ before = [c \in Calls |-> None]
  /\ alone = [c \in Calls |-> FALSE]

-----------------------------------------------------------------------------
Kind(c) == IF request[c] = None THEN "-" ELSE request[c].kind
ByStaff(c) == Kind(c) \in BlockActivity \cup {"role"}
UnderWay(c) == at[c] \in {"read", "write"} \/ todo[c] # {}

(* The history variables follow every step of the code.                    *)
Remember ==
  /\ first' = first
  /\ ranks' = [u \in Users |-> ranks[u] \cup RoleOf(users'[u])]
  /\ alone' = alone
  /\ before' = [c \in Calls |-> IF alone[c] /\ UnderWay(c)' THEN before[c] ELSE None]

Start(c, r) ==
  /\ at[c] = "idle"
  /\ request' = [request EXCEPT ![c] = r]
  /\ at' = [at EXCEPT ![c] = "read"]
  /\ alone' = [d \in Calls |-> IF d = c THEN \A other \in Calls : ~ UnderWay(other)
                                        ELSE alone[d] /\ ~ UnderWay(d)]
  /\ before' = [d \in Calls |->
       IF ~ alone'[d] THEN None ELSE IF d = c THEN users ELSE before[d]]
  /\ UNCHANGED <<users, refresh, victim, actor, todo, first, ranks>>

(* getUser of the victim and of the actor, side by side; the users' own    *)
(* updates read one document, a creation counts.                           *)
ReadVictim(c) ==
  LET found == users[request[c].victim] IN
  /\ at[c] = "read" /\ Kind(c) # "create" /\ victim[c] = None
  /\ victim' = [victim EXCEPT ![c] = found]
  /\ at' = [at EXCEPT ![c] = IF found = None THEN "failed" ELSE @]
  /\ UNCHANGED <<users, refresh, request, actor, todo>>
  /\ Remember

ReadActor(c) ==
  /\ at[c] = "read" /\ ByStaff(c) /\ actor[c] = None
  /\ LET found == users[request[c].actor] IN
       /\ actor' = [actor EXCEPT ![c] = found]
       /\ at' = [at EXCEPT ![c] = IF found = None THEN "failed" ELSE @]
  /\ UNCHANGED <<users, refresh, request, victim, todo>>
  /\ Remember

-----------------------------------------------------------------------------
Mutant_StaffBlockStaff(victimRole, actorRole) ==
  /\ actorRole \in {"Manager", "Staff"}
  /\ victimRole # "Manager"
RequiredHigherRole(victimRole, actorRole) ==
  /\ actorRole \in {"Manager", "Staff"}
  /\ victimRole # "Manager"
  /\ victimRole = "Staff" => actorRole = "Manager"

(* A user without a block entry can be unblocked.                          *)
NotYet(user, kind) ==
  user.block # None => (user.block.isBlocked <=> kind = "Unblock")

Mutant_OwnRole(r, victimRole, actorRole) ==
  /\ actorRole \in {"Manager", "Staff"}
  /\ victimRole = "Manager" => actorRole = "Manager"
  /\ r.role # "Manager"
  /\ ~ (actorRole = "Staff" /\ r.role = "Staff")
Mutant_GrantsManager(r, victimRole, actorRole) ==
  /\ actorRole \in {"Manager", "Staff"}
  /\ r.victim # r.actor
  /\ victimRole = "Manager" => actorRole = "Manager"
  /\ ~ (actorRole = "Staff" /\ r.role = "Staff")
CanChangeRole(r, victimRole, actorRole) ==
  /\ actorRole \in {"Manager", "Staff"}
  /\ r.victim # r.actor
  /\ victimRole = "Manager" => actorRole = "Manager"
  /\ r.role # "Manager"
  /\ ~ (actorRole = "Staff" /\ r.role = "Staff")

(* A list without a default address gets its first one as the default.     *)
WithDefault(address) ==
  IF address = <<>> \/ \E d \in DOMAIN address : address[d] THEN address
  ELSE [address EXCEPT ![1] = TRUE]

AddressesAllowed(address) ==
  address = <<>> \/ ~ \E d, e \in DOMAIN address : d # e /\ address[d] /\ address[e]

(* What the request asks for is allowed, judging by the copies.            *)
Allowed(r, seenVictim, seenActor) ==
  CASE r.kind \in BlockActivity ->
         /\ r.victim # r.actor
         /\ RequiredHigherRole(seenVictim.role, seenActor.role)
         /\ NotYet(seenVictim, r.kind)
    [] r.kind = "role" -> CanChangeRole(r, seenVictim.role, seenActor.role)
    [] r.kind = "create" -> r.role # "Manager"
    [] r.kind = "info" -> TRUE
    [] r.kind = "address" -> AddressesAllowed(r.address)

HasRead(c) ==
  /\ Kind(c) # "create" => victim[c] # None
  /\ ByStaff(c) => actor[c] # None

Accept(c) ==
  /\ at[c] = "read" /\ HasRead(c)
  /\ Allowed(request[c], victim[c], actor[c])
  /\ Kind(c) = "create" => users[request[c].victim] = None
  /\ at' = [at EXCEPT ![c] = "write"]
  /\ todo' = [todo EXCEPT ![c] = IF ByStaff(c) THEN {"update", "refresh"} ELSE {"update"}]
  /\ UNCHANGED <<users, refresh, request, victim, actor>>
  /\ Remember

(* Own updates and creations are also refused for reasons left out here: a *)
(* user name that is taken, an avatar that is not found.                   *)
Refuse(c) ==
  /\ at[c] = "read" /\ HasRead(c)
  /\ Allowed(request[c], victim[c], actor[c]) => Kind(c) \in {"info", "create"}
  /\ at' = [at EXCEPT ![c] = "failed"]
  /\ UNCHANGED <<users, refresh, request, victim, actor, todo>>
  /\ Remember

-----------------------------------------------------------------------------
LogsOf(user) == IF user.block = None THEN <<>> ELSE user.block.activityLogs

Blocked(user, r) ==
  [isBlocked |-> r.kind = "Block",
   activityLogs |-> Append(LogsOf(user), [activity |-> r.kind, activityBy |-> r.actor])]

(* The document after the update: now is what it is, seen the copy.  A     *)
(* user's own update sets every field that the copy has; a block entry     *)
(* that it does not have stays what it is now.                             *)
SetFrom(now, seen) == IF seen.block = None THEN [seen EXCEPT !.block = now.block] ELSE seen

Mutant_RolesWhole(now, seen, r) ==
  CASE r.kind \in BlockActivity -> [now EXCEPT !.block = Blocked(seen, r)]
    [] r.kind = "role" -> [role |-> r.role, block |-> None, address |-> now.address]
    [] r.kind = "create" -> [role |-> r.role, block |-> None, address |-> <<>>]
    [] r.kind = "info" -> SetFrom(now, seen)
    [] r.kind = "address" -> [SetFrom(now, seen) EXCEPT !.address = WithDefault(r.address)]
Updated(now, seen, r) ==
  CASE r.kind \in BlockActivity -> [now EXCEPT !.block = Blocked(seen, r)]
    [] r.kind = "role" -> [now EXCEPT !.role = r.role]
    [] r.kind = "create" -> [role |-> r.role, block |-> None, address |-> <<>>]
    [] r.kind = "info" -> SetFrom(now, seen)
    [] r.kind = "address" -> [SetFrom(now, seen) EXCEPT !.address = WithDefault(r.address)]

(* A part of the Promise.all settles; the call ends with the last one.  It *)
(* may fail although the part had its effect: when the answer is lost, the *)
(* users cache cannot be emptied, or the code for a new address is not     *)
(* stored.                                                                 *)
Settle(c, part) ==
  /\ part \in todo[c]
  /\ todo' = [todo EXCEPT ![c] = @ \ {part}]
  /\ \/ at' = [at EXCEPT ![c] = IF @ = "write" /\ todo[c] = {part} THEN "done" ELSE @]
     \/ at' = [at EXCEPT ![c] = "failed"]

Update(c) ==
  LET r == request[c] IN
  /\ Settle(c, "update")
  /\ r.kind = "create" => users[r.victim] = None
  /\ users' = [users EXCEPT ![r.victim] = Updated(@, victim[c], r)]
  /\ UNCHANGED <<refresh, request, victim, actor>>
  /\ Remember

SetUserRequiredRefresh(c) ==
  /\ Settle(c, "refresh")
  /\ refresh' = refresh \cup {request[c].victim}
  /\ UNCHANGED <<users, request, victim, actor>>
  /\ Remember

(* A database refuses: a failure, or the unique index on mail addresses.   *)
(* The other part goes on.                                                 *)
PartFails(c, part) ==
  /\ part \in todo[c]
  /\ todo' = [todo EXCEPT ![c] = @ \ {part}]
  /\ at' = [at EXCEPT ![c] = "failed"]
  /\ UNCHANGED <<users, refresh, request, victim, actor>>
  /\ Remember

(* The key's TTL ends, or the user is given new tokens (signTokens).       *)
RefreshedOrExpired(u) ==
  /\ u \in refresh
  /\ refresh' = refresh \ {u}
  /\ UNCHANGED <<users, request, at, victim, actor, todo>>
  /\ Remember

Quiet ==
  /\ \A c \in Calls : at[c] # "idle" /\ ~ UnderWay(c)
  /\ UNCHANGED vars

CallStep(c) ==
  \/ ReadVictim(c) \/ ReadActor(c) \/ Accept(c) \/ Refuse(c)
  \/ Update(c) \/ SetUserRequiredRefresh(c)
  \/ \E part \in {"update", "refresh"} : PartFails(c, part)

Next ==
  \/ \E c \in Calls : \E r \in Menu : Start(c, r)
  \/ \E c \in Calls : CallStep(c)
  \/ \E u \in Users : RefreshedOrExpired(u)
  \/ Quiet

Spec == Init /\ [][Next]_vars

-----------------------------------------------------------------------------
Present(u) == users[u] # None

(* However calls overlap, and although own updates write old roles back,   *)
(* nobody becomes a manager who was none in the beginning: no request      *)
(* grants the role (canChangeRole, createUser).                            *)
NoNewManagers ==
  \A u \in Users : Present(u) /\ users[u].role = "Manager" =>
    first[u] # None /\ first[u].role = "Manager"

(* The manager who is left cannot be demoted (cantChangeYourOwnRole): some *)
(* manager remains, unless a change of roles overlapped with another call. *)
ManagersAtFirst == {u \in Users : first[u] # None /\ first[u].role = "Manager"}

SomeManager ==
  ManagersAtFirst # {} /\ (\A c \in Calls : Kind(c) = "role" => alone[c]) =>
    \E u \in Users : Present(u) /\ users[u].role = "Manager"

(* However calls overlap, and although an entry may be lost with the copy  *)
(* it was made on, the log reads as blocks and unblocks in turn, and       *)
(* isBlocked is what its last entry says (userAlreadyBlocked,              *)
(* userAlreadyUnblocked).                                                  *)
InTurn(block) ==
  block # None =>
    LET logs == block.activityLogs IN
    /\ \A k \in 1 .. Len(logs) - 1 : logs[k].activity # logs[k + 1].activity
    /\ block.isBlocked <=> logs # <<>> /\ logs[Len(logs)].activity = "Block"

LogInTurn == \A u \in Users : Present(u) => InTurn(users[u].block)

(* Every entry on a log is by somebody else, a manager or, on a plain      *)
(* user's log, one of the staff: each in a role they have had, whatever    *)
(* happened to their roles since (requiredHigherRole).                     *)
Above == {<<"Manager", "Staff">>, <<"Manager", "User">>, <<"Staff", "User">>}

Ranked(u, logs, held) ==
  \A k \in DOMAIN logs :
    LET by == logs[k].activityBy
    IN  by # u /\ (held[by] \X held[u]) \cap Above # {}

EntriesRanked == \A u \in Users : Present(u) => Ranked(u, LogsOf(users[u]), ranks)

(* A user with addresses has exactly one default address, whatever copy a  *)
(* whole-document write brings back (onlyOneAddressIsDefault).             *)
OneDefaultAddress == \A u \in Users : Present(u) => OneDefault(users[u].address)

(* A call that ran alone has done what it was asked and nothing else; one  *)
(* that failed has done that or nothing.                                   *)
Promised(r, old, new) ==
  CASE r.kind \in BlockActivity -> new = [old EXCEPT !.block = Blocked(old, r)]
    [] r.kind = "role" -> new = [old EXCEPT !.role = r.role]
    [] r.kind = "create" -> old = None /\ new.role = r.role
    [] r.kind = "info" -> new = old
    [] r.kind = "address" -> /\ new = [old EXCEPT !.address = new.address]
                             /\ Len(new.address) = Len(r.address)

Outcome(c) ==
  LET r == request[c] IN
  \/ at'[c] = "failed" /\ users' = before[c]
  \/ /\ \A u \in Users \ {r.victim} : users'[u] = before[c][u]
     /\ Promised(r, before[c][r.victim], users'[r.victim])

AloneMeansExact ==
  [][\A c \in Calls : UnderWay(c) /\ ~ UnderWay(c)' /\ alone[c] => Outcome(c)]_vars
=============================================================================
