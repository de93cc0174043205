------------------------------ MODULE Sessions -------------------------------
(***************************************************************************)
(* The tokens of one user (AuthService, AuthUtilService), the changes of   *)
(* role and block that call them in (UsersMntUtilService), and the way of  *)
(* a request through the gateway: AuthGuard or OptionalAuthGuard asks the  *)
(* auth service by verifyJwt, and then the request waits in the durable    *)
(* queue of its service until a handler takes it.                          *)
(*                                                                         *)
(* Passwords and mails are Accounts' matter, who may change whom is        *)
(* UsersMnt's.  A token is named by the call that signed it.  Secrets,     *)
(* e-mail and _id of a token's owner, answers and the revocation of access *)
(* tokens, which nothing calls, are left out; counters of refresh tokens   *)
(* outlive the tokens, so their TTL is too.  The limit on the uses of a    *)
(* refresh token is a whole number: what is below 1, or no number at all,  *)
(* acts as 0, which the code takes like any other.                         *)
(***************************************************************************)
EXTENDS Integers, Routes

CONSTANTS
  None,
  Calls,
  First,        \* the tokens the user has in the beginning
  FirstRole,
  Menu,         \* [Calls -> the requests a call may carry]
  Life,         \* JWT_ACCESS_TOKEN_EXPIRE_TIME_STRING
  RefreshLife,  \* JWT_REFRESH_TOKEN_EXPIRE_TIME_STRING
  MaxUses,      \* JWT_REFRESH_TOKEN_MAX_USED_TIME
  MaxTime,      \* bound of the clock
  MaxRestarts   \* bound of the restarts of services

Tokens == Calls \cup {First}

Requests ==
  [kind : {"login"}]
    \cup [kind : {"refresh"}, with : Tokens]
    \cup [kind : {"role"}, role : Roles]
    \cup [kind : {"block"}, blocked : BOOLEAN]
    \cup [kind : {"call"}, route : Routes, with : Tokens \cup {None}]

NoRequest == [kind |-> "-"]

ASSUME SessionsAssumption ==
  /\ First \notin Calls /\ None \notin Tokens /\ None \notin Roles
  /\ FirstRole \in Roles
  /\ Menu \in [Calls -> SUBSET Requests]
  /\ Life \in Nat \ {0} /\ RefreshLife \in Nat \ {0} /\ MaxUses \in Nat
  /\ MaxTime \in Nat /\ MaxRestarts \in Nat

VARIABLES
  now,       \* the clock
  user,      \* role and block of the user's document
  key,       \* REQUIRE_USER_REFRESH_<user> is there while now < key
  pair,      \* what was signed: role and time, or None
  counter,   \* usedTimeRemaining of a refresh token, None if there is no entry
  at,        \* where a call stands
  request,   \* what it was asked
  read,      \* the role or the counter it read, or None
  todo,      \* the writes a change of the user still has to make
  who,       \* the role that AuthGuard put into the request, or None
  runs,      \* how often a handler has taken the message
  restarts,
  entered,   \* history: when the guard let the request pass
  barred,    \* history: tokens called in by a finished change
  doomed     \* history: requests whose token was called in when it was looked at

session == <<user, key, pair, counter>>
message == <<who, runs, restarts, entered>>
vars == <<now, session, at, request, read, todo, message, barred, doomed>>

Signed == {t \in Tokens : pair[t] # None}
Ends == {"done", "failed", "lost"}

TypeOK ==
  /\ now \in Nat /\ key \in Nat
  /\ user \in [role : Roles, blocked : BOOLEAN]
  /\ pair \in [Tokens -> [role : Roles, at : Nat] \cup {None}]
  /\ counter \in [Tokens -> 0..MaxUses \cup {None}]
  /\ at \in [Calls -> {"idle", "counter", "read", "sign", "unkey", "count", "recount", "change",
                       "jwt", "verify", "key", "admit", "queued", "working", "answered"} \cup Ends]
  /\ request \in [Calls -> Requests \cup {NoRequest}]
  /\ DOMAIN read = Calls
  /\ \A c \in Calls : read[c] \in (IF at[c] = "recount" THEN 0..MaxUses ELSE Roles) \cup {None}
  /\ todo \in [Calls -> SUBSET {"user", "key"}]
  /\ who \in [Calls -> Roles \cup {None}]
  /\ runs \in [Calls -> Nat] /\ restarts \in Nat
  /\ entered \in [Calls -> Nat]
  /\ barred \subseteq Tokens
  /\ doomed \in [Calls -> BOOLEAN]

(* A client has the tokens of a call when the call has answered.           *)
Usable(t) == t = First \/ (t \in Calls /\ at[t] = "done" /\ pair[t] # None)
Expires(t) == pair[t].at + Life

Goes(c, from, to) == at[c] = from /\ at' = [at EXCEPT ![c] = to] /\ UNCHANGED request

Begin(c, r, place) ==
  /\ at[c] = "idle"
  /\ at' = [at EXCEPT ![c] = place]
  /\ request' = [request EXCEPT ![c] = r]

-----------------------------------------------------------------------------
(* login: validateUserLogin reads the user.                                *)
StartLogin(c, r) ==
  /\ r.kind = "login"
  /\ Begin(c, r, "read")
  /\ UNCHANGED <<now, session, read, todo, message, barred, doomed>>

(* getNewToken: isRefreshTokenRevoked and verifyToken.                     *)
StartRefresh(c, r) ==
  /\ r.kind = "refresh" /\ Usable(r.with)
  /\ Begin(c, r, "counter")
  /\ UNCHANGED <<now, session, read, todo, message, barred, doomed>>

UsedUp(t) == counter[t] # None /\ counter[t] < 1

CheckRefreshToken(c) ==
  /\ Goes(c, "counter", IF UsedUp(request[c].with) \/ now >= pair[request[c].with].at + RefreshLife
                           THEN "failed" ELSE "read")
  /\ UNCHANGED <<now, session, read, todo, message, barred, doomed>>

(* Only login looks at the block.                                          *)
ReadUser(c) ==
  /\ Goes(c, "read", IF request[c].kind = "login" /\ user.blocked THEN "failed" ELSE "sign")
  /\ read' = [read EXCEPT ![c] = user.role]
  /\ UNCHANGED <<now, session, todo, message, barred, doomed>>

(* signTokens signs both tokens and then removes the key.                  *)
SignTokens(c) ==
  /\ Goes(c, "sign", "unkey")
  /\ pair' = [pair EXCEPT ![c] = [role |-> read[c], at |-> now]]
  /\ read' = [read EXCEPT ![c] = None]
  /\ UNCHANGED <<now, user, key, counter, todo, message, barred, doomed>>

RemoveRequireRefresh(c) ==
  /\ Goes(c, "unkey", IF request[c].kind = "login" THEN "done" ELSE "count")
  /\ key' = 0
  /\ barred' = {}
  /\ UNCHANGED <<now, user, pair, counter, read, todo, message, doomed>>

(* revokeRefreshToken reads the counter and writes it.                     *)
ReadCounter(c) ==
  /\ Goes(c, "count", "recount")
  /\ read' = [read EXCEPT ![c] = counter[request[c].with]]
  /\ UNCHANGED <<now, session, todo, message, barred, doomed>>

Mutant_FirstCounted(n) == IF n # None /\ n > 1 THEN n - 1 ELSE MaxUses - 1
UsedOnce(n) == IF n # None /\ n > 1 THEN n - 1 ELSE MaxUses

RevokeRefreshToken(c) ==
  /\ Goes(c, "recount", "done")
  /\ counter' = [counter EXCEPT ![request[c].with] = UsedOnce(read[c])]
  /\ read' = [read EXCEPT ![c] = None]
  /\ UNCHANGED <<now, user, key, pair, todo, message, barred, doomed>>

(* An error of the counter is swallowed, any other one ends the call.      *)
Fail(c) ==
  /\ at[c] \in {"counter", "read", "sign", "unkey", "count", "recount", "jwt", "verify", "key"}
  /\ at' = [at EXCEPT ![c] = IF @ \in {"count", "recount"} THEN "done"
                             ELSE IF request[c].kind = "call" /\ request[c].route.guard = "optional" THEN "queued"
                             ELSE "failed"]
  /\ read' = [read EXCEPT ![c] = None]
  /\ UNCHANGED <<now, session, request, todo, message, barred, doomed>>

-----------------------------------------------------------------------------
(* updateRole, blockUser and unblockUser write the user and the key side   *)
(* by side.                                                                *)
StartChange(c, r) ==
  /\ r.kind \in {"role", "block"}
  /\ Begin(c, r, "change")
  /\ todo' = [todo EXCEPT ![c] = {"user", "key"}]
  /\ UNCHANGED <<now, session, read, message, barred, doomed>>

Settle(c, part) ==
  /\ at[c] = "change" /\ part \in todo[c]
  /\ todo' = [todo EXCEPT ![c] = @ \ {part}]
  /\ at' = [at EXCEPT ![c] = IF todo[c] = {part} THEN "done" ELSE @]
  /\ UNCHANGED request

(* From here on the tokens signed so far have to be refused.               *)
CallsIn(c) == barred' = IF todo'[c] = {} /\ now < key' THEN barred \cup Signed ELSE barred

WriteUser(c) ==
  /\ Settle(c, "user")
  /\ user' = IF request[c].kind = "role" THEN [user EXCEPT !.role = request[c].role]
             ELSE [user EXCEPT !.blocked = request[c].blocked]
  /\ UNCHANGED <<now, key, pair, counter, read, message, doomed>>
  /\ CallsIn(c)

Mutant_ShortKey(c) ==
  /\ Settle(c, "key")
  /\ key' = now + Life - 1
  /\ UNCHANGED <<now, user, pair, counter, read, message, doomed>>
  /\ CallsIn(c)
SetUserRequiredRefresh(c) ==
  /\ Settle(c, "key")
  /\ key' = now + Life
  /\ UNCHANGED <<now, user, pair, counter, read, message, doomed>>
  /\ CallsIn(c)

(* One of the writes fails: the caller is told so, the other one goes on.  *)
PartFails(c) ==
  /\ at[c] \in {"change", "failed"} /\ \E part \in todo[c] : todo' = [todo EXCEPT ![c] = @ \ {part}]
  /\ at' = [at EXCEPT ![c] = "failed"]
  /\ UNCHANGED <<now, session, request, read, message, barred, doomed>>

LateWriteUser(c) ==
  /\ at[c] = "failed" /\ todo[c] = {"user"}
  /\ todo' = [todo EXCEPT ![c] = {}]
  /\ user' = IF request[c].kind = "role" THEN [user EXCEPT !.role = request[c].role]
             ELSE [user EXCEPT !.blocked = request[c].blocked]
  /\ UNCHANGED <<now, key, pair, counter, at, request, read, message, barred, doomed>>

LateSetKey(c) ==
  /\ at[c] = "failed" /\ todo[c] = {"key"}
  /\ todo' = [todo EXCEPT ![c] = {}]
  /\ key' = now + Life
  /\ UNCHANGED <<now, user, pair, counter, at, request, read, message, barred, doomed>>

-----------------------------------------------------------------------------
(* canActivate: a route without a guard goes on at once, a request without *)
(* a token is refused or, by OptionalAuthGuard, goes on without a user.    *)
Without(route) == IF route.guard = "auth" THEN "failed" ELSE "queued"

StartCall(c, r) ==
  /\ r.kind = "call" /\ (r.with # None => Usable(r.with))
  /\ Begin(c, r, IF r.route.guard # "none" /\ r.with # None THEN "jwt" ELSE Without(r.route))
  /\ UNCHANGED <<now, session, read, todo, message, barred, doomed>>

(* JwtGuard of verifyJwt, and verifyToken after the look at the revoked    *)
(* tokens: both compare the token with the clock.                          *)
JwtGuard(c) ==
  /\ Goes(c, "jwt", IF now < Expires(request[c].with) THEN "verify" ELSE Without(request[c].route))
  /\ UNCHANGED <<now, session, read, todo, message, barred, doomed>>

VerifyToken(c) ==
  /\ Goes(c, "verify", IF now < Expires(request[c].with) THEN "key" ELSE Without(request[c].route))
  /\ UNCHANGED <<now, session, read, todo, message, barred, doomed>>

CheckIsRequiredRefresh(c) ==
  /\ Goes(c, "key", IF now < key THEN Without(request[c].route) ELSE "admit")
  /\ doomed' = [doomed EXCEPT ![c] = request[c].with \in barred]
  /\ UNCHANGED <<now, session, read, todo, message, barred>>

(* Back in the gateway: the role, and the clock once more.                 *)
Mutant_AnyRole(c) == now < Expires(request[c].with)
Accepted(c) ==
  /\ pair[request[c].with].role \in request[c].route.roles
  /\ now < Expires(request[c].with)

Admit(c) ==
  /\ Goes(c, "admit", IF Accepted(c) THEN "queued" ELSE Without(request[c].route))
  /\ who' = [who EXCEPT ![c] = IF Accepted(c) THEN pair[request[c].with].role ELSE None]
  /\ entered' = [entered EXCEPT ![c] = now]
  /\ UNCHANGED <<now, session, read, todo, runs, restarts, barred, doomed>>

-----------------------------------------------------------------------------
(* A message nobody handles is answered as such by the framework.          *)
Deliver(c) ==
  /\ at[c] = "queued"
  /\ LET handled == request[c].route.op \in Handlers[request[c].route.service] IN
       /\ Goes(c, "queued", IF handled THEN "working" ELSE "failed")
       /\ runs' = IF handled THEN [runs EXCEPT ![c] = @ + 1] ELSE runs
  /\ UNCHANGED <<now, session, read, todo, who, restarts, entered, barred, doomed>>

Mutant_AckLater(c) == at[c] # "working" /\ request[c].route.op \notin Unacknowledged
Acknowledged(c) == request[c].route.op \notin Unacknowledged

Answer(c) ==
  /\ Goes(c, "working", IF Acknowledged(c) THEN "done" ELSE "answered")
  /\ UNCHANGED <<now, session, read, todo, message, barred, doomed>>

(* A service dies and comes back: what it has acknowledged is gone, what   *)
(* it has not is delivered again.                                          *)
Restart(service) ==
  /\ restarts < MaxRestarts
  /\ restarts' = restarts + 1
  /\ at' = [c \in Calls |->
       IF at[c] \in {"working", "answered"} /\ request[c].route.service = service
         THEN IF Acknowledged(c) THEN "lost" ELSE "queued"
         ELSE at[c]]
  /\ at' # at
  /\ UNCHANGED <<now, session, request, read, todo, who, runs, entered, barred, doomed>>

Tick ==
  /\ now < MaxTime
  /\ now' = now + 1
  /\ UNCHANGED <<session, at, request, read, todo, message, barred, doomed>>

Init ==
  /\ now = 0 /\ key = 0
  /\ user = [role |-> FirstRole, blocked |-> FALSE]
  /\ pair = [t \in Tokens |-> IF t = First THEN [role |-> FirstRole, at |-> 0] ELSE None]
  /\ counter = [t \in Tokens |-> None]
  /\ at = [c \in Calls |-> "idle"]
  /\ request = [c \in Calls |-> NoRequest]
  /\ read = [c \in Calls |-> None]
  /\ todo = [c \in Calls |-> {}]
  /\ who = [c \in Calls |-> None]
  /\ runs = [c \in Calls |-> 0]
  /\ entered = [c \in Calls |-> 0]
  /\ restarts = 0
  /\ barred = {}
  /\ doomed = [c \in Calls |-> FALSE]

Starts(c, r) == StartLogin(c, r) \/ StartRefresh(c, r) \/ StartChange(c, r) \/ StartCall(c, r)

Steps(c) ==
  \/ CheckRefreshToken(c) \/ ReadUser(c) \/ SignTokens(c) \/ RemoveRequireRefresh(c)
  \/ ReadCounter(c) \/ RevokeRefreshToken(c) \/ Fail(c)
  \/ WriteUser(c) \/ SetUserRequiredRefresh(c) \/ PartFails(c) \/ LateWriteUser(c) \/ LateSetKey(c)
  \/ JwtGuard(c) \/ VerifyToken(c) \/ CheckIsRequiredRefresh(c) \/ Admit(c)
  \/ Deliver(c) \/ Answer(c)

Quiet == now = MaxTime /\ (\A c \in Calls : at[c] \in Ends \cup {"idle", "answered"}) /\ UNCHANGED vars

Next ==
  \/ \E c \in Calls : (\E r \in Menu[c] : Starts(c, r)) \/ Steps(c)
  \/ \E service \in DOMAIN Handlers : Restart(service)
  \/ Tick
  \/ Quiet

Spec == Init /\ [][Next]_vars

-----------------------------------------------------------------------------
(* When a change of the user's role or block is through, no request gets   *)
(* in any more by the tokens signed before, until somebody signs in or     *)
(* refreshes: the key lives as long as the access tokens, and what passes  *)
(* while it runs out meets the gateway's own look at the clock.            *)
StaleRoleRefused == \A c \in Calls : doomed[c] => who[c] = None

(* A handler runs only for a request that its guard let in, with the role  *)
(* of an unexpired token; every route leads to a service that handles it;  *)
(* and the roles are those CHANGELOG.md announces.  Two routes do not keep *)
(* to it, and are left out here: createCategory has no guard at all        *)
(* (CHANGELOG.md:15 says Staff), and getUserById of /users lets every role *)
(* in (CHANGELOG.md:18 says Manager).                                      *)
Changes(routes) == {r \in routes : r.service = "managements"}

Announced ==
  ((OrdersController \cup CartsController) \X {"User"})
    \cup ((OrderManagementController \cup Changes(AttributesController \cup CategoriesController)) \X {"Staff"})
    \cup (UsersController \X {"Manager"})

Diverging == {"createCategory", "getUserById"}

ServedRightly ==
  /\ NoRouteAstray
  /\ \A c \in Calls :
       /\ runs[c] > 0 /\ request[c].route.guard = "auth" => who[c] \in request[c].route.roles
       /\ runs[c] > 0 => \A p \in Announced :
            p[1] = request[c].route /\ p[1].op \notin Diverging => who[c] = p[2]
       /\ who[c] # None => who[c] = pair[request[c].with].role /\ entered[c] < Expires(request[c].with)

(* However often services restart, a request is not handled twice: its     *)
(* message is acknowledged before the work.  Only the reads whose handlers *)
(* never acknowledge are repeated.                                         *)
AtMostOnce ==
  \A c \in Calls : runs[c] > 1 => request[c].route.op \in Unacknowledged

(* A refresh token is not charged with a use that nobody made: of          *)
(* refreshes that overlap, revokeRefreshToken may lose uses, but the       *)
(* counter has never gone further down than the refreshes by this token    *)
(* that have ended well.                                                   *)
Uses(t) == {c \in Calls : request[c].kind = "refresh" /\ request[c].with = t /\ at[c] = "done"}

NoUseInvented ==
  \A t \in Tokens : counter[t] # None => MaxUses - counter[t] < Cardinality(Uses(t))

(* The limit does not do what it is there for.  The repository declares    *)
(* that a refresh token is revoked when it is used up ("Refresh token is   *)
(* revoked.", errorMessage.json:27; auth.util.service.ts:185), but the     *)
(* counter starts again at the last use: with any limit from 1 on no token *)
(* is ever found used up, and with 0 every token is after its first use.   *)
LimitIgnored == \A t \in Tokens : UsedUp(t) <=> MaxUses = 0 /\ counter[t] # None
=============================================================================
