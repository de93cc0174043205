------------------------------ MODULE Accounts ------------------------------
(***************************************************************************)
(* The account of one mail address under AuthService: registration, Google *)
(* and Facebook sign-in, the one-time codes that prove the address or a    *)
(* forgotten password, changes of the password, and the limit on the mails *)
(* sent again.  The profile updates of UsersMntService are here too: they  *)
(* write the whole document.  Every query of these handlers is by the mail *)
(* address, so that addresses share nothing but unique user names.         *)
(*                                                                         *)
(* The code a call generates and the password it sets are known by the     *)
(* call: codes are taken to be fresh, passwords to differ.  A crash loses  *)
(* the calls under way: they take no further step.                         *)
(***************************************************************************)
EXTENDS Integers, FiniteSets

CONSTANTS
  Calls,
  Menu,          \* the requests a call may carry
  FirstAccounts, \* the account there may be in the beginning
  First,         \* its password, and the codes there may be
  MailLimit,     \* mails sent again before the limit answers
  None

OtpType == {"VerifyEmail", "ForgotPassword"}
Ids == Calls \cup {First}

Account == [verified : BOOLEAN, password : Ids]

CodeKinds == {"verifyEmail", "reset"}
CreateKinds == {"register", "google", "social"}
SendKinds == {"register", "resend", "forgot"}
Requests ==
  [kind : CreateKinds \cup SendKinds \cup {"profile"}]
    \cup [kind : CodeKinds, code : Ids]
    \cup [kind : {"change"}, password : Ids]

ASSUME AccountsAssumption ==
  /\ First \notin Calls
  /\ None \notin Account /\ None \notin Requests /\ None \notin Ids
  /\ Menu \subseteq Requests
  /\ FirstAccounts \subseteq [verified : BOOLEAN, password : {First}] \cup {None}
  /\ MailLimit \in Nat \ {0}

VARIABLES
  account,    \* the users document
  otp,        \* the code stored for each purpose
  times,      \* the EMAIL_SENT counter, 0 when there is no key
  request,    \* what a call was asked
  at,         \* where a call stands
  copy,       \* the document a profile update has read
  seen,       \* the counter a call has read
  born,       \* history: the account as it was created
  held,       \* history: the passwords it has had
  stored,     \* history: the codes that were stored
  spent,      \* history: the codes that were accepted and removed
  last,       \* history: the code mailed last
  window,     \* history: mails let through since the counter was 0
  calm,       \* history: calls came one by one and lost no code
  alone       \* history: no other call was under way while this one was

code == <<account, otp, times, request, at, copy, seen>>
history == <<born, held, stored, spent, last, window, calm, alone>>
vars == <<code, history>>

Places == {"read", "create", "late", "count", "insert", "renew", "limit", "counted",
           "mail", "otp", "remove", "update"}

TypeOK ==
  /\ account \in Account \cup {None}
  /\ otp \in [OtpType -> Ids \cup {None}]
  /\ times \in 0 .. MailLimit
  /\ request \in [Calls -> Requests \cup {None}]
  /\ at \in [Calls -> Places \cup {"idle", "done", "failed"}]
  /\ copy \in [Calls -> Account \cup {None}]
  /\ seen \in [Calls -> 0 .. MailLimit - 1]
  /\ born \in Account \cup {None}
  /\ held \subseteq Ids
  /\ stored \in [OtpType -> SUBSET Ids]
  /\ spent \in [OtpType -> SUBSET Ids]
  /\ last \in [OtpType -> Ids \cup {None}]
  /\ window \subseteq Calls
  /\ calm \in BOOLEAN
  /\ alone \in [Calls -> BOOLEAN]

(* A code may be there already, stored and mailed, if there is an account. *)
Init ==
  /\ account \in FirstAccounts
  /\ otp \in [OtpType -> IF account = None THEN {None} ELSE {First, None}]
  /\ times = 0
  /\ request = [c \in Calls |-> None]
  /\ at = [c \in Calls |-> "idle"]
  /\ copy = [c \in Calls |-> None]
  /\ seen = [c \in Calls |-> 0]
  /\ born = account
  /\ held = IF account = None THEN {} ELSE {First}
  /\ stored = [t \in OtpType |-> {otp[t]} \ {None}]
  /\ spent = [t \in OtpType |-> {}]
  /\ last = otp
  /\ window = {}
  /\ calm = TRUE
  /\ alone = [c \in Calls |-> FALSE]

-----------------------------------------------------------------------------
Kind(c) == IF request[c] = None THEN "-" ELSE request[c].kind
UnderWay(c) == at[c] \in Places
Exists == account # None

(* The purpose of the code a call sends or asks for.                       *)
TypeOf(c) == IF Kind(c) \in {"forgot", "reset"} THEN "ForgotPassword" ELSE "VerifyEmail"

(* The call goes on, or its caller is told of a failure: also when a write *)
(* was done and its answer lost.                                           *)
GoOn(c, place) == at' = [at EXCEPT ![c] = place]
GoOnOrFail(c, place) == GoOn(c, place) \/ GoOn(c, "failed")

(* The history variables of the account and of calm, after every step.     *)
HasStored == {"insert", "renew", "limit", "counted", "mail"}

RememberCalls ==
  /\ calm' = (calm /\ \A c \in Calls : at[c] \in HasStored => at'[c] # "failed")
  /\ alone' = alone
RememberAccount ==
  /\ born' = IF born = None THEN account' ELSE born
  /\ held' = IF Exists' THEN held \cup {account'.password} ELSE held
Remember ==
  /\ RememberCalls
  /\ RememberAccount
  /\ UNCHANGED <<stored, spent, last, window>>

Start(c, r) ==
  /\ at[c] = "idle"
  /\ GoOn(c, "read")
  /\ request' = [request EXCEPT ![c] = r]
  /\ alone' = [d \in Calls |-> IF d = c THEN \A other \in Calls : ~ UnderWay(other)
                                        ELSE alone[d] /\ ~ UnderWay(d)]
  /\ calm' = (calm /\ \A other \in Calls : ~ UnderWay(other))
  /\ UNCHANGED <<account, otp, times, copy, seen, born, held, stored, spent, last, window>>

(* Any await may throw; so may a check left out here (two passwords that   *)
(* differ, a user name that is taken).                                     *)
Fail(c) ==
  /\ UnderWay(c)
  /\ GoOn(c, "failed")
  /\ UNCHANGED <<account, otp, times, request, copy, seen>>
  /\ Remember

-----------------------------------------------------------------------------
(* getUser, and what each handler asks of its answer.                      *)
Mutant_ChangeUnchecked(found, r) ==
  CASE r.kind = "register" -> found = None
    [] r.kind \in {"verifyEmail", "resend"} -> found # None /\ ~ found.verified
    [] r.kind \in {"forgot", "reset", "profile", "change"} -> found # None
    [] r.kind \in {"google", "social"} -> TRUE
Expected(found, r) ==
  CASE r.kind = "register" -> found = None
    [] r.kind \in {"verifyEmail", "resend"} -> found # None /\ ~ found.verified
    [] r.kind \in {"forgot", "reset", "profile"} -> found # None
    [] r.kind = "change" -> found # None /\ found.password = r.password
    [] r.kind \in {"google", "social"} -> TRUE

(* Where the handler goes on: a social sign-in that finds the account ends *)
(* there, with new tokens.                                                 *)
AfterRead(found, r) ==
  CASE r.kind = "register" -> "create"
    [] r.kind \in {"google", "social"} -> IF found = None THEN "create" ELSE "done"
    [] r.kind \in {"resend", "forgot"} -> "count"
    [] r.kind \in CodeKinds -> "otp"
    [] r.kind \in {"change", "profile"} -> "update"

Read(c) ==
  /\ at[c] = "read"
  /\ GoOn(c, IF Expected(account, request[c]) THEN AfterRead(account, request[c]) ELSE "failed")
  /\ copy' = [copy EXCEPT ![c] = IF Kind(c) = "profile" THEN account ELSE @]
  /\ UNCHANGED <<account, otp, times, request, seen>>
  /\ Remember

(* createUser: the unique index decides, whatever was counted before.      *)
MayInsert == ~ Exists

Create(c) ==
  /\ at[c] \in {"create", "late"}
  /\ IF MayInsert
     THEN /\ account' = [verified |-> Kind(c) = "google", password |-> c]
          /\ GoOnOrFail(c, CASE at[c] = "late" -> "failed"
                             [] at[c] = "create" /\ Kind(c) = "register" -> "count"
                             [] OTHER -> "done")
     ELSE UNCHANGED account /\ GoOn(c, "failed")
  /\ UNCHANGED <<otp, times, request, copy, seen>>
  /\ Remember

(* The users cache cannot be emptied: register fails, its insert goes on.  *)
CacheFails(c) ==
  /\ at[c] = "create" /\ Kind(c) = "register"
  /\ GoOn(c, "late")
  /\ UNCHANGED <<account, otp, times, request, copy, seen>>
  /\ Remember

-----------------------------------------------------------------------------
(* createOrRenewOtp: count, then renew what there is or insert; an insert  *)
(* fails on the unique index, a renewal when the code is gone by then.     *)
CountOtp(c) ==
  /\ at[c] = "count"
  /\ GoOn(c, IF otp[TypeOf(c)] = None THEN "insert" ELSE "renew")
  /\ UNCHANGED <<account, otp, times, request, copy, seen>>
  /\ Remember

Mutant_RenewKeepsCode(c) == IF otp[TypeOf(c)] = None THEN c ELSE otp[TypeOf(c)]
NewCode(c) == c

StoreOtp(c) ==
  LET t == TypeOf(c) IN
  /\ at[c] \in {"insert", "renew"}
  /\ IF at[c] = "insert" <=> otp[t] = None
     THEN /\ otp' = [otp EXCEPT ![t] = NewCode(c)]
          /\ stored' = [stored EXCEPT ![t] = @ \cup {c}]
          /\ GoOnOrFail(c, IF Kind(c) = "resend" THEN "limit" ELSE "mail")
     ELSE UNCHANGED <<otp, stored>> /\ GoOn(c, "failed")
  /\ UNCHANGED <<account, times, request, copy, seen, spent, last, window>>
  /\ RememberCalls /\ RememberAccount

(* limitEmailSent: the counter is read here and written in CountMail.      *)
UnderLimit(n) == n < MailLimit

Limit(c) ==
  /\ at[c] = "limit"
  /\ IF UnderLimit(times)
     THEN /\ seen' = [seen EXCEPT ![c] = times]
          /\ GoOn(c, "counted")
     ELSE UNCHANGED seen /\ GoOn(c, "failed")
  /\ UNCHANGED <<account, otp, times, request, copy>>
  /\ Remember

Counted(n) == n + 1

CountMail(c) ==
  /\ at[c] = "counted"
  /\ times' = Counted(seen[c])
  /\ window' = window \cup {c}
  /\ GoOnOrFail(c, "mail")
  /\ UNCHANGED <<account, otp, request, copy, seen, stored, spent, last>>
  /\ RememberCalls /\ RememberAccount

(* The mail is handed over as an event; nobody waits for it.               *)
Mail(c) ==
  /\ at[c] = "mail"
  /\ last' = [last EXCEPT ![TypeOf(c)] = c]
  /\ GoOn(c, "done")
  /\ UNCHANGED <<account, otp, times, request, copy, seen, stored, spent, window>>
  /\ RememberCalls /\ RememberAccount

-----------------------------------------------------------------------------
(* verifyOtp: the code is compared with the one stored for the same        *)
(* purpose; then whatever is stored for that purpose is removed.           *)
RightCode(c) == otp[TypeOf(c)] = request[c].code

CheckOtp(c) ==
  /\ at[c] = "otp"
  /\ GoOn(c, IF RightCode(c) THEN "remove" ELSE "failed")
  /\ UNCHANGED <<account, otp, times, request, copy, seen>>
  /\ Remember

WithoutOtp(t) == [otp EXCEPT ![t] = None]

RemoveOtp(c) ==
  LET t == TypeOf(c) IN
  /\ at[c] = "remove"
  /\ otp' = WithoutOtp(t)
  /\ spent' = [spent EXCEPT ![t] = @ \cup {request[c].code}]
  /\ GoOnOrFail(c, "update")
  /\ UNCHANGED <<account, times, request, copy, seen, stored, last, window>>
  /\ RememberCalls /\ RememberAccount

(* What the update makes of the document: one field, or all of it.         *)
Mutant_ResetUnverifies(c) ==
  CASE Kind(c) = "verifyEmail" -> [account EXCEPT !.verified = TRUE]
    [] Kind(c) \in {"reset", "change"} -> [verified |-> FALSE, password |-> c]
    [] Kind(c) = "profile" -> copy[c]
Updated(c) ==
  CASE Kind(c) = "verifyEmail" -> [account EXCEPT !.verified = TRUE]
    [] Kind(c) \in {"reset", "change"} -> [account EXCEPT !.password = c]
    [] Kind(c) = "profile" -> copy[c]

Update(c) ==
  /\ at[c] = "update"
  /\ account' = Updated(c)
  /\ GoOnOrFail(c, "done")
  /\ UNCHANGED <<otp, times, request, copy, seen>>
  /\ Remember

(* MongoDB removes a code, Redis a counter, when its time is over.         *)
OtpExpires(t) ==
  /\ otp[t] # None
  /\ otp' = [otp EXCEPT ![t] = None]
  /\ UNCHANGED <<account, times, request, at, copy, seen>>
  /\ Remember

LimitExpires ==
  /\ times # 0
  /\ times' = 0
  /\ window' = {}
  /\ UNCHANGED <<account, otp, request, at, copy, seen, stored, spent, last>>
  /\ RememberCalls /\ RememberAccount

Quiet ==
  /\ \A c \in Calls : at[c] # "idle" /\ ~ UnderWay(c)
  /\ UNCHANGED vars

CallStep(c) ==
  \/ Read(c) \/ Create(c) \/ CacheFails(c)
  \/ CountOtp(c) \/ StoreOtp(c) \/ Limit(c) \/ CountMail(c) \/ Mail(c)
  \/ CheckOtp(c) \/ RemoveOtp(c) \/ Update(c)
  \/ Fail(c)

Next ==
  \/ \E c \in Calls : \E r \in Menu : Start(c, r)
  \/ \E c \in Calls : CallStep(c)
  \/ \E t \in OtpType : OtpExpires(t)
  \/ LimitExpires
  \/ Quiet

Spec == Init /\ [][Next]_vars

-----------------------------------------------------------------------------
(* Every password the account ever had was set by a call with the right to *)
(* do so: the one that created the account, one that knew a code stored    *)
(* for a forgotten password, or one that knew a password the account had.  *)
PasswordProven ==
  Exists => \A p \in held \ {born.password} :
              \/ Kind(p) = "reset" /\ request[p].code \in stored["ForgotPassword"]
              \/ Kind(p) = "change" /\ request[p].password \in held \ {p}

(* The address of a verified account has been proved: it was when the      *)
(* account was created, or a call knew a code stored for it.  Neither      *)
(* whole-document writes nor codes for passwords verify it.                *)
VerifiedProven ==
  Exists /\ account.verified =>
    \/ born.verified
    \/ \E c \in Calls : /\ Kind(c) = "verifyEmail"
                        /\ request[c].code \in stored["VerifyEmail"]

(* A registration that reports success has created the account, so that    *)
(* two of them, or one and a social sign-in, never both think they have.   *)
RegisteredIsBorn ==
  \A c \in Calls : Kind(c) = "register" /\ at[c] = "done" =>
    Exists /\ born.password = c

(* A code that was accepted and removed is never good again (removeOtp).   *)
SpentCodeIsGone == \A t \in OtpType : otp[t] \notin spent[t]

(* A code that is stored is the one mailed last, as long as calls come one *)
(* by one and none fails between storing and mailing.  One over the limit  *)
(* is such: the code in the last mail is no longer good when it is refused *)
(* (resendVerifyEmailOtp).                                                 *)
LastMailWorks ==
  calm /\ (\A c \in Calls : ~ UnderWay(c)) =>
    \A t \in OtpType : otp[t] \in {None, last[t]}

(* Mails sent again, one at a time, stay within the limit (limitEmailSent);*)
(* overlapping calls may read the same counter.                            *)
WithinLimit == (\A c \in window : alone[c]) => Cardinality(window) <= MailLimit

(* What the mails promise: both of the above.                              *)
MailsInOrder == LastMailWorks /\ WithinLimit

(* Only a whole-document write that overlapped another call takes back a   *)
(* verification or a change of password.                                   *)
TakenBack ==
  /\ Exists /\ Exists'
  /\ \/ account.verified /\ ~ account'.verified
     \/ account'.password \in held \ {account.password}

NothingTakenBack ==
  [][TakenBack => \E c \in Calls : Kind(c) = "profile" /\ UnderWay(c) /\ ~ alone[c]]_vars
=============================================================================
