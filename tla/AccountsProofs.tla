--------------------------- MODULE AccountsProofs ---------------------------
(* Theorems about Accounts, for any calls, menu and limit, however the     *)
(* calls overlap.                                                          *)
EXTENDS Accounts, FiniteSetTheorems, TLAPS

ByCode(p) == Kind(p) = "reset" /\ request[p].code \in stored["ForgotPassword"]
ByPassword(p) == Kind(p) = "change" /\ request[p].password \in held \ {p}

AddressProven ==
  \/ born.verified
  \/ \E c \in Calls : Kind(c) = "verifyEmail" /\ request[c].code \in stored["VerifyEmail"]

(* A document, be it the stored one or a copy a profile update has read.   *)
DocSound(doc) ==
  /\ Exists
  /\ doc.password \in held
  /\ doc.verified => AddressProven

DocsSound ==
  /\ born = None <=> account = None
  /\ held # {} => Exists
  /\ \A p \in held : p = born.password \/ ByCode(p) \/ ByPassword(p)
  /\ Exists => DocSound(account)
  /\ \A c \in Calls : copy[c] # None => DocSound(copy[c])

OtpSound ==
  \A t \in OtpType :
    /\ otp[t] # None => otp[t] \in stored[t] \ spent[t]
    /\ spent[t] \subseteq stored[t]
    /\ \A c \in stored[t] \cap Calls : at[c] \in {"limit", "counted", "mail", "done", "failed"}

(* What a call has established when it stands where it stands.             *)
KnowsCode(c) == Kind(c) \in CodeKinds /\ request[c].code \in stored[TypeOf(c)]

CallSound(c) ==
  /\ at[c] = "idle" <=> request[c] = None
  /\ at[c] \in {"idle", "read"} => c \notin held
  /\ at[c] \in {"create", "late"} => Kind(c) \in CreateKinds
  /\ at[c] = "otp" => Kind(c) \in CodeKinds
  /\ at[c] = "remove" => Exists /\ KnowsCode(c)
  /\ at[c] = "update" =>
       /\ Exists
       /\ \/ KnowsCode(c)
          \/ ByPassword(c)
          \/ Kind(c) = "profile" /\ copy[c] # None
  /\ Kind(c) = "register" /\ at[c] \in {"count", "insert", "renew", "limit", "counted", "mail", "done"}
       => Exists /\ born.password = c
  /\ at[c] \in {"otp", "count"} => Exists

AccountsSound ==
  /\ TypeOK
  /\ DocsSound
  /\ OtpSound
  /\ \A c \in Calls : CallSound(c)

-----------------------------------------------------------------------------
States == Places \cup {"idle", "done", "failed"}

(* A step that leaves the account alone leaves its history alone.          *)
LEMMA AccountAside ==
  ASSUME DocsSound, RememberAccount, UNCHANGED account
  PROVE  UNCHANGED <<born, held>>
<1>1. born' = born
  BY DEF DocsSound, RememberAccount
<1>2. CASE Exists
  <2>1. account.password \in held
    BY <1>2 DEF DocsSound, DocSound
  <2>2. QED
    BY <1>1, <1>2, <2>1 DEF RememberAccount, Exists
<1>3. CASE ~ Exists
  BY <1>1, <1>3 DEF RememberAccount, Exists
<1>4. QED
  BY <1>2, <1>3

(* Codes may be stored, but documents and requests stay as they are.       *)
LEMMA DocsAside ==
  ASSUME DocsSound, UNCHANGED <<account, born, held, copy, request>>,
         \A t \in OtpType : stored[t] \subseteq stored'[t]
  PROVE  DocsSound'
<1>1. \A c : Kind(c)' = Kind(c)
  BY DEF Kind
<1>2. stored["VerifyEmail"] \subseteq stored'["VerifyEmail"]
      /\ stored["ForgotPassword"] \subseteq stored'["ForgotPassword"]
  BY DEF OtpType
<1>3. AddressProven => AddressProven'
  BY <1>1, <1>2 DEF AddressProven
<1>4. \A doc : DocSound(doc) => DocSound(doc)'
  BY <1>3 DEF DocSound, Exists
<1>5. \A p : (ByCode(p) => ByCode(p)') /\ (ByPassword(p) => ByPassword(p)')
  BY <1>1, <1>2 DEF ByCode, ByPassword
<1>6. /\ (born = None <=> account = None)'
      /\ (held # {} => Exists)'
      /\ (\A p \in held : p = born.password \/ ByCode(p) \/ ByPassword(p))'
  BY <1>5 DEF DocsSound, Exists
<1>7. (Exists => DocSound(account))'
  BY <1>4 DEF DocsSound, Exists
<1>8. (\A c \in Calls : copy[c] # None => DocSound(copy[c]))'
  BY <1>4 DEF DocsSound
<1>9. QED
  BY <1>6, <1>7, <1>8 DEF DocsSound

(* A call that moves on disturbs no other one, as long as what they know   *)
(* stays.                                                                  *)
LEMMA OthersSound ==
  ASSUME AccountsSound, NEW c \in Calls,
         \A d \in Calls \ {c} : at'[d] = at[d] /\ copy'[d] = copy[d],
         UNCHANGED request,
         Exists => Exists' /\ born' = born,
         held \subseteq held', held' \subseteq held \cup {c, account'.password},
         \/ account'.password \in held \cup {c}
         \/ UNCHANGED held,
         \A t \in OtpType : stored[t] \subseteq stored'[t]
  PROVE  \A d \in Calls \ {c} : CallSound(d)'
<1> SUFFICES ASSUME NEW d \in Calls \ {c}
             PROVE  CallSound(d)'
  OBVIOUS
<1>1. CallSound(d) /\ at'[d] = at[d] /\ copy'[d] = copy[d]
  BY DEF AccountsSound
<1>2. \A e : Kind(e)' = Kind(e) /\ TypeOf(e)' = TypeOf(e)
  BY DEF Kind, TypeOf
<1>3. KnowsCode(d) => KnowsCode(d)'
  <2>1. TypeOf(d) \in OtpType
    BY DEF TypeOf, OtpType
  <2>2. QED
    BY <1>2, <2>1 DEF KnowsCode
<1>4. ByPassword(d) => ByPassword(d)'
  BY <1>2 DEF ByPassword
<1>5. d \notin held => d \notin held'
  OBVIOUS
<1>6. QED
  BY <1>1, <1>2, <1>3, <1>4, <1>5 DEF CallSound

(* The codes are untouched, and no call that has stored one goes back.     *)
LEMMA OtpAside ==
  ASSUME AccountsSound, UNCHANGED <<otp, stored, spent>>, NEW c \in Calls,
         \A d \in Calls \ {c} : at'[d] = at[d],
         \/ at'[c] \in {"limit", "counted", "mail", "done", "failed"}
         \/ at[c] \notin {"limit", "counted", "mail", "done", "failed"}
  PROVE  OtpSound'
<1>1. ASSUME NEW t \in OtpType, NEW d \in stored[t] \cap Calls
      PROVE  at'[d] \in {"limit", "counted", "mail", "done", "failed"}
  <2>1. at[d] \in {"limit", "counted", "mail", "done", "failed"}
    BY <1>1 DEF AccountsSound, OtpSound
  <2>2. QED
    BY <2>1, <1>1
<1>2. QED
  BY <1>1 DEF AccountsSound, OtpSound

-----------------------------------------------------------------------------
(* The steps that change nothing but where a call stands, counters and     *)
(* what was mailed.                                                        *)
LEMMA Moved ==
  ASSUME AccountsSound, NEW c \in Calls, NEW place \in States \ {"idle", "read", "create", "update"},
         GoOn(c, place), at[c] # "idle",
         UNCHANGED <<account, otp, request, copy, stored, spent>>, RememberAccount,
         place = "late" => at[c] = "create",
         place = "remove" => at[c] = "otp" /\ RightCode(c),
         place \notin {"otp", "count"},
         place \in {"limit", "counted", "mail", "done", "insert", "renew"} =>
           at[c] \in {"count", "limit", "counted", "mail"},
         at[c] \in {"limit", "counted", "mail", "done", "failed"} =>
           place \in {"limit", "counted", "mail", "done", "failed"}
  PROVE  /\ UNCHANGED <<born, held>>
         /\ at' \in [Calls -> States]
         /\ DocsSound' /\ OtpSound' /\ \A d \in Calls : CallSound(d)'
<1>1. UNCHANGED <<born, held>>
  BY AccountAside DEF AccountsSound
<1>2. at \in [Calls -> States] /\ at' = [at EXCEPT ![c] = place]
  BY DEF AccountsSound, TypeOK, States, GoOn
<1>3. at' \in [Calls -> States] /\ at'[c] = place /\ \A d \in Calls \ {c} : at'[d] = at[d]
  BY <1>2
<1>4. DocsSound'
  BY <1>1, DocsAside DEF AccountsSound
<1>5. OtpSound'
  BY <1>3, OtpAside
<1>6. \A d \in Calls \ {c} : CallSound(d)'
  <2>1. UNCHANGED held /\ UNCHANGED born
    BY <1>1
  <2>2. Exists => Exists' /\ born' = born
    BY <2>1 DEF Exists
  <2>3. QED
    BY <1>3, <2>1, <2>2, OthersSound
<1>7. CallSound(c)'
  <2>1. CallSound(c)
    BY DEF AccountsSound
  <2>2. Kind(c)' = Kind(c) /\ TypeOf(c)' = TypeOf(c)
    BY DEF Kind, TypeOf
  <2>3. CASE place = "remove"
    <3>1. at[c] = "otp" /\ RightCode(c)
      BY <2>3
    <3>2. TypeOf(c) \in OtpType
      BY DEF TypeOf, OtpType
    <3>3. Kind(c) \in CodeKinds /\ request[c].code \in Ids /\ Exists
      <4>1. Kind(c) \in CodeKinds /\ Exists /\ request[c] # None
        BY <2>1, <3>1 DEF CallSound
      <4>2. request[c] \in Requests /\ request[c].kind \in CodeKinds
        BY <4>1 DEF AccountsSound, TypeOK, Kind
      <4>3. QED
        BY <4>1, <4>2 DEF Requests, CodeKinds, CreateKinds, SendKinds
    <3>4. request[c].code # None
      BY <3>3, AccountsAssumption
    <3>5. request[c].code \in stored[TypeOf(c)]
      BY <3>1, <3>2, <3>4 DEF RightCode, AccountsSound, OtpSound
    <3>6. KnowsCode(c)' /\ Exists'
      BY <2>2, <3>3, <3>5 DEF KnowsCode, Exists
    <3>7. Kind(c) # "register"
      BY <3>3 DEF CodeKinds
    <3>8. QED
      BY <1>3, <2>1, <2>2, <2>3, <3>1, <3>6, <3>7 DEF CallSound
  <2>4. CASE place # "remove"
    BY <1>1, <1>3, <2>1, <2>2, <2>4 DEF CallSound, Exists, States, Places
  <2>5. QED
    BY <2>3, <2>4
<1>8. QED
  BY <1>1, <1>3, <1>4, <1>5, <1>6, <1>7

-----------------------------------------------------------------------------
(* What the history of the account and of the calls keeps of the types.    *)
LEMMA HistoryTyped ==
  ASSUME TypeOK, RememberAccount, RememberCalls, account' \in Account \cup {None}
  PROVE  /\ born' \in Account \cup {None}
         /\ held' \subseteq Ids
         /\ calm' \in BOOLEAN
         /\ alone' \in [Calls -> BOOLEAN]
<1>1. born' \in Account \cup {None}
  BY DEF TypeOK, RememberAccount
<1>2. Exists' => account'.password \in Ids
  BY DEF Account, Exists
<1>3. held' \subseteq Ids
  BY <1>2 DEF TypeOK, RememberAccount
<1>4. calm' \in BOOLEAN /\ alone' = alone
  BY DEF TypeOK, RememberCalls
<1>5. QED
  BY <1>1, <1>3, <1>4 DEF TypeOK

LEMMA PurposeTyped == \A c : TypeOf(c) \in OtpType
BY DEF TypeOf, OtpType

LEMMA FailKeeps ==
  ASSUME AccountsSound, NEW c \in Calls, Fail(c)
  PROVE  AccountsSound'
<1>1. UNCHANGED <<account, otp, request, copy, stored, spent>> /\ RememberAccount
      /\ at[c] # "idle"
  BY DEF Fail, Remember, UnderWay, Places
<1>2. GoOn(c, "failed")
  BY DEF Fail
<1>3. at' \in [Calls -> States] /\ DocsSound' /\ OtpSound' /\ \A d \in Calls : CallSound(d)'
  BY <1>1, <1>2, Moved DEF States, Places
<1>4. TypeOK'
  BY <1>3, HistoryTyped DEF Fail, Remember, AccountsSound, TypeOK, States
<1>5. QED
  BY <1>3, <1>4 DEF AccountsSound

LEMMA CacheFailsKeeps ==
  ASSUME AccountsSound, NEW c \in Calls, CacheFails(c)
  PROVE  AccountsSound'
<1>1. UNCHANGED <<account, otp, request, copy, stored, spent>> /\ RememberAccount
      /\ at[c] = "create" /\ GoOn(c, "late")
  BY DEF CacheFails, Remember
<1>2. at' \in [Calls -> States] /\ DocsSound' /\ OtpSound' /\ \A d \in Calls : CallSound(d)'
  BY <1>1, Moved DEF States, Places
<1>3. TypeOK'
  BY <1>2, HistoryTyped DEF CacheFails, Remember, AccountsSound, TypeOK, States
<1>4. QED
  BY <1>2, <1>3 DEF AccountsSound

LEMMA CountOtpKeeps ==
  ASSUME AccountsSound, NEW c \in Calls, CountOtp(c)
  PROVE  AccountsSound'
<1>1. UNCHANGED <<account, otp, request, copy, stored, spent>> /\ RememberAccount
      /\ at[c] = "count"
  BY DEF CountOtp, Remember
<1>2. PICK place \in {"insert", "renew"} : GoOn(c, place)
  BY DEF CountOtp
<1>3. at' \in [Calls -> States] /\ DocsSound' /\ OtpSound' /\ \A d \in Calls : CallSound(d)'
  BY <1>1, <1>2, Moved DEF States, Places
<1>4. TypeOK'
  BY <1>3, HistoryTyped DEF CountOtp, Remember, AccountsSound, TypeOK, States
<1>5. QED
  BY <1>3, <1>4 DEF AccountsSound

LEMMA LimitKeeps ==
  ASSUME AccountsSound, NEW c \in Calls, Limit(c)
  PROVE  AccountsSound'
<1>1. UNCHANGED <<account, otp, request, copy, stored, spent>> /\ RememberAccount
      /\ at[c] = "limit"
  BY DEF Limit, Remember
<1>2. PICK place \in {"counted", "failed"} : GoOn(c, place)
  BY DEF Limit
<1>3. at' \in [Calls -> States] /\ DocsSound' /\ OtpSound' /\ \A d \in Calls : CallSound(d)'
  BY <1>1, <1>2, Moved DEF States, Places
<1>4. seen' \in [Calls -> 0 .. MailLimit - 1]
  BY AccountsAssumption DEF Limit, UnderLimit, AccountsSound, TypeOK
<1>5. TypeOK'
  BY <1>3, <1>4, HistoryTyped DEF Limit, Remember, AccountsSound, TypeOK, States
<1>6. QED
  BY <1>3, <1>5 DEF AccountsSound

LEMMA CountMailKeeps ==
  ASSUME AccountsSound, NEW c \in Calls, CountMail(c)
  PROVE  AccountsSound'
<1>1. UNCHANGED <<account, otp, request, copy, stored, spent>> /\ RememberAccount
      /\ at[c] = "counted"
  BY DEF CountMail
<1>2. PICK place \in {"mail", "failed"} : GoOn(c, place)
  BY DEF CountMail, GoOnOrFail
<1>3. at' \in [Calls -> States] /\ DocsSound' /\ OtpSound' /\ \A d \in Calls : CallSound(d)'
  BY <1>1, <1>2, Moved DEF States, Places
<1>4. times' \in 0 .. MailLimit
  <2>1. seen[c] \in 0 .. MailLimit - 1
    BY DEF AccountsSound, TypeOK
  <2>2. QED
    BY <2>1, AccountsAssumption DEF CountMail, Counted
<1>5. TypeOK'
  BY <1>3, <1>4, HistoryTyped DEF CountMail, AccountsSound, TypeOK, States
<1>6. QED
  BY <1>3, <1>5 DEF AccountsSound

LEMMA MailKeeps ==
  ASSUME AccountsSound, NEW c \in Calls, Mail(c)
  PROVE  AccountsSound'
<1>1. UNCHANGED <<account, otp, request, copy, stored, spent>> /\ RememberAccount
      /\ at[c] = "mail" /\ GoOn(c, "done")
  BY DEF Mail
<1>2. at' \in [Calls -> States] /\ DocsSound' /\ OtpSound' /\ \A d \in Calls : CallSound(d)'
  BY <1>1, Moved DEF States, Places
<1>3. last' \in [OtpType -> Ids \cup {None}]
  BY DEF Mail, AccountsSound, TypeOK, Ids
<1>4. TypeOK'
  BY <1>2, <1>3, HistoryTyped DEF Mail, AccountsSound, TypeOK, States
<1>5. QED
  BY <1>2, <1>4 DEF AccountsSound

LEMMA CheckOtpKeeps ==
  ASSUME AccountsSound, NEW c \in Calls, CheckOtp(c)
  PROVE  AccountsSound'
<1>1. UNCHANGED <<account, otp, request, copy, stored, spent>> /\ RememberAccount
      /\ at[c] = "otp"
  BY DEF CheckOtp, Remember
<1>2. PICK place \in {"remove", "failed"} : GoOn(c, place) /\ (place = "remove" => RightCode(c))
  BY DEF CheckOtp
<1>3. at' \in [Calls -> States] /\ DocsSound' /\ OtpSound' /\ \A d \in Calls : CallSound(d)'
  BY <1>1, <1>2, Moved DEF States, Places
<1>4. TypeOK'
  BY <1>3, HistoryTyped DEF CheckOtp, Remember, AccountsSound, TypeOK, States
<1>5. QED
  BY <1>3, <1>4 DEF AccountsSound

-----------------------------------------------------------------------------
(* The steps that store, accept or drop a code.                            *)
LEMMA StoreOtpKeeps ==
  ASSUME AccountsSound, NEW c \in Calls, StoreOtp(c)
  PROVE  AccountsSound'
<1> DEFINE t == TypeOf(c)
<1>1. t \in OtpType /\ c \in Ids /\ c # None
  BY PurposeTyped, AccountsAssumption DEF Ids
<1>2. /\ UNCHANGED <<account, times, request, copy, seen, spent, last, window>>
      /\ RememberCalls /\ RememberAccount
      /\ at[c] \in {"insert", "renew"}
  BY DEF StoreOtp
<1>3. UNCHANGED <<born, held>>
  BY <1>2, AccountAside DEF AccountsSound
<1>4. PICK place \in {"limit", "mail", "failed"} : GoOn(c, place)
  BY DEF StoreOtp, GoOnOrFail
<1>5. /\ at' \in [Calls -> States] /\ at'[c] = place
      /\ \A d \in Calls \ {c} : at'[d] = at[d]
  BY <1>4 DEF GoOn, AccountsSound, TypeOK, States, Places
<1>6. \/ /\ otp' = [otp EXCEPT ![t] = c]
         /\ stored' = [stored EXCEPT ![t] = @ \cup {c}]
      \/ UNCHANGED <<otp, stored>>
  BY DEF StoreOtp, NewCode
<1>7. /\ otp' \in [OtpType -> Ids \cup {None}]
      /\ stored' \in [OtpType -> SUBSET Ids]
      /\ \A u \in OtpType : stored[u] \subseteq stored'[u]
  BY <1>1, <1>6 DEF AccountsSound, TypeOK
<1>8. TypeOK'
  BY <1>2, <1>5, <1>7, HistoryTyped DEF AccountsSound, TypeOK, States
<1>9. DocsSound'
  BY <1>2, <1>3, <1>7, DocsAside DEF AccountsSound
<1>10. OtpSound'
  <2>1. c \notin stored[t] /\ c \notin spent[t]
    BY <1>1, <1>2 DEF AccountsSound, OtpSound
  <2>2. ASSUME NEW u \in OtpType
        PROVE  /\ otp'[u] # None => otp'[u] \in stored'[u] \ spent[u]
               /\ spent[u] \subseteq stored'[u]
               /\ stored'[u] \subseteq stored[u] \cup {c}
    BY <1>1, <1>6, <2>1 DEF AccountsSound, OtpSound, TypeOK
  <2>3. ASSUME NEW u \in OtpType, NEW d \in stored'[u] \cap Calls
        PROVE  at'[d] \in {"limit", "counted", "mail", "done", "failed"}
    BY <1>5, <2>2, <2>3 DEF AccountsSound, OtpSound
  <2>4. QED
    BY <1>2, <2>2, <2>3 DEF OtpSound
<1>11. \A d \in Calls \ {c} : CallSound(d)'
  <2>1. Exists => Exists' /\ born' = born
    BY <1>2, <1>3 DEF Exists
  <2>2. UNCHANGED held /\ UNCHANGED request /\ \A d \in Calls : copy'[d] = copy[d]
    BY <1>2, <1>3
  <2>3. QED
    BY <1>5, <1>7, <2>1, <2>2, OthersSound
<1>12. CallSound(c)'
  <2>1. CallSound(c) /\ Kind(c)' = Kind(c)
    BY <1>2 DEF AccountsSound, Kind
  <2>2. QED
    BY <1>2, <1>3, <1>5, <2>1 DEF CallSound, Exists
<1>13. QED
  BY <1>8, <1>9, <1>10, <1>11, <1>12 DEF AccountsSound

LEMMA RemoveOtpKeeps ==
  ASSUME AccountsSound, NEW c \in Calls, RemoveOtp(c)
  PROVE  AccountsSound'
<1> DEFINE t == TypeOf(c)
<1>1. t \in OtpType
  BY PurposeTyped
<1>2. /\ UNCHANGED <<account, times, request, copy, seen, stored, last, window>>
      /\ RememberCalls /\ RememberAccount
      /\ at[c] = "remove"
      /\ otp' = [otp EXCEPT ![t] = None]
      /\ spent' = [spent EXCEPT ![t] = @ \cup {request[c].code}]
  BY DEF RemoveOtp, WithoutOtp
<1>3. UNCHANGED <<born, held>>
  BY <1>2, AccountAside DEF AccountsSound
<1>4. PICK place \in {"update", "failed"} : GoOn(c, place)
  BY DEF RemoveOtp, GoOnOrFail
<1>5. /\ at' \in [Calls -> States] /\ at'[c] = place
      /\ \A d \in Calls \ {c} : at'[d] = at[d]
  BY <1>4 DEF GoOn, AccountsSound, TypeOK, States, Places
<1>6. CallSound(c) /\ Exists /\ KnowsCode(c)
  BY <1>2 DEF AccountsSound, CallSound
<1>7. request[c].code \in stored[t]
  BY <1>6 DEF KnowsCode
<1>8. TypeOK'
  <2>1. spent' \in [OtpType -> SUBSET Ids] /\ otp' \in [OtpType -> Ids \cup {None}]
    BY <1>1, <1>2, <1>7 DEF AccountsSound, TypeOK
  <2>2. QED
    BY <1>2, <1>5, <2>1, HistoryTyped DEF AccountsSound, TypeOK, States
<1>9. DocsSound'
  BY <1>2, <1>3, DocsAside DEF AccountsSound
<1>10. OtpSound'
  <2>1. ASSUME NEW u \in OtpType
        PROVE  /\ otp'[u] # None => otp'[u] \in stored[u] \ spent'[u]
               /\ spent'[u] \subseteq stored[u]
    BY <1>1, <1>2, <1>7 DEF AccountsSound, OtpSound, TypeOK
  <2>2. ASSUME NEW u \in OtpType, NEW d \in stored[u] \cap Calls
        PROVE  at'[d] \in {"limit", "counted", "mail", "done", "failed"}
    BY <1>2, <1>5, <2>2 DEF AccountsSound, OtpSound
  <2>3. QED
    BY <1>2, <2>1, <2>2 DEF OtpSound
<1>11. \A d \in Calls \ {c} : CallSound(d)'
  <2>1. Exists => Exists' /\ born' = born
    BY <1>2, <1>3 DEF Exists
  <2>2. /\ UNCHANGED held /\ UNCHANGED request
        /\ \A d \in Calls : copy'[d] = copy[d]
        /\ \A u \in OtpType : stored[u] \subseteq stored'[u]
    BY <1>2, <1>3
  <2>3. QED
    BY <1>5, <2>1, <2>2, OthersSound
<1>12. CallSound(c)'
  <2>1. Kind(c)' = Kind(c) /\ TypeOf(c)' = TypeOf(c) /\ Kind(c) \in CodeKinds
    BY <1>2, <1>6 DEF Kind, TypeOf, KnowsCode
  <2>2. KnowsCode(c)' /\ Exists'
    BY <1>2, <1>6, <2>1 DEF KnowsCode, Exists
  <2>3. QED
    BY <1>2, <1>3, <1>5, <1>6, <2>1, <2>2 DEF CallSound, CodeKinds
<1>13. QED
  BY <1>8, <1>9, <1>10, <1>11, <1>12 DEF AccountsSound

(* Nothing a call relies on changes.                                       *)
LEMMA CallsAside ==
  ASSUME UNCHANGED <<at, request, copy, born, held, account, stored>>,
         NEW c \in Calls, CallSound(c)
  PROVE  CallSound(c)'
<1>1. /\ Kind(c)' = Kind(c) /\ TypeOf(c)' = TypeOf(c)
      /\ (Exists <=> Exists')
  BY DEF Kind, TypeOf, Exists
<1>2. (KnowsCode(c) <=> KnowsCode(c)') /\ (ByPassword(c) <=> ByPassword(c)')
  BY <1>1 DEF KnowsCode, ByPassword
<1>3. QED
  BY <1>1, <1>2 DEF CallSound

LEMMA OtpExpiresKeeps ==
  ASSUME AccountsSound, NEW t \in OtpType, OtpExpires(t)
  PROVE  AccountsSound'
<1>1. /\ UNCHANGED <<account, times, request, at, copy, seen, stored, spent, last, window>>
      /\ RememberCalls /\ RememberAccount
      /\ otp' = [otp EXCEPT ![t] = None]
  BY DEF OtpExpires, Remember
<1>2. UNCHANGED <<born, held>>
  BY <1>1, AccountAside DEF AccountsSound
<1>3. TypeOK'
  <2>1. otp' \in [OtpType -> Ids \cup {None}]
    BY <1>1 DEF AccountsSound, TypeOK
  <2>2. QED
    BY <1>1, <2>1, HistoryTyped DEF AccountsSound, TypeOK
<1>4. DocsSound'
  BY <1>1, <1>2, DocsAside DEF AccountsSound
<1>5. OtpSound'
  <2>1. ASSUME NEW u \in OtpType
        PROVE  otp'[u] # None => otp'[u] \in stored[u] \ spent[u]
    BY <1>1 DEF AccountsSound, OtpSound, TypeOK
  <2>2. QED
    BY <1>1, <2>1 DEF AccountsSound, OtpSound
<1>6. \A c \in Calls : CallSound(c)'
  BY <1>1, <1>2, CallsAside DEF AccountsSound
<1>7. QED
  BY <1>3, <1>4, <1>5, <1>6 DEF AccountsSound

(* Only the counter, or nothing, changes.                                  *)
LEMMA CounterAside ==
  ASSUME AccountsSound, times' \in 0 .. MailLimit, window' \subseteq Calls,
         UNCHANGED <<account, otp, request, at, copy, seen, stored, spent, last>>,
         \/ RememberCalls /\ RememberAccount
         \/ UNCHANGED history
  PROVE  AccountsSound'
<1>1. UNCHANGED <<born, held>>
  BY AccountAside DEF AccountsSound, history
<1>2. TypeOK'
  BY HistoryTyped DEF AccountsSound, TypeOK, history
<1>3. DocsSound'
  BY <1>1, DocsAside DEF AccountsSound
<1>4. OtpSound'
  BY DEF AccountsSound, OtpSound
<1>5. \A c \in Calls : CallSound(c)'
  BY <1>1, CallsAside DEF AccountsSound
<1>6. QED
  BY <1>2, <1>3, <1>4, <1>5 DEF AccountsSound

-----------------------------------------------------------------------------
(* The kinds of a request that is there.                                   *)
LEMMA KnownKind ==
  ASSUME AccountsSound, NEW c \in Calls, at[c] # "idle"
  PROVE  /\ request[c] \in Requests /\ Kind(c) = request[c].kind
         /\ Kind(c) \in CreateKinds \cup SendKinds \cup CodeKinds \cup {"change", "profile"}
<1>1. request[c] \in Requests
  BY DEF AccountsSound, CallSound, TypeOK
<1>2. request[c] # None
  BY <1>1, AccountsAssumption
<1>3. QED
  BY <1>1, <1>2 DEF Kind, Requests

LEMMA ReadKeeps ==
  ASSUME AccountsSound, NEW c \in Calls, Read(c)
  PROVE  AccountsSound'
<1> DEFINE r == request[c]
           place == IF Expected(account, r) THEN AfterRead(account, r) ELSE "failed"
<1>1. /\ UNCHANGED <<account, otp, times, request, seen, stored, spent, last, window>>
      /\ RememberCalls /\ RememberAccount
      /\ at[c] = "read" /\ GoOn(c, place)
      /\ copy' = [copy EXCEPT ![c] = IF Kind(c) = "profile" THEN account ELSE @]
  BY DEF Read, Remember
<1>2. r \in Requests /\ Kind(c) = r.kind
      /\ Kind(c) \in CreateKinds \cup SendKinds \cup CodeKinds \cup {"change", "profile"}
  BY <1>1, KnownKind
<1>3. UNCHANGED <<born, held>>
  BY <1>1, AccountAside DEF AccountsSound
<1>4. place \in {"create", "done", "count", "otp", "update", "failed"}
  BY <1>2 DEF AfterRead, CreateKinds, SendKinds, CodeKinds
<1>5. /\ at' \in [Calls -> States] /\ at'[c] = place
      /\ \A d \in Calls \ {c} : at'[d] = at[d]
  BY <1>1, <1>4 DEF GoOn, AccountsSound, TypeOK, States, Places
<1>6. /\ copy' \in [Calls -> Account \cup {None}]
      /\ \A d \in Calls \ {c} : copy'[d] = copy[d]
      /\ copy'[c] \in {copy[c], account}
  BY <1>1 DEF AccountsSound, TypeOK
<1>7. TypeOK'
  BY <1>1, <1>5, <1>6, HistoryTyped DEF AccountsSound, TypeOK, States
<1>8. DocsSound'
  <2>1. \A d : Kind(d)' = Kind(d)
    BY <1>1 DEF Kind
  <2>2. \A doc : DocSound(doc)' <=> DocSound(doc)
    BY <1>1, <1>3, <2>1 DEF DocSound, Exists, AddressProven
  <2>3. \A p : (ByCode(p)' <=> ByCode(p)) /\ (ByPassword(p)' <=> ByPassword(p))
    BY <1>1, <1>3, <2>1 DEF ByCode, ByPassword
  <2>4. ASSUME NEW d \in Calls, copy'[d] # None
        PROVE  DocSound(copy'[d])
    <3>1. CASE copy'[d] = copy[d]
      BY <2>4, <3>1 DEF AccountsSound, DocsSound
    <3>2. CASE copy'[d] = account
      BY <2>4, <3>2 DEF AccountsSound, DocsSound, Exists
    <3>3. QED
      BY <1>6, <3>1, <3>2
  <2>5. (Exists => DocSound(account))' /\ (Exists' <=> Exists)
    BY <1>1, <2>2 DEF AccountsSound, DocsSound, Exists
  <2>6. (\A d \in Calls : copy[d] # None => DocSound(copy[d]))'
    BY <2>2, <2>4
  <2>7. (\A p \in held : p = born.password \/ ByCode(p) \/ ByPassword(p))'
    BY <1>3, <2>3 DEF AccountsSound, DocsSound
  <2>8. QED
    BY <1>1, <1>3, <2>5, <2>6, <2>7 DEF AccountsSound, DocsSound
<1>9. OtpSound'
  BY <1>1, <1>5, OtpAside
<1>10. \A d \in Calls \ {c} : CallSound(d)'
  <2>1. Exists => Exists' /\ born' = born
    BY <1>1, <1>3 DEF Exists
  <2>2. /\ UNCHANGED held /\ UNCHANGED request
        /\ \A u \in OtpType : stored[u] \subseteq stored'[u]
    BY <1>1, <1>3
  <2>3. QED
    BY <1>5, <1>6, <2>1, <2>2, OthersSound
<1>11. CallSound(c)'
  <2>1. CallSound(c) /\ Kind(c)' = Kind(c) /\ request'[c] # None /\ c \notin held'
    <3>1. CallSound(c) /\ Kind(c)' = Kind(c)
      BY <1>1 DEF AccountsSound, Kind
    <3>2. QED
      BY <1>1, <1>3, <3>1 DEF CallSound
  <2>2. CASE place = "failed"
    BY <1>5, <2>1, <2>2 DEF CallSound
  <2>3. CASE place = "create"
    <3>1. Kind(c) \in CreateKinds
      BY <1>2, <1>4, <2>3 DEF AfterRead, CreateKinds, SendKinds, CodeKinds
    <3>2. QED
      BY <1>5, <2>1, <2>3, <3>1 DEF CallSound
  <2>4. CASE place = "done"
    <3>1. Kind(c) \in {"google", "social"}
      BY <1>2, <2>4 DEF AfterRead, CreateKinds, SendKinds, CodeKinds
    <3>2. QED
      BY <1>5, <2>1, <2>4, <3>1 DEF CallSound
  <2>5. CASE place \in {"count", "otp"}
    <3>1. Expected(account, r) /\ AfterRead(account, r) = place
      BY <2>5
    <3>2. /\ Kind(c) \in {"resend", "forgot"} \cup CodeKinds
          /\ place = "otp" => Kind(c) \in CodeKinds
      BY <1>2, <2>5, <3>1 DEF AfterRead, CreateKinds, SendKinds, CodeKinds
    <3>3. Exists'
      BY <1>1, <1>2, <3>1, <3>2 DEF Expected, Exists, CodeKinds
    <3>4. QED
      BY <1>5, <2>1, <2>5, <3>2, <3>3 DEF CallSound, CodeKinds
  <2>6. CASE place = "update"
    <3>1. Expected(account, r) /\ AfterRead(account, r) = place
      BY <2>6
    <3>2. Kind(c) \in {"change", "profile"}
      BY <1>2, <2>6, <3>1 DEF AfterRead, CreateKinds, SendKinds, CodeKinds
    <3>3. Exists'
      BY <1>1, <1>2, <3>1, <3>2 DEF Expected, Exists
    <3>4. CASE Kind(c) = "change"
      <4>1. account.password = r.password /\ account.password \in held
        BY <1>1, <1>2, <3>1, <3>3, <3>4 DEF Expected, AccountsSound, DocsSound, DocSound, Exists
      <4>2. ByPassword(c)'
        BY <1>1, <1>3, <2>1, <3>4, <4>1 DEF ByPassword
      <4>3. QED
        BY <1>5, <2>1, <2>6, <3>3, <3>4, <4>2 DEF CallSound
    <3>5. CASE Kind(c) = "profile"
      <4>1. copy'[c] # None
        BY <1>1, <3>3, <3>5 DEF Exists, AccountsSound, TypeOK
      <4>2. QED
        BY <1>5, <2>1, <2>6, <3>3, <3>5, <4>1 DEF CallSound
    <3>6. QED
      BY <3>2, <3>4, <3>5
  <2>7. QED
    BY <1>4, <2>2, <2>3, <2>4, <2>5, <2>6
<1>12. QED
  BY <1>7, <1>8, <1>9, <1>10, <1>11 DEF AccountsSound

-----------------------------------------------------------------------------
LEMMA CreateKeeps ==
  ASSUME AccountsSound, NEW c \in Calls, Create(c)
  PROVE  AccountsSound'
<1>1. /\ UNCHANGED <<otp, times, request, copy, seen, stored, spent, last, window>>
      /\ RememberCalls /\ RememberAccount
      /\ at[c] \in {"create", "late"}
  BY DEF Create, Remember
<1>2. CASE Exists
  <2>1. UNCHANGED account /\ GoOn(c, "failed")
    BY <1>2 DEF Create, MayInsert
  <2>2. at' \in [Calls -> States] /\ DocsSound' /\ OtpSound' /\ \A d \in Calls : CallSound(d)'
    BY <1>1, <2>1, Moved DEF States, Places
  <2>3. TypeOK'
    BY <1>1, <2>1, <2>2, HistoryTyped DEF AccountsSound, TypeOK, States
  <2>4. QED
    BY <2>2, <2>3 DEF AccountsSound
<1>3. CASE ~ Exists
  <2>1. account' = [verified |-> Kind(c) = "google", password |-> c]
    BY <1>3 DEF Create, MayInsert
  <2>2. account' \in Account /\ account' # None /\ account'.password = c
    <3>1. account'.password = c
      BY <2>1
    <3>2. (Kind(c) = "google") \in BOOLEAN /\ c \in Ids
      BY DEF Ids
    <3>3. account' \in Account
      BY <2>1, <3>2 DEF Account
    <3>4. QED
      BY <3>1, <3>3, AccountsAssumption
  <2>3. account = None /\ born = None /\ held = {}
    BY <1>3 DEF Exists, AccountsSound, DocsSound
  <2>4. Exists' /\ born' = account' /\ held' = {c}
    BY <1>1, <2>2, <2>3 DEF RememberAccount, Exists
  <2>5. \E place \in {"failed", "count", "done"} : GoOn(c, place)
    BY <1>1, <1>3 DEF Create, MayInsert, GoOnOrFail
  <2>6. PICK place \in {"failed", "count", "done"} : GoOn(c, place)
    BY <2>5
  <2>7. /\ at' \in [Calls -> States] /\ at'[c] = place
        /\ \A d \in Calls \ {c} : at'[d] = at[d]
    BY <2>6 DEF GoOn, AccountsSound, TypeOK, States, Places
  <2>8. TypeOK'
    BY <1>1, <2>2, <2>7, HistoryTyped DEF AccountsSound, TypeOK, States
  <2>9. DocsSound'
    <3>1. \A d \in Calls : copy'[d] = None
      BY <1>1, <1>3 DEF AccountsSound, DocsSound, DocSound
    <3>2. (\A p \in held : p = born.password \/ ByCode(p) \/ ByPassword(p))'
      BY <2>2, <2>4
    <3>3. DocSound(account)'
      BY <2>2, <2>4 DEF DocSound, AddressProven
    <3>4. QED
      BY <2>2, <2>4, <3>1, <3>2, <3>3 DEF DocsSound
  <2>10. OtpSound'
    BY <1>1, <2>7, OtpAside
  <2>11. \A d \in Calls \ {c} : CallSound(d)'
    <3>1. /\ UNCHANGED request
          /\ \A d \in Calls \ {c} : copy'[d] = copy[d]
          /\ \A u \in OtpType : stored[u] \subseteq stored'[u]
          /\ held \subseteq held' /\ held' \subseteq held \cup {c, account'.password}
          /\ account'.password \in held \cup {c}
          /\ (Exists => Exists' /\ born' = born)
      BY <1>1, <1>3, <2>2, <2>3, <2>4
    <3>2. QED
      BY <2>7, <3>1, OthersSound
  <2>12. CallSound(c)'
    <3>1. CallSound(c) /\ Kind(c)' = Kind(c)
      BY <1>1 DEF AccountsSound, Kind
    <3>2. QED
      BY <1>1, <2>2, <2>4, <2>7, <3>1 DEF CallSound
  <2>13. QED
    BY <2>8, <2>9, <2>10, <2>11, <2>12 DEF AccountsSound
<1>4. QED
  BY <1>2, <1>3

(* What an update makes of a sound document: its password is the call's    *)
(* own or one the account has had, and a call that verifies knew a code.   *)
LEMMA UpdatedSound ==
  ASSUME AccountsSound, NEW c \in Calls, at[c] = "update"
  PROVE  /\ Updated(c) \in Account
         /\ \/ Updated(c).password \in held
            \/ Updated(c).password = c /\ (ByCode(c) \/ ByPassword(c))
         /\ Updated(c).verified => AddressProven
<1>1. account \in Account /\ DocSound(account) /\ Exists
  BY DEF AccountsSound, CallSound, DocsSound, TypeOK, Exists
<1>2. CASE KnowsCode(c) /\ Kind(c) = "verifyEmail"
  <2>1. TypeOf(c) = "VerifyEmail"
    BY <1>2 DEF TypeOf
  <2>2. AddressProven
    BY <1>2, <2>1 DEF KnowsCode, AddressProven
  <2>3. Updated(c) = [account EXCEPT !.verified = TRUE]
    BY <1>2 DEF Updated
  <2>4. Updated(c) \in Account /\ Updated(c).password = account.password
    BY <1>1, <2>3 DEF Account
  <2>5. Updated(c).password \in held
    BY <1>1, <2>4 DEF DocSound
  <2>6. QED
    BY <2>2, <2>4, <2>5
<1>3. CASE (KnowsCode(c) /\ Kind(c) = "reset") \/ ByPassword(c)
  <2>1. Updated(c) = [account EXCEPT !.password = c]
    BY <1>3 DEF Updated, ByPassword
  <2>2. TypeOf(c) = "ForgotPassword" \/ ByPassword(c)
    BY <1>3 DEF TypeOf
  <2>3. ByCode(c) \/ ByPassword(c)
    BY <1>3, <2>2 DEF KnowsCode, ByCode
  <2>4. QED
    BY <1>1, <2>1, <2>3 DEF Account, DocSound, Ids
<1>4. CASE Kind(c) = "profile" /\ copy[c] # None
  <2>1. Updated(c) = copy[c] /\ DocSound(copy[c]) /\ copy[c] \in Account
    BY <1>4 DEF Updated, AccountsSound, DocsSound, TypeOK
  <2>2. copy[c].password \in held /\ (copy[c].verified => AddressProven)
    BY <2>1 DEF DocSound
  <2>3. QED
    BY <2>1, <2>2
<1>5. QED
  BY <1>2, <1>3, <1>4 DEF AccountsSound, CallSound, KnowsCode, CodeKinds

LEMMA UpdateKeeps ==
  ASSUME AccountsSound, NEW c \in Calls, Update(c)
  PROVE  AccountsSound'
<1>1. /\ UNCHANGED <<otp, times, request, copy, seen, stored, spent, last, window>>
      /\ RememberCalls /\ RememberAccount
      /\ at[c] = "update" /\ account' = Updated(c)
  BY DEF Update, Remember
<1>2. PICK place \in {"failed", "done"} : GoOn(c, place)
  BY DEF Update, GoOnOrFail
<1>3. /\ at' \in [Calls -> States] /\ at'[c] = place
      /\ \A d \in Calls \ {c} : at'[d] = at[d]
  BY <1>2 DEF GoOn, AccountsSound, TypeOK, States, Places
<1>4. /\ account' \in Account
      /\ \/ account'.password \in held
         \/ account'.password = c /\ (ByCode(c) \/ ByPassword(c))
      /\ account'.verified => AddressProven
  BY <1>1, UpdatedSound
<1>5. Exists /\ born # None
  BY <1>1 DEF AccountsSound, CallSound, DocsSound, Exists
<1>6. Exists' /\ born' = born /\ held' = held \cup {account'.password}
  BY <1>1, <1>4, <1>5, AccountsAssumption DEF RememberAccount, Exists
<1>7. TypeOK'
  BY <1>1, <1>3, <1>4, HistoryTyped DEF AccountsSound, TypeOK, States
<1>8. \A d : Kind(d)' = Kind(d)
  BY <1>1 DEF Kind
<1>9. DocsSound'
  <2>1. AddressProven' <=> AddressProven
    BY <1>1, <1>6, <1>8 DEF AddressProven
  <2>2. \A doc : DocSound(doc) => DocSound(doc)'
    BY <1>6, <2>1 DEF DocSound
  <2>3. \A p : (ByCode(p) => ByCode(p)') /\ (ByPassword(p) => ByPassword(p)')
    BY <1>1, <1>6, <1>8 DEF ByCode, ByPassword
  <2>4. ASSUME NEW p \in held'
        PROVE  p = born.password \/ ByCode(p)' \/ ByPassword(p)'
    <3>1. CASE p \in held
      BY <3>1, <2>3 DEF AccountsSound, DocsSound
    <3>2. CASE p \notin held
      BY <3>2, <1>4, <1>6, <2>3
    <3>3. QED
      BY <3>1, <3>2
  <2>5. DocSound(account)'
    BY <1>4, <1>6, <2>1 DEF DocSound
  <2>6. (\A d \in Calls : copy[d] # None => DocSound(copy[d]))'
    BY <1>1, <2>2 DEF AccountsSound, DocsSound
  <2>7. (born = None <=> account = None)'
    BY <1>5, <1>6 DEF Exists
  <2>8. (\A p \in held : p = born.password \/ ByCode(p) \/ ByPassword(p))'
    BY <1>6, <2>4
  <2>9. QED
    BY <1>6, <2>5, <2>6, <2>7, <2>8 DEF DocsSound
<1>10. OtpSound'
  BY <1>1, <1>3, OtpAside
<1>11. \A d \in Calls \ {c} : CallSound(d)'
  <2>1. /\ UNCHANGED request
        /\ \A d \in Calls \ {c} : copy'[d] = copy[d]
        /\ \A u \in OtpType : stored[u] \subseteq stored'[u]
        /\ held \subseteq held' /\ held' \subseteq held \cup {c, account'.password}
        /\ account'.password \in held \cup {c}
        /\ (Exists => Exists' /\ born' = born)
    BY <1>1, <1>4, <1>6
  <2>2. QED
    BY <1>3, <2>1, OthersSound
<1>12. CallSound(c)'
  <2>1. CallSound(c) /\ Kind(c)' = Kind(c)
    BY <1>8 DEF AccountsSound
  <2>2. Kind(c) # "register"
    BY <1>1, <2>1 DEF CallSound, KnowsCode, ByPassword, CodeKinds
  <2>3. QED
    BY <1>1, <1>3, <2>1, <2>2 DEF CallSound
<1>13. QED
  BY <1>7, <1>9, <1>10, <1>11, <1>12 DEF AccountsSound

-----------------------------------------------------------------------------
LEMMA StartKeeps ==
  ASSUME AccountsSound, NEW c \in Calls, NEW r \in Menu, Start(c, r)
  PROVE  AccountsSound'
<1>1. /\ UNCHANGED <<account, otp, times, copy, seen, born, held, stored, spent, last, window>>
      /\ at[c] = "idle" /\ request' = [request EXCEPT ![c] = r]
  BY DEF Start
<1>2. r \in Requests /\ r # None
  BY AccountsAssumption
<1>3. request[c] = None /\ Kind(c) = "-" /\ c \notin held
  <2>1. CallSound(c)
    BY DEF AccountsSound
  <2>2. QED
    BY <1>1, <2>1 DEF CallSound, Kind
<1>4. /\ at' \in [Calls -> States] /\ at'[c] = "read"
      /\ \A d \in Calls \ {c} : at'[d] = at[d]
  BY DEF Start, GoOn, AccountsSound, TypeOK, States, Places
<1>5. /\ request' \in [Calls -> Requests \cup {None}] /\ request'[c] = r
      /\ \A d : d # c => request'[d] = request[d]
  BY <1>1, <1>2 DEF AccountsSound, TypeOK
<1>6. \A d : d # c => Kind(d)' = Kind(d) /\ TypeOf(d)' = TypeOf(d)
  BY <1>5 DEF Kind, TypeOf
<1>7. TypeOK'
  <2>1. calm' \in BOOLEAN /\ alone' \in [Calls -> BOOLEAN]
    <3>1. calm' \in BOOLEAN
      BY DEF Start
    <3>2. alone' = [d \in Calls |-> IF d = c THEN \A other \in Calls : ~ UnderWay(other)
                                            ELSE alone[d] /\ ~ UnderWay(d)]
      BY DEF Start
    <3>3. \A d \in Calls : (IF d = c THEN \A other \in Calls : ~ UnderWay(other)
                                    ELSE alone[d] /\ ~ UnderWay(d)) \in BOOLEAN
      OBVIOUS
    <3>4. QED
      BY <3>1, <3>2, <3>3
  <2>2. QED
    BY <1>1, <1>4, <1>5, <2>1 DEF AccountsSound, TypeOK, States
<1>8. DocsSound'
  <2>1. AddressProven => AddressProven'
    <3>1. \A d \in Calls : Kind(d) = "verifyEmail" => d # c
      BY <1>3
    <3>2. QED
      BY <1>1, <1>5, <1>6, <3>1 DEF AddressProven
  <2>2. \A doc : DocSound(doc) => DocSound(doc)'
    BY <1>1, <2>1 DEF DocSound, Exists
  <2>3. \A p : (ByCode(p) => ByCode(p)') /\ (ByPassword(p) => ByPassword(p)')
    BY <1>1, <1>3, <1>5, <1>6 DEF ByCode, ByPassword
  <2>4. /\ (born = None <=> account = None)'
        /\ (held # {} => Exists)'
        /\ (\A p \in held : p = born.password \/ ByCode(p) \/ ByPassword(p))'
    BY <1>1, <2>3 DEF AccountsSound, DocsSound, Exists
  <2>5. (Exists => DocSound(account))'
    BY <1>1, <2>2 DEF AccountsSound, DocsSound, Exists
  <2>6. (\A d \in Calls : copy[d] # None => DocSound(copy[d]))'
    BY <1>1, <2>2 DEF AccountsSound, DocsSound
  <2>7. QED
    BY <2>4, <2>5, <2>6 DEF DocsSound
<1>9. OtpSound'
  BY <1>1, <1>4, OtpAside
<1>10. ASSUME NEW d \in Calls \ {c}
       PROVE  CallSound(d)'
  <2>1. /\ CallSound(d) /\ at'[d] = at[d] /\ request'[d] = request[d]
        /\ Kind(d)' = Kind(d) /\ TypeOf(d)' = TypeOf(d) /\ (Exists <=> Exists')
    BY <1>1, <1>4, <1>5, <1>6 DEF AccountsSound, Exists
  <2>2. (KnowsCode(d) <=> KnowsCode(d)') /\ (ByPassword(d) <=> ByPassword(d)')
    BY <1>1, <2>1 DEF KnowsCode, ByPassword
  <2>3. QED
    BY <1>1, <2>1, <2>2 DEF CallSound
<1>11. CallSound(c)'
  BY <1>1, <1>2, <1>3, <1>4, <1>5 DEF CallSound
<1>12. QED
  BY <1>7, <1>8, <1>9, <1>10, <1>11 DEF AccountsSound

-----------------------------------------------------------------------------
LEMMA InitSound == Init => AccountsSound
<1> SUFFICES ASSUME Init
             PROVE  AccountsSound
  OBVIOUS
<1>1. account \in Account \cup {None} /\ (Exists => account.password = First)
  BY AccountsAssumption DEF Init, Account, Ids, Exists
<1>2. otp \in [OtpType -> Ids \cup {None}] /\ \A t \in OtpType : otp[t] \in {First, None}
  BY DEF Init, Ids
<1>3. stored \in [OtpType -> SUBSET Ids] /\ \A t \in OtpType : stored[t] = {otp[t]} \ {None}
  BY <1>2 DEF Init, Ids
<1>4. TypeOK
  <2>1. times \in 0 .. MailLimit /\ seen \in [Calls -> 0 .. MailLimit - 1]
    BY AccountsAssumption DEF Init
  <2>2. held \subseteq Ids /\ born \in Account \cup {None}
    BY <1>1 DEF Init, Ids
  <2>3. spent \in [OtpType -> SUBSET Ids] /\ last \in [OtpType -> Ids \cup {None}]
    BY <1>2 DEF Init
  <2>4. QED
    BY <1>1, <1>2, <1>3, <2>1, <2>2, <2>3 DEF Init, TypeOK
<1>5. DocsSound
  <2>1. Exists => held = {First} /\ born = account
    BY DEF Init, Exists
  <2>2. ~ Exists => held = {} /\ born = None
    BY DEF Init, Exists
  <2>3. Exists => DocSound(account)
    BY <1>1, <2>1 DEF DocSound, AddressProven
  <2>4. QED
    BY <1>1, <2>1, <2>2, <2>3 DEF DocsSound, Init, Exists
<1>6. OtpSound
  <2>1. First \notin Calls
    BY AccountsAssumption
  <2>2. QED
    BY <1>2, <1>3, <2>1 DEF OtpSound, Init
<1>7. ASSUME NEW c \in Calls
      PROVE  CallSound(c)
  <2>1. c \notin held
    BY AccountsAssumption DEF Init
  <2>2. at[c] = "idle" /\ request[c] = None /\ Kind(c) = "-"
    BY DEF Init, Kind
  <2>3. QED
    BY <2>1, <2>2 DEF CallSound
<1>8. QED
  BY <1>4, <1>5, <1>6, <1>7 DEF AccountsSound

LEMMA NextKeeps == AccountsSound /\ [Next]_vars => AccountsSound'
<1> SUFFICES ASSUME AccountsSound, [Next]_vars
             PROVE  AccountsSound'
  OBVIOUS
<1>1. ASSUME NEW c \in Calls, NEW r \in Menu, Start(c, r)
      PROVE  AccountsSound'
  BY <1>1, StartKeeps
<1>2. ASSUME NEW c \in Calls, CallStep(c)
      PROVE  AccountsSound'
  BY <1>2, ReadKeeps, CreateKeeps, CacheFailsKeeps, CountOtpKeeps, StoreOtpKeeps, LimitKeeps,
     CountMailKeeps, MailKeeps, CheckOtpKeeps, RemoveOtpKeeps, UpdateKeeps, FailKeeps
     DEF CallStep
<1>3. ASSUME NEW t \in OtpType, OtpExpires(t)
      PROVE  AccountsSound'
  BY <1>3, OtpExpiresKeeps
<1>4. CASE LimitExpires
  <2>1. times' \in 0 .. MailLimit /\ window' \subseteq Calls
    BY <1>4, AccountsAssumption DEF LimitExpires
  <2>2. QED
    BY <1>4, <2>1, CounterAside DEF LimitExpires
<1>5. CASE UNCHANGED vars
  <2>1. times' \in 0 .. MailLimit /\ window' \subseteq Calls
    BY <1>5 DEF vars, code, history, AccountsSound, TypeOK
  <2>2. QED
    BY <1>5, <2>1, CounterAside DEF vars, code, history
<1>6. QED
  BY <1>1, <1>2, <1>3, <1>4, <1>5 DEF Next, Quiet

(* Whatever calls overlap, fail or are lost: every password the account    *)
(* has had was set with the right to, a verified address was proved, a     *)
(* registration that succeeded created the account, and a code that was    *)
(* accepted and removed is never good again (AuthService, OtpService).     *)
THEOREM AccountsKept ==
  Spec => [](TypeOK /\ PasswordProven /\ VerifiedProven /\ RegisteredIsBorn /\ SpentCodeIsGone)
<1>1. AccountsSound =>
        TypeOK /\ PasswordProven /\ VerifiedProven /\ RegisteredIsBorn /\ SpentCodeIsGone
  <2> SUFFICES ASSUME AccountsSound
               PROVE  TypeOK /\ PasswordProven /\ VerifiedProven /\ RegisteredIsBorn
                        /\ SpentCodeIsGone
    OBVIOUS
  <2>1. TypeOK /\ DocsSound /\ OtpSound /\ \A c \in Calls : CallSound(c)
    BY DEF AccountsSound
  <2>2. PasswordProven
    BY <2>1 DEF PasswordProven, DocsSound, ByCode, ByPassword
  <2>3. VerifiedProven
    BY <2>1 DEF VerifiedProven, DocsSound, DocSound, AddressProven
  <2>4. RegisteredIsBorn
    BY <2>1 DEF RegisteredIsBorn, CallSound
  <2>5. SpentCodeIsGone
    <3>1. \A t \in OtpType : None \notin spent[t]
      BY <2>1, AccountsAssumption DEF TypeOK
    <3>2. QED
      BY <2>1, <3>1 DEF SpentCodeIsGone, OtpSound
  <2>6. QED
    BY <2>1, <2>2, <2>3, <2>4, <2>5
<1>2. QED
  BY InitSound, NextKeeps, <1>1, PTL DEF Spec

-----------------------------------------------------------------------------
(* What holds of calls that run alone, or one by one, and is lost to those *)
(* that overlap.                                                           *)
Together == \A c, d \in Calls : c # d /\ UnderWay(c) /\ UnderWay(d) => ~ alone[c] /\ ~ calm

(* A call that has yet to write its password has not been the password.    *)
NotYetHeld == \A c \in Calls : at[c] \in {"otp", "remove", "update"} => c \notin held

(* The copy of a profile update that runs alone is the document.           *)
CopyTrue == \A c \in Calls : at[c] = "update" /\ Kind(c) = "profile" /\ alone[c] => copy[c] = account

(* The counter is no lower than the number of mails let through.           *)
AllAlone == \A c \in window : alone[c]
CountTrue ==
  AllAlone =>
    /\ IsFiniteSet(window) /\ Cardinality(window) \in Nat
    /\ Cardinality(window) <= times
    /\ \A c \in Calls : at[c] = "counted" /\ alone[c] => Cardinality(window) <= seen[c]

(* The code stored is the one mailed last, or its mail is on its way.      *)
Mailing == {"limit", "counted", "mail"}
CodeTrue(t) ==
  /\ otp[t] \in {None, last[t]} \/ \E c \in Calls : at[c] \in Mailing /\ TypeOf(c) = t /\ otp[t] = c
  /\ \A c \in Calls : at[c] \in Mailing /\ TypeOf(c) = t => otp[t] \in {None, c}
CodesTrue == calm => \A t \in OtpType : CodeTrue(t)

WindowKnown == \A c \in window : at[c] # "idle"

Orderly == Together /\ NotYetHeld /\ CopyTrue /\ WindowKnown /\ CountTrue /\ CodesTrue

(* Where a call may be when it has read.                                   *)
LEMMA ReadPlaces ==
  ASSUME AccountsSound, NEW c \in Calls, Read(c)
  PROVE  at'[c] \in {"create", "done", "count", "otp", "update", "failed"}
<1>1. Kind(c) = request[c].kind /\ Kind(c) \in CreateKinds \cup SendKinds \cup CodeKinds \cup {"change", "profile"}
  BY KnownKind DEF Read
<1>2. AfterRead(account, request[c]) \in {"create", "done", "count", "otp", "update"}
  BY <1>1 DEF AfterRead, CreateKinds, SendKinds, CodeKinds
<1> QED
  BY <1>2 DEF Read, GoOn, AccountsSound, TypeOK

(* A step of one call.                                                     *)
LEMMA OneMoves ==
  ASSUME AccountsSound, NEW c \in Calls, CallStep(c)
  PROVE  /\ UnderWay(c) /\ request' = request /\ alone' = alone /\ (calm' => calm)
         /\ \A d \in Calls : Kind(d)' = Kind(d) /\ TypeOf(d)' = TypeOf(d)
         /\ \A d \in Calls \ {c} : at'[d] = at[d] /\ copy'[d] = copy[d] /\ seen'[d] = seen[d]
         /\ \A d \in Calls \ {c} : UnderWay(d)' <=> UnderWay(d)
<1>1. /\ UnderWay(c) /\ request' = request /\ alone' = alone /\ (calm' => calm)
      /\ \A d \in Calls \ {c} : at'[d] = at[d] /\ copy'[d] = copy[d] /\ seen'[d] = seen[d]
  <2>1. UnderWay(c)
    BY DEF CallStep, Read, Create, CacheFails, CountOtp, StoreOtp, Limit, CountMail, Mail, CheckOtp, RemoveOtp,
           Update, Fail, UnderWay, Places
  <2>2. request' = request /\ alone' = alone /\ (calm' => calm)
    BY DEF CallStep, Read, Create, CacheFails, CountOtp, StoreOtp, Limit, CountMail, Mail, CheckOtp, RemoveOtp,
           Update, Fail, Remember, RememberCalls
  <2>3. \E place : at' = [at EXCEPT ![c] = place]
    BY DEF CallStep, Read, Create, CacheFails, CountOtp, StoreOtp, Limit, CountMail, Mail, CheckOtp, RemoveOtp,
           Update, Fail, GoOn, GoOnOrFail
  <2>4. (copy' = copy \/ \E doc : copy' = [copy EXCEPT ![c] = doc])
        /\ (seen' = seen \/ \E n : seen' = [seen EXCEPT ![c] = n])
    BY DEF CallStep, Read, Create, CacheFails, CountOtp, StoreOtp, Limit, CountMail, Mail, CheckOtp, RemoveOtp,
           Update, Fail
  <2> QED
    BY <2>1, <2>2, <2>3, <2>4 DEF AccountsSound, TypeOK
<1> QED
  BY <1>1 DEF Kind, TypeOf, UnderWay

LEMMA TogetherStep ==
  ASSUME AccountsSound, Orderly, NEW c \in Calls, CallStep(c)
  PROVE  Together'
BY OneMoves DEF Orderly, Together

(* What a step does to the account.                                        *)
LEMMA AccountMoves ==
  ASSUME AccountsSound, NEW c \in Calls, CallStep(c)
  PROVE  \/ UNCHANGED <<account, held>>
         \/ ~ Exists /\ held = {} /\ held' = {c} /\ at'[c] \in {"count", "done", "failed"}
         \/ /\ Update(c) /\ Exists /\ Exists' /\ at'[c] \in {"done", "failed"}
            /\ held' = held \cup {account'.password} /\ account'.password \in held \cup {c}
<1>t. /\ at \in [Calls -> States] /\ DocsSound /\ CallSound(c) /\ account \in Account \cup {None}
      /\ None \notin Account
  BY AccountsAssumption DEF AccountsSound, TypeOK, States
<1>1. CASE account' = account /\ ~ Update(c)
  BY <1>1, <1>t, AccountAside
     DEF CallStep, Read, Create, CacheFails, CountOtp, StoreOtp, Limit, CountMail, Mail, CheckOtp, RemoveOtp,
         Fail, Remember
<1>2. CASE Create(c) /\ account' # account
  <2>1. /\ ~ Exists /\ account' = [verified |-> Kind(c) = "google", password |-> c]
        /\ at'[c] \in {"count", "done", "failed"} /\ Remember
    BY <1>2, <1>t DEF Create, MayInsert, GoOn, GoOnOrFail
  <2>2. account' \in Account
    BY <2>1 DEF Account, Ids
  <2>3. held = {} /\ held' = {c}
    BY <1>t, <2>1, <2>2 DEF DocsSound, Remember, RememberAccount, Exists
  <2> QED
    BY <2>1, <2>3
<1>3. CASE Update(c)
  <2>1. /\ at[c] = "update" /\ account' = Updated(c) /\ Remember /\ at'[c] \in {"done", "failed"}
    BY <1>3, <1>t DEF Update, GoOn, GoOnOrFail
  <2>2. Exists /\ account.password \in held /\ account \in Account
    BY <1>t, <2>1 DEF CallSound, DocsSound, DocSound, Exists
  <2>3. Kind(c) \in {"verifyEmail", "reset", "change"} \/ (Kind(c) = "profile" /\ copy[c] # None)
    BY <1>t, <2>1 DEF CallSound, KnowsCode, CodeKinds, ByPassword
  <2>4. account' \in Account /\ account'.password \in held \cup {c}
    <3>1. CASE Kind(c) \in {"verifyEmail", "reset", "change"}
      BY <2>1, <2>2, <3>1 DEF Updated, Account, Ids
    <3>2. CASE Kind(c) = "profile" /\ copy[c] # None
      BY <1>t, <2>1, <3>2 DEF Updated, DocsSound, DocSound, AccountsSound, TypeOK
    <3> QED
      BY <2>3, <3>1, <3>2
  <2> QED
    BY <1>3, <1>t, <2>1, <2>2, <2>4 DEF Remember, RememberAccount, Exists
<1>4. account' # account => Create(c) \/ Update(c)
  BY DEF CallStep, Read, CacheFails, CountOtp, StoreOtp, Limit, CountMail, Mail, CheckOtp, RemoveOtp, Fail
<1> QED
  BY <1>1, <1>2, <1>3, <1>4

LEMMA NotYetHeldStep ==
  ASSUME AccountsSound, Orderly, NEW c \in Calls, CallStep(c)
  PROVE  NotYetHeld'
<1>1. \A d \in Calls : CallSound(d) /\ at[d] \in States
  BY DEF AccountsSound, TypeOK, States
<1>2. at'[c] \in {"otp", "remove", "update"} => at[c] \in {"read", "otp", "remove"} /\ UNCHANGED held
  <2>1. at'[c] \in {"otp", "remove", "update"} => Read(c) \/ CheckOtp(c) \/ RemoveOtp(c)
    BY DEF CallStep, Create, CacheFails, CountOtp, StoreOtp, Limit, CountMail, Mail, Update, Fail, GoOn, GoOnOrFail,
           AccountsSound, TypeOK
  <2>2. Read(c) \/ CheckOtp(c) \/ RemoveOtp(c) =>
          UNCHANGED account /\ at[c] \in {"read", "otp", "remove"} /\ RememberAccount
    BY DEF Read, CheckOtp, RemoveOtp, Remember
  <2> QED
    BY <2>1, <2>2, AccountAside DEF AccountsSound
<1>3. ASSUME NEW d \in Calls \ {c}, at[d] \in {"otp", "remove", "update"} PROVE d \notin held'
  BY <1>3, <1>1, AccountMoves DEF Orderly, NotYetHeld, CallSound
<1>4. at'[c] \in {"otp", "remove", "update"} => c \notin held'
  BY <1>1, <1>2 DEF Orderly, NotYetHeld, CallSound
<1> QED
  BY <1>3, <1>4, OneMoves DEF NotYetHeld

LEMMA CopyTrueStep ==
  ASSUME AccountsSound, Orderly, NEW c \in Calls, CallStep(c)
  PROVE  CopyTrue'
<1>1. \A d \in Calls \ {c} : at[d] = "update" => ~ alone[d]
  BY OneMoves DEF Orderly, Together, UnderWay, Places
<1>2. ASSUME at'[c] = "update", Kind(c) = "profile" PROVE copy'[c] = account'
  <2>1. Read(c) \/ RemoveOtp(c)
    BY <1>2 DEF CallStep, Create, CacheFails, CountOtp, StoreOtp, Limit, CountMail, Mail, CheckOtp, Update, Fail,
                GoOn, GoOnOrFail, AccountsSound, TypeOK
  <2>2. ~ RemoveOtp(c)
    BY <1>2 DEF RemoveOtp, AccountsSound, CallSound, KnowsCode, CodeKinds
  <2> QED
    BY <1>2, <2>1, <2>2 DEF Read, AccountsSound, TypeOK
<1> QED
  BY <1>1, <1>2, OneMoves DEF CopyTrue

LEMMA CountTrueStep ==
  ASSUME AccountsSound, Orderly, NEW c \in Calls, CallStep(c)
  PROVE  CountTrue'
<1>t. /\ at \in [Calls -> States] /\ seen \in [Calls -> 0 .. MailLimit - 1] /\ times \in 0 .. MailLimit
      /\ MailLimit \in Nat \ {0}
  BY AccountsAssumption DEF AccountsSound, TypeOK, States
<1>1. CASE CountMail(c)
  <2>1. /\ at[c] = "counted" /\ times' = seen[c] + 1 /\ window' = window \cup {c} /\ at'[c] \in {"mail", "failed"}
    BY <1>1, <1>t DEF CountMail, Counted, GoOn, GoOnOrFail
  <2>2. ASSUME \A d \in window' : alone[d]
        PROVE  /\ IsFiniteSet(window') /\ Cardinality(window') \in Nat
               /\ Cardinality(window') <= times'
               /\ \A d \in Calls \ {c} : at[d] = "counted" => ~ alone[d]
    <3>1. AllAlone /\ alone[c]
      BY <2>1, <2>2 DEF AllAlone
    <3>2. IsFiniteSet(window) /\ Cardinality(window) \in Nat /\ Cardinality(window) <= seen[c]
      BY <2>1, <3>1 DEF Orderly, CountTrue
    <3>3. /\ IsFiniteSet(window') /\ Cardinality(window') \in Nat
          /\ Cardinality(window') <= Cardinality(window) + 1
      <4>1. IsFiniteSet(window \cup {c})
        BY <3>2, FS_AddElement
      <4>2. Cardinality(window \cup {c}) = IF c \in window THEN Cardinality(window) ELSE Cardinality(window) + 1
        BY <3>2, FS_AddElement
      <4> QED
        BY <2>1, <3>2, <4>1, <4>2
    <3>4. seen[c] \in Nat
      BY <1>t
    <3>5. \A d \in Calls \ {c} : at[d] = "counted" => ~ alone[d]
      BY OneMoves DEF Orderly, Together, UnderWay, Places
    <3> QED
      BY <2>1, <3>2, <3>3, <3>4, <3>5
  <2> QED
    BY <2>1, <2>2, OneMoves DEF CountTrue, AllAlone
<1>2. CASE Limit(c)
  <2>1. /\ UNCHANGED <<times, window>>
        /\ at'[c] = "counted" => seen'[c] = times
    BY <1>2, <1>t DEF Limit, GoOn, Remember
  <2> QED
    BY <2>1, OneMoves DEF Orderly, CountTrue, AllAlone
<1>3. CASE ~ CountMail(c) /\ ~ Limit(c)
  <2>1. UNCHANGED <<times, window>> /\ at'[c] # "counted"
    <3>1. CASE Read(c)
      BY <3>1, ReadPlaces DEF Read, Remember
    <3>2. CASE Create(c) \/ StoreOtp(c) \/ CountOtp(c)
      BY <3>2, <1>t DEF Create, StoreOtp, CountOtp, GoOn, GoOnOrFail, Remember
    <3>3. CASE CacheFails(c) \/ Mail(c) \/ CheckOtp(c) \/ RemoveOtp(c) \/ Update(c) \/ Fail(c)
      BY <3>3, <1>t DEF CacheFails, Mail, CheckOtp, RemoveOtp, Update, Fail, GoOn, GoOnOrFail, Remember
    <3> QED
      BY <1>3, <3>1, <3>2, <3>3 DEF CallStep
  <2> QED
    BY <2>1, OneMoves DEF Orderly, CountTrue, AllAlone
<1> QED
  BY <1>1, <1>2, <1>3

LEMMA CodesTrueStep ==
  ASSUME AccountsSound, Orderly, NEW c \in Calls, CallStep(c)
  PROVE  CodesTrue'
<1> SUFFICES ASSUME calm', NEW t \in OtpType PROVE CodeTrue(t)'
  BY DEF CodesTrue
<1>t. /\ at \in [Calls -> States] /\ otp \in [OtpType -> Ids \cup {None}] /\ last \in [OtpType -> Ids \cup {None}]
      /\ TypeOf(c) \in OtpType
  BY PurposeTyped DEF AccountsSound, TypeOK, States
<1>1. /\ calm /\ CodeTrue(t)
      /\ \A d \in Calls \ {c} : at[d] \notin Mailing /\ at'[d] \notin Mailing
      /\ TypeOf(c)' = TypeOf(c)
  BY OneMoves DEF Orderly, CodesTrue, Together, UnderWay, Places, Mailing
<1>2. at[c] \in HasStored => at'[c] # "failed"
  BY DEF CallStep, Read, Create, CacheFails, CountOtp, StoreOtp, Limit, CountMail, Mail, CheckOtp, RemoveOtp,
         Update, Fail, Remember, RememberCalls
<1>3. CASE StoreOtp(c)
  <2>1. /\ otp' = [otp EXCEPT ![TypeOf(c)] = c] /\ last' = last /\ at'[c] \in Mailing /\ at[c] \notin Mailing
    BY <1>2, <1>3, <1>t DEF StoreOtp, NewCode, GoOn, GoOnOrFail, HasStored, Mailing
  <2>2. CASE TypeOf(c) = t
    BY <1>1, <1>t, <2>1, <2>2 DEF CodeTrue, TypeOf, Kind
  <2>3. CASE TypeOf(c) # t
    BY <1>1, <1>t, <2>1, <2>3, OneMoves DEF CodeTrue
  <2> QED
    BY <2>2, <2>3
<1>4. CASE Mail(c)
  <2>1. otp' = otp /\ last' = [last EXCEPT ![TypeOf(c)] = c] /\ at'[c] = "done" /\ at[c] \in Mailing
    BY <1>4, <1>t DEF Mail, GoOn, Mailing
  <2> QED
    BY <1>1, <1>t, <2>1, OneMoves DEF CodeTrue, Mailing
<1>5. CASE RemoveOtp(c)
  <2>1. /\ otp' = [otp EXCEPT ![TypeOf(c)] = None] /\ last' = last /\ at'[c] \notin Mailing /\ at[c] \notin Mailing
    BY <1>5, <1>t DEF RemoveOtp, WithoutOtp, GoOn, GoOnOrFail, Mailing
  <2> QED
    BY <1>1, <1>t, <2>1, OneMoves DEF CodeTrue
<1>6. CASE Limit(c) \/ CountMail(c)
  <2>1. otp' = otp /\ last' = last /\ at[c] \in Mailing /\ at'[c] \in Mailing
    BY <1>2, <1>6, <1>t DEF Limit, CountMail, GoOn, GoOnOrFail, HasStored, Mailing, Remember
  <2> QED
    BY <1>1, <2>1, OneMoves DEF CodeTrue
<1>7. CASE ~ (StoreOtp(c) \/ Mail(c) \/ RemoveOtp(c) \/ Limit(c) \/ CountMail(c))
  <2>1. /\ otp' = otp /\ last' = last /\ at[c] \notin Mailing /\ at'[c] \notin Mailing
    <3>1. CASE Read(c)
      BY <3>1, ReadPlaces DEF Read, Remember, Mailing
    <3>2. CASE Create(c) \/ CountOtp(c)
      BY <3>2, <1>t DEF Create, CountOtp, GoOn, GoOnOrFail, Remember, Mailing
    <3>3. CASE CacheFails(c) \/ CheckOtp(c) \/ Update(c)
      BY <3>3, <1>t DEF CacheFails, CheckOtp, Update, GoOn, GoOnOrFail, Remember, Mailing
    <3>4. CASE Fail(c)
      BY <1>2, <3>4, <1>t DEF Fail, GoOn, Remember, HasStored, Mailing
    <3> QED
      BY <1>7, <3>1, <3>2, <3>3, <3>4 DEF CallStep
  <2> QED
    BY <1>1, <2>1, OneMoves DEF CodeTrue
<1> QED
  BY <1>3, <1>4, <1>5, <1>6, <1>7

LEMMA WindowStep ==
  ASSUME AccountsSound, Orderly, NEW c \in Calls, CallStep(c)
  PROVE  WindowKnown'
<1>1. window' \subseteq window \cup {c} /\ window \subseteq Calls
  BY DEF CallStep, Read, Create, CacheFails, CountOtp, StoreOtp, Limit, CountMail, Mail, CheckOtp, RemoveOtp,
         Update, Fail, Remember, AccountsSound, TypeOK
<1>2. at'[c] # "idle"
  <2>1. ASSUME ~ Read(c)
        PROVE  \E place \in States \ {"idle"} : at' = [at EXCEPT ![c] = place]
    <3>1. CASE Create(c) \/ CountOtp(c) \/ StoreOtp(c)
      BY <3>1 DEF Create, CountOtp, StoreOtp, GoOn, GoOnOrFail, States, Places
    <3>2. CASE CacheFails(c) \/ Limit(c) \/ CountMail(c) \/ Mail(c) \/ CheckOtp(c) \/ RemoveOtp(c)
                 \/ Update(c) \/ Fail(c)
      BY <3>2 DEF CacheFails, Limit, CountMail, Mail, CheckOtp, RemoveOtp, Update, Fail, GoOn, GoOnOrFail,
                  States, Places
    <3> QED
      BY <2>1, <3>1, <3>2 DEF CallStep
  <2> QED
    BY <2>1, ReadPlaces DEF AccountsSound, TypeOK
<1> QED
  BY <1>1, <1>2, OneMoves DEF Orderly, WindowKnown

LEMMA StartOrderly ==
  ASSUME AccountsSound, Orderly, NEW c \in Calls, NEW r \in Menu, Start(c, r)
  PROVE  Orderly'
<1>1. /\ at[c] = "idle" /\ at' = [at EXCEPT ![c] = "read"] /\ at \in [Calls -> States]
      /\ request' = [request EXCEPT ![c] = r]
      /\ UNCHANGED <<account, otp, times, copy, seen, held, last, window>>
  BY DEF Start, GoOn, AccountsSound, TypeOK, States
<1>2. /\ ~ UnderWay(c) /\ \A d \in Calls \ {c} : UnderWay(d)' <=> UnderWay(d)
      /\ \A d \in Calls \ {c} : Kind(d)' = Kind(d) /\ TypeOf(d)' = TypeOf(d) /\ at'[d] = at[d]
      /\ at'[c] = "read"
  BY <1>1 DEF UnderWay, Places, Kind, TypeOf
<1>3. /\ alone'[c] => \A d \in Calls \ {c} : ~ UnderWay(d)
      /\ \A d \in Calls \ {c} : alone'[d] => alone[d] /\ ~ UnderWay(d)
      /\ calm' => calm /\ \A d \in Calls \ {c} : ~ UnderWay(d)
  BY <1>2 DEF Start
<1>4. Together'
  BY <1>2, <1>3 DEF Together
<1>5. NotYetHeld'
  BY <1>1, <1>2 DEF Orderly, NotYetHeld
<1>6. CopyTrue'
  BY <1>1, <1>2, <1>3 DEF Orderly, CopyTrue
<1>7. CountTrue'
  <2>1. c \notin window
    BY <1>1 DEF Orderly, WindowKnown
  <2>2. AllAlone' => AllAlone
    BY <1>1, <1>3, <2>1 DEF AllAlone, AccountsSound, TypeOK
  <2> QED
    BY <1>1, <1>2, <1>3, <2>2 DEF Orderly, CountTrue
<1>8. CodesTrue'
  BY <1>1, <1>2, <1>3 DEF Orderly, CodesTrue, CodeTrue, UnderWay, Places, Mailing
<1>9. WindowKnown'
  BY <1>1, <1>2 DEF Orderly, WindowKnown, AccountsSound, TypeOK
<1> QED
  BY <1>4, <1>5, <1>6, <1>7, <1>8, <1>9 DEF Orderly

(* Codes and the counter expire; the calls stay where they are.            *)
LEMMA ExpiryOrderly ==
  ASSUME AccountsSound, Orderly, (\E t \in OtpType : OtpExpires(t)) \/ LimitExpires \/ UNCHANGED vars
  PROVE  Orderly'
<1>1. /\ UNCHANGED <<request, at, copy, seen, last, account, alone>> /\ (calm' => calm)
      /\ UNCHANGED <<times, window>> \/ window' = {}
      /\ otp' = otp \/ \E t \in OtpType : otp' = [otp EXCEPT ![t] = None]
  <2>1. CASE \E t \in OtpType : OtpExpires(t)
    BY <2>1 DEF OtpExpires, Remember, RememberCalls
  <2>2. CASE LimitExpires
    BY <2>2 DEF LimitExpires, RememberCalls
  <2>3. CASE UNCHANGED vars
    BY <2>3 DEF vars, code, history
  <2> QED
    BY <2>1, <2>2, <2>3
<1>2. held' = held
  BY AccountAside DEF OtpExpires, LimitExpires, vars, code, history, Remember, AccountsSound
<1>3. \A d \in Calls : Kind(d)' = Kind(d) /\ TypeOf(d)' = TypeOf(d) /\ (UnderWay(d)' <=> UnderWay(d))
  BY <1>1 DEF Kind, TypeOf, UnderWay
<1>4. Together'
  BY <1>1, <1>3 DEF Orderly, Together
<1>5. NotYetHeld' /\ CopyTrue'
  BY <1>1, <1>2, <1>3 DEF Orderly, NotYetHeld, CopyTrue
<1>6. WindowKnown'
  BY <1>1 DEF Orderly, WindowKnown
<1>7. CountTrue'
  <2>1. CASE UNCHANGED <<times, window>>
    BY <1>1, <2>1 DEF Orderly, CountTrue, AllAlone
  <2>2. CASE window' = {}
    <3>1. IsFiniteSet(window') /\ Cardinality(window') = 0
      BY <2>2, FS_EmptySet
    <3>2. times' \in 0 .. MailLimit /\ \A d \in Calls : seen[d] \in 0 .. MailLimit - 1
      BY NextKeeps DEF AccountsSound, TypeOK, Next, LimitExpires, OtpExpires, vars
    <3>3. times' >= 0 /\ \A d \in Calls : seen[d] >= 0
      BY <3>2
    <3> QED
      BY <1>1, <3>1, <3>3 DEF CountTrue
  <2> QED
    BY <1>1, <2>1, <2>2
<1>8. CodesTrue'
  BY <1>1, <1>3 DEF Orderly, CodesTrue, CodeTrue, AccountsSound, TypeOK
<1> QED
  BY <1>4, <1>5, <1>6, <1>7, <1>8 DEF Orderly

LEMMA NextOrderly == AccountsSound /\ Orderly /\ [Next]_vars => Orderly'
<1> SUFFICES ASSUME AccountsSound, Orderly, [Next]_vars PROVE Orderly'
  OBVIOUS
<1>1. ASSUME NEW c \in Calls, CallStep(c) PROVE Orderly'
  BY <1>1, TogetherStep, NotYetHeldStep, CopyTrueStep, WindowStep, CountTrueStep, CodesTrueStep DEF Orderly
<1> QED
  BY <1>1, StartOrderly, ExpiryOrderly DEF Next, Quiet

LEMMA InitOrderly == Init => Orderly
<1> SUFFICES ASSUME Init PROVE Orderly
  OBVIOUS
<1>1. \A c \in Calls : at[c] = "idle" /\ ~ UnderWay(c)
  BY DEF Init, UnderWay, Places
<1>2. Together /\ NotYetHeld /\ CopyTrue /\ WindowKnown
  BY <1>1 DEF Init, Together, NotYetHeld, CopyTrue, WindowKnown
<1>3. CountTrue
  BY <1>1, FS_EmptySet DEF Init, CountTrue
<1>4. CodesTrue
  BY <1>1 DEF Init, CodesTrue, CodeTrue, Mailing
<1> QED
  BY <1>2, <1>3, <1>4 DEF Orderly

(* Calls that come one by one leave the code of the last mail good, and    *)
(* mails that are sent again one at a time stay within the limit, for any  *)
(* limit.                                                                  *)
THEOREM MailsKept == Spec => []MailsInOrder
<1>1. AccountsSound /\ Orderly => MailsInOrder
  <2> SUFFICES ASSUME AccountsSound, Orderly PROVE LastMailWorks /\ WithinLimit
    BY DEF MailsInOrder
  <2>1. LastMailWorks
    BY DEF LastMailWorks, Orderly, CodesTrue, CodeTrue, UnderWay, Places, Mailing
  <2>2. WithinLimit
    <3>1. times \in 0 .. MailLimit /\ MailLimit \in Nat
      BY AccountsAssumption DEF AccountsSound, TypeOK
    <3> QED
      BY <3>1 DEF WithinLimit, Orderly, CountTrue, AllAlone
  <2> QED
    BY <2>1, <2>2
<1> QED
  BY <1>1, InitSound, InitOrderly, NextKeeps, NextOrderly, PTL DEF Spec

LEMMA NothingUndone ==
  AccountsSound /\ Orderly /\ [Next]_vars
    => [TakenBack => \E c \in Calls : Kind(c) = "profile" /\ UnderWay(c) /\ ~ alone[c]]_vars
<1> SUFFICES ASSUME AccountsSound, Orderly, Next, TakenBack
             PROVE  \E c \in Calls : Kind(c) = "profile" /\ UnderWay(c) /\ ~ alone[c]
  BY DEF vars, code, TakenBack, Exists
<1>1. account' # account
  BY DEF TakenBack
<1>2. PICK c \in Calls : CallStep(c)
  BY <1>1 DEF Next, Start, OtpExpires, LimitExpires, Quiet, vars, code
<1>3. Update(c)
  BY <1>1, <1>2, AccountMoves DEF TakenBack
<1>4. /\ at[c] = "update" /\ account' = Updated(c) /\ Exists /\ account \in Account /\ CallSound(c)
      /\ c \notin held
  BY <1>3 DEF Update, TakenBack, Exists, AccountsSound, TypeOK, Orderly, NotYetHeld
<1>5. Kind(c) = "profile"
  <2>1. Kind(c) # "verifyEmail"
    BY <1>4 DEF Updated, TakenBack, Account
  <2>2. Kind(c) \notin {"reset", "change"}
    BY <1>4 DEF Updated, TakenBack, Account, Ids
  <2> QED
    BY <1>4, <2>1, <2>2 DEF CallSound, KnowsCode, CodeKinds, ByPassword
<1>6. ~ alone[c]
  BY <1>1, <1>4, <1>5 DEF Orderly, CopyTrue, Updated
<1> QED
  BY <1>4, <1>5, <1>6 DEF UnderWay, Places

(* Only a profile update that overlapped another call takes back a         *)
(* verification or a new password: nothing else writes what it has read.   *)
THEOREM OnlyOverlapsUndo == Spec => NothingTakenBack
  BY InitSound, InitOrderly, NextKeeps, NextOrderly, NothingUndone, PTL DEF Spec, NothingTakenBack
=============================================================================
