--------------------------- MODULE SessionsProofs ----------------------------
(***************************************************************************)
(* What holds of the tokens of a user and of the requests through the      *)
(* gateway for every number of calls, every menu and every life of the     *)
(* tokens: types, that tokens called in are refused, that a handled        *)
(* message is not handled again, that no route is served to a role it is   *)
(* not announced for but two, and what becomes of the limit on the uses of *)
(* refresh tokens.                                                         *)
(***************************************************************************)
EXTENDS Sessions, TLAPS, FiniteSetTheorems

Signing == {"read", "sign", "unkey"}
Counting == {"counter", "count", "recount"}
Looking == {"jwt", "verify", "key", "admit"}
Early == {"idle", "change"} \cup Signing \cup Counting \cup Looking

Pairs == [role : Roles, at : Nat]

(* The types in groups that the same steps change.                         *)
CallTypes ==
  /\ at \in [Calls -> Early \cup {"queued", "working", "answered"} \cup Ends]
  /\ request \in [Calls -> Requests \cup {NoRequest}]
  /\ todo \in [Calls -> SUBSET {"user", "key"}]
ReadTypes ==
  /\ DOMAIN read = Calls
  /\ \A c \in Calls : read[c] \in (IF at[c] = "recount" THEN 0..MaxUses ELSE Roles) \cup {None}
StoreTypes ==
  /\ now \in Nat /\ key \in Nat
  /\ user \in [role : Roles, blocked : BOOLEAN]
  /\ pair \in [Tokens -> [role : Roles, at : Nat] \cup {None}]
  /\ counter \in [Tokens -> 0..MaxUses \cup {None}]
MessageTypes ==
  /\ who \in [Calls -> Roles \cup {None}]
  /\ runs \in [Calls -> Nat] /\ restarts \in Nat
  /\ entered \in [Calls -> Nat]
HistoryTypes ==
  /\ barred \subseteq Tokens
  /\ doomed \in [Calls -> BOOLEAN]

(* Where a call stands fits what it was asked.                             *)
Fits(c) ==
  /\ at[c] \in Signing => request[c].kind \in {"login", "refresh"}
  /\ at[c] \in Counting => request[c].kind = "refresh"
  /\ at[c] = "change" => request[c].kind \in {"role", "block"}
  /\ at[c] \in Looking => request[c].kind = "call" /\ request[c].with \in Tokens /\ pair[request[c].with] \in Pairs
  /\ at[c] = "sign" => read[c] \in Roles
  /\ todo[c] # {} => at[c] \in {"change", "failed"} /\ request[c].kind \in {"role", "block"}

Fit == pair[First] \in Pairs /\ \A c \in Calls : Fits(c)

(* The fields of a request by its kind.                                    *)
LEMMA RequestFields ==
  \A r \in Requests :
    /\ r.kind = "refresh" => r.with \in Tokens
    /\ r.kind = "role" => r.role \in Roles
    /\ r.kind = "block" => r.blocked \in BOOLEAN
    /\ r.kind = "call" => r.with \in Tokens \cup {None} /\ r.route \in Routes
BY DEF Requests

LEMMA RequestNow ==
  ASSUME CallTypes, Fit, NEW c \in Calls
  PROVE  /\ request[c].kind = "refresh" => request[c].with \in Tokens
         /\ request[c].kind = "role" => request[c].role \in Roles
         /\ request[c].kind = "block" => request[c].blocked \in BOOLEAN
<1>1. request[c] \in Requests \/ request[c].kind = "-"
  BY DEF CallTypes, NoRequest
<1> QED
  BY <1>1, RequestFields

LEMMA TypeParts == TypeOK <=> CallTypes /\ ReadTypes /\ StoreTypes /\ MessageTypes /\ HistoryTypes
<1>1. Early \cup {"queued", "working", "answered"} \cup Ends =
        {"idle", "counter", "read", "sign", "unkey", "count", "recount", "change",
         "jwt", "verify", "key", "admit", "queued", "working", "answered"} \cup Ends
  BY DEF Early, Signing, Counting, Looking
<1> QED
  BY <1>1, Zenon DEF TypeOK, CallTypes, ReadTypes, StoreTypes, MessageTypes, HistoryTypes

LEMMA CallTypesStep ==
  ASSUME CallTypes, Fit, NEW c \in Calls, Steps(c)
  PROVE  CallTypes'
<1>1. CASE CheckRefreshToken(c)
  BY <1>1 DEF CheckRefreshToken, CallTypes, Goes, Early, Signing, Counting, Looking, Ends
<1>2. CASE ReadUser(c)
  BY <1>2 DEF ReadUser, CallTypes, Goes, Early, Signing, Counting, Looking, Ends
<1>3. CASE SignTokens(c)
  BY <1>3 DEF SignTokens, CallTypes, Goes, Early, Signing, Counting, Looking, Ends
<1>4. CASE RemoveRequireRefresh(c)
  BY <1>4 DEF RemoveRequireRefresh, CallTypes, Goes, Early, Signing, Counting, Looking, Ends
<1>5. CASE ReadCounter(c)
  BY <1>5 DEF ReadCounter, CallTypes, Goes, Early, Signing, Counting, Looking, Ends
<1>6. CASE RevokeRefreshToken(c)
  BY <1>6 DEF RevokeRefreshToken, CallTypes, Goes, Early, Signing, Counting, Looking, Ends
<1>7. CASE Fail(c)
  BY <1>7 DEF Fail, CallTypes, Early, Signing, Counting, Looking, Ends
<1>8. CASE WriteUser(c)
  BY <1>8 DEF WriteUser, CallTypes, Early, Signing, Counting, Looking, Ends, Settle
<1>9. CASE SetUserRequiredRefresh(c)
  BY <1>9 DEF SetUserRequiredRefresh, CallTypes, Early, Signing, Counting, Looking, Ends, Settle
<1>10. CASE PartFails(c)
  BY <1>10 DEF PartFails, CallTypes, Early, Signing, Counting, Looking, Ends
<1>11. CASE LateWriteUser(c)
  BY <1>11 DEF LateWriteUser, CallTypes, Early, Signing, Counting, Looking, Ends
<1>12. CASE LateSetKey(c)
  BY <1>12 DEF LateSetKey, CallTypes, Early, Signing, Counting, Looking, Ends
<1>13. CASE JwtGuard(c)
  BY <1>13 DEF JwtGuard, CallTypes, Goes, Early, Signing, Counting, Looking, Ends, Without
<1>14. CASE VerifyToken(c)
  BY <1>14 DEF VerifyToken, CallTypes, Goes, Early, Signing, Counting, Looking, Ends, Without
<1>15. CASE CheckIsRequiredRefresh(c)
  BY <1>15 DEF CheckIsRequiredRefresh, CallTypes, Goes, Early, Signing, Counting, Looking, Ends, Without
<1>16. CASE Admit(c)
  BY <1>16 DEF Admit, CallTypes, Goes, Early, Signing, Counting, Looking, Ends, Without
<1>17. CASE Deliver(c)
  BY <1>17 DEF Deliver, CallTypes, Goes, Early, Signing, Counting, Looking, Ends
<1>18. CASE Answer(c)
  BY <1>18 DEF Answer, CallTypes, Goes, Early, Signing, Counting, Looking, Ends, Acknowledged
<1> QED
  BY <1>1, <1>2, <1>3, <1>4, <1>5, <1>6, <1>7, <1>8, <1>9, <1>10, <1>11, <1>12, <1>13, <1>14, <1>15, <1>16, <1>17, <1>18 DEF Steps

LEMMA FitStep ==
  ASSUME CallTypes, ReadTypes, StoreTypes, Fit, NEW c \in Calls, Steps(c)
  PROVE  Fit'
<1>1. CASE CheckRefreshToken(c)
  BY <1>1 DEF CheckRefreshToken, CallTypes, ReadTypes, StoreTypes, Fit, Fits, Pairs, Goes, Signing, Counting, Looking, session, Tokens
<1>2. CASE ReadUser(c)
  BY <1>2 DEF ReadUser, CallTypes, ReadTypes, StoreTypes, Fit, Fits, Pairs, Goes, Signing, Counting, Looking, session, Tokens
<1>3. CASE SignTokens(c)
  BY <1>3 DEF SignTokens, CallTypes, ReadTypes, StoreTypes, Fit, Fits, Pairs, Goes, Signing, Counting, Looking, session, Tokens
<1>4. CASE RemoveRequireRefresh(c)
  BY <1>4 DEF RemoveRequireRefresh, CallTypes, ReadTypes, StoreTypes, Fit, Fits, Pairs, Goes, Signing, Counting, Looking, session, Tokens
<1>5. CASE ReadCounter(c)
  BY <1>5 DEF ReadCounter, CallTypes, ReadTypes, StoreTypes, Fit, Fits, Pairs, Goes, Signing, Counting, Looking, session, Tokens
<1>6. CASE RevokeRefreshToken(c)
  BY <1>6 DEF RevokeRefreshToken, CallTypes, ReadTypes, StoreTypes, Fit, Fits, Pairs, Goes, Signing, Counting, Looking, session, Tokens
<1>7. CASE Fail(c)
  BY <1>7 DEF Fail, CallTypes, ReadTypes, StoreTypes, Fit, Fits, Pairs, Signing, Counting, Looking, session, Tokens
<1>8. CASE WriteUser(c)
  BY <1>8 DEF WriteUser, CallTypes, ReadTypes, StoreTypes, Fit, Fits, Pairs, Signing, Counting, Looking, session, Tokens, Settle
<1>9. CASE SetUserRequiredRefresh(c)
  BY <1>9 DEF SetUserRequiredRefresh, CallTypes, ReadTypes, StoreTypes, Fit, Fits, Pairs, Signing, Counting, Looking, session, Tokens, Settle
<1>10. CASE PartFails(c)
  BY <1>10 DEF PartFails, CallTypes, ReadTypes, StoreTypes, Fit, Fits, Pairs, Signing, Counting, Looking, session, Tokens
<1>11. CASE LateWriteUser(c)
  BY <1>11 DEF LateWriteUser, CallTypes, ReadTypes, StoreTypes, Fit, Fits, Pairs, Signing, Counting, Looking, session, Tokens
<1>12. CASE LateSetKey(c)
  BY <1>12 DEF LateSetKey, CallTypes, ReadTypes, StoreTypes, Fit, Fits, Pairs, Signing, Counting, Looking, session, Tokens
<1>13. CASE JwtGuard(c)
  BY <1>13 DEF JwtGuard, CallTypes, ReadTypes, StoreTypes, Fit, Fits, Pairs, Goes, Signing, Counting, Looking, session, Tokens, Without
<1>14. CASE VerifyToken(c)
  BY <1>14 DEF VerifyToken, CallTypes, ReadTypes, StoreTypes, Fit, Fits, Pairs, Goes, Signing, Counting, Looking, session, Tokens, Without
<1>15. CASE CheckIsRequiredRefresh(c)
  BY <1>15 DEF CheckIsRequiredRefresh, CallTypes, ReadTypes, StoreTypes, Fit, Fits, Pairs, Goes, Signing, Counting, Looking, session, Tokens, Without
<1>16. CASE Admit(c)
  BY <1>16 DEF Admit, CallTypes, ReadTypes, StoreTypes, Fit, Fits, Pairs, Goes, Signing, Counting, Looking, session, Tokens, Without
<1>17. CASE Deliver(c)
  BY <1>17 DEF Deliver, CallTypes, ReadTypes, StoreTypes, Fit, Fits, Pairs, Goes, Signing, Counting, Looking, session, Tokens
<1>18. CASE Answer(c)
  BY <1>18 DEF Answer, CallTypes, ReadTypes, StoreTypes, Fit, Fits, Pairs, Goes, Signing, Counting, Looking, session, Tokens, Acknowledged
<1> QED
  BY <1>1, <1>2, <1>3, <1>4, <1>5, <1>6, <1>7, <1>8, <1>9, <1>10, <1>11, <1>12, <1>13, <1>14, <1>15, <1>16, <1>17, <1>18 DEF Steps

LEMMA ReadTypesStep ==
  ASSUME CallTypes, ReadTypes, StoreTypes, Fit, NEW c \in Calls, Steps(c)
  PROVE  ReadTypes'
<1> USE RequestNow
<1>1. CASE CheckRefreshToken(c)
  BY <1>1 DEF CheckRefreshToken, CallTypes, ReadTypes, StoreTypes, Fit, Fits, Pairs, Goes, Signing, Counting, Looking, session
<1>2. CASE ReadUser(c)
  BY <1>2 DEF ReadUser, CallTypes, ReadTypes, StoreTypes, Fit, Fits, Pairs, Goes, Signing, Counting, Looking, session
<1>3. CASE SignTokens(c)
  BY <1>3 DEF SignTokens, CallTypes, ReadTypes, StoreTypes, Fit, Fits, Pairs, Goes, Signing, Counting, Looking, session
<1>4. CASE RemoveRequireRefresh(c)
  BY <1>4 DEF RemoveRequireRefresh, CallTypes, ReadTypes, StoreTypes, Fit, Fits, Pairs, Goes, Signing, Counting, Looking, session
<1>5. CASE ReadCounter(c)
  BY <1>5 DEF ReadCounter, CallTypes, ReadTypes, StoreTypes, Fit, Fits, Pairs, Goes, Signing, Counting, Looking, session
<1>6. CASE RevokeRefreshToken(c)
  BY <1>6 DEF RevokeRefreshToken, CallTypes, ReadTypes, StoreTypes, Fit, Fits, Pairs, Goes, Signing, Counting, Looking, session
<1>7. CASE Fail(c)
  BY <1>7 DEF Fail, CallTypes, ReadTypes, StoreTypes, Fit, Fits, Pairs, Signing, Counting, Looking, session
<1>8. CASE WriteUser(c)
  BY <1>8 DEF WriteUser, CallTypes, ReadTypes, StoreTypes, Fit, Fits, Pairs, Signing, Counting, Looking, session, Settle
<1>9. CASE SetUserRequiredRefresh(c)
  BY <1>9 DEF SetUserRequiredRefresh, CallTypes, ReadTypes, StoreTypes, Fit, Fits, Pairs, Signing, Counting, Looking, session, Settle
<1>10. CASE PartFails(c)
  BY <1>10 DEF PartFails, CallTypes, ReadTypes, StoreTypes, Fit, Fits, Pairs, Signing, Counting, Looking, session
<1>11. CASE LateWriteUser(c)
  BY <1>11 DEF LateWriteUser, CallTypes, ReadTypes, StoreTypes, Fit, Fits, Pairs, Signing, Counting, Looking, session
<1>12. CASE LateSetKey(c)
  BY <1>12 DEF LateSetKey, CallTypes, ReadTypes, StoreTypes, Fit, Fits, Pairs, Signing, Counting, Looking, session
<1>13. CASE JwtGuard(c)
  BY <1>13 DEF JwtGuard, CallTypes, ReadTypes, StoreTypes, Fit, Fits, Pairs, Goes, Signing, Counting, Looking, session, Without
<1>14. CASE VerifyToken(c)
  BY <1>14 DEF VerifyToken, CallTypes, ReadTypes, StoreTypes, Fit, Fits, Pairs, Goes, Signing, Counting, Looking, session, Without
<1>15. CASE CheckIsRequiredRefresh(c)
  BY <1>15 DEF CheckIsRequiredRefresh, CallTypes, ReadTypes, StoreTypes, Fit, Fits, Pairs, Goes, Signing, Counting, Looking, session, Without
<1>16. CASE Admit(c)
  BY <1>16 DEF Admit, CallTypes, ReadTypes, StoreTypes, Fit, Fits, Pairs, Goes, Signing, Counting, Looking, session, Without
<1>17. CASE Deliver(c)
  BY <1>17 DEF Deliver, CallTypes, ReadTypes, StoreTypes, Fit, Fits, Pairs, Goes, Signing, Counting, Looking, session
<1>18. CASE Answer(c)
  BY <1>18 DEF Answer, CallTypes, ReadTypes, StoreTypes, Fit, Fits, Pairs, Goes, Signing, Counting, Looking, session, Acknowledged
<1> QED
  BY <1>1, <1>2, <1>3, <1>4, <1>5, <1>6, <1>7, <1>8, <1>9, <1>10, <1>11, <1>12, <1>13, <1>14, <1>15, <1>16, <1>17, <1>18 DEF Steps

LEMMA StoreTypesStep ==
  ASSUME CallTypes, ReadTypes, StoreTypes, Fit, NEW c \in Calls, Steps(c)
  PROVE  StoreTypes'
<1> USE RequestNow, SessionsAssumption
<1>1. CASE CheckRefreshToken(c)
  BY <1>1 DEF CheckRefreshToken, CallTypes, ReadTypes, StoreTypes, Fit, Fits, Pairs, Goes, Signing, Counting, Tokens, session
<1>2. CASE ReadUser(c)
  BY <1>2 DEF ReadUser, CallTypes, ReadTypes, StoreTypes, Fit, Fits, Pairs, Goes, Signing, Counting, Tokens, session
<1>3. CASE SignTokens(c)
  BY <1>3 DEF SignTokens, CallTypes, ReadTypes, StoreTypes, Fit, Fits, Pairs, Goes, Signing, Counting, Tokens, session
<1>4. CASE RemoveRequireRefresh(c)
  BY <1>4 DEF RemoveRequireRefresh, CallTypes, ReadTypes, StoreTypes, Fit, Fits, Pairs, Goes, Signing, Counting, Tokens, session
<1>5. CASE ReadCounter(c)
  BY <1>5 DEF ReadCounter, CallTypes, ReadTypes, StoreTypes, Fit, Fits, Pairs, Goes, Signing, Counting, Tokens, session
<1>6. CASE RevokeRefreshToken(c)
  BY <1>6 DEF RevokeRefreshToken, CallTypes, ReadTypes, StoreTypes, Fit, Fits, Pairs, Goes, Signing, Counting, Tokens, session, UsedOnce
<1>7. CASE Fail(c)
  BY <1>7 DEF Fail, CallTypes, ReadTypes, StoreTypes, Fit, Fits, Pairs, Signing, Counting, Tokens, session
<1>8. CASE WriteUser(c)
  BY <1>8 DEF WriteUser, CallTypes, ReadTypes, StoreTypes, Fit, Fits, Pairs, Signing, Counting, Tokens, session, Settle
<1>9. CASE SetUserRequiredRefresh(c)
  BY <1>9 DEF SetUserRequiredRefresh, CallTypes, ReadTypes, StoreTypes, Fit, Fits, Pairs, Signing, Counting, Tokens, session, Settle
<1>10. CASE PartFails(c)
  BY <1>10 DEF PartFails, CallTypes, ReadTypes, StoreTypes, Fit, Fits, Pairs, Signing, Counting, Tokens, session
<1>11. CASE LateWriteUser(c)
  BY <1>11 DEF LateWriteUser, CallTypes, ReadTypes, StoreTypes, Fit, Fits, Pairs, Signing, Counting, Tokens, session
<1>12. CASE LateSetKey(c)
  BY <1>12 DEF LateSetKey, CallTypes, ReadTypes, StoreTypes, Fit, Fits, Pairs, Signing, Counting, Tokens, session
<1>13. CASE JwtGuard(c)
  BY <1>13 DEF JwtGuard, CallTypes, ReadTypes, StoreTypes, Fit, Fits, Pairs, Goes, Signing, Counting, Tokens, session, Without
<1>14. CASE VerifyToken(c)
  BY <1>14 DEF VerifyToken, CallTypes, ReadTypes, StoreTypes, Fit, Fits, Pairs, Goes, Signing, Counting, Tokens, session, Without
<1>15. CASE CheckIsRequiredRefresh(c)
  BY <1>15 DEF CheckIsRequiredRefresh, CallTypes, ReadTypes, StoreTypes, Fit, Fits, Pairs, Goes, Signing, Counting, Tokens, session, Without
<1>16. CASE Admit(c)
  BY <1>16 DEF Admit, CallTypes, ReadTypes, StoreTypes, Fit, Fits, Pairs, Goes, Signing, Counting, Tokens, session, Without
<1>17. CASE Deliver(c)
  BY <1>17 DEF Deliver, CallTypes, ReadTypes, StoreTypes, Fit, Fits, Pairs, Goes, Signing, Counting, Tokens, session
<1>18. CASE Answer(c)
  BY <1>18 DEF Answer, CallTypes, ReadTypes, StoreTypes, Fit, Fits, Pairs, Goes, Signing, Counting, Tokens, session, Acknowledged
<1> QED
  BY <1>1, <1>2, <1>3, <1>4, <1>5, <1>6, <1>7, <1>8, <1>9, <1>10, <1>11, <1>12, <1>13, <1>14, <1>15, <1>16, <1>17, <1>18 DEF Steps

LEMMA MessageTypesStep ==
  ASSUME CallTypes, StoreTypes, MessageTypes, Fit, NEW c \in Calls, Steps(c)
  PROVE  MessageTypes'
<1>1. CASE CheckRefreshToken(c)
  BY <1>1 DEF CheckRefreshToken, CallTypes, StoreTypes, MessageTypes, Fit, Fits, Pairs, Goes, Looking, message
<1>2. CASE ReadUser(c)
  BY <1>2 DEF ReadUser, CallTypes, StoreTypes, MessageTypes, Fit, Fits, Pairs, Goes, Looking, message
<1>3. CASE SignTokens(c)
  BY <1>3 DEF SignTokens, CallTypes, StoreTypes, MessageTypes, Fit, Fits, Pairs, Goes, Looking, message
<1>4. CASE RemoveRequireRefresh(c)
  BY <1>4 DEF RemoveRequireRefresh, CallTypes, StoreTypes, MessageTypes, Fit, Fits, Pairs, Goes, Looking, message
<1>5. CASE ReadCounter(c)
  BY <1>5 DEF ReadCounter, CallTypes, StoreTypes, MessageTypes, Fit, Fits, Pairs, Goes, Looking, message
<1>6. CASE RevokeRefreshToken(c)
  BY <1>6 DEF RevokeRefreshToken, CallTypes, StoreTypes, MessageTypes, Fit, Fits, Pairs, Goes, Looking, message
<1>7. CASE Fail(c)
  BY <1>7 DEF Fail, CallTypes, StoreTypes, MessageTypes, Fit, Fits, Pairs, Looking, message
<1>8. CASE WriteUser(c)
  BY <1>8 DEF WriteUser, CallTypes, StoreTypes, MessageTypes, Fit, Fits, Pairs, Looking, message, Settle
<1>9. CASE SetUserRequiredRefresh(c)
  BY <1>9 DEF SetUserRequiredRefresh, CallTypes, StoreTypes, MessageTypes, Fit, Fits, Pairs, Looking, message, Settle
<1>10. CASE PartFails(c)
  BY <1>10 DEF PartFails, CallTypes, StoreTypes, MessageTypes, Fit, Fits, Pairs, Looking, message
<1>11. CASE LateWriteUser(c)
  BY <1>11 DEF LateWriteUser, CallTypes, StoreTypes, MessageTypes, Fit, Fits, Pairs, Looking, message
<1>12. CASE LateSetKey(c)
  BY <1>12 DEF LateSetKey, CallTypes, StoreTypes, MessageTypes, Fit, Fits, Pairs, Looking, message
<1>13. CASE JwtGuard(c)
  BY <1>13 DEF JwtGuard, CallTypes, StoreTypes, MessageTypes, Fit, Fits, Pairs, Goes, Looking, message, Without
<1>14. CASE VerifyToken(c)
  BY <1>14 DEF VerifyToken, CallTypes, StoreTypes, MessageTypes, Fit, Fits, Pairs, Goes, Looking, message, Without
<1>15. CASE CheckIsRequiredRefresh(c)
  BY <1>15 DEF CheckIsRequiredRefresh, CallTypes, StoreTypes, MessageTypes, Fit, Fits, Pairs, Goes, Looking, message, Without
<1>16. CASE Admit(c)
  BY <1>16 DEF Admit, CallTypes, StoreTypes, MessageTypes, Fit, Fits, Pairs, Goes, Looking, message, Without, Accepted
<1>17. CASE Deliver(c)
  BY <1>17 DEF Deliver, CallTypes, StoreTypes, MessageTypes, Fit, Fits, Pairs, Goes, Looking, message
<1>18. CASE Answer(c)
  BY <1>18 DEF Answer, CallTypes, StoreTypes, MessageTypes, Fit, Fits, Pairs, Goes, Looking, message, Acknowledged
<1> QED
  BY <1>1, <1>2, <1>3, <1>4, <1>5, <1>6, <1>7, <1>8, <1>9, <1>10, <1>11, <1>12, <1>13, <1>14, <1>15, <1>16, <1>17, <1>18 DEF Steps

LEMMA HistoryTypesStep ==
  ASSUME CallTypes, HistoryTypes, Fit, NEW c \in Calls, Steps(c)
  PROVE  HistoryTypes'
<1>1. CASE CheckRefreshToken(c)
  BY <1>1 DEF CheckRefreshToken, CallTypes, HistoryTypes, Goes
<1>2. CASE ReadUser(c)
  BY <1>2 DEF ReadUser, CallTypes, HistoryTypes, Goes
<1>3. CASE SignTokens(c)
  BY <1>3 DEF SignTokens, CallTypes, HistoryTypes, Goes
<1>4. CASE RemoveRequireRefresh(c)
  BY <1>4 DEF RemoveRequireRefresh, CallTypes, HistoryTypes, Goes
<1>5. CASE ReadCounter(c)
  BY <1>5 DEF ReadCounter, CallTypes, HistoryTypes, Goes
<1>6. CASE RevokeRefreshToken(c)
  BY <1>6 DEF RevokeRefreshToken, CallTypes, HistoryTypes, Goes
<1>7. CASE Fail(c)
  BY <1>7 DEF Fail, CallTypes, HistoryTypes
<1>8. CASE WriteUser(c)
  BY <1>8 DEF WriteUser, CallTypes, HistoryTypes, Settle, CallsIn, Signed
<1>9. CASE SetUserRequiredRefresh(c)
  BY <1>9 DEF SetUserRequiredRefresh, CallTypes, HistoryTypes, Settle, CallsIn, Signed
<1>10. CASE PartFails(c)
  BY <1>10 DEF PartFails, CallTypes, HistoryTypes
<1>11. CASE LateWriteUser(c)
  BY <1>11 DEF LateWriteUser, CallTypes, HistoryTypes
<1>12. CASE LateSetKey(c)
  BY <1>12 DEF LateSetKey, CallTypes, HistoryTypes
<1>13. CASE JwtGuard(c)
  BY <1>13 DEF JwtGuard, CallTypes, HistoryTypes, Goes, Without
<1>14. CASE VerifyToken(c)
  BY <1>14 DEF VerifyToken, CallTypes, HistoryTypes, Goes, Without
<1>15. CASE CheckIsRequiredRefresh(c)
  BY <1>15 DEF CheckIsRequiredRefresh, CallTypes, HistoryTypes, Goes, Without
<1>16. CASE Admit(c)
  BY <1>16 DEF Admit, CallTypes, HistoryTypes, Goes, Without
<1>17. CASE Deliver(c)
  BY <1>17 DEF Deliver, CallTypes, HistoryTypes, Goes
<1>18. CASE Answer(c)
  BY <1>18 DEF Answer, CallTypes, HistoryTypes, Goes, Acknowledged
<1> QED
  BY <1>1, <1>2, <1>3, <1>4, <1>5, <1>6, <1>7, <1>8, <1>9, <1>10, <1>11, <1>12, <1>13, <1>14, <1>15, <1>16, <1>17, <1>18 DEF Steps

-----------------------------------------------------------------------------
LEMMA TypeInit == Init => TypeOK /\ Fit
BY SessionsAssumption DEF Init, TypeOK, Fit, Fits, Pairs, Tokens, Signing, Counting, Looking

LEMMA StartTypes ==
  ASSUME TypeOK, Fit, NEW c \in Calls, NEW r \in Menu[c], Starts(c, r)
  PROVE  TypeOK' /\ Fit'
<1>1. r \in Requests
  BY SessionsAssumption
<1>2. CASE StartLogin(c, r)
  BY <1>1, <1>2, RequestFields
     DEF TypeOK, Fit, Fits, Pairs, StartLogin, Begin, session, message, Signing, Counting, Looking
<1>3. CASE StartRefresh(c, r)
  BY <1>1, <1>3, RequestFields
     DEF TypeOK, Fit, Fits, Pairs, StartRefresh, Begin, session, message, Signing, Counting, Looking
<1>4. CASE StartChange(c, r)
  BY <1>1, <1>4, RequestFields
     DEF TypeOK, Fit, Fits, Pairs, StartChange, Begin, session, message, Signing, Counting, Looking
<1>5. CASE StartCall(c, r)
  <2>1. r.kind = "call" /\ r.with \in Tokens \cup {None} /\ at[c] = "idle"
    BY <1>1, <1>5, RequestFields DEF StartCall, Begin
  <2>2. /\ at' = [at EXCEPT ![c] = at'[c]] /\ request' = [request EXCEPT ![c] = r]
        /\ at'[c] \in {"jwt", "failed", "queued"} /\ (at'[c] = "jwt" => r.with # None)
    BY <1>5 DEF StartCall, Begin, Without, TypeOK
  <2>3. UNCHANGED <<now, session, read, todo, message, barred, doomed>>
    BY <1>5 DEF StartCall
  <2>4. at'[c] = "jwt" => r.with \in Tokens /\ pair[r.with] \in Pairs
    BY <1>5, <2>1, <2>2 DEF StartCall, Usable, TypeOK, Fit, Pairs, Tokens
  <2>5. CallTypes' /\ ReadTypes'
    BY <1>1, <2>1, <2>2, <2>3, TypeParts
       DEF CallTypes, ReadTypes, Early, Looking, Ends
  <2>6. StoreTypes' /\ MessageTypes' /\ HistoryTypes'
    BY <2>3, TypeParts DEF StoreTypes, MessageTypes, HistoryTypes, session, message
  <2>7. Fit'
    BY <2>1, <2>2, <2>3, <2>4 DEF TypeOK, Fit, Fits, session, message, Signing, Counting, Looking
  <2> QED
    BY <2>5, <2>6, <2>7, TypeParts DEF CallTypes, ReadTypes, StoreTypes, MessageTypes, HistoryTypes, TypeOK, Early, Signing, Counting, Looking
<1> QED
  BY <1>2, <1>3, <1>4, <1>5 DEF Starts

LEMMA RestartTypes ==
  ASSUME TypeOK, Fit, NEW service \in DOMAIN Handlers, Restart(service)
  PROVE  TypeOK' /\ Fit'
BY DEF TypeOK, Fit, Fits, Restart, session, Signing, Counting, Looking, Ends

LEMMA TickTypes ==
  ASSUME TypeOK, Fit, Tick \/ UNCHANGED vars
  PROVE  TypeOK' /\ Fit'
BY DEF TypeOK, Fit, Fits, Tick, vars, session, message, Signing, Counting, Looking

LEMMA TypeNext == TypeOK /\ Fit /\ [Next]_vars => TypeOK' /\ Fit'
<1> SUFFICES ASSUME TypeOK, Fit, [Next]_vars PROVE TypeOK' /\ Fit'
  OBVIOUS
<1>1. ASSUME NEW c \in Calls, Steps(c) PROVE TypeOK' /\ Fit'
  <2>1. CallTypes' /\ Fit' /\ ReadTypes' /\ StoreTypes' /\ MessageTypes' /\ HistoryTypes'
    BY <1>1, TypeParts, CallTypesStep, FitStep, ReadTypesStep, StoreTypesStep, MessageTypesStep, HistoryTypesStep
  <2> QED
    BY <2>1 DEF CallTypes, ReadTypes, StoreTypes, MessageTypes, HistoryTypes, TypeOK, Early, Signing, Counting, Looking
<1>2. ASSUME NEW c \in Calls, NEW r \in Menu[c], Starts(c, r) PROVE TypeOK' /\ Fit'
  BY <1>2, StartTypes
<1>3. ASSUME NEW service \in DOMAIN Handlers, Restart(service) PROVE TypeOK' /\ Fit'
  BY <1>3, RestartTypes
<1>4. CASE Tick \/ UNCHANGED vars
  BY <1>4, TickTypes
<1> QED
  BY <1>1, <1>2, <1>3, <1>4 DEF Next, Quiet

(* Every variable keeps its type, and a call stands only where a call of   *)
(* its kind can.                                                           *)
THEOREM SessionTypes == Spec => []TypeOK
  BY TypeInit, TypeNext, PTL DEF Spec

-----------------------------------------------------------------------------
(* Tokens called in.  A token is known to its client once the call that    *)
(* signed it has removed the key; as long as there is a key it outlives    *)
(* every token that is known, so whoever finds the key run out finds the   *)
(* token expired at the gateway's last look at the clock.                  *)
PairsKnown ==
  /\ \A t \in Tokens : pair[t] # None => pair[t].at <= now
  /\ \A c \in Calls : pair[c] # None => at[c] \in {"unkey", "count", "recount", "done", "failed"}
Handed(t) == t = First \/ at[t] \in {"count", "recount", "done"}
Covered == key = 0 \/ \A t \in Signed : Handed(t) => Expires(t) <= key
BarredKnown == barred \subseteq Signed /\ (barred # {} => key # 0)
Waiting == \A c \in Calls : at[c] \in Looking => Usable(request[c].with)
Doom ==
  \A c \in Calls :
    /\ doomed[c] /\ at[c] = "admit" => now >= Expires(request[c].with)
    /\ who[c] # None => at[c] \notin Early
    /\ doomed[c] => who[c] = None
(* A message is taken once; a counter is not written below 1 unless the    *)
(* limit is.                                                               *)
RunsOnce ==
  \A c \in Calls :
    /\ at[c] \in Early => runs[c] = 0
    /\ (at[c] = "queued" /\ runs[c] # 0) \/ runs[c] > 1 => ~ Acknowledged(c)
UsesLeft ==
  /\ \A t \in Tokens : MaxUses > 0 /\ counter[t] # None => counter[t] >= 1
  /\ \A c \in Calls : MaxUses > 0 /\ at[c] = "recount" /\ read[c] # None => read[c] >= 1

Held == PairsKnown /\ Covered /\ BarredKnown /\ Waiting /\ Doom /\ RunsOnce /\ UsesLeft

LEMMA PairsKnownStep ==
  ASSUME TypeOK, Fit, PairsKnown, NEW c \in Calls, Steps(c)
  PROVE  PairsKnown'
<1> USE SessionsAssumption
<1>1. CASE CheckRefreshToken(c)
  BY <1>1 DEF CheckRefreshToken, TypeOK, Goes, session, message, Signing, Counting, Looking, PairsKnown, Fit, Fits, Tokens
<1>2. CASE ReadUser(c)
  BY <1>2 DEF ReadUser, TypeOK, Goes, session, message, Signing, Counting, Looking, PairsKnown, Fit, Fits, Tokens
<1>3. CASE SignTokens(c)
  BY <1>3 DEF SignTokens, TypeOK, Goes, session, message, Signing, Counting, Looking, PairsKnown, Fit, Fits, Tokens
<1>4. CASE RemoveRequireRefresh(c)
  BY <1>4 DEF RemoveRequireRefresh, TypeOK, Goes, session, message, Signing, Counting, Looking, PairsKnown, Fit, Fits, Tokens
<1>5. CASE ReadCounter(c)
  BY <1>5 DEF ReadCounter, TypeOK, Goes, session, message, Signing, Counting, Looking, PairsKnown, Fit, Fits, Tokens
<1>6. CASE RevokeRefreshToken(c)
  BY <1>6 DEF RevokeRefreshToken, TypeOK, Goes, session, message, Signing, Counting, Looking, PairsKnown, Fit, Fits, Tokens
<1>7. CASE Fail(c)
  BY <1>7 DEF Fail, TypeOK, session, message, Signing, Counting, Looking, PairsKnown, Fit, Fits, Tokens
<1>8. CASE WriteUser(c)
  BY <1>8 DEF WriteUser, TypeOK, session, message, Signing, Counting, Looking, PairsKnown, Fit, Fits, Tokens, Settle
<1>9. CASE SetUserRequiredRefresh(c)
  BY <1>9 DEF SetUserRequiredRefresh, TypeOK, session, message, Signing, Counting, Looking, PairsKnown, Fit, Fits, Tokens, Settle
<1>10. CASE PartFails(c)
  BY <1>10 DEF PartFails, TypeOK, session, message, Signing, Counting, Looking, PairsKnown, Fit, Fits, Tokens
<1>11. CASE LateWriteUser(c)
  BY <1>11 DEF LateWriteUser, TypeOK, session, message, Signing, Counting, Looking, PairsKnown, Fit, Fits, Tokens
<1>12. CASE LateSetKey(c)
  BY <1>12 DEF LateSetKey, TypeOK, session, message, Signing, Counting, Looking, PairsKnown, Fit, Fits, Tokens
<1>13. CASE JwtGuard(c)
  BY <1>13 DEF JwtGuard, TypeOK, Goes, session, message, Signing, Counting, Looking, PairsKnown, Fit, Fits, Tokens, Without
<1>14. CASE VerifyToken(c)
  BY <1>14 DEF VerifyToken, TypeOK, Goes, session, message, Signing, Counting, Looking, PairsKnown, Fit, Fits, Tokens, Without
<1>15. CASE CheckIsRequiredRefresh(c)
  BY <1>15 DEF CheckIsRequiredRefresh, TypeOK, Goes, session, message, Signing, Counting, Looking, PairsKnown, Fit, Fits, Tokens, Without
<1>16. CASE Admit(c)
  BY <1>16 DEF Admit, TypeOK, Goes, session, message, Signing, Counting, Looking, PairsKnown, Fit, Fits, Tokens, Without
<1>17. CASE Deliver(c)
  BY <1>17 DEF Deliver, TypeOK, Goes, session, message, Signing, Counting, Looking, PairsKnown, Fit, Fits, Tokens
<1>18. CASE Answer(c)
  BY <1>18 DEF Answer, TypeOK, Goes, session, message, Signing, Counting, Looking, PairsKnown, Fit, Fits, Tokens, Acknowledged
<1> QED
  BY <1>1, <1>2, <1>3, <1>4, <1>5, <1>6, <1>7, <1>8, <1>9, <1>10, <1>11, <1>12, <1>13, <1>14, <1>15, <1>16, <1>17, <1>18 DEF Steps

LEMMA CoveredStep ==
  ASSUME TypeOK, Fit, PairsKnown, Covered, NEW c \in Calls, Steps(c)
  PROVE  Covered'
<1> USE SessionsAssumption
<1>1. CASE CheckRefreshToken(c)
  BY <1>1 DEF CheckRefreshToken, TypeOK, Goes, session, message, Signing, Counting, Looking, PairsKnown, Covered, Handed, Signed, Expires, Tokens
<1>2. CASE ReadUser(c)
  BY <1>2 DEF ReadUser, TypeOK, Goes, session, message, Signing, Counting, Looking, PairsKnown, Covered, Handed, Signed, Expires, Tokens
<1>3. CASE SignTokens(c)
  BY <1>3 DEF SignTokens, TypeOK, Goes, session, message, Signing, Counting, Looking, PairsKnown, Covered, Handed, Signed, Expires, Tokens
<1>4. CASE RemoveRequireRefresh(c)
  BY <1>4 DEF RemoveRequireRefresh, TypeOK, Goes, session, message, Signing, Counting, Looking, PairsKnown, Covered, Handed, Signed, Expires, Tokens
<1>5. CASE ReadCounter(c)
  BY <1>5 DEF ReadCounter, TypeOK, Goes, session, message, Signing, Counting, Looking, PairsKnown, Covered, Handed, Signed, Expires, Tokens
<1>6. CASE RevokeRefreshToken(c)
  BY <1>6 DEF RevokeRefreshToken, TypeOK, Goes, session, message, Signing, Counting, Looking, PairsKnown, Covered, Handed, Signed, Expires, Tokens
<1>7. CASE Fail(c)
  BY <1>7 DEF Fail, TypeOK, session, message, Signing, Counting, Looking, PairsKnown, Covered, Handed, Signed, Expires, Tokens
<1>8. CASE WriteUser(c)
  BY <1>8 DEF WriteUser, TypeOK, session, message, Signing, Counting, Looking, PairsKnown, Covered, Handed, Signed, Expires, Tokens, Settle
<1>9. CASE SetUserRequiredRefresh(c)
  BY <1>9 DEF SetUserRequiredRefresh, TypeOK, session, message, Signing, Counting, Looking, PairsKnown, Covered, Handed, Signed, Expires, Tokens, Settle
<1>10. CASE PartFails(c)
  BY <1>10 DEF PartFails, TypeOK, session, message, Signing, Counting, Looking, PairsKnown, Covered, Handed, Signed, Expires, Tokens
<1>11. CASE LateWriteUser(c)
  BY <1>11 DEF LateWriteUser, TypeOK, session, message, Signing, Counting, Looking, PairsKnown, Covered, Handed, Signed, Expires, Tokens
<1>12. CASE LateSetKey(c)
  BY <1>12 DEF LateSetKey, TypeOK, session, message, Signing, Counting, Looking, PairsKnown, Covered, Handed, Signed, Expires, Tokens
<1>13. CASE JwtGuard(c)
  BY <1>13 DEF JwtGuard, TypeOK, Goes, session, message, Signing, Counting, Looking, PairsKnown, Covered, Handed, Signed, Expires, Tokens, Without
<1>14. CASE VerifyToken(c)
  BY <1>14 DEF VerifyToken, TypeOK, Goes, session, message, Signing, Counting, Looking, PairsKnown, Covered, Handed, Signed, Expires, Tokens, Without
<1>15. CASE CheckIsRequiredRefresh(c)
  BY <1>15 DEF CheckIsRequiredRefresh, TypeOK, Goes, session, message, Signing, Counting, Looking, PairsKnown, Covered, Handed, Signed, Expires, Tokens, Without
<1>16. CASE Admit(c)
  BY <1>16 DEF Admit, TypeOK, Goes, session, message, Signing, Counting, Looking, PairsKnown, Covered, Handed, Signed, Expires, Tokens, Without
<1>17. CASE Deliver(c)
  BY <1>17 DEF Deliver, TypeOK, Goes, session, message, Signing, Counting, Looking, PairsKnown, Covered, Handed, Signed, Expires, Tokens
<1>18. CASE Answer(c)
  BY <1>18 DEF Answer, TypeOK, Goes, session, message, Signing, Counting, Looking, PairsKnown, Covered, Handed, Signed, Expires, Tokens, Acknowledged
<1> QED
  BY <1>1, <1>2, <1>3, <1>4, <1>5, <1>6, <1>7, <1>8, <1>9, <1>10, <1>11, <1>12, <1>13, <1>14, <1>15, <1>16, <1>17, <1>18 DEF Steps

LEMMA BarredKnownStep ==
  ASSUME TypeOK, Fit, PairsKnown, BarredKnown, NEW c \in Calls, Steps(c)
  PROVE  BarredKnown'
<1> USE SessionsAssumption
<1>1. CASE CheckRefreshToken(c)
  BY <1>1 DEF CheckRefreshToken, TypeOK, Goes, session, message, Signing, Counting, Looking, PairsKnown, BarredKnown, Signed, Tokens
<1>2. CASE ReadUser(c)
  BY <1>2 DEF ReadUser, TypeOK, Goes, session, message, Signing, Counting, Looking, PairsKnown, BarredKnown, Signed, Tokens
<1>3. CASE SignTokens(c)
  BY <1>3 DEF SignTokens, TypeOK, Goes, session, message, Signing, Counting, Looking, PairsKnown, BarredKnown, Signed, Tokens
<1>4. CASE RemoveRequireRefresh(c)
  BY <1>4 DEF RemoveRequireRefresh, TypeOK, Goes, session, message, Signing, Counting, Looking, PairsKnown, BarredKnown, Signed, Tokens
<1>5. CASE ReadCounter(c)
  BY <1>5 DEF ReadCounter, TypeOK, Goes, session, message, Signing, Counting, Looking, PairsKnown, BarredKnown, Signed, Tokens
<1>6. CASE RevokeRefreshToken(c)
  BY <1>6 DEF RevokeRefreshToken, TypeOK, Goes, session, message, Signing, Counting, Looking, PairsKnown, BarredKnown, Signed, Tokens
<1>7. CASE Fail(c)
  BY <1>7 DEF Fail, TypeOK, session, message, Signing, Counting, Looking, PairsKnown, BarredKnown, Signed, Tokens
<1>8. CASE WriteUser(c)
  BY <1>8 DEF WriteUser, TypeOK, session, message, Signing, Counting, Looking, PairsKnown, BarredKnown, Signed, Tokens, Settle, CallsIn
<1>9. CASE SetUserRequiredRefresh(c)
  BY <1>9 DEF SetUserRequiredRefresh, TypeOK, session, message, Signing, Counting, Looking, PairsKnown, BarredKnown, Signed, Tokens, Settle, CallsIn
<1>10. CASE PartFails(c)
  BY <1>10 DEF PartFails, TypeOK, session, message, Signing, Counting, Looking, PairsKnown, BarredKnown, Signed, Tokens
<1>11. CASE LateWriteUser(c)
  BY <1>11 DEF LateWriteUser, TypeOK, session, message, Signing, Counting, Looking, PairsKnown, BarredKnown, Signed, Tokens
<1>12. CASE LateSetKey(c)
  BY <1>12 DEF LateSetKey, TypeOK, session, message, Signing, Counting, Looking, PairsKnown, BarredKnown, Signed, Tokens
<1>13. CASE JwtGuard(c)
  BY <1>13 DEF JwtGuard, TypeOK, Goes, session, message, Signing, Counting, Looking, PairsKnown, BarredKnown, Signed, Tokens, Without
<1>14. CASE VerifyToken(c)
  BY <1>14 DEF VerifyToken, TypeOK, Goes, session, message, Signing, Counting, Looking, PairsKnown, BarredKnown, Signed, Tokens, Without
<1>15. CASE CheckIsRequiredRefresh(c)
  BY <1>15 DEF CheckIsRequiredRefresh, TypeOK, Goes, session, message, Signing, Counting, Looking, PairsKnown, BarredKnown, Signed, Tokens, Without
<1>16. CASE Admit(c)
  BY <1>16 DEF Admit, TypeOK, Goes, session, message, Signing, Counting, Looking, PairsKnown, BarredKnown, Signed, Tokens, Without
<1>17. CASE Deliver(c)
  BY <1>17 DEF Deliver, TypeOK, Goes, session, message, Signing, Counting, Looking, PairsKnown, BarredKnown, Signed, Tokens
<1>18. CASE Answer(c)
  BY <1>18 DEF Answer, TypeOK, Goes, session, message, Signing, Counting, Looking, PairsKnown, BarredKnown, Signed, Tokens, Acknowledged
<1> QED
  BY <1>1, <1>2, <1>3, <1>4, <1>5, <1>6, <1>7, <1>8, <1>9, <1>10, <1>11, <1>12, <1>13, <1>14, <1>15, <1>16, <1>17, <1>18 DEF Steps

LEMMA WaitingStep ==
  ASSUME TypeOK, Fit, Waiting, NEW c \in Calls, Steps(c)
  PROVE  Waiting'
<1> USE SessionsAssumption
<1>1. CASE CheckRefreshToken(c)
  BY <1>1 DEF CheckRefreshToken, TypeOK, Goes, session, message, Signing, Counting, Looking, Waiting, Usable, Fit, Fits
<1>2. CASE ReadUser(c)
  BY <1>2 DEF ReadUser, TypeOK, Goes, session, message, Signing, Counting, Looking, Waiting, Usable, Fit, Fits
<1>3. CASE SignTokens(c)
  BY <1>3 DEF SignTokens, TypeOK, Goes, session, message, Signing, Counting, Looking, Waiting, Usable, Fit, Fits
<1>4. CASE RemoveRequireRefresh(c)
  BY <1>4 DEF RemoveRequireRefresh, TypeOK, Goes, session, message, Signing, Counting, Looking, Waiting, Usable, Fit, Fits
<1>5. CASE ReadCounter(c)
  BY <1>5 DEF ReadCounter, TypeOK, Goes, session, message, Signing, Counting, Looking, Waiting, Usable, Fit, Fits
<1>6. CASE RevokeRefreshToken(c)
  BY <1>6 DEF RevokeRefreshToken, TypeOK, Goes, session, message, Signing, Counting, Looking, Waiting, Usable, Fit, Fits
<1>7. CASE Fail(c)
  BY <1>7 DEF Fail, TypeOK, session, message, Signing, Counting, Looking, Waiting, Usable, Fit, Fits
<1>8. CASE WriteUser(c)
  BY <1>8 DEF WriteUser, TypeOK, session, message, Signing, Counting, Looking, Waiting, Usable, Fit, Fits, Settle
<1>9. CASE SetUserRequiredRefresh(c)
  BY <1>9 DEF SetUserRequiredRefresh, TypeOK, session, message, Signing, Counting, Looking, Waiting, Usable, Fit, Fits, Settle
<1>10. CASE PartFails(c)
  BY <1>10 DEF PartFails, TypeOK, session, message, Signing, Counting, Looking, Waiting, Usable, Fit, Fits
<1>11. CASE LateWriteUser(c)
  BY <1>11 DEF LateWriteUser, TypeOK, session, message, Signing, Counting, Looking, Waiting, Usable, Fit, Fits
<1>12. CASE LateSetKey(c)
  BY <1>12 DEF LateSetKey, TypeOK, session, message, Signing, Counting, Looking, Waiting, Usable, Fit, Fits
<1>13. CASE JwtGuard(c)
  BY <1>13 DEF JwtGuard, TypeOK, Goes, session, message, Signing, Counting, Looking, Waiting, Usable, Fit, Fits, Without
<1>14. CASE VerifyToken(c)
  BY <1>14 DEF VerifyToken, TypeOK, Goes, session, message, Signing, Counting, Looking, Waiting, Usable, Fit, Fits, Without
<1>15. CASE CheckIsRequiredRefresh(c)
  BY <1>15 DEF CheckIsRequiredRefresh, TypeOK, Goes, session, message, Signing, Counting, Looking, Waiting, Usable, Fit, Fits, Without
<1>16. CASE Admit(c)
  BY <1>16 DEF Admit, TypeOK, Goes, session, message, Signing, Counting, Looking, Waiting, Usable, Fit, Fits, Without
<1>17. CASE Deliver(c)
  BY <1>17 DEF Deliver, TypeOK, Goes, session, message, Signing, Counting, Looking, Waiting, Usable, Fit, Fits
<1>18. CASE Answer(c)
  BY <1>18 DEF Answer, TypeOK, Goes, session, message, Signing, Counting, Looking, Waiting, Usable, Fit, Fits, Acknowledged
<1> QED
  BY <1>1, <1>2, <1>3, <1>4, <1>5, <1>6, <1>7, <1>8, <1>9, <1>10, <1>11, <1>12, <1>13, <1>14, <1>15, <1>16, <1>17, <1>18 DEF Steps

LEMMA RunsOnceStep ==
  ASSUME TypeOK, RunsOnce, NEW c \in Calls, Steps(c)
  PROVE  RunsOnce'
<1>1. CASE CheckRefreshToken(c)
  BY <1>1 DEF CheckRefreshToken, TypeOK, Goes, session, message, Signing, Counting, Looking, RunsOnce, Early, Acknowledged
<1>2. CASE ReadUser(c)
  BY <1>2 DEF ReadUser, TypeOK, Goes, session, message, Signing, Counting, Looking, RunsOnce, Early, Acknowledged
<1>3. CASE SignTokens(c)
  BY <1>3 DEF SignTokens, TypeOK, Goes, session, message, Signing, Counting, Looking, RunsOnce, Early, Acknowledged
<1>4. CASE RemoveRequireRefresh(c)
  BY <1>4 DEF RemoveRequireRefresh, TypeOK, Goes, session, message, Signing, Counting, Looking, RunsOnce, Early, Acknowledged
<1>5. CASE ReadCounter(c)
  BY <1>5 DEF ReadCounter, TypeOK, Goes, session, message, Signing, Counting, Looking, RunsOnce, Early, Acknowledged
<1>6. CASE RevokeRefreshToken(c)
  BY <1>6 DEF RevokeRefreshToken, TypeOK, Goes, session, message, Signing, Counting, Looking, RunsOnce, Early, Acknowledged
<1>7. CASE Fail(c)
  BY <1>7 DEF Fail, TypeOK, session, message, Signing, Counting, Looking, RunsOnce, Early, Acknowledged
<1>8. CASE WriteUser(c)
  BY <1>8 DEF WriteUser, TypeOK, session, message, Signing, Counting, Looking, RunsOnce, Early, Acknowledged, Settle
<1>9. CASE SetUserRequiredRefresh(c)
  BY <1>9 DEF SetUserRequiredRefresh, TypeOK, session, message, Signing, Counting, Looking, RunsOnce, Early, Acknowledged, Settle
<1>10. CASE PartFails(c)
  BY <1>10 DEF PartFails, TypeOK, session, message, Signing, Counting, Looking, RunsOnce, Early, Acknowledged
<1>11. CASE LateWriteUser(c)
  BY <1>11 DEF LateWriteUser, TypeOK, session, message, Signing, Counting, Looking, RunsOnce, Early, Acknowledged
<1>12. CASE LateSetKey(c)
  BY <1>12 DEF LateSetKey, TypeOK, session, message, Signing, Counting, Looking, RunsOnce, Early, Acknowledged
<1>13. CASE JwtGuard(c)
  BY <1>13 DEF JwtGuard, TypeOK, Goes, session, message, Signing, Counting, Looking, RunsOnce, Early, Acknowledged, Without
<1>14. CASE VerifyToken(c)
  BY <1>14 DEF VerifyToken, TypeOK, Goes, session, message, Signing, Counting, Looking, RunsOnce, Early, Acknowledged, Without
<1>15. CASE CheckIsRequiredRefresh(c)
  BY <1>15 DEF CheckIsRequiredRefresh, TypeOK, Goes, session, message, Signing, Counting, Looking, RunsOnce, Early, Acknowledged, Without
<1>16. CASE Admit(c)
  BY <1>16 DEF Admit, TypeOK, Goes, session, message, Signing, Counting, Looking, RunsOnce, Early, Acknowledged, Without
<1>17. CASE Deliver(c)
  BY <1>17 DEF Deliver, TypeOK, Goes, session, message, Signing, Counting, Looking, RunsOnce, Early, Acknowledged
<1>18. CASE Answer(c)
  BY <1>18 DEF Answer, TypeOK, Goes, session, message, Signing, Counting, Looking, RunsOnce, Early, Acknowledged, Acknowledged
<1> QED
  BY <1>1, <1>2, <1>3, <1>4, <1>5, <1>6, <1>7, <1>8, <1>9, <1>10, <1>11, <1>12, <1>13, <1>14, <1>15, <1>16, <1>17, <1>18 DEF Steps

LEMMA UsesLeftStep ==
  ASSUME TypeOK, Fit, UsesLeft, NEW c \in Calls, Steps(c)
  PROVE  UsesLeft'
<1> USE RequestNow, TypeParts, SessionsAssumption
<1>1. CASE CheckRefreshToken(c)
  BY <1>1 DEF CheckRefreshToken, TypeOK, Goes, session, message, Signing, Counting, Looking, UsesLeft, Fit, Fits
<1>2. CASE ReadUser(c)
  BY <1>2 DEF ReadUser, TypeOK, Goes, session, message, Signing, Counting, Looking, UsesLeft, Fit, Fits
<1>3. CASE SignTokens(c)
  BY <1>3 DEF SignTokens, TypeOK, Goes, session, message, Signing, Counting, Looking, UsesLeft, Fit, Fits
<1>4. CASE RemoveRequireRefresh(c)
  BY <1>4 DEF RemoveRequireRefresh, TypeOK, Goes, session, message, Signing, Counting, Looking, UsesLeft, Fit, Fits
<1>5. CASE ReadCounter(c)
  BY <1>5 DEF ReadCounter, TypeOK, Goes, session, message, Signing, Counting, Looking, UsesLeft, Fit, Fits
<1>6. CASE RevokeRefreshToken(c)
  BY <1>6 DEF RevokeRefreshToken, TypeOK, Goes, session, message, Signing, Counting, Looking, UsesLeft, Fit, Fits, UsedOnce
<1>7. CASE Fail(c)
  BY <1>7 DEF Fail, TypeOK, session, message, Signing, Counting, Looking, UsesLeft, Fit, Fits
<1>8. CASE WriteUser(c)
  BY <1>8 DEF WriteUser, TypeOK, session, message, Signing, Counting, Looking, UsesLeft, Fit, Fits, Settle
<1>9. CASE SetUserRequiredRefresh(c)
  BY <1>9 DEF SetUserRequiredRefresh, TypeOK, session, message, Signing, Counting, Looking, UsesLeft, Fit, Fits, Settle
<1>10. CASE PartFails(c)
  BY <1>10 DEF PartFails, TypeOK, session, message, Signing, Counting, Looking, UsesLeft, Fit, Fits
<1>11. CASE LateWriteUser(c)
  BY <1>11 DEF LateWriteUser, TypeOK, session, message, Signing, Counting, Looking, UsesLeft, Fit, Fits
<1>12. CASE LateSetKey(c)
  BY <1>12 DEF LateSetKey, TypeOK, session, message, Signing, Counting, Looking, UsesLeft, Fit, Fits
<1>13. CASE JwtGuard(c)
  BY <1>13 DEF JwtGuard, TypeOK, Goes, session, message, Signing, Counting, Looking, UsesLeft, Fit, Fits, Without
<1>14. CASE VerifyToken(c)
  BY <1>14 DEF VerifyToken, TypeOK, Goes, session, message, Signing, Counting, Looking, UsesLeft, Fit, Fits, Without
<1>15. CASE CheckIsRequiredRefresh(c)
  BY <1>15 DEF CheckIsRequiredRefresh, TypeOK, Goes, session, message, Signing, Counting, Looking, UsesLeft, Fit, Fits, Without
<1>16. CASE Admit(c)
  BY <1>16 DEF Admit, TypeOK, Goes, session, message, Signing, Counting, Looking, UsesLeft, Fit, Fits, Without
<1>17. CASE Deliver(c)
  BY <1>17 DEF Deliver, TypeOK, Goes, session, message, Signing, Counting, Looking, UsesLeft, Fit, Fits
<1>18. CASE Answer(c)
  BY <1>18 DEF Answer, TypeOK, Goes, session, message, Signing, Counting, Looking, UsesLeft, Fit, Fits, Acknowledged
<1> QED
  BY <1>1, <1>2, <1>3, <1>4, <1>5, <1>6, <1>7, <1>8, <1>9, <1>10, <1>11, <1>12, <1>13, <1>14, <1>15, <1>16, <1>17, <1>18 DEF Steps

LEMMA DoomStep ==
  ASSUME TypeOK, Fit, PairsKnown, Covered, BarredKnown, Waiting, Doom, NEW c \in Calls, Steps(c)
  PROVE  Doom'
<1> USE SessionsAssumption
<1>1. CASE CheckRefreshToken(c)
  BY <1>1 DEF CheckRefreshToken, TypeOK, Goes, session, message, Signing, Counting, Looking, Doom, Fit, Fits, Early, Expires, Tokens
<1>2. CASE ReadUser(c)
  BY <1>2 DEF ReadUser, TypeOK, Goes, session, message, Signing, Counting, Looking, Doom, Fit, Fits, Early, Expires, Tokens
<1>3. CASE SignTokens(c)
  <2>1. /\ at[c] = "sign" /\ at' = [at EXCEPT ![c] = "unkey"] /\ now' = now
        /\ UNCHANGED <<request, who, doomed>>
        /\ \A t \in Tokens \ {c} : pair'[t] = pair[t]
    BY <1>3 DEF SignTokens, Goes, TypeOK, message
  <2>2. \A d \in Calls : at[d] = "admit" => request[d].with \in Tokens \ {c}
    BY <2>1 DEF Fit, Fits, Waiting, Usable, Looking, Tokens
  <2>3. \A d \in Calls : at'[d] = IF d = c THEN "unkey" ELSE at[d]
    BY <2>1 DEF TypeOK
  <2>4. \A d \in Calls : at'[d] = "admit" => Expires(request[d].with)' = Expires(request[d].with)
    BY <2>1, <2>2, <2>3 DEF Expires
  <2> QED
    BY <2>1, <2>3, <2>4 DEF Doom, Early, Signing
<1>4. CASE RemoveRequireRefresh(c)
  BY <1>4 DEF RemoveRequireRefresh, TypeOK, Goes, session, message, Signing, Counting, Looking, Doom, Fit, Fits, Early, Expires, Tokens
<1>5. CASE ReadCounter(c)
  BY <1>5 DEF ReadCounter, TypeOK, Goes, session, message, Signing, Counting, Looking, Doom, Fit, Fits, Early, Expires, Tokens
<1>6. CASE RevokeRefreshToken(c)
  BY <1>6 DEF RevokeRefreshToken, TypeOK, Goes, session, message, Signing, Counting, Looking, Doom, Fit, Fits, Early, Expires, Tokens
<1>7. CASE Fail(c)
  BY <1>7 DEF Fail, TypeOK, session, message, Signing, Counting, Looking, Doom, Fit, Fits, Early, Expires, Tokens
<1>8. CASE WriteUser(c)
  BY <1>8 DEF WriteUser, TypeOK, session, message, Signing, Counting, Looking, Doom, Fit, Fits, Early, Expires, Tokens, Settle
<1>9. CASE SetUserRequiredRefresh(c)
  BY <1>9 DEF SetUserRequiredRefresh, TypeOK, session, message, Signing, Counting, Looking, Doom, Fit, Fits, Early, Expires, Tokens, Settle
<1>10. CASE PartFails(c)
  BY <1>10 DEF PartFails, TypeOK, session, message, Signing, Counting, Looking, Doom, Fit, Fits, Early, Expires, Tokens
<1>11. CASE LateWriteUser(c)
  BY <1>11 DEF LateWriteUser, TypeOK, session, message, Signing, Counting, Looking, Doom, Fit, Fits, Early, Expires, Tokens
<1>12. CASE LateSetKey(c)
  BY <1>12 DEF LateSetKey, TypeOK, session, message, Signing, Counting, Looking, Doom, Fit, Fits, Early, Expires, Tokens
<1>13. CASE JwtGuard(c)
  BY <1>13 DEF JwtGuard, TypeOK, Goes, session, message, Signing, Counting, Looking, Doom, Fit, Fits, Early, Expires, Tokens, Without
<1>14. CASE VerifyToken(c)
  BY <1>14 DEF VerifyToken, TypeOK, Goes, session, message, Signing, Counting, Looking, Doom, Fit, Fits, Early, Expires, Tokens, Without
<1>15. CASE CheckIsRequiredRefresh(c)
  <2> DEFINE t == request[c].with
  <2>1. /\ at[c] = "key" /\ \A d \in Calls \ {c} : at'[d] = at[d]
        /\ at'[c] = "admit" => now >= key
        /\ doomed' = [doomed EXCEPT ![c] = t \in barred]
        /\ UNCHANGED <<now, key, pair, request, who>>
    <3>1. \A d \in Calls \ {c} : at'[d] = at[d]
      BY <1>15 DEF CheckIsRequiredRefresh, Goes, TypeOK
    <3>2. at'[c] = "admit" => ~ (now < key)
      BY <1>15 DEF CheckIsRequiredRefresh, Goes, Without, TypeOK
    <3>3. now \in Nat /\ key \in Nat
      BY DEF TypeOK
    <3> QED
      BY <1>15, <3>1, <3>2, <3>3 DEF CheckIsRequiredRefresh, Goes, session, message
  <2>2. at'[c] \in {"admit", "failed", "queued"}
    BY <1>15 DEF CheckIsRequiredRefresh, Goes, TypeOK, Without
  <2>3. t \in Tokens /\ Handed(t) /\ pair[t] \in Pairs
    BY <2>1 DEF Fit, Fits, Waiting, Usable, Looking, Handed, Pairs
  <2>4. ASSUME t \in barred, at'[c] = "admit" PROVE now >= Expires(t)
    <3>1. key # 0 /\ t \in Signed
      BY <2>4 DEF BarredKnown
    <3>2. Expires(t) <= key
      BY <3>1, <2>3 DEF Covered
    <3>3. Expires(t) \in Nat
      BY <2>3, SessionsAssumption DEF Expires, Pairs
    <3> QED
      BY <3>2, <3>3, <2>1, <2>4 DEF TypeOK
  <2>5. who[c] = None
    BY <2>1 DEF Doom, Early, Looking
  <2>6. \A d \in Calls \ {c} : doomed'[d] = doomed[d]
    BY <2>1 DEF TypeOK
  <2>7. doomed'[c] = (t \in barred)
    BY <2>1 DEF TypeOK
  <2>8. \A d \in Calls : Expires(request[d].with)' = Expires(request[d].with)
    BY <2>1 DEF Expires
  <2> QED
    BY <2>1, <2>2, <2>4, <2>5, <2>6, <2>7, <2>8 DEF Doom, Early
<1>16. CASE Admit(c)
  <2>1. /\ at[c] = "admit" /\ at'[c] \in {"queued", "failed"}
        /\ \A d \in Calls \ {c} : at'[d] = at[d] /\ who'[d] = who[d]
        /\ UNCHANGED <<now, pair, request, doomed>>
    BY <1>16 DEF Admit, Goes, TypeOK, Without, session
  <2>2. doomed[c] => who'[c] = None
    <3>1. request[c].with \in Tokens /\ pair[request[c].with] \in Pairs
      BY <2>1 DEF Fit, Fits, Looking
    <3>2. Expires(request[c].with) \in Nat
      BY <3>1, SessionsAssumption DEF Expires, Pairs
    <3>3. doomed[c] => ~ Accepted(c)
      BY <2>1, <3>2 DEF Doom, Accepted, TypeOK
    <3> QED
      BY <1>16, <3>3 DEF Admit, TypeOK
  <2>3. \A d \in Calls : Expires(request[d].with)' = Expires(request[d].with)
    BY <2>1 DEF Expires
  <2> QED
    BY <2>1, <2>2, <2>3 DEF Doom, Early, Signing, Counting, Looking
<1>17. CASE Deliver(c)
  BY <1>17 DEF Deliver, TypeOK, Goes, session, message, Signing, Counting, Looking, Doom, Fit, Fits, Early, Expires, Tokens
<1>18. CASE Answer(c)
  BY <1>18 DEF Answer, TypeOK, Goes, session, message, Signing, Counting, Looking, Doom, Fit, Fits, Early, Expires, Tokens, Acknowledged
<1> QED
  BY <1>1, <1>2, <1>3, <1>4, <1>5, <1>6, <1>7, <1>8, <1>9, <1>10, <1>11, <1>12, <1>13, <1>14, <1>15, <1>16, <1>17, <1>18 DEF Steps

-----------------------------------------------------------------------------
(* The steps that are not a call's own way.                                *)
LEMMA HeldInit == Init => Held
BY SessionsAssumption
   DEF Init, Held, PairsKnown, Covered, BarredKnown, Waiting, Doom, RunsOnce, UsesLeft,
       Tokens, Handed, Signed, Early, Looking, Acknowledged

(* What every start has in common: a call that was idle, and so has signed *)
(* nothing, is asked something.                                            *)
LEMMA StartPlace ==
  ASSUME TypeOK, NEW c \in Calls, NEW r \in Menu[c], Starts(c, r)
  PROVE  /\ at[c] = "idle" /\ at'[c] \in {"read", "counter", "change", "jwt", "queued", "failed"}
         /\ request'[c] = r
         /\ \A d \in Calls \ {c} : at'[d] = at[d] /\ request'[d] = request[d]
         /\ at'[c] = "jwt" => r.with # None /\ Usable(r.with)
         /\ UNCHANGED <<now, session, read, message, barred, doomed>>
<1>1. CASE StartLogin(c, r)
  BY <1>1 DEF StartLogin, Begin, TypeOK
<1>2. CASE StartRefresh(c, r)
  BY <1>2 DEF StartRefresh, Begin, TypeOK
<1>3. CASE StartChange(c, r)
  BY <1>3 DEF StartChange, Begin, TypeOK
<1>4. CASE StartCall(c, r)
  BY <1>4 DEF StartCall, Begin, TypeOK, Without
<1> QED
  BY <1>1, <1>2, <1>3, <1>4 DEF Starts

LEMMA StartHeld ==
  ASSUME TypeOK, Fit, Held, NEW c \in Calls, NEW r \in Menu[c], Starts(c, r)
  PROVE  Held'
<1>1. /\ at[c] = "idle" /\ at'[c] \in {"read", "counter", "change", "jwt", "queued", "failed"}
      /\ request'[c] = r
      /\ \A d \in Calls \ {c} : at'[d] = at[d] /\ request'[d] = request[d]
      /\ at'[c] = "jwt" => r.with # None /\ Usable(r.with)
  BY StartPlace
<1>2. /\ now' = now /\ key' = key /\ pair' = pair /\ counter' = counter /\ read' = read
      /\ who' = who /\ runs' = runs /\ barred' = barred /\ doomed' = doomed
  BY StartPlace DEF session, message
<1>3. pair[c] = None
  BY <1>1 DEF Held, PairsKnown
<1>4. PairsKnown'
  BY <1>1, <1>2, <1>3 DEF Held, PairsKnown
<1>5. \A t \in Tokens : Handed(t)' => Handed(t)
  BY <1>1 DEF Handed, Tokens
<1>6. Covered'
  BY <1>2, <1>5 DEF Held, Covered, Signed, Expires, Tokens
<1>7. BarredKnown'
  BY <1>2 DEF Held, BarredKnown, Signed
<1>8. \A t \in Tokens \cup {None} : Usable(t) => Usable(t)'
  BY <1>1, <1>2 DEF Usable
<1>9. Waiting'
  <2>1. ASSUME NEW d \in Calls, at'[d] \in Looking PROVE Usable(request[d].with)'
    <3>1. CASE d = c
      <4>1. request'[d].with = r.with /\ Usable(r.with)
        BY <1>1, <2>1, <3>1 DEF Looking
      <4> QED
        BY <4>1, <1>1, <1>2 DEF Usable
    <3>2. CASE d # c
      <4>1. request'[d].with = request[d].with /\ Usable(request[d].with)
        BY <1>1, <2>1, <3>2 DEF Held, Waiting
      <4> QED
        BY <4>1, <1>1, <1>2 DEF Usable
    <3> QED
      BY <3>1, <3>2
  <2> QED
    BY <2>1 DEF Waiting
<1>10. Doom'
  <2>1. \A d \in Calls \ {c} : Expires(request[d].with)' = Expires(request[d].with)
    BY <1>1, <1>2 DEF Expires
  <2>2. who[c] = None /\ at'[c] # "admit"
    BY <1>1 DEF Held, Doom, Early
  <2> QED
    BY <1>1, <1>2, <2>1, <2>2 DEF Held, Doom
<1>11. RunsOnce'
  <2>1. runs[c] = 0
    BY <1>1 DEF Held, RunsOnce, Early
  <2> QED
    BY <1>1, <1>2, <2>1 DEF Held, RunsOnce, Acknowledged
<1>12. UsesLeft'
  BY <1>1, <1>2 DEF Held, UsesLeft
<1> QED
  BY <1>4, <1>6, <1>7, <1>9, <1>10, <1>11, <1>12 DEF Held

(* A restart moves only messages that a handler has taken.                 *)
LEMMA RestartHeld ==
  ASSUME TypeOK, Held, NEW service \in DOMAIN Handlers, Restart(service)
  PROVE  Held'
<1>1. \A c \in Calls :
        \/ at'[c] = at[c]
        \/ at[c] \in {"working", "answered"}
           /\ (at'[c] = "lost" \/ (at'[c] = "queued" /\ ~ Acknowledged(c)))
  BY DEF Restart
<1>2. /\ now' = now /\ key' = key /\ pair' = pair /\ counter' = counter /\ read' = read
      /\ who' = who /\ runs' = runs /\ barred' = barred /\ doomed' = doomed /\ request' = request
  BY DEF Restart, session
<1>3. PairsKnown' /\ BarredKnown'
  BY <1>1, <1>2 DEF Held, PairsKnown, BarredKnown, Signed
<1>4. Covered'
  <2>1. \A t \in Tokens : Handed(t)' => Handed(t)
    BY <1>1 DEF Handed, Tokens
  <2> QED
    BY <1>2, <2>1 DEF Held, Covered, Signed, Expires
<1>5. Waiting'
  BY <1>1, <1>2 DEF Held, Waiting, Usable, Looking
<1>6. Doom'
  BY <1>1, <1>2 DEF Held, Doom, Early, Signing, Counting, Looking, Expires
<1>7. RunsOnce'
  BY <1>1, <1>2 DEF Held, RunsOnce, Early, Signing, Counting, Looking, Acknowledged
<1>8. UsesLeft'
  BY <1>1, <1>2 DEF Held, UsesLeft
<1> QED
  BY <1>3, <1>4, <1>5, <1>6, <1>7, <1>8 DEF Held

(* Time only lets tokens expire.                                           *)
LEMMA TickHeld ==
  ASSUME TypeOK, Fit, Held, Tick \/ UNCHANGED vars
  PROVE  Held'
<1>1. /\ key' = key /\ pair' = pair /\ counter' = counter /\ read' = read /\ at' = at
      /\ who' = who /\ runs' = runs /\ barred' = barred /\ doomed' = doomed /\ request' = request
  BY DEF Tick, vars, session, message
<1>2. now \in Nat /\ now' \in {now, now + 1}
  BY DEF Tick, vars, TypeOK
<1>3. PairsKnown'
  BY <1>1, <1>2 DEF Held, PairsKnown, TypeOK, Tokens
<1>4. Covered' /\ BarredKnown' /\ Waiting'
  BY <1>1 DEF Held, Covered, BarredKnown, Waiting, Usable, Handed, Signed, Expires
<1>5. Doom'
  <2>1. ASSUME NEW c \in Calls, doomed[c], at[c] = "admit"
        PROVE  now' >= Expires(request[c].with)
    <3>1. pair[request[c].with] \in Pairs
      BY <2>1 DEF Fit, Fits, Looking
    <3>2. Expires(request[c].with) \in Nat
      BY <3>1, SessionsAssumption DEF Expires, Pairs
    <3> QED
      BY <2>1, <3>2, <1>2 DEF Held, Doom
  <2> QED
    BY <1>1, <2>1 DEF Held, Doom, Expires
<1>6. RunsOnce' /\ UsesLeft'
  BY <1>1 DEF Held, RunsOnce, UsesLeft, Acknowledged
<1> QED
  BY <1>3, <1>4, <1>5, <1>6 DEF Held

LEMMA HeldNext == TypeOK /\ Fit /\ Held /\ [Next]_vars => Held'
<1> SUFFICES ASSUME TypeOK, Fit, Held, [Next]_vars PROVE Held'
  OBVIOUS
<1>1. ASSUME NEW c \in Calls, Steps(c) PROVE Held'
  BY <1>1, PairsKnownStep, CoveredStep, BarredKnownStep, WaitingStep, DoomStep, RunsOnceStep,
     UsesLeftStep DEF Held
<1>2. ASSUME NEW c \in Calls, NEW r \in Menu[c], Starts(c, r) PROVE Held'
  BY <1>2, StartHeld
<1>3. ASSUME NEW service \in DOMAIN Handlers, Restart(service) PROVE Held'
  BY <1>3, RestartHeld
<1>4. CASE Tick \/ UNCHANGED vars
  BY <1>4, TickHeld
<1> QED
  BY <1>1, <1>2, <1>3, <1>4 DEF Next, Quiet

LEMMA HeldHere == TypeOK /\ Held => StaleRoleRefused /\ AtMostOnce /\ LimitIgnored
<1> SUFFICES ASSUME TypeOK, Held PROVE StaleRoleRefused /\ AtMostOnce /\ LimitIgnored
  OBVIOUS
<1>1. StaleRoleRefused
  BY DEF Held, Doom, StaleRoleRefused
<1>2. AtMostOnce
  <2> SUFFICES ASSUME NEW c \in Calls, runs[c] > 1 PROVE ~ Acknowledged(c)
    BY DEF AtMostOnce, Acknowledged
  <2>1. runs[c] \in Nat
    BY DEF TypeOK
  <2> QED
    BY <2>1 DEF Held, RunsOnce
<1>3. LimitIgnored
  <2> SUFFICES ASSUME NEW t \in Tokens, counter[t] # None PROVE counter[t] < 1 <=> MaxUses = 0
    BY DEF LimitIgnored, UsedUp
  <2>1. counter[t] \in 0..MaxUses /\ MaxUses \in Nat
    BY SessionsAssumption DEF TypeOK
  <2> QED
    BY <2>1 DEF Held, UsesLeft
<1> QED
  BY <1>1, <1>2, <1>3

(* Once a change of role or block is through, no request gets in by the    *)
(* tokens signed before, for every life of the tokens and however many     *)
(* requests, sign-ins, refreshes and other changes interleave.             *)
THEOREM OldTokensRefused == Spec => []StaleRoleRefused
<1>1. Init => TypeOK /\ Fit /\ Held
  BY TypeInit, HeldInit
<1>2. TypeOK /\ Fit /\ Held /\ [Next]_vars => (TypeOK /\ Fit /\ Held)'
  BY TypeNext, HeldNext
<1> QED
  BY <1>1, <1>2, HeldHere, PTL DEF Spec

(* However many services restart, a message that its handler acknowledges  *)
(* is not handled twice.                                                   *)
THEOREM HandledOnce == Spec => []AtMostOnce
<1>1. Init => TypeOK /\ Fit /\ Held
  BY TypeInit, HeldInit
<1>2. TypeOK /\ Fit /\ Held /\ [Next]_vars => (TypeOK /\ Fit /\ Held)'
  BY TypeNext, HeldNext
<1> QED
  BY <1>1, <1>2, HeldHere, PTL DEF Spec

(* The limit on the uses of a refresh token has no effect, whatever it is, *)
(* but for 0, and however the reads and writes of the counter cross: what  *)
(* errorMessage.json:27 and isRefreshTokenRevoked speak of never happens.  *)
THEOREM UsesAreNotLimited == Spec => []LimitIgnored
<1>1. Init => TypeOK /\ Fit /\ Held
  BY TypeInit, HeldInit
<1>2. TypeOK /\ Fit /\ Held /\ [Next]_vars => (TypeOK /\ Fit /\ Held)'
  BY TypeNext, HeldNext
<1> QED
  BY <1>1, <1>2, HeldHere, PTL DEF Spec

-----------------------------------------------------------------------------
(* What is charged to a refresh token.  What a call has read of a counter  *)
(* was true then, and the calls that have ended well only become more.     *)
Charged(t, n) == n # None => MaxUses - n < Cardinality(Uses(t))

ChargedAll ==
  /\ \A t \in Tokens : IsFiniteSet(Uses(t)) /\ Charged(t, counter[t])
  /\ \A c \in Calls : at[c] = "recount" => Charged(request[c].with, read[c])

LEMMA UsesGrow ==
  ASSUME NEW t, NEW c \in Calls, IsFiniteSet(Uses(t)),
         \A d \in Calls : at[d] = "done" => at'[d] = "done" /\ request'[d] = request[d],
         \A d \in Calls \ {c} : at'[d] = "done" => at[d] = "done"
  PROVE  /\ IsFiniteSet(Uses(t)') /\ Cardinality(Uses(t)) \in Nat /\ Cardinality(Uses(t)') \in Nat
         /\ Cardinality(Uses(t)) <= Cardinality(Uses(t)')
         /\ c \in Uses(t)' /\ at[c] # "done" => Cardinality(Uses(t)') = Cardinality(Uses(t)) + 1
<1>1. Uses(t)' = Uses(t) \/ (at[c] # "done" /\ Uses(t)' = Uses(t) \cup {c})
  BY DEF Uses
<1>2. at[c] # "done" => c \notin Uses(t)
  BY DEF Uses
<1>3. Cardinality(Uses(t)) \in Nat
  BY FS_CardinalityType
<1>4. /\ IsFiniteSet(Uses(t) \cup {c})
      /\ c \notin Uses(t) => Cardinality(Uses(t) \cup {c}) = Cardinality(Uses(t)) + 1
  BY FS_AddElement
<1>5. CASE Uses(t)' = Uses(t)
  BY <1>2, <1>3, <1>5
<1>6. CASE at[c] # "done" /\ Uses(t)' = Uses(t) \cup {c}
  <2>1. Cardinality(Uses(t)') = Cardinality(Uses(t)) + 1
    BY <1>2, <1>4, <1>6
  <2> QED
    BY <1>3, <1>4, <1>6, <2>1
<1> QED
  BY <1>1, <1>5, <1>6

(* A step of a call, seen from the counters.                               *)
LEMMA CountingFrame ==
  ASSUME TypeOK, NEW c \in Calls, Steps(c)
  PROVE  /\ request' = request
         /\ \A d \in Calls \ {c} : at'[d] = at[d] /\ read'[d] = read[d]
         /\ at[c] = "done" => at'[c] = "done"
         /\ \/ ReadCounter(c) \/ RevokeRefreshToken(c)
            \/ counter' = counter /\ at'[c] # "recount"
<1> USE DEF TypeOK, Goes, session
<1>1. CASE CheckRefreshToken(c) \/ ReadUser(c) \/ SignTokens(c) \/ RemoveRequireRefresh(c)
  BY <1>1 DEF CheckRefreshToken, ReadUser, SignTokens, RemoveRequireRefresh
<1>2. CASE ReadCounter(c) \/ RevokeRefreshToken(c)
  BY <1>2 DEF ReadCounter, RevokeRefreshToken
<1>3. CASE Fail(c)
  BY <1>3 DEF Fail
<1>4. CASE WriteUser(c) \/ SetUserRequiredRefresh(c)
  BY <1>4 DEF WriteUser, SetUserRequiredRefresh, Settle
<1>5. CASE PartFails(c) \/ LateWriteUser(c) \/ LateSetKey(c)
  BY <1>5 DEF PartFails, LateWriteUser, LateSetKey
<1>6. CASE JwtGuard(c) \/ VerifyToken(c) \/ CheckIsRequiredRefresh(c)
  BY <1>6 DEF JwtGuard, VerifyToken, CheckIsRequiredRefresh, Without
<1>7. CASE Admit(c) \/ Deliver(c) \/ Answer(c)
  BY <1>7 DEF Admit, Deliver, Answer, Without
<1> QED
  BY <1>1, <1>2, <1>3, <1>4, <1>5, <1>6, <1>7 DEF Steps

LEMMA ChargedStep ==
  ASSUME TypeOK, Fit, ChargedAll, NEW c \in Calls, Steps(c)
  PROVE  ChargedAll'
<1>1. /\ request' = request
      /\ \A d \in Calls \ {c} : at'[d] = at[d] /\ read'[d] = read[d]
      /\ at[c] = "done" => at'[c] = "done"
      /\ \/ ReadCounter(c) \/ RevokeRefreshToken(c)
         \/ counter' = counter /\ at'[c] # "recount"
  BY CountingFrame
<1>2. \A s \in Tokens :
        /\ IsFiniteSet(Uses(s)') /\ Cardinality(Uses(s)) \in Nat /\ Cardinality(Uses(s)') \in Nat
        /\ Cardinality(Uses(s)) <= Cardinality(Uses(s)')
        /\ c \in Uses(s)' /\ at[c] # "done" => Cardinality(Uses(s)') = Cardinality(Uses(s)) + 1
  BY <1>1, UsesGrow DEF ChargedAll
<1>3. \A s \in Tokens, n \in 0..MaxUses \cup {None} : Charged(s, n) =>
        (n # None => MaxUses - n < Cardinality(Uses(s)'))
  BY <1>2, SessionsAssumption DEF Charged
<1>4. \A s \in Tokens : counter[s] \in 0..MaxUses \cup {None}
  BY DEF TypeOK
<1>5. \A d \in Calls : at[d] = "recount" => request[d].with \in Tokens /\ read[d] \in 0..MaxUses \cup {None}
  <2> SUFFICES ASSUME NEW d \in Calls, at[d] = "recount"
               PROVE  request[d].with \in Tokens /\ read[d] \in 0..MaxUses \cup {None}
    OBVIOUS
  <2>1. request[d].kind = "refresh"
    BY DEF Fit, Fits, Counting
  <2> QED
    BY <2>1, RequestNow, TypeParts DEF TypeOK
<1>6. CASE counter' = counter /\ at'[c] # "recount"
  BY <1>1, <1>2, <1>3, <1>4, <1>5, <1>6 DEF ChargedAll, Charged
<1>7. CASE ReadCounter(c)
  <2>1. counter' = counter /\ at[c] = "count" /\ read'[c] = counter[request[c].with]
    BY <1>7 DEF ReadCounter, Goes, session, TypeOK
  <2>2. PICK t \in Tokens : t = request[c].with
    BY <2>1, RequestNow, TypeParts DEF Fit, Fits, Counting
  <2>3. \A d \in Calls \ {c} : at'[d] = "recount" => Charged(request[d].with, read[d])'
    BY <1>1, <1>3, <1>5 DEF ChargedAll, Charged
  <2>4. \A s \in Tokens : Charged(s, counter[s])'
    BY <1>3, <1>4, <2>1 DEF ChargedAll, Charged
  <2>5. Charged(request[c].with, read[c])'
    BY <1>1, <2>1, <2>2, <2>4 DEF Charged
  <2> QED
    BY <1>1, <1>2, <2>3, <2>4, <2>5 DEF ChargedAll
<1>8. CASE RevokeRefreshToken(c)
  <2>0. PICK t \in Tokens : t = request[c].with
    BY <1>5, <1>8 DEF RevokeRefreshToken, Goes
  <2>1. /\ at[c] = "recount" /\ at'[c] = "done"
        /\ \A s \in Tokens : counter'[s] = IF s = t THEN UsedOnce(read[c]) ELSE counter[s]
    BY <1>8, <2>0 DEF RevokeRefreshToken, Goes, TypeOK
  <2>2. read[c] \in 0..MaxUses \cup {None}
    BY <1>5, <2>1
  <2>3. c \in Uses(t)'
    BY <1>1, <2>0, <2>1 DEF Uses, Fit, Fits, Counting
  <2>4. Cardinality(Uses(t)') = Cardinality(Uses(t)) + 1
    BY <1>2, <2>1, <2>3
  <2>5. UsedOnce(read[c]) # None => MaxUses - UsedOnce(read[c]) < Cardinality(Uses(t)')
    <3>1. CASE read[c] # None /\ read[c] > 1
      <4>1. MaxUses - read[c] < Cardinality(Uses(t))
        BY <2>0, <2>1, <3>1 DEF ChargedAll, Charged
      <4> QED
        BY <1>2, <2>2, <2>4, <3>1, <4>1, SessionsAssumption DEF UsedOnce
    <3>2. CASE ~ (read[c] # None /\ read[c] > 1)
      BY <1>2, <2>2, <2>4, <3>2, SessionsAssumption DEF UsedOnce
    <3> QED
      BY <3>1, <3>2
  <2>6. \A s \in Tokens : Charged(s, counter[s])'
    BY <1>3, <1>4, <2>1, <2>5 DEF ChargedAll, Charged
  <2>7. \A d \in Calls : at'[d] = "recount" => Charged(request[d].with, read[d])'
    BY <1>1, <1>3, <1>5, <2>1 DEF ChargedAll, Charged
  <2> QED
    BY <1>2, <2>6, <2>7 DEF ChargedAll
<1> QED
  BY <1>1, <1>6, <1>7, <1>8

LEMMA ChargedElsewhere ==
  ASSUME TypeOK, ChargedAll,
         \/ \E c \in Calls : \E r \in Menu[c] : Starts(c, r)
         \/ \E service \in DOMAIN Handlers : Restart(service)
         \/ Tick \/ UNCHANGED vars
  PROVE  ChargedAll'
<1>1. /\ counter' = counter /\ read' = read
      /\ \A d \in Calls : at'[d] \in {"done", "recount"} \/ at[d] = "done" =>
           at'[d] = at[d] /\ request'[d] = request[d]
  <2>1. ASSUME NEW c \in Calls, NEW r \in Menu[c], Starts(c, r)
        PROVE  /\ counter' = counter /\ read' = read /\ at[c] = "idle" /\ at'[c] \notin {"done", "recount"}
               /\ \A d \in Calls \ {c} : at'[d] = at[d] /\ request'[d] = request[d]
    BY <2>1, StartPlace DEF session
  <2>2. ASSUME NEW service \in DOMAIN Handlers, Restart(service)
        PROVE  /\ counter' = counter /\ read' = read /\ request' = request
               /\ \A d \in Calls :
                    at'[d] = at[d] \/ (at[d] \in {"working", "answered"} /\ at'[d] \in {"lost", "queued"})
    BY <2>2 DEF Restart, session
  <2>3. CASE Tick \/ UNCHANGED vars
    BY <2>3 DEF Tick, vars, session
  <2> QED
    BY <2>1, <2>2, <2>3
<1>2. \A t \in Tokens : Uses(t)' = Uses(t)
  BY <1>1 DEF Uses
<1>3. \A t \in Tokens : IsFiniteSet(Uses(t))' /\ Charged(t, counter[t])'
  BY <1>1, <1>2 DEF ChargedAll, Charged
<1>4. ASSUME NEW d \in Calls, at'[d] = "recount" PROVE Charged(request[d].with, read[d])'
  <2>1. Uses(request[d].with)' = Uses(request[d].with)
    BY <1>1, <1>4 DEF Uses
  <2> QED
    BY <1>1, <1>4, <2>1 DEF ChargedAll, Charged
<1> QED
  BY <1>3, <1>4 DEF ChargedAll

(* No refresh token is charged with a use that nobody made, whatever the   *)
(* limit and however the reads and writes of its counter cross.            *)
THEOREM UsesAreReal == Spec => []NoUseInvented
<1>1. Init => TypeOK /\ Fit /\ ChargedAll
  <2>1. Init => \A t \in Tokens : Uses(t) = {}
    BY DEF Init, Uses
  <2> QED
    BY <2>1, TypeInit, FS_EmptySet DEF Init, ChargedAll, Charged
<1>2. TypeOK /\ Fit /\ ChargedAll /\ [Next]_vars => (TypeOK /\ Fit /\ ChargedAll)'
  BY TypeNext, ChargedStep, ChargedElsewhere DEF Next, Quiet
<1>3. ChargedAll => NoUseInvented
  BY DEF ChargedAll, Charged, NoUseInvented
<1> QED
  BY <1>1, <1>2, <1>3, PTL DEF Spec

-----------------------------------------------------------------------------
(* Every route leads to a service that handles it, a controller at a time. *)
LEMMA RoutesServed == NoRouteAstray
<1>1. \A r \in AddressController : r.op \in Handlers[r.service]
  BY DEF AddressController, Handlers, Open, Auth, Optional, AddressHandlers, SearchHandlers
<1>2. \A r \in AdminController : r.op \in Handlers[r.service]
  BY DEF AdminController, Handlers, Open, Auth, Optional, TaskHandlers
<1>3. \A r \in AttributesController : r.op \in Handlers[r.service]
  BY DEF AttributesController, Handlers, Open, Auth, Optional, CatalogueHandlers, SearchHandlers, AttributesHandlers, ManagementsHandlers
<1>4. \A r \in AuthController : r.op \in Handlers[r.service]
  BY DEF AuthController, Handlers, Open, Auth, Optional, SignUp, SignIn, AuthHandlers
<1>5. \A r \in CartsController : r.op \in Handlers[r.service]
  BY DEF CartsController, Handlers, Open, Auth, Optional, CartsHandlers, OrderHandlers
<1>6. \A r \in CategoriesController : r.op \in Handlers[r.service]
  BY DEF CategoriesController, Handlers, Open, Auth, Optional, CatalogueHandlers, SearchHandlers, CategoriesHandlers, ManagementsHandlers
<1>7. \A r \in DiscountsController : r.op \in Handlers[r.service]
  BY DEF DiscountsController, Handlers, Open, Auth, Optional, DiscountsHandlers, ManagementsHandlers
<1>8. \A r \in HealthController : r.op \in Handlers[r.service]
  BY DEF HealthController, Handlers, Open, Auth, Optional, AuthHandlers, CommunicationsHandlers, ManagementsHandlers, OrderHandlers, SearchHandlers, TaskHandlers, UtilityHandlers
<1>9. \A r \in ImagesController : r.op \in Handlers[r.service]
  BY DEF ImagesController, Handlers, Open, Auth, Optional, ReadImage, UploadImages, ImagesHandlers, ManagementsHandlers
<1>10. \A r \in KpiController : r.op \in Handlers[r.service]
  BY DEF KpiController, Handlers, Open, Auth, Optional, KpiHandlers, ManagementsHandlers
<1>11. \A r \in NotificationsController : r.op \in Handlers[r.service]
  BY DEF NotificationsController, Handlers, Open, Auth, Optional, NotificationsHandlers, CommunicationsHandlers
<1>12. \A r \in OrderManagementController : r.op \in Handlers[r.service]
  BY DEF OrderManagementController, Handlers, Open, Auth, Optional, OrdersMntHandlers, ManagementsHandlers
<1>13. \A r \in OrdersController : r.op \in Handlers[r.service]
  BY DEF OrdersController, Handlers, Open, Auth, Optional, CheckoutHandlers, OrderHandlers
<1>14. \A r \in PaymentsController : r.op \in Handlers[r.service]
  BY DEF PaymentsController, Handlers, Open, Auth, Optional, CheckoutHandlers, OrderHandlers
<1>15. \A r \in ProductsController : r.op \in Handlers[r.service]
  BY DEF ProductsController, Handlers, Open, Auth, Optional, ProductsSearchHandlers, SearchHandlers, ProductsHandlers, ManagementsHandlers
<1>16. \A r \in ProfileController : r.op \in Handlers[r.service]
  BY DEF ProfileController, Handlers, Open, Auth, Optional, UsersSearchHandlers, SearchHandlers, UsersHandlers, ManagementsHandlers
<1>17. \A r \in StatsController : r.op \in Handlers[r.service]
  BY DEF StatsController, Handlers, Open, Auth, Optional, StatsHandlers, ManagementsHandlers
<1>18. \A r \in UsersController : r.op \in Handlers[r.service]
  BY DEF UsersController, Handlers, Open, Auth, Optional, ReadUsers, ManageUsers, UsersSearchHandlers, SearchHandlers, UsersHandlers, ManagementsHandlers
<1> QED
  BY <1>1, <1>2, <1>3, <1>4, <1>5, <1>6, <1>7, <1>8, <1>9, <1>10, <1>11, <1>12, <1>13, <1>14, <1>15, <1>16, <1>17, <1>18 DEF NoRouteAstray, Routes

(* But for the two routes that diverge, what CHANGELOG.md announces is     *)
(* what the guards ask for.                                                *)
LEMMA AnnouncedGuarded ==
  ASSUME NEW p \in Announced, p[1].op \notin Diverging
  PROVE  p[1].guard = "auth" /\ p[1].roles = {p[2]}
<1>1. CASE p \in (OrdersController \cup CartsController) \X {"User"}
  BY <1>1 DEF OrdersController, CartsController, Auth
<1>2. CASE p \in (OrderManagementController \cup Changes(AttributesController \cup CategoriesController)) \X {"Staff"}
  BY <1>2 DEF OrderManagementController, Changes, AttributesController, CategoriesController, Auth, Open, Diverging
<1>3. CASE p \in UsersController \X {"Manager"}
  BY <1>3 DEF UsersController, ReadUsers, ManageUsers, Auth, Diverging
<1> QED
  BY <1>1, <1>2, <1>3 DEF Announced

(* What the guard has written down stays true of the token it looked at,   *)
(* and nothing waits for a handler that its guard did not let pass.        *)
Entered(c) ==
  who[c] # None =>
    /\ Usable(request[c].with)
    /\ who[c] = pair[request[c].with].role
    /\ entered[c] < Expires(request[c].with)
Passed(c) ==
  at[c] \in {"queued", "working", "answered"} \/ runs[c] > 0
    => (request[c].route.guard = "auth" => who[c] \in request[c].route.roles)
EnteredAll == \A c \in Calls : Entered(c)
PassedAll == \A c \in Calls : Passed(c)

LEMMA EnteredStep ==
  ASSUME TypeOK, Fit, Waiting, EnteredAll, NEW c \in Calls, Steps(c)
  PROVE  EnteredAll'
<1>1. CASE CheckRefreshToken(c)
  BY <1>1 DEF CheckRefreshToken, TypeOK, Goes, session, message, EnteredAll, Entered, Expires, Usable
<1>2. CASE ReadUser(c)
  BY <1>2 DEF ReadUser, TypeOK, Goes, session, message, EnteredAll, Entered, Expires, Usable
<1>3. CASE SignTokens(c)
  <2>1. /\ at[c] = "sign" /\ UNCHANGED <<request, who, entered>>
        /\ \A t \in Tokens \ {c} : pair'[t] = pair[t]
    BY <1>3 DEF SignTokens, Goes, TypeOK, message
  <2>2. \A t \in Tokens \cup {None} : Usable(t) => Usable(t)' /\ pair'[t] = pair[t]
    BY <1>3, <2>1, SessionsAssumption DEF SignTokens, Goes, TypeOK, Usable, Tokens
  <2>3. \A d \in Calls : Usable(request[d].with) => request[d].with \in Tokens
    BY DEF Usable, Tokens
  <2> QED
    BY <2>1, <2>2, <2>3 DEF EnteredAll, Entered, Expires, Usable
<1>4. CASE RemoveRequireRefresh(c)
  BY <1>4 DEF RemoveRequireRefresh, TypeOK, Goes, session, message, EnteredAll, Entered, Expires, Usable
<1>5. CASE ReadCounter(c)
  BY <1>5 DEF ReadCounter, TypeOK, Goes, session, message, EnteredAll, Entered, Expires, Usable
<1>6. CASE RevokeRefreshToken(c)
  BY <1>6 DEF RevokeRefreshToken, TypeOK, Goes, session, message, EnteredAll, Entered, Expires, Usable
<1>7. CASE Fail(c)
  BY <1>7 DEF Fail, TypeOK, session, message, EnteredAll, Entered, Expires, Usable
<1>8. CASE WriteUser(c)
  BY <1>8 DEF WriteUser, TypeOK, session, message, EnteredAll, Entered, Expires, Usable, Settle
<1>9. CASE SetUserRequiredRefresh(c)
  BY <1>9 DEF SetUserRequiredRefresh, TypeOK, session, message, EnteredAll, Entered, Expires, Usable, Settle
<1>10. CASE PartFails(c)
  BY <1>10 DEF PartFails, TypeOK, session, message, EnteredAll, Entered, Expires, Usable
<1>11. CASE LateWriteUser(c)
  BY <1>11 DEF LateWriteUser, TypeOK, session, message, EnteredAll, Entered, Expires, Usable
<1>12. CASE LateSetKey(c)
  BY <1>12 DEF LateSetKey, TypeOK, session, message, EnteredAll, Entered, Expires, Usable
<1>13. CASE JwtGuard(c)
  BY <1>13 DEF JwtGuard, TypeOK, Goes, session, message, EnteredAll, Entered, Expires, Usable, Without
<1>14. CASE VerifyToken(c)
  BY <1>14 DEF VerifyToken, TypeOK, Goes, session, message, EnteredAll, Entered, Expires, Usable, Without
<1>15. CASE CheckIsRequiredRefresh(c)
  BY <1>15 DEF CheckIsRequiredRefresh, TypeOK, Goes, session, message, EnteredAll, Entered, Expires, Usable, Without
<1>16. CASE Admit(c)
  BY <1>16 DEF Admit, TypeOK, Goes, session, message, EnteredAll, Entered, Expires, Usable, Without, Accepted, Waiting, Looking
<1>17. CASE Deliver(c)
  BY <1>17 DEF Deliver, TypeOK, Goes, session, message, EnteredAll, Entered, Expires, Usable
<1>18. CASE Answer(c)
  BY <1>18 DEF Answer, TypeOK, Goes, session, message, EnteredAll, Entered, Expires, Usable, Acknowledged
<1> QED
  BY <1>1, <1>2, <1>3, <1>4, <1>5, <1>6, <1>7, <1>8, <1>9, <1>10, <1>11, <1>12, <1>13, <1>14, <1>15, <1>16, <1>17, <1>18 DEF Steps

LEMMA PassedStep ==
  ASSUME TypeOK, Doom, RunsOnce, PassedAll, NEW c \in Calls, Steps(c)
  PROVE  PassedAll'
<1>1. CASE CheckRefreshToken(c)
  BY <1>1 DEF CheckRefreshToken, TypeOK, Goes, session, message, PassedAll, Passed, Doom, RunsOnce, Early, Signing, Counting, Looking
<1>2. CASE ReadUser(c)
  BY <1>2 DEF ReadUser, TypeOK, Goes, session, message, PassedAll, Passed, Doom, RunsOnce, Early, Signing, Counting, Looking
<1>3. CASE SignTokens(c)
  BY <1>3 DEF SignTokens, TypeOK, Goes, session, message, PassedAll, Passed, Doom, RunsOnce, Early, Signing, Counting, Looking
<1>4. CASE RemoveRequireRefresh(c)
  BY <1>4 DEF RemoveRequireRefresh, TypeOK, Goes, session, message, PassedAll, Passed, Doom, RunsOnce, Early, Signing, Counting, Looking
<1>5. CASE ReadCounter(c)
  BY <1>5 DEF ReadCounter, TypeOK, Goes, session, message, PassedAll, Passed, Doom, RunsOnce, Early, Signing, Counting, Looking
<1>6. CASE RevokeRefreshToken(c)
  BY <1>6 DEF RevokeRefreshToken, TypeOK, Goes, session, message, PassedAll, Passed, Doom, RunsOnce, Early, Signing, Counting, Looking
<1>7. CASE Fail(c)
  BY <1>7 DEF Fail, TypeOK, session, message, PassedAll, Passed, Doom, RunsOnce, Early, Signing, Counting, Looking
<1>8. CASE WriteUser(c)
  BY <1>8 DEF WriteUser, TypeOK, session, message, PassedAll, Passed, Doom, RunsOnce, Early, Signing, Counting, Looking, Settle
<1>9. CASE SetUserRequiredRefresh(c)
  BY <1>9 DEF SetUserRequiredRefresh, TypeOK, session, message, PassedAll, Passed, Doom, RunsOnce, Early, Signing, Counting, Looking, Settle
<1>10. CASE PartFails(c)
  BY <1>10 DEF PartFails, TypeOK, session, message, PassedAll, Passed, Doom, RunsOnce, Early, Signing, Counting, Looking
<1>11. CASE LateWriteUser(c)
  BY <1>11 DEF LateWriteUser, TypeOK, session, message, PassedAll, Passed, Doom, RunsOnce, Early, Signing, Counting, Looking
<1>12. CASE LateSetKey(c)
  BY <1>12 DEF LateSetKey, TypeOK, session, message, PassedAll, Passed, Doom, RunsOnce, Early, Signing, Counting, Looking
<1>13. CASE JwtGuard(c)
  BY <1>13 DEF JwtGuard, TypeOK, Goes, session, message, PassedAll, Passed, Doom, RunsOnce, Early, Signing, Counting, Looking, Without
<1>14. CASE VerifyToken(c)
  BY <1>14 DEF VerifyToken, TypeOK, Goes, session, message, PassedAll, Passed, Doom, RunsOnce, Early, Signing, Counting, Looking, Without
<1>15. CASE CheckIsRequiredRefresh(c)
  BY <1>15 DEF CheckIsRequiredRefresh, TypeOK, Goes, session, message, PassedAll, Passed, Doom, RunsOnce, Early, Signing, Counting, Looking, Without
<1>16. CASE Admit(c)
  BY <1>16 DEF Admit, TypeOK, Goes, session, message, PassedAll, Passed, Doom, RunsOnce, Early, Signing, Counting, Looking, Without, Accepted
<1>17. CASE Deliver(c)
  BY <1>17 DEF Deliver, TypeOK, Goes, session, message, PassedAll, Passed, Doom, RunsOnce, Early, Signing, Counting, Looking
<1>18. CASE Answer(c)
  BY <1>18 DEF Answer, TypeOK, Goes, session, message, PassedAll, Passed, Doom, RunsOnce, Early, Signing, Counting, Looking, Acknowledged
<1> QED
  BY <1>1, <1>2, <1>3, <1>4, <1>5, <1>6, <1>7, <1>8, <1>9, <1>10, <1>11, <1>12, <1>13, <1>14, <1>15, <1>16, <1>17, <1>18 DEF Steps

LEMMA EnteredElsewhere ==
  ASSUME TypeOK, Fit, Held, EnteredAll, PassedAll,
         \/ \E c \in Calls : \E r \in Menu[c] : Starts(c, r)
         \/ \E service \in DOMAIN Handlers : Restart(service)
         \/ Tick \/ UNCHANGED vars
  PROVE  EnteredAll' /\ PassedAll'
<1>1. ASSUME NEW c \in Calls, NEW r \in Menu[c], Starts(c, r) PROVE EnteredAll' /\ PassedAll'
  <2>1. /\ at[c] = "idle" /\ request'[c] = r
        /\ \A d \in Calls \ {c} : at'[d] = at[d] /\ request'[d] = request[d]
        /\ pair' = pair /\ who' = who /\ runs' = runs /\ entered' = entered
    BY <1>1, StartPlace DEF session, message
  <2>2. who[c] = None /\ runs[c] = 0
    BY <2>1 DEF Held, Doom, RunsOnce, Early
  <2>3. EnteredAll'
    BY <2>1, <2>2 DEF EnteredAll, Entered, Expires, Usable
  <2>4. at'[c] = "queued" => r.route.guard # "auth"
    BY <1>1, <2>1 DEF Starts, StartLogin, StartRefresh, StartChange, StartCall, Begin, Without, TypeOK
  <2>5. at'[c] \notin {"working", "answered"}
    BY <1>1, StartPlace
  <2> QED
    BY <2>1, <2>2, <2>3, <2>4, <2>5 DEF PassedAll, Passed
<1>2. ASSUME NEW service \in DOMAIN Handlers, Restart(service) PROVE EnteredAll' /\ PassedAll'
  <2>1. \A c \in Calls : at'[c] = at[c] \/ at[c] \in {"working", "answered"}
    BY <1>2 DEF Restart
  <2>2. UNCHANGED <<pair, request, who, runs, entered>>
    BY <1>2 DEF Restart, session
  <2> QED
    BY <2>1, <2>2 DEF EnteredAll, Entered, Expires, Usable, PassedAll, Passed
<1>3. CASE Tick \/ UNCHANGED vars
  BY <1>3 DEF Tick, vars, session, message, EnteredAll, Entered, Expires, Usable, PassedAll, Passed
<1> QED
  BY <1>1, <1>2, <1>3

LEMMA EnteredNext ==
  TypeOK /\ Fit /\ Held /\ EnteredAll /\ PassedAll /\ [Next]_vars => EnteredAll' /\ PassedAll'
<1> SUFFICES ASSUME TypeOK, Fit, Held, EnteredAll, PassedAll, [Next]_vars
             PROVE  EnteredAll' /\ PassedAll'
  OBVIOUS
<1>1. ASSUME NEW c \in Calls, Steps(c) PROVE EnteredAll' /\ PassedAll'
  BY <1>1, EnteredStep, PassedStep DEF Held
<1> QED
  BY <1>1, EnteredElsewhere DEF Next, Quiet

(* A handler runs only for a request whose guard let it in, with the role  *)
(* of a token that had not expired then, whatever waits in the queue and   *)
(* however often services restart; and every route has its handler.        *)
THEOREM GuardsHold == Spec => []ServedRightly
<1>1. Init => TypeOK /\ Fit /\ Held /\ EnteredAll /\ PassedAll
  <2>1. Init => EnteredAll /\ PassedAll
    BY DEF Init, EnteredAll, Entered, PassedAll, Passed
  <2> QED
    BY <2>1, TypeInit, HeldInit
<1>2. /\ TypeOK /\ Fit /\ Held /\ EnteredAll /\ PassedAll
      /\ [Next]_vars
      => (TypeOK /\ Fit /\ Held /\ EnteredAll /\ PassedAll)'
  BY TypeNext, HeldNext, EnteredNext
<1>3. EnteredAll /\ PassedAll => ServedRightly
  <2> SUFFICES ASSUME EnteredAll, PassedAll, NEW c \in Calls
               PROVE  /\ runs[c] > 0 /\ request[c].route.guard = "auth" => who[c] \in request[c].route.roles
                      /\ runs[c] > 0 => \A p \in Announced :
                           p[1] = request[c].route /\ p[1].op \notin Diverging => who[c] = p[2]
                      /\ who[c] # None => who[c] = pair[request[c].with].role
                                            /\ entered[c] < Expires(request[c].with)
    BY RoutesServed DEF ServedRightly
  <2>1. runs[c] > 0 /\ request[c].route.guard = "auth" => who[c] \in request[c].route.roles
    BY DEF PassedAll, Passed
  <2>2. ASSUME runs[c] > 0, NEW p \in Announced, p[1] = request[c].route, p[1].op \notin Diverging
        PROVE  who[c] = p[2]
    <3>1. p[1].guard = "auth" /\ p[1].roles = {p[2]}
      BY <2>2, AnnouncedGuarded
    <3> QED
      BY <2>1, <2>2, <3>1
  <2> QED
    BY <2>1, <2>2 DEF EnteredAll, Entered
<1> QED
  BY <1>1, <1>2, <1>3, PTL DEF Spec

=============================================================================
