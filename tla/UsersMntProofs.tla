--------------------------- MODULE UsersMntProofs ---------------------------
(* Theorems about UsersMnt, for any users, calls and menu, however the     *)
(* calls overlap.                                                          *)
EXTENDS UsersMnt, SequenceTheorems, TLAPS

(* What holds of user u's document and of every copy of it, held being the *)
(* roles everybody has had.                                                *)
Sound(u, doc, held) ==
  /\ doc \in User
  /\ doc.role \in held[u]
  /\ InTurn(doc.block)
  /\ Ranked(u, LogsOf(doc), held)
  /\ OneDefault(doc.address)

(* The copies of a call are of users that are there, and are sound.        *)
CopySound(c) ==
  /\ victim[c] # None => /\ at[c] # "idle"
                         /\ users[request[c].victim] # None
                         /\ Sound(request[c].victim, victim[c], ranks)
  /\ actor[c] # None => at[c] # "idle" /\ actor[c].role \in ranks[request[c].actor]

(* What is left to write was decided on the copies.                        *)
Decided(c) ==
  /\ at[c] # "idle" => request[c] \in Requests
  /\ todo[c] # {} => at[c] # "idle"
  /\ "update" \in todo[c] => HasRead(c) /\ Allowed(request[c], victim[c], actor[c])

ManagersKnown ==
  \A u \in Users : "Manager" \in ranks[u] => first[u] # None /\ first[u].role = "Manager"

UsersSound ==
  /\ TypeOK
  /\ ManagersKnown
  /\ \A u \in Users : Present(u) => Sound(u, users[u], ranks)
  /\ \A c \in Calls : CopySound(c) /\ Decided(c)

-----------------------------------------------------------------------------
Entries == [activity : BlockActivity, activityBy : Users]

(* The log of a document is a sequence of entries.                         *)
LEMMA LogsTyped ==
  ASSUME NEW doc \in User
  PROVE  LogsOf(doc) \in Seq(Entries)
<1>1. CASE doc.block = None
  BY <1>1 DEF LogsOf
<1>2. CASE doc.block # None
  <2>1. doc.block \in Block
    BY <1>2 DEF User
  <2>2. QED
    BY <1>2, <2>1 DEF LogsOf, Block, Entries
<1>3. QED
  BY <1>1, <1>2

(* More roles held leave sound documents sound.                            *)
LEMMA SoundStays ==
  ASSUME NEW held \in [Users -> SUBSET UserRole], NEW more \in [Users -> SUBSET UserRole],
         \A u \in Users : held[u] \subseteq more[u],
         NEW u \in Users, NEW doc, Sound(u, doc, held)
  PROVE  Sound(u, doc, more)
<1>1. ASSUME NEW k \in DOMAIN LogsOf(doc)
      PROVE  /\ LogsOf(doc)[k].activityBy # u
             /\ (more[LogsOf(doc)[k].activityBy] \X more[u]) \cap Above # {}
  <2> DEFINE by == LogsOf(doc)[k].activityBy
  <2>1. by \in Users
    <3>1. LogsOf(doc) \in Seq(Entries)
      BY LogsTyped DEF Sound
    <3>2. LogsOf(doc)[k] \in Entries
      BY <1>1, <3>1
    <3>3. QED
      BY <3>2 DEF Entries
  <2>2. by # u /\ (held[by] \X held[u]) \cap Above # {}
    BY <1>1 DEF Sound, Ranked
  <2>3. held[by] \X held[u] \subseteq more[by] \X more[u]
    BY <2>1
  <2>4. QED
    BY <2>2, <2>3
<1>2. Ranked(u, LogsOf(doc), more)
  BY <1>1 DEF Ranked
<1>3. QED
  BY <1>2 DEF Sound

(* An entry that notYet and requiredHigherRole let pass keeps the log      *)
(* sound.                                                                  *)
LEMMA BlockedSound ==
  ASSUME NEW held \in [Users -> SUBSET UserRole],
         NEW r \in Requests, r.kind \in BlockActivity,
         NEW seen, Sound(r.victim, seen, held),
         NEW seenActor \in User, seenActor.role \in held[r.actor],
         Allowed(r, seen, seenActor)
  PROVE  /\ Blocked(seen, r) \in Block
         /\ InTurn(Blocked(seen, r))
         /\ Ranked(r.victim, Blocked(seen, r).activityLogs, held)
<1> DEFINE logs == LogsOf(seen)
           entry == [activity |-> r.kind, activityBy |-> r.actor]
           new == Append(logs, entry)
<1>1. /\ r.victim \in Users /\ r.actor \in Users /\ r.victim # r.actor
      /\ RequiredHigherRole(seen.role, seenActor.role) /\ NotYet(seen, r.kind)
  BY DEF Requests, Allowed, BlockActivity
<1>2. logs \in Seq(Entries) /\ Len(logs) \in Nat /\ (logs # <<>> => Len(logs) \in 1 .. Len(logs))
  <2>1. logs \in Seq(Entries)
    BY LogsTyped DEF Sound
  <2>2. QED
    BY <2>1, EmptySeq, LenProperties
<1>3. entry \in Entries
  BY <1>1 DEF Entries
<1>4. /\ new \in Seq(Entries)
      /\ Len(new) = Len(logs) + 1 /\ new[Len(logs) + 1] = entry
      /\ \A k \in 1 .. Len(logs) : new[k] = logs[k]
  BY <1>2, <1>3
<1>5. Blocked(seen, r) = [isBlocked |-> r.kind = "Block", activityLogs |-> new]
  BY DEF Blocked
<1>6. Blocked(seen, r) \in Block
  BY <1>4, <1>5 DEF Block, Entries
<1>7. InTurn(Blocked(seen, r))
  <2>1. \A k \in 1 .. Len(logs) - 1 : logs[k].activity # logs[k + 1].activity
    <3>1. CASE seen.block = None
      BY <3>1, <1>2 DEF LogsOf
    <3>2. CASE seen.block # None
      BY <3>2 DEF Sound, InTurn, LogsOf
    <3>3. QED
      BY <3>1, <3>2
  <2>2. logs # <<>> => logs[Len(logs)].activity # r.kind
    <3>1. CASE seen.block = None
      BY <3>1 DEF LogsOf
    <3>2. CASE seen.block # None
      <4>1. /\ seen.block.isBlocked <=> logs # <<>> /\ logs[Len(logs)].activity = "Block"
            /\ seen.block.isBlocked <=> r.kind = "Unblock"
        BY <3>2, <1>1 DEF Sound, InTurn, LogsOf, NotYet
      <4>2. logs # <<>> => logs[Len(logs)].activity \in BlockActivity
        <5>1. logs # <<>> => logs[Len(logs)] \in Entries
          BY <1>2
        <5>2. QED
          BY <5>1 DEF Entries
      <4>3. QED
        BY <4>1, <4>2 DEF BlockActivity
    <3>3. QED
      BY <3>1, <3>2
  <2>3. ASSUME NEW k \in 1 .. Len(new) - 1
        PROVE  new[k].activity # new[k + 1].activity
    <3>1. CASE k = Len(logs)
      BY <3>1, <1>2, <1>4, <2>2
    <3>2. CASE k # Len(logs)
      <4>1. k \in 1 .. Len(logs) - 1 /\ k \in 1 .. Len(logs) /\ k + 1 \in 1 .. Len(logs)
        BY <3>2, <1>2, <1>4
      <4>2. QED
        BY <4>1, <1>4, <2>1
    <3>3. QED
      BY <3>1, <3>2
  <2>4. new # <<>> /\ new[Len(new)].activity = r.kind
    <3>1. new[Len(new)] = entry
      BY <1>4
    <3>2. new # <<>>
      BY <1>2, <1>4, EmptySeq
    <3>3. QED
      BY <3>1, <3>2
  <2>5. Blocked(seen, r).activityLogs = new
    BY <1>5
  <2>6. Blocked(seen, r).isBlocked <=> r.kind = "Block"
    BY Zenon DEF Blocked
  <2>7. QED
    BY <2>3, <2>4, <2>5, <2>6 DEF InTurn
<1>8. Ranked(r.victim, new, held)
  <2>1. ASSUME NEW k \in DOMAIN new
        PROVE  /\ new[k].activityBy # r.victim
               /\ (held[new[k].activityBy] \X held[r.victim]) \cap Above # {}
    <3>1. CASE k = Len(logs) + 1
      <4>1. <<seenActor.role, seen.role>> \in Above
        BY <1>1 DEF RequiredHigherRole, Above, Sound, User, UserRole
      <4>2. <<seenActor.role, seen.role>> \in held[r.actor] \X held[r.victim]
        BY DEF Sound
      <4>3. QED
        BY <3>1, <4>1, <4>2, <1>1, <1>4
    <3>2. CASE k # Len(logs) + 1
      <4>1. k \in 1 .. Len(logs) /\ k \in DOMAIN logs
        BY <3>2, <1>2, <1>4
      <4>2. QED
        BY <4>1, <1>4 DEF Sound, Ranked
    <3>3. QED
      BY <3>1, <3>2
  <2>2. QED
    BY <2>1 DEF Ranked
<1>9. QED
  BY <1>5, <1>6, <1>7, <1>8

(* A list of addresses that updateUserAddress accepts has one default when *)
(* it is stored.                                                           *)
LEMMA DefaultChosen ==
  ASSUME NEW address \in Seq(BOOLEAN), AddressesAllowed(address)
  PROVE  WithDefault(address) \in Seq(BOOLEAN) /\ OneDefault(WithDefault(address))
<1>1. CASE address = <<>>
  BY <1>1 DEF WithDefault, OneDefault
<1>2. CASE address # <<>> /\ \E d \in DOMAIN address : address[d]
  BY <1>2 DEF WithDefault, OneDefault, AddressesAllowed
<1>3. CASE address # <<>> /\ ~ \E d \in DOMAIN address : address[d]
  <2> DEFINE new == [address EXCEPT ![1] = TRUE]
  <2>1. /\ new \in Seq(BOOLEAN) /\ DOMAIN new = DOMAIN address /\ 1 \in DOMAIN address
    BY <1>3
  <2>2. new[1] = TRUE /\ \A e \in DOMAIN address \ {1} : new[e] = FALSE
    BY <1>3, <2>1
  <2>3. \A e \in DOMAIN new : new[e] <=> e = 1
    BY <2>1, <2>2
  <2>4. OneDefault(new)
    BY <2>1, <2>3 DEF OneDefault
  <2>5. QED
    BY <1>3, <2>1, <2>4 DEF WithDefault
<1>4. QED
  BY <1>1, <1>2, <1>3

(* A copy written back brings its role and addresses, and a block entry    *)
(* that is the copy's or the document's.                                   *)
LEMMA SetSound ==
  ASSUME NEW u, NEW held, NEW now, NEW seen, Sound(u, now, held), Sound(u, seen, held)
  PROVE  Sound(u, SetFrom(now, seen), held) /\ SetFrom(now, seen).role = seen.role
<1> DEFINE set == SetFrom(now, seen)
<1>1. CASE seen.block # None
  BY <1>1 DEF SetFrom
<1>2. CASE seen.block = None
  <2>1. /\ set \in User /\ set.role = seen.role /\ set.block = now.block /\ set.address = seen.address
    BY <1>2 DEF SetFrom, Sound, User
  <2>2. LogsOf(set) = LogsOf(now)
    BY <2>1 DEF LogsOf
  <2> QED
    BY <2>1, <2>2 DEF Sound
<1> QED
  BY <1>1, <1>2

LEMMA SetSame == ASSUME NEW user \in User PROVE SetFrom(user, user) = user
BY DEF SetFrom, User

(* The update a call writes is sound, once its role counts as held.        *)
LEMMA UpdatedSound ==
  ASSUME NEW held \in [Users -> SUBSET UserRole],
         NEW r \in Requests, NEW now, NEW seen, NEW seenActor,
         r.kind # "create" => /\ Sound(r.victim, now, held)
                              /\ Sound(r.victim, seen, held),
         r.kind \in BlockActivity \cup {"role"} =>
           seenActor \in User /\ seenActor.role \in held[r.actor],
         Allowed(r, seen, seenActor)
  PROVE  LET new == Updated(now, seen, r)
             more == [held EXCEPT ![r.victim] = @ \cup {new.role}]
         IN /\ Sound(r.victim, new, more)
            /\ new.role = "Manager" => "Manager" \in held[r.victim]
<1> DEFINE new == Updated(now, seen, r)
           more == [held EXCEPT ![r.victim] = @ \cup {new.role}]
<1>0. r.victim \in Users
  BY DEF Requests
<1>1. ASSUME new \in User
      PROVE  /\ more \in [Users -> SUBSET UserRole] /\ new.role \in more[r.victim]
             /\ \A u \in Users : held[u] \subseteq more[u]
             /\ \A doc : Sound(r.victim, doc, held) => Sound(r.victim, doc, more)
  <2>1. more \in [Users -> SUBSET UserRole] /\ new.role \in more[r.victim]
    BY <1>0, <1>1 DEF User
  <2>2. \A u \in Users : held[u] \subseteq more[u]
    BY <1>0
  <2>3. QED
    BY <1>0, <2>1, <2>2, SoundStays
<1>2. CASE r.kind \in BlockActivity
  <2>1. new = [now EXCEPT !.block = Blocked(seen, r)]
    BY <1>2 DEF Updated, BlockActivity
  <2>2. Sound(r.victim, now, held) /\ Sound(r.victim, seen, held)
    BY <1>2 DEF BlockActivity
  <2>3. /\ Blocked(seen, r) \in Block /\ InTurn(Blocked(seen, r))
        /\ Ranked(r.victim, Blocked(seen, r).activityLogs, held)
    BY <1>2, <2>2, BlockedSound
  <2>4. /\ new \in User /\ new.role = now.role /\ new.block = Blocked(seen, r)
        /\ new.address = now.address
    BY <2>1, <2>2, <2>3 DEF Sound, User
  <2>5. LogsOf(new) = Blocked(seen, r).activityLogs
    BY <2>3, <2>4, UsersMntAssumption DEF LogsOf
  <2>6. Sound(r.victim, new, held)
    BY <2>2, <2>3, <2>4, <2>5 DEF Sound
  <2>7. QED
    BY <1>1, <2>2, <2>4, <2>6 DEF Sound
<1>3. CASE r.kind = "role"
  <2>1. new = [now EXCEPT !.role = r.role]
    BY <1>3 DEF Updated, BlockActivity
  <2>2. Sound(r.victim, now, held) /\ r.role \in UserRole /\ r.role # "Manager"
    BY <1>3 DEF Requests, Allowed, CanChangeRole, BlockActivity
  <2>3. /\ new \in User /\ new.role = r.role /\ new.block = now.block
        /\ new.address = now.address /\ LogsOf(new) = LogsOf(now)
    BY <2>1, <2>2 DEF Sound, User, LogsOf
  <2>4. Sound(r.victim, now, more)
    BY <1>1, <2>2, <2>3
  <2>5. Sound(r.victim, new, more)
    BY <1>1, <2>3, <2>4 DEF Sound
  <2>6. QED
    BY <2>2, <2>3, <2>5
<1>4. CASE r.kind = "create"
  <2>1. new = [role |-> r.role, block |-> None, address |-> <<>>]
    BY <1>4 DEF Updated, BlockActivity
  <2>2. r.role \in UserRole /\ r.role # "Manager"
    BY <1>4 DEF Requests, Allowed, BlockActivity
  <2>3. new \in User
    BY <2>1, <2>2 DEF User
  <2>4. Sound(r.victim, new, more)
    BY <1>1, <2>1, <2>3 DEF Sound, InTurn, Ranked, LogsOf, OneDefault
  <2>5. QED
    BY <2>1, <2>2, <2>4
<1>5. CASE r.kind = "info"
  <2>1. new = SetFrom(now, seen) /\ Sound(r.victim, seen, held) /\ Sound(r.victim, now, held)
    BY <1>5 DEF Updated, BlockActivity
  <2>2. Sound(r.victim, new, held) /\ new.role = seen.role
    BY <2>1, SetSound
  <2>3. new \in User /\ (seen.role = "Manager" => "Manager" \in held[r.victim])
    BY <2>1, <2>2 DEF Sound
  <2>4. Sound(r.victim, new, more)
    BY <1>1, <2>2, <2>3
  <2>5. QED
    BY <2>2, <2>3, <2>4
<1>6. CASE r.kind = "address"
  <2>0. /\ new = [SetFrom(now, seen) EXCEPT !.address = WithDefault(r.address)]
        /\ Sound(r.victim, seen, held) /\ Sound(r.victim, now, held)
    BY <1>6 DEF Updated, BlockActivity
  <2>1. PICK set : /\ set = SetFrom(now, seen) /\ Sound(r.victim, set, held) /\ set.role = seen.role
                   /\ new = [set EXCEPT !.address = WithDefault(r.address)]
    BY <2>0, SetSound
  <2>2. r.address \in Seq(BOOLEAN) /\ AddressesAllowed(r.address)
    BY <1>6 DEF Requests, Allowed, BlockActivity
  <2>3. WithDefault(r.address) \in Seq(BOOLEAN) /\ OneDefault(WithDefault(r.address))
    BY <2>2, DefaultChosen
  <2>4. /\ new \in User /\ new.role = set.role /\ new.block = set.block
        /\ new.address = WithDefault(r.address) /\ LogsOf(new) = LogsOf(set)
    BY <2>1, <2>3 DEF Sound, User, LogsOf
  <2>5. Sound(r.victim, new, held)
    BY <2>1, <2>3, <2>4 DEF Sound
  <2>6. QED
    BY <1>1, <2>0, <2>1, <2>4, <2>5 DEF Sound
<1>7. r.kind \in BlockActivity \cup {"role", "create", "info", "address"}
  BY DEF Requests
<1>8. QED
  BY <1>2, <1>3, <1>4, <1>5, <1>6, <1>7

-----------------------------------------------------------------------------
(* The collection is sound in the beginning.                               *)
LEMMA SoundAtFirst == Init => UsersSound
<1> SUFFICES ASSUME Init PROVE UsersSound
  OBVIOUS
<1>1. users \in FirstUsers /\ first = users /\ users \in Collection
  BY UsersMntAssumption DEF Init
<1>2. ranks \in [Users -> SUBSET UserRole]
  BY <1>1 DEF Init, RoleOf, Collection, User
<1>3. TypeOK
  BY <1>1, <1>2 DEF Init, TypeOK
<1>4. ManagersKnown
  BY <1>1 DEF Init, ManagersKnown, RoleOf
<1>5. ASSUME NEW u \in Users, Present(u)
      PROVE  Sound(u, users[u], ranks)
  <2>1. users[u] \in User /\ NeverBlocked(users[u]) /\ OneDefault(users[u].address)
    BY <1>1, <1>5, UsersMntAssumption DEF Present, Collection
  <2>2. users[u].role \in ranks[u]
    BY <1>5 DEF Init, RoleOf, Present
  <2>3. LogsOf(users[u]) = <<>>
    BY <2>1 DEF NeverBlocked, LogsOf
  <2>4. InTurn(users[u].block)
    BY <2>1 DEF NeverBlocked, InTurn
  <2>5. QED
    BY <2>1, <2>2, <2>3, <2>4 DEF Sound, Ranked
<1>6. \A c \in Calls : CopySound(c) /\ Decided(c)
  BY DEF Init, CopySound, Decided
<1>7. QED
  BY <1>3, <1>4, <1>5, <1>6 DEF UsersSound

(* Steps that leave the collection alone keep it sound.                    *)
LEMMA UsersUnchanged ==
  ASSUME UsersSound, UNCHANGED users, first' = first, Remember \/ UNCHANGED ranks
  PROVE  /\ UNCHANGED ranks /\ ManagersKnown'
         /\ \A u \in Users : Present(u)' => Sound(u, users[u], ranks)'
<1>1. ASSUME NEW u \in Users PROVE RoleOf(users[u]) \subseteq ranks[u]
  BY <1>1 DEF UsersSound, Present, Sound, RoleOf
<1>2. UNCHANGED ranks
  <2>1. CASE Remember
    <3>1. ranks' = [u \in Users |-> ranks[u] \cup RoleOf(users[u])]
      BY <2>1 DEF Remember
    <3>2. ranks' = [u \in Users |-> ranks[u]]
      BY <3>1, <1>1
    <3>3. QED
      BY <3>2 DEF UsersSound, TypeOK
  <2>2. QED
    BY <2>1
<1>3. QED
  BY <1>2 DEF UsersSound, ManagersKnown, Present, Sound

(* What a step of the code does to the history is of the right type.       *)
LEMMA RememberTyped ==
  ASSUME TypeOK, Remember, users' \in Collection
  PROVE  /\ first' \in FirstUsers
         /\ ranks' \in [Users -> SUBSET UserRole]
         /\ before' \in [Calls -> Collection \cup {None}]
         /\ alone' \in [Calls -> BOOLEAN]
<1>1. ranks' \in [Users -> SUBSET UserRole]
  <2>1. ASSUME NEW u \in Users PROVE ranks[u] \cup RoleOf(users'[u]) \in SUBSET UserRole
    BY <2>1 DEF TypeOK, RoleOf, Collection, User
  <2>2. QED
    BY <2>1 DEF Remember
<1>2. QED
  BY <1>1 DEF TypeOK, Remember

-----------------------------------------------------------------------------
(* A step that changes one call, c, and not the collection.                *)
LEMMA OnlyCall ==
  ASSUME UsersSound, NEW c \in Calls, UNCHANGED <<users, first>>,
         Remember \/ UNCHANGED ranks, TypeOK',
         \A d \in Calls \ {c} : /\ request'[d] = request[d] /\ at'[d] = at[d]
                                /\ victim'[d] = victim[d] /\ actor'[d] = actor[d]
                                /\ todo'[d] = todo[d],
         CopySound(c)' /\ Decided(c)'
  PROVE  UsersSound'
<1>1. /\ UNCHANGED ranks /\ ManagersKnown'
      /\ \A u \in Users : Present(u)' => Sound(u, users[u], ranks)'
  BY UsersUnchanged
<1>2. ASSUME NEW d \in Calls \ {c} PROVE CopySound(d)' /\ Decided(d)'
  <2>1. CopySound(d) /\ Decided(d)
    BY DEF UsersSound
  <2>2. /\ request'[d] = request[d] /\ at'[d] = at[d] /\ victim'[d] = victim[d]
        /\ actor'[d] = actor[d] /\ todo'[d] = todo[d] /\ users' = users /\ ranks' = ranks
    BY <1>1
  <2>3. CopySound(d)'
    BY <2>1, <2>2 DEF CopySound, Sound
  <2>4. Decided(d)'
    BY <2>1, <2>2 DEF Decided, HasRead, Kind, ByStaff
  <2>5. QED
    BY <2>3, <2>4
<1>3. QED
  BY <1>1, <1>2 DEF UsersSound

LEMMA StartKeeps ==
  ASSUME UsersSound, NEW c \in Calls, NEW r \in Menu, Start(c, r)
  PROVE  UsersSound'
<1> USE DEF UsersSound
<1>1. r \in Requests
  BY UsersMntAssumption
<1>2. TypeOK'
  BY <1>1 DEF Start, TypeOK
<1>3. CopySound(c)' /\ Decided(c)'
  BY <1>1 DEF Start, TypeOK, CopySound, Decided
<1>4. QED
  BY <1>2, <1>3, OnlyCall DEF Start, TypeOK

LEMMA ReadVictimKeeps ==
  ASSUME UsersSound, NEW c \in Calls, ReadVictim(c)
  PROVE  UsersSound'
<1>1. request[c] \in Requests /\ request[c].victim \in Users
  BY DEF UsersSound, ReadVictim, Decided, Requests
<1>2. TypeOK'
  <2>1. users' \in Collection
    BY DEF ReadVictim, UsersSound, TypeOK
  <2>2. users[request[c].victim] \in User \cup {None}
    BY <1>1 DEF UsersSound, TypeOK, Collection
  <2>3. QED
    BY <2>1, <2>2, RememberTyped DEF ReadVictim, UsersSound, TypeOK
<1>3. CopySound(c)'
  <2>1. UNCHANGED ranks
    BY UsersUnchanged DEF ReadVictim, Remember
  <2>2. users[request[c].victim] # None =>
          Sound(request[c].victim, users[request[c].victim], ranks)
    BY <1>1 DEF UsersSound, Present
  <2>3. QED
    BY <2>1, <2>2 DEF ReadVictim, UsersSound, TypeOK, CopySound, Sound
<1>4. Decided(c)'
  BY <1>1 DEF ReadVictim, UsersSound, TypeOK, Decided, HasRead, Kind, ByStaff
<1>5. QED
  BY <1>2, <1>3, <1>4, OnlyCall DEF ReadVictim, Remember, UsersSound, TypeOK

LEMMA ReadActorKeeps ==
  ASSUME UsersSound, NEW c \in Calls, ReadActor(c)
  PROVE  UsersSound'
<1> DEFINE u == request[c].actor
<1>1. request[c] \in Requests /\ u \in Users
  <2>1. request[c] \in Requests /\ request[c].kind \in BlockActivity \cup {"role"}
    BY UsersMntAssumption DEF UsersSound, ReadActor, Decided, ByStaff, Kind, BlockActivity
  <2>2. QED
    BY <2>1 DEF Requests, BlockActivity
<1>2. TypeOK'
  <2>1. users' \in Collection
    BY DEF ReadActor, UsersSound, TypeOK
  <2>2. users[u] \in User \cup {None}
    BY <1>1 DEF UsersSound, TypeOK, Collection
  <2>3. QED
    BY <2>1, <2>2, RememberTyped DEF ReadActor, UsersSound, TypeOK
<1>3. CopySound(c)'
  <2>1. UNCHANGED ranks
    BY UsersUnchanged DEF ReadActor, Remember
  <2>2. users[u] # None => users[u].role \in ranks[u]
    BY <1>1 DEF UsersSound, Present, Sound
  <2>3. QED
    BY <2>1, <2>2 DEF ReadActor, UsersSound, TypeOK, CopySound, Sound
<1>4. Decided(c)'
  BY <1>1 DEF ReadActor, UsersSound, TypeOK, Decided, HasRead, Kind, ByStaff
<1>5. QED
  BY <1>2, <1>3, <1>4, OnlyCall DEF ReadActor, Remember, UsersSound, TypeOK

(* Accepted or refused: only the place and the writes to do change.        *)
LEMMA DecisionKeeps ==
  ASSUME UsersSound, NEW c \in Calls, Accept(c) \/ Refuse(c)
  PROVE  UsersSound'
<1>1. /\ UNCHANGED <<users, refresh, request, victim, actor>> /\ Remember
      /\ at[c] = "read" /\ at' \in [Calls -> {"idle", "read", "write", "done", "failed"}]
      /\ todo' \in [Calls -> SUBSET {"update", "refresh"}]
      /\ at'[c] # "idle"
      /\ \A d \in Calls \ {c} : at'[d] = at[d] /\ todo'[d] = todo[d]
  BY DEF Accept, Refuse, UsersSound, TypeOK
<1>2. TypeOK'
  BY <1>1, RememberTyped DEF UsersSound, TypeOK
<1>3. UNCHANGED ranks
  BY <1>1, UsersUnchanged DEF Remember
<1>4. CopySound(c)'
  BY <1>1, <1>3 DEF UsersSound, CopySound, Sound
<1>5. Decided(c)'
  <2>1. "update" \in todo'[c] => HasRead(c) /\ Allowed(request[c], victim[c], actor[c])
    BY DEF Accept, Refuse, UsersSound, TypeOK, Decided
  <2>2. QED
    BY <1>1, <2>1 DEF UsersSound, Decided, HasRead, Kind, ByStaff
<1>6. QED
  BY <1>1, <1>2, <1>4, <1>5, OnlyCall DEF Remember

(* A part that writes no user is through, or fails.                        *)
LEMMA OtherPartKeeps ==
  ASSUME UsersSound, NEW c \in Calls,
         SetUserRequiredRefresh(c) \/ \E part \in {"update", "refresh"} : PartFails(c, part)
  PROVE  UsersSound'
<1>0. request[c].victim \in Users
  BY DEF SetUserRequiredRefresh, PartFails, Settle, UsersSound, Decided, Requests
<1>1. /\ UNCHANGED <<users, request, victim, actor>> /\ Remember /\ refresh' \subseteq Users
      /\ at' \in [Calls -> {"idle", "read", "write", "done", "failed"}]
      /\ todo' \in [Calls -> SUBSET {"update", "refresh"}]
      /\ at[c] # "idle" /\ at'[c] # "idle" /\ todo'[c] \subseteq todo[c]
      /\ \A d \in Calls \ {c} : at'[d] = at[d] /\ todo'[d] = todo[d]
  BY <1>0 DEF SetUserRequiredRefresh, PartFails, Settle, UsersSound, TypeOK, Decided
<1>2. TypeOK'
  BY <1>1, RememberTyped DEF UsersSound, TypeOK
<1>3. UNCHANGED ranks
  BY <1>1, UsersUnchanged DEF Remember
<1>4. CopySound(c)'
  BY <1>1, <1>3 DEF UsersSound, CopySound, Sound
<1>5. Decided(c)'
  BY <1>1 DEF UsersSound, Decided, HasRead, Kind, ByStaff
<1>6. QED
  BY <1>1, <1>2, <1>4, <1>5, OnlyCall DEF Remember

(* A REQUIRE_USER_REFRESH key goes, or nothing happens.                    *)
LEMMA KeyGoneKeeps ==
  ASSUME UsersSound, (\E u \in Users : RefreshedOrExpired(u)) \/ UNCHANGED vars
  PROVE  UsersSound'
<1>1. /\ UNCHANGED <<users, request, at, victim, actor, todo, first>>
      /\ Remember \/ UNCHANGED ranks
  BY DEF RefreshedOrExpired, Remember, vars, code
<1>2. TypeOK'
  <2>1. CASE \E u \in Users : RefreshedOrExpired(u)
    BY <2>1, <1>1, RememberTyped DEF RefreshedOrExpired, UsersSound, TypeOK
  <2>2. CASE UNCHANGED vars
    BY <2>2 DEF vars, code, UsersSound, TypeOK
  <2>3. QED
    BY <2>1, <2>2
<1>3. /\ UNCHANGED ranks /\ ManagersKnown'
      /\ \A u \in Users : Present(u)' => Sound(u, users[u], ranks)'
  BY <1>1, UsersUnchanged
<1>4. \A c \in Calls : CopySound(c)' /\ Decided(c)'
  BY <1>1, <1>3 DEF UsersSound, CopySound, Sound, Decided, HasRead, Kind, ByStaff
<1>5. QED
  BY <1>2, <1>3, <1>4 DEF UsersSound

(* The update of a user: what is written is sound (UpdatedSound), and      *)
(* other documents and copies stay so, as roles held only grow.            *)
LEMMA UpdateKeeps ==
  ASSUME UsersSound, NEW c \in Calls, Update(c)
  PROVE  UsersSound'
<1> DEFINE r == request[c]
           v == r.victim
           new == Updated(users[v], victim[c], r)
           more == [ranks EXCEPT ![v] = @ \cup {new.role}]
<1>1. /\ r \in Requests /\ v \in Users /\ at[c] # "idle"
      /\ HasRead(c) /\ Allowed(r, victim[c], actor[c])
  BY DEF Update, Settle, UsersSound, Decided, Requests
<1>2. /\ ranks \in [Users -> SUBSET UserRole] /\ users \in Collection
      /\ users' = [users EXCEPT ![v] = new]
      /\ UNCHANGED <<refresh, request, victim, actor>> /\ Remember
      /\ r.kind = "create" => users[v] = None
  BY DEF Update, UsersSound, TypeOK
<1>3. r.kind # "create" => Sound(v, users[v], ranks) /\ Sound(v, victim[c], ranks)
  <2>1. r.kind # "create" => victim[c] # None
    BY <1>1, UsersMntAssumption DEF HasRead, Kind
  <2>2. QED
    BY <1>1, <2>1 DEF UsersSound, CopySound, Present
<1>4. r.kind \in BlockActivity \cup {"role"} =>
        actor[c] \in User /\ actor[c].role \in ranks[r.actor]
  <2>1. r.kind \in BlockActivity \cup {"role"} => actor[c] # None
    BY <1>1, UsersMntAssumption DEF HasRead, ByStaff, Kind
  <2>2. QED
    BY <2>1 DEF UsersSound, CopySound, TypeOK
<1>5. Sound(v, new, more) /\ (new.role = "Manager" => "Manager" \in ranks[v])
  BY <1>1, <1>2, <1>3, <1>4, UpdatedSound
<1>6. new \in User /\ new # None /\ users' \in Collection
      /\ more \in [Users -> SUBSET UserRole]
  <2>1. new \in User
    BY <1>5 DEF Sound
  <2>2. new.role \in UserRole
    BY <2>1 DEF User
  <2>3. QED
    BY <1>1, <1>2, <2>1, <2>2, UsersMntAssumption DEF Collection
<1>7. ranks' = more
  <2>1. ASSUME NEW u \in Users PROVE ranks[u] \cup RoleOf(users'[u]) = more[u]
    <3>1. CASE u = v
      BY <3>1, <1>1, <1>2, <1>6 DEF RoleOf, Collection
    <3>2. CASE u # v
      <4>1. users'[u] = users[u] /\ more[u] = ranks[u]
        BY <3>2, <1>1, <1>2 DEF Collection
      <4>2. RoleOf(users[u]) \subseteq ranks[u]
        BY DEF UsersSound, Present, Sound, RoleOf
      <4>3. QED
        BY <4>1, <4>2
    <3>3. QED
      BY <3>1, <3>2
  <2>2. ranks' = [u \in Users |-> ranks[u] \cup RoleOf(users'[u])]
    BY <1>2 DEF Remember
  <2>3. QED
    BY <1>2, <2>1, <2>2
<1>8. \A u \in Users : ranks[u] \subseteq more[u]
  BY <1>2
<1>9. TypeOK'
  <2>1. /\ at' \in [Calls -> {"idle", "read", "write", "done", "failed"}]
        /\ todo' \in [Calls -> SUBSET {"update", "refresh"}]
    BY DEF Update, Settle, UsersSound, TypeOK
  <2>2. QED
    BY <1>2, <1>6, <2>1, RememberTyped DEF UsersSound, TypeOK
<1>10. ManagersKnown'
  <2>1. first' = first
    BY <1>2 DEF Remember
  <2>2. ASSUME NEW u \in Users, "Manager" \in more[u] PROVE "Manager" \in ranks[u]
    BY <2>2, <1>1, <1>2, <1>5
  <2>3. QED
    BY <1>7, <2>1, <2>2 DEF UsersSound, ManagersKnown
<1>11. ASSUME NEW u \in Users, users'[u] # None
       PROVE  Sound(u, users'[u], more)
  <2>1. CASE u = v
    BY <2>1, <1>1, <1>2, <1>5 DEF Collection
  <2>2. CASE u # v
    <3>1. users'[u] = users[u]
      BY <2>2, <1>2 DEF Collection
    <3>2. Sound(u, users[u], ranks)
      BY <1>11, <3>1 DEF UsersSound, Present
    <3>3. QED
      BY <3>1, <3>2, <1>2, <1>6, <1>8, SoundStays
  <2>3. QED
    BY <2>1, <2>2
<1>12. ASSUME NEW d \in Calls PROVE CopySound(d)' /\ Decided(d)'
  <2>1. CopySound(d) /\ Decided(d)
    BY DEF UsersSound
  <2>2. /\ request'[d] = request[d] /\ victim'[d] = victim[d] /\ actor'[d] = actor[d]
        /\ at[d] # "idle" <=> at'[d] # "idle"
        /\ todo'[d] \subseteq todo[d]
    BY <1>1, <1>2 DEF Update, Settle, UsersSound, TypeOK
  <2>3. victim[d] # None => Sound(request[d].victim, victim[d], more)
    <3>1. victim[d] # None => request[d] \in Requests /\ request[d].victim \in Users
      BY <2>1 DEF CopySound, Decided, Requests
    <3>2. QED
      BY <2>1, <3>1, <1>2, <1>6, <1>8, SoundStays DEF CopySound
  <2>4. victim[d] # None => users'[request[d].victim] # None
    <3>1. victim[d] # None => request[d].victim \in Users /\ users[request[d].victim] # None
      BY <2>1 DEF CopySound, Decided, Requests
    <3>2. QED
      BY <3>1, <1>2, <1>6 DEF Collection
  <2>5. actor[d] # None => actor[d].role \in more[request[d].actor]
    BY <2>1, <1>1, <1>2 DEF CopySound
  <2>6. CopySound(d)'
    BY <2>1, <2>2, <2>3, <2>4, <2>5, <1>7 DEF CopySound
  <2>7. Decided(d)'
    BY <2>1, <2>2 DEF Decided, HasRead, Kind, ByStaff
  <2>8. QED
    BY <2>6, <2>7
<1>13. QED
  BY <1>7, <1>9, <1>10, <1>11, <1>12 DEF UsersSound, Present

LEMMA SoundInductive == UsersSound /\ [Next]_vars => UsersSound'
<1> SUFFICES ASSUME UsersSound, [Next]_vars PROVE UsersSound'
  OBVIOUS
<1>1. ASSUME NEW c \in Calls, NEW r \in Menu, Start(c, r) PROVE UsersSound'
  BY <1>1, StartKeeps
<1>2. ASSUME NEW c \in Calls, CallStep(c) PROVE UsersSound'
  BY <1>2, ReadVictimKeeps, ReadActorKeeps, DecisionKeeps, UpdateKeeps, OtherPartKeeps
     DEF CallStep
<1>3. ASSUME (\E u \in Users : RefreshedOrExpired(u)) \/ UNCHANGED vars PROVE UsersSound'
  BY <1>3, KeyGoneKeeps
<1>4. QED
  BY <1>1, <1>2, <1>3 DEF Next, Quiet

-----------------------------------------------------------------------------
(* However calls overlap, the documents keep their types; nobody becomes a *)
(* manager, logs read as blocks and unblocks in turn, and whoever has      *)
(* addresses has one default address.                                      *)
THEOREM UsersKept ==
  Spec => [](TypeOK /\ NoNewManagers /\ LogInTurn /\ OneDefaultAddress)
<1>1. UsersSound => TypeOK /\ NoNewManagers /\ LogInTurn /\ OneDefaultAddress
  BY DEF UsersSound, ManagersKnown, Sound, NoNewManagers, LogInTurn, OneDefaultAddress, Present
<1>2. QED
  BY <1>1, SoundAtFirst, SoundInductive, PTL DEF Spec

(* Every entry on a log is by somebody who could make it, in a role they   *)
(* have had, although the log was built on an outdated copy of the user    *)
(* and the roles have changed since (blockUser, unblockUser, changeRole).  *)
THEOREM EntriesAreRanked == Spec => []EntriesRanked
<1>1. UsersSound => EntriesRanked
  BY DEF UsersSound, Sound, EntriesRanked, Present
<1>2. QED
  BY <1>1, SoundAtFirst, SoundInductive, PTL DEF Spec

-----------------------------------------------------------------------------
(* Some manager.  Calls that are under way together do not run alone; so   *)
(* as long as every change of a role does, what a call has read of roles   *)
(* is still true when it decides and writes.                               *)
Started ==
  \A c \in Calls :
    /\ at[c] = "idle" => request[c] = None
    /\ todo[c] # {} => at[c] # "read"
    /\ actor[c] # None => ByStaff(c)
Together == \A c, d \in Calls : c # d /\ UnderWay(c) /\ UnderWay(d) => ~ alone[c]

RolesAlone == \A c \in Calls : Kind(c) = "role" => alone[c]
Deciding(c) == at[c] = "read" \/ "update" \in todo[c]
Knows(copy, u) == copy # None => users[u] # None /\ copy.role = users[u].role
CopiesKnow ==
  \A c \in Calls : Deciding(c) =>
    Knows(victim[c], request[c].victim) /\ Knows(actor[c], request[c].actor)

Manages(u) == users[u] # None /\ users[u].role = "Manager"
Managed == ManagersAtFirst # {} => \E u \in Users : Manages(u)

ManagersSound == Started /\ Together /\ (RolesAlone => CopiesKnow /\ Managed)

(* Every step but the beginning of a call leaves requests and company as   *)
(* they are, and no call is under way after it that was not before.        *)
LEMMA CompanyStays ==
  ASSUME UsersSound, Started, Together, UNCHANGED <<request, alone>>,
         \A c \in Calls : UnderWay(c)' => UnderWay(c),
         \A c \in Calls : at'[c] = "idle" => at[c] = "idle",
         \A c \in Calls : todo'[c] # {} => at'[c] # "read",
         \A c \in Calls : actor'[c] # None => actor[c] # None \/ ByStaff(c)
  PROVE  Started' /\ Together' /\ (RolesAlone' <=> RolesAlone)
BY DEF Started, Together, RolesAlone, Kind, ByStaff

(* A step that writes no user, and after which c knows what it has read.   *)
LEMMA OnlyReads ==
  ASSUME UsersSound, ManagersSound, NEW c \in Calls, UNCHANGED <<users, request>>, Remember,
         \A d \in Calls : UnderWay(d)' => UnderWay(d),
         \A d \in Calls : at'[d] = "idle" => at[d] = "idle",
         \A d \in Calls \ {c} :
           /\ at'[d] = at[d] /\ victim'[d] = victim[d] /\ actor'[d] = actor[d] /\ todo'[d] = todo[d],
         todo'[c] # {} => at'[c] # "read",
         actor'[c] # None => actor[c] # None \/ ByStaff(c),
         Deciding(c)' => /\ Deciding(c)
                         /\ victim'[c] = victim[c] \/ victim'[c] = users[request[c].victim]
                         /\ actor'[c] = actor[c] \/ actor'[c] = users[request[c].actor]
  PROVE  ManagersSound'
<1>1. Started' /\ Together' /\ (RolesAlone' <=> RolesAlone)
  <2>1. ASSUME NEW d \in Calls
        PROVE  (todo'[d] # {} => at'[d] # "read") /\ (actor'[d] # None => actor[d] # None \/ ByStaff(d))
    BY <2>1 DEF ManagersSound, Started
  <2> QED
    BY <2>1, CompanyStays DEF Remember, ManagersSound
<1>2. ASSUME CopiesKnow PROVE CopiesKnow'
  <2>1. ASSUME NEW d \in Calls, Deciding(d)'
        PROVE  Knows(victim'[d], request[d].victim) /\ Knows(actor'[d], request[d].actor)
    <3>1. CASE d = c
      BY <1>2, <2>1, <3>1 DEF CopiesKnow, Knows
    <3>2. CASE d # c
      BY <1>2, <2>1, <3>2 DEF CopiesKnow, Deciding
    <3> QED
      BY <3>1, <3>2
  <2> QED
    BY <2>1 DEF CopiesKnow, Knows
<1>3. Managed => Managed'
  BY DEF Managed, Manages, ManagersAtFirst, Remember
<1> QED
  BY <1>1, <1>2, <1>3 DEF ManagersSound

LEMMA StartManaged ==
  ASSUME UsersSound, ManagersSound, NEW c \in Calls, NEW r \in Menu, Start(c, r)
  PROVE  ManagersSound'
<1>1. /\ at[c] = "idle" /\ request[c] = None /\ todo[c] = {} /\ victim[c] = None /\ actor[c] = None
      /\ request' = [request EXCEPT ![c] = r] /\ at' = [at EXCEPT ![c] = "read"]
      /\ UNCHANGED <<users, first, victim, actor, todo>>
      /\ at \in [Calls -> {"idle", "read", "write", "done", "failed"}] /\ alone \in [Calls -> BOOLEAN]
      /\ request \in [Calls -> Requests \cup {None}]
  BY DEF Start, ManagersSound, Started, UsersSound, TypeOK, CopySound, Decided
<1>2. /\ ~ UnderWay(c) /\ \A d \in Calls \ {c} : UnderWay(d)' <=> UnderWay(d)
  BY <1>1 DEF UnderWay
<1>3. /\ alone'[c] <=> \A d \in Calls \ {c} : ~ UnderWay(d)
      /\ \A d \in Calls \ {c} : alone'[d] <=> alone[d] /\ ~ UnderWay(d)
  BY <1>2 DEF Start
<1>4. Started' /\ Together'
  <2>1. Together'
    BY <1>2, <1>3 DEF Together
  <2>2. ASSUME NEW d \in Calls
        PROVE  /\ at'[d] = "idle" => request'[d] = None
               /\ todo'[d] # {} => at'[d] # "read"
               /\ actor'[d] # None => ByStaff(d)'
    BY <1>1 DEF ManagersSound, Started, ByStaff, Kind
  <2> QED
    BY <2>1, <2>2 DEF Started
<1>5. RolesAlone' => RolesAlone
  <2>1. \A d \in Calls \ {c} : request'[d] = request[d]
    BY <1>1
  <2> QED
    BY <1>1, <1>3, <2>1 DEF RolesAlone, Kind
<1>6. CopiesKnow => CopiesKnow'
  <2>1. \A d \in Calls \ {c} : request'[d] = request[d] /\ at'[d] = at[d]
    BY <1>1
  <2> QED
    BY <1>1, <2>1 DEF CopiesKnow, Knows, Deciding
<1>7. Managed => Managed'
  BY <1>1 DEF Managed, Manages, ManagersAtFirst
<1> QED
  BY <1>4, <1>5, <1>6, <1>7 DEF ManagersSound

(* An update that is not a change of a role changes nobody's role.         *)
LEMMA RolesKept ==
  ASSUME UsersSound, NEW c \in Calls, Update(c), request[c].kind # "role",
         Knows(victim[c], request[c].victim)
  PROVE  \A u \in Users : users[u] # None => users'[u] # None /\ users'[u].role = users[u].role
<1> DEFINE r == request[c]
           v == r.victim
           new == Updated(users[v], victim[c], r)
<1>1. /\ r \in Requests /\ v \in Users /\ HasRead(c) /\ Allowed(r, victim[c], actor[c])
      /\ users \in Collection /\ users' = [users EXCEPT ![v] = new]
      /\ r.kind = "create" => users[v] = None
  BY DEF Update, Settle, UsersSound, Decided, Requests, TypeOK
<1>2. r.kind \in BlockActivity \cup {"create", "info", "address"}
  BY <1>1 DEF Requests
<1>3. ASSUME users[v] # None PROVE new # None /\ new.role = users[v].role
  <2>1. r.kind # "create" /\ victim[c] # None /\ victim[c].role = users[v].role
    BY <1>1, <1>3, UsersMntAssumption DEF HasRead, Kind, Knows
  <2>2. Sound(v, users[v], ranks) /\ Sound(v, victim[c], ranks)
    BY <1>1, <1>3, <2>1 DEF UsersSound, CopySound, Present
  <2>3. CASE r.kind \in BlockActivity
    <3>1. new = [users[v] EXCEPT !.block = Blocked(victim[c], r)]
      BY <2>3 DEF Updated, BlockActivity
    <3>2. new.role = users[v].role
      BY <2>2, <3>1 DEF Sound, User
    <3>3. Sound(v, new, [ranks EXCEPT ![v] = @ \cup {new.role}])
      <4>1. actor[c] # None
        BY <1>1, <2>3, UsersMntAssumption DEF HasRead, ByStaff, Kind
      <4>2. actor[c] \in User /\ actor[c].role \in ranks[r.actor] /\ ranks \in [Users -> SUBSET UserRole]
        BY <4>1 DEF UsersSound, CopySound, TypeOK
      <4> QED
        BY <1>1, <2>2, <4>2, UpdatedSound
    <3> QED
      BY <3>2, <3>3, UsersMntAssumption DEF Sound
  <2>4. CASE r.kind = "info"
    <3>1. new = SetFrom(users[v], victim[c])
      BY <2>4 DEF Updated, BlockActivity
    <3>2. new.role = victim[c].role /\ Sound(v, new, ranks)
      BY <2>2, <3>1, SetSound
    <3> QED
      BY <2>1, <3>2, UsersMntAssumption DEF Sound
  <2>5. CASE r.kind = "address"
    <3>0. new = [SetFrom(users[v], victim[c]) EXCEPT !.address = WithDefault(r.address)]
      BY <2>5 DEF Updated, BlockActivity
    <3>a. /\ Sound(v, SetFrom(users[v], victim[c]), ranks)
          /\ SetFrom(users[v], victim[c]).role = victim[c].role
      <4>1. PICK now, seen : now = users[v] /\ seen = victim[c] /\ Sound(v, now, ranks) /\ Sound(v, seen, ranks)
        BY <2>2
      <4>2. Sound(v, SetFrom(now, seen), ranks) /\ SetFrom(now, seen).role = seen.role
        BY <4>1, SetSound
      <4> QED
        BY <4>1, <4>2
    <3>1. PICK set : /\ Sound(v, set, ranks) /\ set.role = victim[c].role
                     /\ new = [set EXCEPT !.address = WithDefault(r.address)]
      BY <3>0, <3>a
    <3>2. r.address \in Seq(BOOLEAN) /\ AddressesAllowed(r.address)
      BY <1>1, <2>5 DEF Requests, Allowed, BlockActivity
    <3>3. WithDefault(r.address) \in Seq(BOOLEAN)
      BY <3>2, DefaultChosen
    <3>4. new \in User /\ new.role = victim[c].role
      BY <2>2, <3>1, <3>3 DEF Sound, User
    <3> QED
      BY <2>1, <3>4, UsersMntAssumption
  <2> QED
    BY <1>2, <2>1, <2>3, <2>4, <2>5
<1>4. \A u \in Users \ {v} : users'[u] = users[u]
  BY <1>1 DEF Collection
<1>5. users'[v] = new
  BY <1>1 DEF Collection
<1> QED
  BY <1>3, <1>4, <1>5

LEMMA UpdateManaged ==
  ASSUME UsersSound, ManagersSound, NEW c \in Calls, Update(c)
  PROVE  ManagersSound'
<1> DEFINE r == request[c]
           v == r.victim
<1>1. /\ r \in Requests /\ v \in Users /\ HasRead(c) /\ Allowed(r, victim[c], actor[c])
      /\ users \in Collection /\ users' = [users EXCEPT ![v] = Updated(users[v], victim[c], r)]
      /\ UNCHANGED <<request, victim, actor, first, alone>>
      /\ "update" \in todo[c] /\ at[c] # "idle"
      /\ at \in [Calls -> {"idle", "read", "write", "done", "failed"}]
      /\ todo \in [Calls -> SUBSET {"update", "refresh"}]
  BY DEF Update, Settle, UsersSound, Decided, Requests, TypeOK, Remember
<1>2. /\ \A d \in Calls : todo'[d] \subseteq todo[d] /\ (at'[d] = "idle" => at[d] = "idle")
      /\ \A d \in Calls \ {c} : at'[d] = at[d]
      /\ at'[c] # "read" \/ at[c] = "read"
      /\ "update" \notin todo'[c] /\ UnderWay(c)
      /\ at'[c] \in {at[c], "done", "failed"}
      /\ \A d \in Calls : todo'[d] # {} => at'[d] # "read"
      /\ at'[c] # "read"
  BY <1>1 DEF Update, Settle, UnderWay, ManagersSound, Started
<1>3. /\ \A d \in Calls : UnderWay(d)' => UnderWay(d)
      /\ \A d \in Calls : Deciding(d)' => Deciding(d)
      /\ Deciding(c)
  BY <1>1, <1>2 DEF UnderWay, Deciding
<1>4. Started' /\ Together' /\ (RolesAlone' <=> RolesAlone)
  BY <1>1, <1>2, <1>3, CompanyStays DEF ManagersSound
<1>5. ASSUME RolesAlone PROVE CopiesKnow' /\ Managed'
  <2>1. CopiesKnow /\ Managed /\ Knows(victim[c], v) /\ Knows(actor[c], r.actor)
    BY <1>3, <1>5 DEF ManagersSound, CopiesKnow
  <2>2. CASE r.kind # "role"
    <3>1. \A u \in Users : users[u] # None => users'[u] # None /\ users'[u].role = users[u].role
      BY <2>1, <2>2, RolesKept
    <3>2. ASSUME NEW d \in Calls, Deciding(d)'
          PROVE  /\ victim[d] # None => request[d].victim \in Users
                 /\ actor[d] # None => request[d].actor \in Users
      <4>1. victim[d] # None \/ actor[d] # None => request[d] \in Requests
        BY DEF UsersSound, CopySound, Decided
      <4>2. victim[d] # None => request[d].victim \in Users
        BY <4>1 DEF Requests
      <4>3. actor[d] # None => request[d].actor \in Users
        BY <4>1, UsersMntAssumption DEF ManagersSound, Started, ByStaff, Kind, Requests, BlockActivity
      <4> QED
        BY <4>2, <4>3
    <3>3. CopiesKnow'
      BY <1>1, <1>3, <2>1, <3>1, <3>2 DEF CopiesKnow, Knows
    <3>4. Managed'
      BY <1>1, <2>1, <3>1 DEF Managed, Manages, ManagersAtFirst
    <3> QED
      BY <3>3, <3>4
  <2>3. CASE r.kind = "role"
    <3>1. alone[c]
      BY <1>1, <1>5, <2>3, UsersMntAssumption DEF RolesAlone, Kind
    <3>2. \A d \in Calls \ {c} : ~ UnderWay(d)
      BY <1>2, <3>1 DEF ManagersSound, Together
    <3>3. ~ Deciding(c)'
      BY <1>2 DEF Deciding
    <3>4. CopiesKnow'
      BY <1>3, <3>2, <3>3 DEF CopiesKnow, Deciding, UnderWay
    <3>5. /\ r.actor \in Users /\ r.victim # r.actor
          /\ victim[c].role = "Manager" => actor[c].role = "Manager"
          /\ victim[c] # None /\ actor[c] # None
      BY <1>1, <2>3, UsersMntAssumption
         DEF Requests, Allowed, CanChangeRole, BlockActivity, HasRead, ByStaff, Kind
    <3>6. \A u \in Users \ {v} : users'[u] = users[u]
      BY <1>1 DEF Collection
    <3>7. Managed'
      BY <1>1, <2>1, <3>5, <3>6 DEF Managed, Manages, ManagersAtFirst, Knows
    <3> QED
      BY <3>4, <3>7
  <2> QED
    BY <2>2, <2>3
<1> QED
  BY <1>4, <1>5 DEF ManagersSound

LEMMA StepManaged == UsersSound /\ ManagersSound /\ [Next]_vars => ManagersSound'
<1> SUFFICES ASSUME UsersSound, ManagersSound, [Next]_vars PROVE ManagersSound'
  OBVIOUS
<1>t. /\ at \in [Calls -> {"idle", "read", "write", "done", "failed"}]
      /\ todo \in [Calls -> SUBSET {"update", "refresh"}]
      /\ victim \in [Calls -> User \cup {None}] /\ actor \in [Calls -> User \cup {None}]
  BY DEF UsersSound, TypeOK
<1>1. ASSUME NEW c \in Calls, ReadVictim(c) \/ ReadActor(c) PROVE ManagersSound'
  BY <1>t, <1>1, OnlyReads DEF ReadVictim, ReadActor, UnderWay, Deciding, ManagersSound, Started
<1>2. ASSUME NEW c \in Calls, Accept(c) \/ Refuse(c) PROVE ManagersSound'
  BY <1>t, <1>2, OnlyReads DEF Accept, Refuse, UnderWay, Deciding
<1>3. ASSUME NEW c \in Calls,
             SetUserRequiredRefresh(c) \/ \E part \in {"update", "refresh"} : PartFails(c, part)
      PROVE  ManagersSound'
  <2>1. at[c] # "idle"
    BY <1>3 DEF SetUserRequiredRefresh, PartFails, Settle, UsersSound, Decided
  <2>2. at[c] # "read"
    BY <1>3 DEF SetUserRequiredRefresh, PartFails, Settle, ManagersSound, Started
  <2> QED
    BY <1>t, <1>3, <2>1, <2>2, OnlyReads DEF SetUserRequiredRefresh, PartFails, Settle, UnderWay, Deciding
<1>4. ASSUME UNCHANGED <<users, request, at, victim, actor, todo, first, alone>> PROVE ManagersSound'
  BY <1>4 DEF ManagersSound, Started, Together, RolesAlone, CopiesKnow, Managed, Manages, ManagersAtFirst,
              Knows, ByStaff, Deciding, UnderWay, Kind
<1>5. ASSUME (\E u \in Users : RefreshedOrExpired(u)) \/ Quiet \/ UNCHANGED vars PROVE ManagersSound'
  BY <1>4, <1>5 DEF RefreshedOrExpired, Remember, Quiet, vars, code
<1> QED
  BY <1>1, <1>2, <1>3, <1>5, StartManaged, UpdateManaged DEF Next, CallStep

LEMMA ManagersAtStart == Init => ManagersSound
<1> SUFFICES ASSUME Init PROVE ManagersSound
  OBVIOUS
<1>1. Started /\ Together /\ CopiesKnow
  BY DEF Init, Started, Together, UnderWay, CopiesKnow, Knows, Deciding, ByStaff
<1>2. Managed
  BY DEF Init, Managed, Manages, ManagersAtFirst
<1> QED
  BY <1>1, <1>2 DEF ManagersSound

(* If every change of a role runs alone, and there was a manager, there is *)
(* one, whatever copies the other calls write back: nobody changes his own *)
(* role, and only a manager changes a manager's.                           *)
THEOREM ManagerStays == Spec => []SomeManager
<1>1. ManagersSound => SomeManager
  BY DEF ManagersSound, RolesAlone, Managed, Manages, SomeManager, Present
<1> QED
  BY <1>1, ManagersAtStart, SoundAtFirst, SoundInductive, StepManaged, PTL DEF Spec

-----------------------------------------------------------------------------
(* What a call that runs alone does.  Until it writes, the collection is   *)
(* as it found it and its copies are true; afterwards it has done what was *)
(* asked, or failed and done nothing.                                      *)
Ended(r, old, now, place) ==
  \/ place = "failed" /\ now = old
  \/ (\A u \in Users \ {r.victim} : now[u] = old[u]) /\ Promised(r, old[r.victim], now[r.victim])

Exact(c) ==
  alone[c] /\ UnderWay(c) =>
    /\ before[c] \in Collection
    /\ Deciding(c) => users = before[c]
                      /\ (victim[c] # None => victim[c] = before[c][request[c].victim])
    /\ ~ Deciding(c) => Ended(request[c], before[c], users, at[c])

AllExact == \A c \in Calls : Exact(c)

(* The document a call writes that has read what is there.                 *)
LEMMA UpdatePromised ==
  ASSUME UsersSound, NEW c \in Calls, Update(c),
         victim[c] # None => victim[c] = users[request[c].victim]
  PROVE  /\ \A u \in Users \ {request[c].victim} : users'[u] = users[u]
         /\ Promised(request[c], users[request[c].victim], users'[request[c].victim])
<1> DEFINE r == request[c]
           v == r.victim
           old == users[v]
           new == Updated(old, victim[c], r)
<1>1. /\ r \in Requests /\ v \in Users /\ HasRead(c) /\ Allowed(r, victim[c], actor[c])
      /\ users \in Collection /\ users' = [users EXCEPT ![v] = new]
      /\ r.kind = "create" => old = None
  BY DEF Update, Settle, UsersSound, Decided, Requests, TypeOK
<1>2. users'[v] = new /\ \A u \in Users \ {v} : users'[u] = users[u]
  BY <1>1 DEF Collection
<1>3. r.kind # "create" => victim[c] = old /\ old \in User
  <2>1. r.kind # "create" => victim[c] # None
    BY <1>1, UsersMntAssumption DEF HasRead, Kind
  <2> QED
    BY <1>1, <2>1 DEF Collection
<1>4. ASSUME r.kind \in BlockActivity PROVE Promised(r, old, new)
  BY <1>3, <1>4 DEF Updated, Promised, BlockActivity
<1>5. ASSUME r.kind = "role" PROVE Promised(r, old, new)
  BY <1>5 DEF Updated, Promised, BlockActivity
<1>6. ASSUME r.kind = "create" PROVE Promised(r, old, new)
  BY <1>1, <1>6 DEF Updated, Promised, BlockActivity
<1>7. ASSUME r.kind = "info" PROVE Promised(r, old, new)
  <2>1. SetFrom(old, old) = old
    BY <1>3, <1>7, SetSame
  <2> QED
    BY <1>3, <1>7, <2>1 DEF Updated, Promised, BlockActivity
<1>8. ASSUME r.kind = "address" PROVE Promised(r, old, new)
  <2>0. SetFrom(old, old) = old
    BY <1>3, <1>8, SetSame
  <2>1. new = [old EXCEPT !.address = WithDefault(r.address)] /\ old \in User
    BY <1>3, <1>8, <2>0 DEF Updated, BlockActivity
  <2>2. r.address \in Seq(BOOLEAN)
    BY <1>1, <1>8 DEF Requests, BlockActivity
  <2>3. Len(WithDefault(r.address)) = Len(r.address)
    <3>1. CASE r.address = <<>> \/ \E d \in DOMAIN r.address : r.address[d]
      BY <3>1 DEF WithDefault
    <3>2. CASE ~ (r.address = <<>> \/ \E d \in DOMAIN r.address : r.address[d])
      <4>1. 1 \in 1..Len(r.address)
        BY <2>2, <3>2, EmptySeq, LenProperties
      <4> QED
        BY <2>2, <3>2, <4>1, ExceptSeq DEF WithDefault
    <3> QED
      BY <3>1, <3>2
  <2>4. new.address = WithDefault(r.address) /\ new = [old EXCEPT !.address = new.address]
    BY <2>1 DEF User
  <2> QED
    BY <1>8, <2>3, <2>4 DEF Promised, BlockActivity
<1> QED
  BY <1>1, <1>2, <1>4, <1>5, <1>6, <1>7, <1>8 DEF Requests

(* A step of a call that runs alone.                                       *)
LEMMA AloneStep ==
  ASSUME UsersSound, Started, NEW c \in Calls, Exact(c), alone[c], CallStep(c)
  PROVE  /\ UnderWay(c) /\ before[c] \in Collection
         /\ Deciding(c)' => users' = before[c]
                            /\ (victim'[c] # None => victim'[c] = before[c][request[c].victim])
         /\ ~ Deciding(c)' => Ended(request[c], before[c], users', at'[c])
<1>t. /\ at \in [Calls -> {"idle", "read", "write", "done", "failed"}]
      /\ todo \in [Calls -> SUBSET {"update", "refresh"}]
      /\ victim \in [Calls -> User \cup {None}]
      /\ todo[c] # {} => at[c] # "read"
  BY DEF UsersSound, TypeOK, Started
<1>1. UnderWay(c)
  BY DEF CallStep, ReadVictim, ReadActor, Accept, Refuse, Update, SetUserRequiredRefresh, PartFails, Settle, UnderWay
<1>2. /\ before[c] \in Collection
      /\ Deciding(c) => users = before[c]
                        /\ (victim[c] # None => victim[c] = before[c][request[c].victim])
      /\ ~ Deciding(c) => Ended(request[c], before[c], users, at[c])
  BY <1>1 DEF Exact
<1>3. CASE ReadVictim(c) \/ ReadActor(c)
  BY <1>t, <1>1, <1>2, <1>3 DEF ReadVictim, ReadActor, Deciding, Ended
<1>4. CASE Accept(c)
  BY <1>t, <1>1, <1>2, <1>4 DEF Accept, Deciding
<1>5. CASE Refuse(c)
  BY <1>t, <1>1, <1>2, <1>5 DEF Refuse, Deciding, Ended
<1>6. CASE Update(c)
  <2>1. Deciding(c) /\ ~ Deciding(c)'
    BY <1>t, <1>6 DEF Update, Settle, Deciding
  <2> QED
    BY <1>1, <1>2, <1>6, <2>1, UpdatePromised DEF Ended
<1>7. CASE SetUserRequiredRefresh(c) \/ PartFails(c, "refresh")
  <2>1. /\ users' = users /\ victim' = victim /\ (at[c] = "failed" => at'[c] = "failed")
        /\ Deciding(c) <=> Deciding(c)'
    BY <1>t, <1>7 DEF SetUserRequiredRefresh, PartFails, Settle, Deciding
  <2> QED
    BY <1>1, <1>2, <2>1 DEF Ended
<1>8. CASE PartFails(c, "update")
  <2>1. Deciding(c) /\ users' = users /\ at'[c] = "failed" /\ ~ Deciding(c)'
    BY <1>t, <1>8 DEF PartFails, Deciding
  <2> QED
    BY <1>1, <1>2, <2>1 DEF Ended
<1> QED
  BY <1>1, <1>2, <1>3, <1>4, <1>5, <1>6, <1>7, <1>8 DEF CallStep

(* A call's step is no step of the calls that run alone beside it: there   *)
(* are none.                                                               *)
LEMMA AloneOnly ==
  ASSUME UsersSound, ManagersSound, NEW c \in Calls, CallStep(c), NEW d \in Calls, d # c,
         alone[d], UnderWay(d)
  PROVE  FALSE
<1>1. UnderWay(c)
  BY DEF CallStep, ReadVictim, ReadActor, Accept, Refuse, Update, SetUserRequiredRefresh, PartFails, Settle, UnderWay
<1> QED
  BY <1>1 DEF ManagersSound, Together

LEMMA OthersWait ==
  ASSUME UsersSound, NEW c \in Calls, CallStep(c), NEW d \in Calls, d # c
  PROVE  UnderWay(d)' <=> UnderWay(d)
<1>1. /\ at \in [Calls -> {"idle", "read", "write", "done", "failed"}]
      /\ todo \in [Calls -> SUBSET {"update", "refresh"}]
  BY DEF UsersSound, TypeOK
<1>2. at'[d] = at[d] /\ todo'[d] = todo[d]
  BY <1>1
     DEF CallStep, ReadVictim, ReadActor, Accept, Refuse, Update, SetUserRequiredRefresh, PartFails, Settle
<1> QED
  BY <1>2 DEF UnderWay

LEMMA CallExact ==
  ASSUME UsersSound, ManagersSound, AllExact, NEW c \in Calls, CallStep(c)
  PROVE  /\ AllExact'
         /\ \A d \in Calls : UnderWay(d) /\ ~ UnderWay(d)' /\ alone[d] => Outcome(d)
<1>1. /\ alone' = alone /\ request' = request
      /\ before' = [d \in Calls |-> IF alone[d] /\ UnderWay(d)' THEN before[d] ELSE None]
  BY DEF CallStep, ReadVictim, ReadActor, Accept, Refuse, Update, SetUserRequiredRefresh, PartFails, Remember
<1>2. ASSUME NEW d \in Calls, d # c PROVE Exact(d)' /\ ~ (UnderWay(d) /\ ~ UnderWay(d)')
  BY <1>1, <1>2, AloneOnly, OthersWait DEF Exact
<1>3. ASSUME alone[c]
      PROVE  Exact(c)' /\ (~ UnderWay(c)' => Outcome(c))
  <2>1. /\ before[c] \in Collection
        /\ Deciding(c)' => users' = before[c]
                           /\ (victim'[c] # None => victim'[c] = before[c][request[c].victim])
        /\ ~ Deciding(c)' => Ended(request[c], before[c], users', at'[c])
    BY <1>3, AloneStep DEF AllExact, ManagersSound
  <2>2. UnderWay(c)' => before'[c] = before[c]
    BY <1>1, <1>3
  <2>3. Exact(c)'
    BY <1>1, <2>1, <2>2 DEF Exact
  <2>4. ~ UnderWay(c)' => ~ Deciding(c)'
    BY DEF UnderWay, Deciding
  <2>5. ~ UnderWay(c)' => Outcome(c)
    BY <2>1, <2>4 DEF Ended, Outcome
  <2> QED
    BY <2>3, <2>5
<1>4. ASSUME ~ alone[c] PROVE Exact(c)'
  BY <1>1, <1>4 DEF Exact
<1> QED
  BY <1>2, <1>3, <1>4 DEF AllExact

LEMMA StartExact ==
  ASSUME UsersSound, ManagersSound, AllExact, NEW c \in Calls, NEW r \in Menu, Start(c, r)
  PROVE  /\ AllExact'
         /\ \A d \in Calls : ~ (UnderWay(d) /\ ~ UnderWay(d)')
<1>1. /\ at[c] = "idle" /\ todo[c] = {} /\ victim[c] = None
      /\ at' = [at EXCEPT ![c] = "read"] /\ UNCHANGED <<users, victim, todo>>
      /\ at \in [Calls -> {"idle", "read", "write", "done", "failed"}]
      /\ users \in Collection
  BY DEF Start, UsersSound, TypeOK, CopySound, Decided
<1>2. UnderWay(c)' /\ \A d \in Calls \ {c} : UnderWay(d)' <=> UnderWay(d)
  BY <1>1 DEF UnderWay
<1>3. \A d \in Calls \ {c} : alone'[d] => ~ UnderWay(d)
  BY DEF Start
<1>4. alone'[c] => before'[c] = users
  BY DEF Start
<1>5. Deciding(c)'
  BY <1>1 DEF Deciding
<1>6. Exact(c)'
  BY <1>1, <1>4, <1>5 DEF Exact
<1>7. \A d \in Calls \ {c} : Exact(d)'
  BY <1>2, <1>3 DEF Exact
<1> QED
  BY <1>1, <1>2, <1>6, <1>7 DEF AllExact, UnderWay

LEMMA RestExact ==
  ASSUME UsersSound, AllExact, (\E u \in Users : RefreshedOrExpired(u)) \/ Quiet \/ UNCHANGED vars
  PROVE  /\ AllExact'
         /\ \A d \in Calls : ~ (UnderWay(d) /\ ~ UnderWay(d)')
<1>1. UNCHANGED <<users, request, at, victim, actor, todo, alone>>
  BY DEF RefreshedOrExpired, Remember, Quiet, vars, code
<1>2. \A d \in Calls : UnderWay(d)' <=> UnderWay(d)
  BY <1>1 DEF UnderWay
<1>3. \A d \in Calls : alone[d] /\ UnderWay(d) => before'[d] = before[d]
  BY <1>2 DEF RefreshedOrExpired, Remember, Quiet, vars
<1>4. \A d \in Calls : Deciding(d)' <=> Deciding(d)
  BY <1>1 DEF Deciding
<1>5. ASSUME NEW d \in Calls PROVE Exact(d)'
  BY <1>1, <1>2, <1>3, <1>4 DEF AllExact, Exact
<1> QED
  BY <1>2, <1>5 DEF AllExact

LEMMA NextExact ==
  UsersSound /\ ManagersSound /\ AllExact /\ [Next]_vars
    => /\ AllExact'
       /\ [\A c \in Calls : UnderWay(c) /\ ~ UnderWay(c)' /\ alone[c] => Outcome(c)]_vars
<1> SUFFICES ASSUME UsersSound, ManagersSound, AllExact, [Next]_vars
             PROVE  /\ AllExact'
                    /\ \A c \in Calls : UnderWay(c) /\ ~ UnderWay(c)' /\ alone[c] => Outcome(c)
  OBVIOUS
<1>1. ASSUME NEW c \in Calls, NEW r \in Menu, Start(c, r)
      PROVE  AllExact' /\ \A d \in Calls : ~ (UnderWay(d) /\ ~ UnderWay(d)')
  BY <1>1, StartExact
<1>2. ASSUME NEW c \in Calls, CallStep(c)
      PROVE  AllExact' /\ \A d \in Calls : UnderWay(d) /\ ~ UnderWay(d)' /\ alone[d] => Outcome(d)
  BY <1>2, CallExact
<1> QED
  BY <1>1, <1>2, RestExact DEF Next

(* A call that ran alone has done exactly what it was asked when it ends,  *)
(* and one that failed that or nothing: whatever failed in between.        *)
THEOREM AloneIsExact == Spec => AloneMeansExact
<1>1. Init => ManagersSound /\ AllExact
  <2> SUFFICES ASSUME Init PROVE ManagersSound /\ AllExact
    OBVIOUS
  <2>1. AllExact
    BY DEF Init, AllExact, Exact, UnderWay
  <2> QED
    BY <2>1, ManagersAtStart
<1>2. QED
  BY <1>1, SoundAtFirst, SoundInductive, StepManaged, NextExact, PTL DEF Spec, AloneMeansExact
=============================================================================
