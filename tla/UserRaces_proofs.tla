-------------------------- MODULE UserRaces_proofs ---------------------------
(***************************************************************************)
(* What a request may count on although nothing keeps other requests from  *)
(* the rows and the document it read.  Fresh(p) says that what p read      *)
(* still holds of them; every lemma about a statement rests on the Fresh   *)
(* of the request that makes it and on nothing about the others.  A        *)
(* request is fresh when it has just read, and stays so until another      *)
(* writes what it read: always, in a service that serves one request at a  *)
(* time (Serial), and until it is stale, in UserRaces.                     *)
(***************************************************************************)
EXTENDS UserRaces, UserSafety_proofs

LateWrites == RowWrites \union {"SaveMetadata"}

\* The ban of the row has run out and is struck off the copy.
Lapsed(u, v, time) == SaysBanned(v.ban) /\ Expired(v.ban, time) /\ ~ SaysBanned(u.ban)

\* How the copy u that a request o is about to store differs from the row's user v.
CopyKeeps(o, u, v, time) ==
  /\ u.role = v.role /\ u.sub = v.sub
  /\ u.status = IF o = "DeleteUser" THEN "DELETED" ELSE v.status
  /\ o \in {"Authenticate", "DeleteUser", "ChangePassword"} =>
       u.email = v.email /\ u.name = v.name
  /\ o \in {"Authenticate", "DeleteUser"} => u.password = v.password
  /\ u.ban = v.ban \/ (o = "Authenticate" /\ Lapsed(u, v, time))

\* The account of a row, and its parts.
LEMMA AccountOfRow ==
  ASSUME NEW row \in Row
  PROVE  AccountOf(row) \in Account /\ AccountOf(row) # NULL
<1>1. AccountOf(row) \in Account
  BY DEF AccountOf, Account, Row, User
<1> QED BY <1>1, AccountAssumption

LEMMA MappedRow ==
  ASSUME TypeOK, NEW id \in UserIds, users[id] # NULL
  PROVE  Mapped[id] = AccountOf(users[id]) /\ Mapped[id] # NULL
<1>1. users[id] \in Row
  BY DEF TypeOK
<1> QED BY <1>1, AccountOfRow DEF Mapped

\* One row is written.
LEMMA RowMapped ==
  ASSUME TypeOK, NEW id \in UserIds, NEW row \in Row, users' = [users EXCEPT ![id] = row]
  PROVE  /\ Mapped'[id] = AccountOf(row) /\ Mapped'[id] # NULL
         /\ \A other \in UserIds \ {id} : Mapped'[other] = Mapped[other]
<1>1. \A i \in UserIds : users'[i] = IF i = id THEN row ELSE users[i]
  BY DEF TypeOK
<1>2. row # NULL
  BY StoreAssumption
<1>3. Mapped'[id] = AccountOf(row)
  BY <1>1, <1>2 DEF Mapped
<1>4. \A other \in UserIds \ {id} : Mapped'[other] = Mapped[other]
  BY <1>1 DEF Mapped
<1> QED BY <1>3, <1>4, AccountOfRow

\* The ban an account shows.
BanOf(u) == IF SaysBanned(u.ban) THEN u.ban ELSE NULL

LEMMA AspectsOf ==
  ASSUME NEW row
  PROVE  /\ AccountOf(row)["open"] = (row.user.status # "DELETED")
         /\ AccountOf(row)["email"] = row.user.email
         /\ AccountOf(row)["name"] = row.user.name
         /\ AccountOf(row)["password"] = row.user.password
         /\ AccountOf(row)["role"] = row.user.role
         /\ AccountOf(row)["ban"] = BanOf(row.user)
         /\ AccountOf(row)["sub"] = row.user.sub
         /\ AccountOf(row).open = (row.user.status # "DELETED")
         /\ AccountOf(row).role = row.user.role
         /\ AccountOf(row).ban = BanOf(row.user)
         /\ AccountOf(row).sub = row.user.sub
BY DEF AccountOf, BanOf

\* The account a request is about to store.
Copied(p) == AccountOf(FromDomain(user[p]))

\* The draft is this request laid over the profile that was seen.
LaidOver(draft, request, seen) ==
  /\ draft.email = Abstract!Asked(request.email, seen.email)
  /\ draft.name = Abstract!Asked(request.name, seen.name)
  /\ draft.password = request.password

\* The account is this version, its profile edited as the request asks, over what was seen.
EditedAs(request, a, version, seen) ==
  /\ a.email = Abstract!Asked(request.email, seen.email)
  /\ a.name = Abstract!Asked(request.name, seen.name)
  /\ request.password = Blank => a.password = version.password

Edited(a, version, seen) ==
  \E request \in UpdateRequests : EditedAs(request, a, version, seen)

\* What an UpdateUser holds, from its first read of the row until it writes: what it saw
\* then, what it makes of that, and the account that it will store.
Saw(p, version, seen) ==
  op[p] = "UpdateUser" =>
    /\ pc[p] = "GetMetadata" =>
         /\ aux[p] \in UpdateRequests
         /\ user[p].email = seen.email /\ user[p].name = seen.name
    /\ pc[p] = "FindByID" => \E request \in UpdateRequests : LaidOver(aux[p], request, seen)
    /\ pc[p] = "Update" => Edited(Copied(p), version, seen)

\* What p saw is what the account still is.
Sees(p) == Saw(p, Mapped[user[p].id], Mapped[user[p].id])

\* Between its two reads of the row, p goes on with what it saw at the first; the version it
\* edits is the one that the second finds.
GoesOnSeeing(p) ==
  /\ Between(p) /\ users' = users /\ user'[p].id = user[p].id
  /\ \A version, found, seen :
       found = Mapped[user[p].id] /\ Saw(p, version, seen) => Saw(p, found, seen)'

\* What a request read still holds of the row and of the document it is about to write.
Fresh(p) ==
  LET id == user[p].id IN
  /\ pc[p] \in {"Update", "Ban", "Unban", "UpdateSubscription"} => Visible(users, id)
  /\ pc[p] = "Update" => CopyKeeps(op[p], user[p], users[id].user, now)
  /\ pc[p] = "Unban" => SaysBanned(users[id].user.ban)
  /\ pc[p] = "UpdateSubscription" => aux[p] = Brief(users[id].subscription)
  /\ pc[p] = "SaveMetadata" => metadata[id] = NULL

\* A request that goes to another call, or answers.
LEMMA GoesFresh ==
  ASSUME TypeOK, NEW p \in Procs,
         \/ \E code : Answer(p, code)
         \/ \E c, u, x : c \notin LateWrites /\ Continue(p, c, u, x)
  PROVE  Fresh(p)'
<1>1. pc'[p] \notin LateWrites
  BY Moved DEF LateWrites, RowWrites
<1> QED BY <1>1 DEF Fresh, LateWrites, RowWrites

\* A request that has just found its user.
LEMMA FoundFresh ==
  ASSUME TypeOK, NEW p \in Procs, NEW o, op'[p] = o,
         users' = users, now' = now, NEW id \in UserIds, Visible(users, id),
         NEW c, NEW u, NEW x, Continue(p, c, u, x), u.id = id, c # "SaveMetadata",
         c = "Update" => CopyKeeps(o, u, users[id].user, now),
         c = "Unban" => SaysBanned(users[id].user.ban),
         c = "UpdateSubscription" => x = Brief(users[id].subscription)
  PROVE  Fresh(p)'
<1>1. pc'[p] = c /\ user'[p] = u /\ aux'[p] = x
  BY TypeOKParts, ContinueMoves
<1> QED BY <1>1 DEF Fresh, Visible

LEMMA StrikeKeeps ==
  ASSUME NEW v \in User, NEW time, NEW login
  PROVE  LET u == [StrikeExpired(v, time) EXCEPT !.lastLogin = login] IN
         u.id = v.id /\ CopyKeeps("Authenticate", u, v, time)
<1> DEFINE struck == StrikeExpired(v, time)
           u == [struck EXCEPT !.lastLogin = login]
<1>1. CASE SaysBanned(v.ban) /\ Expired(v.ban, time)
  <2> DEFINE none == [isBanned |-> FALSE, until |-> v.ban.until]
  <2>1. struck = [v EXCEPT !.ban = none]
    BY <1>1 DEF StrikeExpired
  <2>2. ~ SaysBanned(none)
    BY DEF SaysBanned
  <2> HIDE DEF none, struck
  <2>3. /\ u.id = v.id /\ u.role = v.role /\ u.sub = v.sub /\ u.status = v.status
        /\ u.email = v.email /\ u.name = v.name /\ u.password = v.password
        /\ u.ban = none
    BY <2>1 DEF User
  <2>4. Lapsed(u, v, time)
    BY <1>1, <2>2, <2>3 DEF Lapsed
  <2> HIDE DEF u
  <2>5. u.id = v.id /\ CopyKeeps("Authenticate", u, v, time)
    BY <2>3, <2>4 DEF CopyKeeps
  <2> QED BY <2>5 DEF u, struck
<1>2. CASE ~ (SaysBanned(v.ban) /\ Expired(v.ban, time))
  <2>1. struck = v
    BY <1>2 DEF StrikeExpired
  <2> HIDE DEF struck
  <2>2. /\ u.id = v.id /\ u.role = v.role /\ u.sub = v.sub /\ u.status = v.status
        /\ u.email = v.email /\ u.name = v.name /\ u.password = v.password
        /\ u.ban = v.ban
    BY <2>1 DEF User
  <2> HIDE DEF u
  <2>3. u.id = v.id /\ CopyKeeps("Authenticate", u, v, time)
    BY <2>2 DEF CopyKeeps
  <2> QED BY <2>3 DEF u, struck
<1> QED BY <1>1, <1>2

LEMMA AuthenticateFresh ==
  ASSUME TypeOK, NEW p \in Procs, Authenticate(p)
  PROVE  Fresh(p)'
<1>1. op'[p] = "Authenticate" /\ users' = users /\ now' = now
  BY DEF Authenticate, Start, Quiet, stores, TypeOK
<1>2. CASE \E code : Answer(p, code)
  BY <1>2, GoesFresh
<1>3. ASSUME NEW id \in UserIds, Visible(users, id),
             Continue(p, "Update",
               [StrikeExpired(users[id].user, now) EXCEPT !.lastLogin = now],
               [id |-> id, exp |-> now + TokenTTL])
      PROVE  Fresh(p)'
  <2> DEFINE v == users[id].user
             u == [StrikeExpired(v, now) EXCEPT !.lastLogin = now]
             x == [id |-> id, exp |-> now + TokenTTL]
  <2>1. v \in User /\ v.id = id
    BY <1>3, TypeOKParts, VisibleRow
  <2>2. u.id = id /\ CopyKeeps("Authenticate", u, v, now)
    BY <2>1, StrikeKeeps
  <2>3. Continue(p, "Update", u, x)
    BY <1>3
  <2> HIDE DEF u, x
  <2> QED BY <1>1, <1>3, <2>2, <2>3, FoundFresh
<1> QED BY <1>2, <1>3 DEF Authenticate, WithEmail

LEMMA DeleteUserFresh ==
  ASSUME TypeOK, NEW p \in Procs, DeleteUser(p)
  PROVE  Fresh(p)'
<1>1. op'[p] = "DeleteUser" /\ users' = users /\ now' = now
  BY DEF DeleteUser, Start, Quiet, stores, TypeOK
<1>2. CASE \E code : Answer(p, code)
  BY <1>2, GoesFresh
<1>3. ASSUME NEW id \in UserIds, Visible(users, id),
             Continue(p, "Update", [users[id].user EXCEPT !.status = "DELETED"], NULL)
      PROVE  Fresh(p)'
  <2> DEFINE v == users[id].user
             u == [v EXCEPT !.status = "DELETED"]
  <2>1. v \in User /\ v.id = id
    BY <1>3, TypeOKParts, VisibleRow
  <2>2. /\ u.id = id /\ u.role = v.role /\ u.sub = v.sub /\ u.status = "DELETED"
        /\ u.email = v.email /\ u.name = v.name /\ u.password = v.password
        /\ u.ban = v.ban
    BY <2>1 DEF User
  <2>3. Continue(p, "Update", u, NULL)
    BY <1>3
  <2> HIDE DEF u
  <2>4. CopyKeeps("DeleteUser", u, v, now)
    BY <2>2 DEF CopyKeeps
  <2> QED BY <1>1, <1>3, <2>2, <2>3, <2>4, FoundFresh
<1> QED BY <1>2, <1>3 DEF DeleteUser, NotFound

LEMMA ChangePasswordFresh ==
  ASSUME TypeOK, NEW p \in Procs, ChangePassword(p)
  PROVE  Fresh(p)'
<1>1. op'[p] = "ChangePassword" /\ users' = users /\ now' = now
  BY DEF ChangePassword, Start, Quiet, stores, TypeOK
<1>2. CASE \E code : Answer(p, code)
  BY <1>2, GoesFresh
<1>3. ASSUME NEW id \in UserIds, NEW new \in Secrets, Visible(users, id),
             Continue(p, "Update",
               [users[id].user EXCEPT !.password = <<"hash", new>>], NULL)
      PROVE  Fresh(p)'
  <2> DEFINE v == users[id].user
             u == [v EXCEPT !.password = <<"hash", new>>]
  <2>1. v \in User /\ v.id = id
    BY <1>3, TypeOKParts, VisibleRow
  <2>2. /\ u.id = id /\ u.role = v.role /\ u.sub = v.sub /\ u.status = v.status
        /\ u.ban = v.ban /\ u.email = v.email /\ u.name = v.name
    BY <2>1 DEF User
  <2>3. Continue(p, "Update", u, NULL)
    BY <1>3
  <2> HIDE DEF u
  <2>4. CopyKeeps("ChangePassword", u, v, now)
    BY <2>2 DEF CopyKeeps
  <2> QED BY <1>1, <1>3, <2>2, <2>3, <2>4, FoundFresh
<1> QED BY <1>2, <1>3 DEF ChangePassword, NotFound

LEMMA BanUserFresh ==
  ASSUME TypeOK, NEW p \in Procs, BanUser(p)
  PROVE  Fresh(p)'
<1>1. op'[p] = "BanUser" /\ users' = users /\ now' = now
  BY DEF BanUser, Start, Quiet, stores, TypeOK
<1>2. CASE \E code : Answer(p, code)
  BY <1>2, GoesFresh
<1>3. ASSUME NEW id \in UserIds, Visible(users, id), NEW ban, NEW status,
             Continue(p, "Ban", [users[id].user EXCEPT !.ban = ban, !.status = status], NULL)
      PROVE  Fresh(p)'
  <2> DEFINE u == [users[id].user EXCEPT !.ban = ban, !.status = status]
  <2>1. users[id].user \in User /\ users[id].user.id = id
    BY <1>3, TypeOKParts, VisibleRow
  <2>2. u.id = id /\ Continue(p, "Ban", u, NULL)
    BY <1>3, <2>1 DEF User
  <2> HIDE DEF u
  <2> QED BY <1>1, <1>3, <2>2, FoundFresh
<1> QED BY <1>2, <1>3 DEF BanUser, NotFound

LEMMA UnbanUserFresh ==
  ASSUME TypeOK, NEW p \in Procs, UnbanUser(p)
  PROVE  Fresh(p)'
<1>1. op'[p] = "UnbanUser" /\ users' = users /\ now' = now
  BY DEF UnbanUser, Start, Quiet, stores, TypeOK
<1>2. CASE \E code : Answer(p, code)
  BY <1>2, GoesFresh
<1>3. ASSUME NEW id \in UserIds, Visible(users, id), SaysBanned(users[id].user.ban),
             NEW ban, NEW status,
             Continue(p, "Unban", [users[id].user EXCEPT !.ban = ban, !.status = status], NULL)
      PROVE  Fresh(p)'
  <2> DEFINE u == [users[id].user EXCEPT !.ban = ban, !.status = status]
  <2>1. users[id].user \in User /\ users[id].user.id = id
    BY <1>3, TypeOKParts, VisibleRow
  <2>2. u.id = id /\ Continue(p, "Unban", u, NULL)
    BY <1>3, <2>1 DEF User
  <2> HIDE DEF u
  <2> QED BY <1>1, <1>3, <2>2, FoundFresh
<1> QED BY <1>2, <1>3 DEF UnbanUser, NotFound

\* The old values of a subscription are those of the columns: they agree with the JSON.
LEMMA SubscriptionFresh ==
  ASSUME IInv, NEW p \in Procs, UpdateSubscription(p) \/ CancelSubscription(p)
  PROVE  Fresh(p)'
<1>1. \E o : op'[p] = o
  OBVIOUS
<1>2. users' = users /\ now' = now /\ TypeOK
  BY DEF UpdateSubscription, CancelSubscription, Quiet, stores, IInv
<1>3. CASE \E code : Answer(p, code)
  BY <1>2, <1>3, GoesFresh
<1>4. ASSUME NEW id \in UserIds, Visible(users, id), NEW sub,
             Continue(p, "UpdateSubscription", [users[id].user EXCEPT !.sub = sub],
                      Remember(users[id].user))
      PROVE  Fresh(p)'
  <2> DEFINE u == [users[id].user EXCEPT !.sub = sub]
             x == Remember(users[id].user)
  <2>1. /\ users[id].user \in User /\ users[id].user.id = id /\ id \in Rows
    BY <1>2, <1>4, TypeOKParts, VisibleRow DEF Rows
  <2>2. x = Brief(users[id].subscription)
    BY <2>1 DEF IInv, FilterColumnsAgree, ColumnsAgree, Remember
  <2>3. u.id = id /\ Continue(p, "UpdateSubscription", u, x)
    BY <1>4, <2>1 DEF User
  <2> HIDE DEF u, x
  <2> QED BY <1>1, <1>2, <1>4, <2>2, <2>3, FoundFresh
<1> QED BY <1>3, <1>4 DEF UpdateSubscription, CancelSubscription, NotFound

LEMMA FirstFresh ==
  ASSUME IInv, NEW p \in Procs, First(p)
  PROVE  Fresh(p)'
<1>1. TypeOK
  BY DEF IInv
<1>2. CASE Register(p) \/ GetUserById(p) \/ GetUserByEmail(p) \/ ValidateToken(p)
           \/ UpdateUser(p)
  <2>1. \/ \E code : Answer(p, code)
        \/ \E c, u, x : c \in {"Create", "GetMetadata"} /\ Continue(p, c, u, x)
    BY <1>2 DEF Register, GetUserById, GetUserByEmail, ValidateToken, UpdateUser, GetUser,
                NotFound
  <2> QED BY <1>1, <2>1, GoesFresh DEF LateWrites, RowWrites
<1> QED BY <1>1, <1>2, AuthenticateFresh, DeleteUserFresh, ChangePasswordFresh, BanUserFresh,
           UnbanUserFresh, SubscriptionFresh DEF First

LEMMA FindByIDFresh ==
  ASSUME TypeOK, NEW p \in Procs, FindByID(p)
  PROVE  Fresh(p)'
<1> DEFINE id == user[p].id
           v == users[id].user
           u == TakeAllowed(v, aux[p])
<1>1. pc[p] = "FindByID" /\ op' = op /\ users' = users /\ now' = now
  BY DEF FindByID, Calling, stores
<1>2. op[p] = "UpdateUser" /\ aux[p] \in FullDraft /\ id \in UserIds
  BY <1>1, CallingHolds, Callers DEF Holds
<1>3. CASE \E code : Answer(p, code)
  BY <1>3, GoesFresh
<1>4. CASE Visible(users, id) /\ Continue(p, "Update", u, aux[p])
  <2>1. v \in User /\ v.id = id
    BY <1>2, <1>4, TypeOKParts, VisibleRow
  <2>2. /\ u.id = id /\ u.role = v.role /\ u.sub = v.sub /\ u.status = v.status
        /\ u.ban = v.ban
    BY <1>2, <2>1, TakeAllowedUser
  <2> HIDE DEF u
  <2>3. CopyKeeps("UpdateUser", u, v, now)
    BY <2>2 DEF CopyKeeps
  <2>4. op'[p] = "UpdateUser"
    BY <1>1, <1>2
  <2> HIDE DEF id
  <2> QED BY <1>1, <1>2, <1>4, <2>2, <2>3, <2>4, FoundFresh
<1> QED BY <1>3, <1>4 DEF FindByID

\* There is no document where one is about to be stored.
LEMMA ReadMetadataFresh ==
  ASSUME TypeOK, NEW p \in Procs, ReadMetadata(p)
  PROVE  Fresh(p)'
<1>1. CASE /\ metadata[user[p].id] = NULL
           /\ Continue(p, "SaveMetadata", user[p], aux[p])
  <2>1. pc'[p] = "SaveMetadata" /\ user'[p] = user[p] /\ metadata' = metadata
    BY <1>1, Moved DEF ReadMetadata, stores
  <2> QED BY <1>1, <2>1 DEF Fresh
<1>2. CASE Continue(p, "LogActivity", user[p], NULL)
  BY <1>2, GoesFresh DEF LateWrites, RowWrites
<1> QED BY <1>1, <1>2 DEF ReadMetadata

LEMMA StepFresh ==
  ASSUME TypeOK, NEW p \in Procs, Step(p)
  PROVE  Fresh(p)'
<1>1. CASE \/ Create(p) \/ Update(p) \/ Ban(p) \/ Unban(p) \/ WriteSubscription(p)
           \/ GetMetadata(p) \/ SaveMetadata(p) \/ LogBanChange(p)
           \/ LogSubscriptionChange(p) \/ LogActivity(p)
  <2>1. \/ \E code : Answer(p, code)
        \/ \E c, u, x : c \notin LateWrites /\ Continue(p, c, u, x)
    BY <1>1 DEF Create, Update, Ban, Unban, WriteSubscription, GetMetadata, SaveMetadata,
                LogBanChange, LogSubscriptionChange, LogActivity, UpdateFailed, AfterUpdate,
                AfterGetUser, Finish, LateWrites, RowWrites
  <2> QED BY <2>1, GoesFresh
<1> QED BY <1>1, FindByIDFresh, ReadMetadataFresh DEF Step

LEMMA FaultFresh ==
  ASSUME TypeOK, NEW p \in Procs, FirstFails(p) \/ PostgresFails(p) \/ MongoFails(p)
  PROVE  Fresh(p)'
<1>1. \/ \E code : Answer(p, code)
      \/ \E c, u, x : c \notin LateWrites /\ Continue(p, c, u, x)
  BY DEF FirstFails, PostgresFails, MongoFails, UpdateFailed, AfterGetUser, Finish,
         LateWrites, RowWrites
<1> QED BY <1>1, GoesFresh

\* Time passes: a ban that ran out stays so.
LEMMA TickFresh ==
  ASSUME TypeOK, Tick, NEW p \in Procs, Fresh(p)
  PROVE  Fresh(p)'
<1>1. /\ UNCHANGED <<users, metadata, pc, op, user, aux>>
      /\ now \in Times /\ now' = now + 1
  BY DEF Tick, stores, local, TypeOK
<1>2. ASSUME pc[p] = "Update"
      PROVE  CopyKeeps(op[p], user[p], users[user[p].id].user, now + 1)
  <2> DEFINE v == users[user[p].id].user
  <2>1. v \in User
    BY <1>2, CallingHolds DEF Row
  <2>2. Expired(v.ban, now) /\ SaysBanned(v.ban) => Expired(v.ban, now + 1)
    BY <1>1, <2>1, StoreAssumption DEF Expired, SaysBanned, User, BanInfo, Times
  <2>3. CopyKeeps(op[p], user[p], v, now)
    BY <1>2 DEF Fresh
  <2> HIDE DEF v
  <2>4. CopyKeeps(op[p], user[p], v, now + 1)
    BY <2>2, <2>3 DEF CopyKeeps, Lapsed
  <2> QED BY <2>4 DEF v
<1> QED BY <1>1, <1>2 DEF Fresh, Visible

(***************************************************************************)
(* What an UpdateUser saw.                                                 *)
(***************************************************************************)

\* A request that is not between the first read of an UpdateUser and its write.
LEMMA GoesSees ==
  ASSUME TypeOK, NEW p \in Procs,
         \/ \E code : Answer(p, code)
         \/ \E c, u, x : c \notin {"GetMetadata", "FindByID", "Update"} /\ Continue(p, c, u, x)
  PROVE  Sees(p)'
<1>1. pc'[p] \notin {"GetMetadata", "FindByID", "Update"}
  BY Moved
<1> QED BY <1>1 DEF Sees, Saw

LEMMA UpdateUserSees ==
  ASSUME TypeOK, NEW p \in Procs, UpdateUser(p)
  PROVE  Sees(p)'
<1>1. PICK id \in UserIds, request \in UpdateRequests : GetUser(p, "UpdateUser", id, request)
  BY DEF UpdateUser
<1>2. users' = users
  BY <1>1 DEF GetUser, Quiet, stores
<1>3. CASE \E code : Answer(p, code)
  BY <1>3, GoesSees
<1>4. CASE /\ Visible(users, id)
           /\ Continue(p, "GetMetadata", StrikeExpired(users[id].user, now), request)
  <2> DEFINE v == users[id].user
             u == StrikeExpired(v, now)
  <2>1. v \in User /\ v.id = id /\ users[id] # NULL
    BY <1>4, TypeOKParts, VisibleRow
  <2>2. u.id = id /\ u.email = v.email /\ u.name = v.name
    BY <2>1 DEF StrikeExpired, User
  <2>3. pc'[p] = "GetMetadata" /\ user'[p] = u /\ aux'[p] = request
    BY <1>4, TypeOKParts, ContinueMoves
  <2>4. Mapped'[id] = AccountOf(users[id])
    BY <1>2, <2>1 DEF Mapped
  <2>5. AccountOf(users[id]).email = v.email /\ AccountOf(users[id]).name = v.name
    BY DEF AccountOf
  <2> HIDE DEF u, v
  <2> QED BY <2>2, <2>3, <2>4, <2>5 DEF Sees, Saw
<1> QED BY <1>1, <1>3, <1>4 DEF GetUser, NotFound

LEMMA AfterGetUserSees ==
  ASSUME TypeOK, NEW p \in Procs, pc[p] = "GetMetadata", op' = op, users' = users,
         AfterGetUser(p)
  PROVE  Sees(p)' \/ GoesOnSeeing(p)
<1>1. CASE Answer(p, "OK")
  BY <1>1, GoesSees
<1>2. CASE /\ op[p] = "UpdateUser"
           /\ Continue(p, "FindByID", user[p], UpdateFromProto(user[p], aux[p]))
  <2> DEFINE draft == UpdateFromProto(user[p], aux[p])
  <2>1. pc'[p] = "FindByID" /\ user'[p] = user[p] /\ aux'[p] = draft /\ op'[p] = op[p]
    BY <1>2, TypeOKParts, ContinueMoves
  <2>2. ASSUME NEW version, NEW found, NEW seen, Saw(p, version, seen)
        PROVE  Saw(p, found, seen)'
    <3>1. aux[p] \in UpdateRequests /\ user[p].email = seen.email /\ user[p].name = seen.name
      BY <1>2, <2>2 DEF Saw
    <3>2. LaidOver(draft, aux[p], seen)
      BY <3>1 DEF LaidOver, UpdateFromProto, Abstract!Asked
    <3> HIDE DEF draft
    <3>3. \E request \in UpdateRequests : LaidOver(aux'[p], request, seen)
      BY <2>1, <3>1, <3>2
    <3> QED BY <2>1, <3>3 DEF Saw
  <2> QED BY <1>2, <2>1, <2>2 DEF GoesOnSeeing, Between
<1> QED BY <1>1, <1>2 DEF AfterGetUser

LEMMA FindByIDSees ==
  ASSUME TypeOK, NEW p \in Procs, FindByID(p)
  PROVE  Sees(p)' \/ GoesOnSeeing(p)
<1> DEFINE id == user[p].id
           v == users[id].user
           draft == aux[p]
           u == TakeAllowed(v, draft)
<1>1. pc[p] = "FindByID" /\ op' = op /\ users' = users
  BY DEF FindByID, Calling, stores
<1>2. op[p] = "UpdateUser" /\ draft \in FullDraft /\ id \in UserIds
  BY <1>1, CallingHolds, Callers DEF Holds
<1>3. CASE \E code : Answer(p, code)
  BY <1>3, GoesSees
<1>4. CASE Visible(users, id) /\ Continue(p, "Update", u, draft)
  <2>1. v \in User /\ v.id = id /\ users[id] # NULL
    BY <1>2, <1>4, TypeOKParts, VisibleRow
  <2>2. /\ u.id = id /\ u.email = draft.email /\ u.name = draft.name
        /\ draft.password = Blank => u.password = v.password
    BY <2>1 DEF TakeAllowed, User
  <2>3. pc'[p] = "Update" /\ user'[p] = u /\ op'[p] = op[p]
    BY <1>1, <1>4, TypeOKParts, ContinueMoves
  <2>4. FromDomain(u).user = u
    BY <1>2, <2>1, TakeAllowedUser, FromDomainRow
  <2>5. /\ Copied(p)'.email = u.email /\ Copied(p)'.name = u.name
        /\ Copied(p)'.password = u.password
    BY <2>3, <2>4 DEF Copied, AccountOf
  <2>6. Mapped[id].password = v.password
    <3>1. Mapped[id] = AccountOf(users[id])
      BY <1>2, <2>1, MappedRow
    <3> QED BY <3>1, AspectsOf
  <2> HIDE DEF u, v
  <2>7. ASSUME NEW version, NEW found, NEW seen, found = Mapped[id], Saw(p, version, seen)
        PROVE  Saw(p, found, seen)'
    <3>1. PICK request \in UpdateRequests : LaidOver(draft, request, seen)
      BY <1>1, <1>2, <2>7 DEF Saw
    <3>2. EditedAs(request, Copied(p)', found, seen)
      BY <2>2, <2>5, <2>6, <2>7, <3>1 DEF EditedAs, LaidOver
    <3>3. Edited(Copied(p)', found, seen)
      BY <3>2 DEF Edited
    <3> QED BY <2>3, <3>3 DEF Saw
  <2> QED BY <1>1, <1>2, <2>2, <2>3, <2>7 DEF GoesOnSeeing, Between
<1> QED BY <1>3, <1>4 DEF FindByID

LEMMA MovesSees ==
  ASSUME TypeOK, NEW p \in Procs,
         First(p) \/ Step(p) \/ FirstFails(p) \/ PostgresFails(p) \/ MongoFails(p)
  PROVE  Sees(p)' \/ GoesOnSeeing(p)
<1>1. CASE \/ Register(p) \/ GetUserByEmail(p) \/ FirstFails(p) \/ PostgresFails(p)
           \/ Create(p) \/ Update(p) \/ Ban(p) \/ Unban(p) \/ WriteSubscription(p)
           \/ ReadMetadata(p) \/ SaveMetadata(p) \/ LogBanChange(p)
           \/ LogSubscriptionChange(p) \/ LogActivity(p) \/ BanUser(p) \/ UnbanUser(p)
           \/ UpdateSubscription(p) \/ CancelSubscription(p)
  <2>1. \/ \E code : Answer(p, code)
        \/ \E c, u, x : c \notin {"GetMetadata", "FindByID", "Update"} /\ Continue(p, c, u, x)
    BY <1>1 DEF Register, GetUserByEmail, FirstFails, PostgresFails, Create, Update, Ban, Unban,
       WriteSubscription, ReadMetadata, SaveMetadata, LogBanChange, LogSubscriptionChange,
       LogActivity, BanUser, UnbanUser, UpdateSubscription, CancelSubscription, NotFound,
       UpdateFailed, AfterUpdate, Finish
  <2> QED BY <2>1, GoesSees
<1>2. CASE GetUserById(p) \/ ValidateToken(p) \/ Authenticate(p) \/ DeleteUser(p)
           \/ ChangePassword(p)
  <2>1. op'[p] # "UpdateUser"
    BY <1>2 DEF GetUserById, ValidateToken, GetUser, Authenticate, DeleteUser, ChangePassword,
       Start, TypeOK
  <2> QED BY <2>1 DEF Sees, Saw
<1>3. CASE GetMetadata(p) \/ MongoFails(p)
  <2>1. CASE pc[p] = "GetMetadata" /\ AfterGetUser(p)
    <3>1. op' = op /\ users' = users
      BY <1>3 DEF GetMetadata, Calling, MongoFails, stores
    <3> QED BY <2>1, <3>1, AfterGetUserSees
  <2>2. CASE \/ \E code : Answer(p, code)
             \/ \E c, u, x : c \notin {"GetMetadata", "FindByID", "Update"}
                               /\ Continue(p, c, u, x)
    BY <2>2, GoesSees
  <2> QED BY <1>3, <2>1, <2>2 DEF GetMetadata, Calling, MongoFails, Finish
<1> QED BY <1>1, <1>2, <1>3, UpdateUserSees, FindByIDSees DEF First, Step

\* What p saw is what the account is, as long as p waits and nobody writes it.
LEMMA WaitsSees ==
  ASSUME TypeOK, NEW p \in Procs, Sees(p), SameLocals(p),
         Between(p) \/ pc[p] = "Update" => users'[user[p].id] = users[user[p].id]
  PROVE  Sees(p)'
<1>1. CASE op[p] = "UpdateUser" /\ pc[p] \in {"GetMetadata", "FindByID", "Update"}
  <2>1. user[p].id \in UserIds
    BY <1>1, CallingHolds
  <2>2. Mapped'[user[p].id] = Mapped[user[p].id]
    BY <1>1, <2>1 DEF Mapped, Between
  <2>3. Copied(p)' = Copied(p)
    BY DEF Copied, SameLocals
  <2> QED BY <2>2, <2>3 DEF Sees, Saw, SameLocals
<1>2. CASE ~ (op[p] = "UpdateUser" /\ pc[p] \in {"GetMetadata", "FindByID", "Update"})
  BY <1>2 DEF Sees, Saw, SameLocals
<1> QED BY <1>1, <1>2
-----------------------------------------------------------------------------
\* A request whose call returns goes on to another, or answers.
LEMMA StepActs ==
  ASSUME TypeOK, NEW p \in Procs, Step(p)
  PROVE  Acts(p)
<1>1. pc[p] # "idle"
  BY DEF Step, Create, FindByID, Update, Ban, Unban, WriteSubscription, GetMetadata,
     ReadMetadata, SaveMetadata, LogBanChange, LogSubscriptionChange, LogActivity, Calling
<1>2. \/ \E code : Answer(p, code)
      \/ \E c, u, x : c # pc[p] /\ Continue(p, c, u, x)
  BY DEF Step, Create, FindByID, Update, Ban, Unban, WriteSubscription, GetMetadata,
     ReadMetadata, SaveMetadata, LogBanChange, LogSubscriptionChange, LogActivity, Calling,
     UpdateFailed, AfterUpdate, AfterGetUser, Finish
<1> QED BY <1>1, <1>2, Moved DEF Acts

Stay == \A id \in UserIds : metadata[id] # NULL => metadata'[id] = metadata[id]

\* Only SaveMetadata writes documents.
LEMMA OnlySaveMetadata ==
  ASSUME [Next]_vars
  PROVE  metadata' = metadata \/ \E p \in Procs : SaveMetadata(p)
<1>1. ASSUME NEW p \in Procs, First(p) \/ FirstFails(p) \/ PostgresFails(p) \/ MongoFails(p)
      PROVE  metadata' = metadata
  BY <1>1 DEF First, FirstFails, PostgresFails, MongoFails, Register, GetUserById, GetUserByEmail,
     ValidateToken, UpdateUser, GetUser, Authenticate, DeleteUser,
     ChangePassword, BanUser, UnbanUser, UpdateSubscription, CancelSubscription, Quiet, stores
<1>2. ASSUME NEW p \in Procs, Step(p), ~ SaveMetadata(p)
      PROVE  metadata' = metadata
  BY <1>2 DEF Step, Create, FindByID, Update, Ban, Unban, WriteSubscription, GetMetadata,
     ReadMetadata, LogBanChange, LogSubscriptionChange, LogActivity, stores
<1>3. CASE Die \/ Tick \/ UNCHANGED vars
  BY <1>3 DEF Die, Quiet, Tick, vars, stores
<1> QED BY <1>1, <1>2, <1>3 DEF Next, Fault, Crash, HealthCheck, AtRest

\* Metadata are written over only by a request that is not fresh.
LEMMA NextKeepsMetadata ==
  ASSUME TypeOK, [Next]_vars
  PROVE  \/ \E p \in Procs : ~ Fresh(p) /\ pc[p] = "SaveMetadata" /\ Acts(p)
         \/ Stay
<1>1. ASSUME NEW p \in Procs, SaveMetadata(p), Fresh(p)
      PROVE  Stay
  <2>1. /\ metadata' = [metadata EXCEPT ![user[p].id] = aux[p].metadata]
        /\ metadata[user[p].id] = NULL
    BY <1>1 DEF SaveMetadata, Calling, Fresh
  <2> QED BY <2>1 DEF Stay, TypeOK
<1>2. ASSUME NEW p \in Procs, SaveMetadata(p)
      PROVE  pc[p] = "SaveMetadata" /\ Acts(p)
  BY <1>2, StepActs DEF SaveMetadata, Step, Calling
<1>3. CASE metadata' = metadata
  BY <1>3 DEF Stay
<1> QED BY <1>1, <1>2, <1>3, OnlySaveMetadata

(***************************************************************************)
(* What each statement does to the accounts the table stands for: to the   *)
(* account of the row it writes (Wrote), or to a version of it (Restored). *)
(* Both refinements follow from that.                                      *)
(***************************************************************************)
Profile == {"email", "name", "password"}

\* Only the account of id changed: it is this version, except for these aspects.
Restored(id, version, aspects) ==
  /\ Mapped'[id] # NULL
  /\ \A a \in Abstract!Aspects \ aspects : Mapped'[id][a] = version[a]
  /\ \A other \in UserIds \ {id} : Mapped'[other] = Mapped[other]
  /\ now' = now

Wrote(id, aspects) == Mapped[id] # NULL /\ Restored(id, Mapped[id], aspects)

Decided(id, action) == banWrites' = Append(banWrites, [user |-> id, action |-> action])

LEMMA CreateWrites ==
  ASSUME TypeOK, NEW p \in Procs, Create(p)
  PROVE  \/ UNCHANGED <<users, banWrites, now>>
         \/ \E id \in UserIds :
              /\ Mapped[id] = NULL /\ Mapped'[id] # NULL
              /\ Mapped'[id].open /\ Mapped'[id].role = "USER"
              /\ Mapped'[id].ban = NULL /\ Mapped'[id].sub = NULL
              /\ \A other \in UserIds \ {id} : Mapped'[other] = Mapped[other]
              /\ UNCHANGED <<banWrites, now>>
<1>1. pc[p] = "Create" /\ now' = now /\ banWrites' = banWrites
  BY DEF Create, Calling
<1>2. PICK id \in UserIds :
        LET new == [id |-> id, email |-> aux[p].email, name |-> aux[p].name,
                    password |-> Hash(aux[p].password),
                    status |-> "ACTIVE", role |-> "USER",
                    ban |-> NULL, sub |-> NULL, lastLogin |-> NULL] IN
        /\ users[id] = NULL
        /\ UNCHANGED users \/ users' = [users EXCEPT ![id] = FromDomain(new)]
  BY DEF Create
<1> DEFINE new == [id |-> id, email |-> aux[p].email, name |-> aux[p].name,
                   password |-> Hash(aux[p].password),
                   status |-> "ACTIVE", role |-> "USER",
                   ban |-> NULL, sub |-> NULL, lastLogin |-> NULL]
           row == FromDomain(new)
<1>3. CASE users' = [users EXCEPT ![id] = row]
  <2>1. aux[p] \in Draft /\ aux[p].email # NULL /\ aux[p].name # NULL /\ aux[p].password # Blank
    BY <1>1, CallingHolds, ServiceAssumption DEF Holds
  <2>2. Hash(aux[p].password) \in Passwords
    <3>1. aux[p].password \in Passwords
      BY <2>1 DEF Draft
    <3> QED BY <3>1 DEF Hash, Passwords
  <2>3. new \in User
    BY <2>1, <2>2 DEF User, Draft, UserStatuses, UserRoles
  <2>4. new.status = "ACTIVE" /\ new.role = "USER" /\ new.sub = NULL /\ BanOf(new) = NULL
    BY DEF BanOf
  <2> HIDE DEF new
  <2>5. row \in Row /\ row.user = new
    BY <2>3, FromDomainRow
  <2> HIDE DEF row
  <2>6. /\ AccountOf(row).open /\ AccountOf(row).role = "USER"
        /\ AccountOf(row).ban = NULL /\ AccountOf(row).sub = NULL
    BY <2>4, <2>5, AspectsOf
  <2>7. Mapped[id] = NULL
    BY <1>2 DEF Mapped
  <2> QED BY <1>1, <1>3, <2>5, <2>6, <2>7, RowMapped
<1> QED BY <1>1, <1>2, <1>3

\* The account a that the request o is about to store is this version but for the aspects the
\* request is about.
Stems(o, a, version, time) ==
  /\ a.role = version.role /\ a.sub = version.sub
  /\ IF o = "DeleteUser" THEN ~ a.open ELSE a.open = version.open
  /\ o \in {"Authenticate", "DeleteUser", "ChangePassword"} =>
       a.email = version.email /\ a.name = version.name
  /\ o \in {"Authenticate", "DeleteUser"} => a.password = version.password
  /\ \/ a.ban = version.ban
     \/ o = "Authenticate" /\ a.ban = NULL /\ version.ban # NULL /\ Expired(version.ban, time)

\* A copy that is fresh stems from the account as it is.
LEMMA FreshStems ==
  ASSUME TypeOK, NEW p \in Procs, Fresh(p), pc[p] = "Update"
  PROVE  /\ Visible(users, user[p].id)
         /\ Stems(op[p], Copied(p), Mapped[user[p].id], now)
<1> DEFINE id == user[p].id
           u == user[p]
           v == users[id].user
<1>1. /\ id \in UserIds /\ u \in User
      /\ Visible(users, id) /\ CopyKeeps(op[p], u, v, now)
  BY CallingHolds DEF Fresh
<1>2. /\ Mapped[id] = AccountOf(users[id])
      /\ FromDomain(u).user = u
  BY <1>1, MappedRow, FromDomainRow DEF Visible
<1>3. BanOf(u) = BanOf(v) \/
        (op[p] = "Authenticate" /\ BanOf(u) = NULL /\ BanOf(v) # NULL /\ Expired(BanOf(v), now))
  BY <1>1 DEF CopyKeeps, Lapsed, BanOf, SaysBanned
<1>4. v.status # "DELETED"
  BY <1>1 DEF Visible
<1>5. /\ Mapped[id].email = v.email /\ Mapped[id].name = v.name
      /\ Mapped[id].password = v.password /\ Mapped[id].role = v.role
      /\ Mapped[id].sub = v.sub /\ Mapped[id].ban = BanOf(v)
      /\ Mapped[id].open = (v.status # "DELETED")
  BY <1>2, AspectsOf
<1>6. /\ Copied(p).email = u.email /\ Copied(p).name = u.name
      /\ Copied(p).password = u.password /\ Copied(p).role = u.role
      /\ Copied(p).sub = u.sub /\ Copied(p).ban = BanOf(u)
      /\ Copied(p).open = (u.status # "DELETED")
  BY <1>2, AspectsOf DEF Copied
<1> HIDE DEF id, u, v
<1>7. Stems(op[p], Copied(p), Mapped[id], now)
  BY <1>1, <1>3, <1>4, <1>5, <1>6 DEF Stems, CopyKeeps
<1> QED BY <1>1, <1>7 DEF id

\* Update: the version its copy stems from comes back, changed in one aspect, or in the profile
\* as a request asks.
LEMMA UpdateWrites ==
  ASSUME TypeOK, NEW p \in Procs, Update(p),
         NEW version, NEW seen,
         Stems(op[p], Copied(p), version, now), Saw(p, version, seen)
  PROVE  \/ UNCHANGED <<users, banWrites, now>>
         \/ \E id \in UserIds :
              /\ id = user[p].id /\ banWrites' = banWrites
              /\ \/ Restored(id, version, Profile) /\ Edited(Mapped'[id], version, seen)
                 \/ Restored(id, version, {"password"})
                 \/ Restored(id, version, {"open"}) /\ ~ Mapped'[id].open
                 \/ /\ version.ban # NULL /\ Expired(version.ban, now)
                    /\ Restored(id, version, {"ban"}) /\ Mapped'[id].ban = NULL
<1> DEFINE id == user[p].id
           row == FromDomain(user[p])
           a == Copied(p)
<1>1. /\ pc[p] = "Update" /\ now' = now /\ banWrites' = banWrites
      /\ UNCHANGED users \/ users' = [users EXCEPT ![id] = row]
  BY DEF Update, Calling
<1>2. id \in UserIds /\ row \in Row
  BY <1>1, CallingHolds, FromDomainRow
<1> HIDE DEF id, row
<1> SUFFICES ASSUME users' = [users EXCEPT ![id] = row]
             PROVE  \/ Restored(id, version, Profile) /\ Edited(Mapped'[id], version, seen)
                    \/ Restored(id, version, {"password"})
                    \/ Restored(id, version, {"open"}) /\ ~ Mapped'[id].open
                    \/ /\ version.ban # NULL /\ Expired(version.ban, now)
                       /\ Restored(id, version, {"ban"}) /\ Mapped'[id].ban = NULL
  BY <1>1, <1>2 DEF id
<1>3. /\ Mapped'[id] = a /\ Mapped'[id] # NULL
      /\ \A other \in UserIds \ {id} : Mapped'[other] = Mapped[other]
  BY <1>2, RowMapped DEF Copied, row
<1> HIDE DEF a
<1>4. Stems(op[p], a, version, now)
  BY DEF a
<1>5. CASE op[p] = "DeleteUser" /\ a.ban = version.ban
  <2>1. \A x \in Abstract!Aspects \ {"open"} : a[x] = version[x]
    BY <1>4, <1>5 DEF Stems, Abstract!Aspects
  <2>2. ~ a.open
    BY <1>4, <1>5 DEF Stems
  <2> QED BY <1>1, <1>3, <2>1, <2>2 DEF Restored
<1>6. CASE op[p] = "UpdateUser" /\ a.ban = version.ban
  <2>1. \A x \in Abstract!Aspects \ Profile : a[x] = version[x]
    BY <1>4, <1>6 DEF Stems, Abstract!Aspects, Profile
  <2>2. Edited(a, version, seen)
    BY <1>1, <1>6 DEF Saw, a
  <2> QED BY <1>1, <1>3, <2>1, <2>2 DEF Restored
<1>8. CASE op[p] \in {"Authenticate", "ChangePassword"} /\ a.ban = version.ban
  <2>1. \A x \in Abstract!Aspects \ {"password"} : a[x] = version[x]
    BY <1>4, <1>8 DEF Stems, Abstract!Aspects
  <2> QED BY <1>1, <1>3, <2>1 DEF Restored
<1>7. CASE op[p] = "Authenticate" /\ a.ban = NULL
            /\ version.ban # NULL /\ Expired(version.ban, now)
  <2>1. \A x \in Abstract!Aspects \ {"ban"} : a[x] = version[x]
    BY <1>4, <1>7 DEF Stems, Abstract!Aspects
  <2> QED BY <1>1, <1>3, <1>7, <2>1 DEF Restored
<1>9. op[p] \in {"UpdateUser", "DeleteUser", "Authenticate", "ChangePassword"}
  BY <1>1, CallingHolds, Callers DEF Holds
<1> QED BY <1>4, <1>5, <1>6, <1>7, <1>8, <1>9 DEF Stems

\* The statements of single columns keep what else the row has.
LEMMA BanWrites ==
  ASSUME IInv, NEW p \in Procs, Ban(p)
  PROVE  \E id \in UserIds :
           /\ id = user[p].id /\ Wrote(id, {"ban", "open"}) /\ Decided(id, "ban")
           /\ Mapped'[id].open = TRUE /\ Mapped'[id].ban # NULL
           /\ Mapped[id].role \notin AdminRoles
<1> DEFINE id == user[p].id
           old == users[id].user
           row == BanRow(users[id], user[p].ban)
<1>1. /\ pc[p] = "Ban" /\ now' = now /\ TypeOK /\ users' = [users EXCEPT ![id] = row]
      /\ Decided(id, "ban")
  BY DEF Ban, Calling, IInv, Decided
<1>2. /\ user[p] \in User /\ id \in UserIds /\ users[id] \in Row /\ old \in User
      /\ users[id] # NULL
  BY <1>1, CallingRow, StoreAssumption
<1>3. user[p].ban \in BanInfo /\ user[p].ban.isBanned /\ SaysBanned(user[p].ban)
  BY <1>1, <1>2, CallingHolds DEF Holds, User, SaysBanned
<1>4. old.role \notin AdminRoles
  BY <1>1 DEF IInv, BanFits, IsAdmin
<1>5. /\ row \in Row
      /\ row.user = [old EXCEPT !.ban = user[p].ban, !.status = BanStatus(user[p].ban)]
      /\ BanStatus(user[p].ban) \in BannedStatuses
  BY <1>2, <1>3, BanRowRow
<1> HIDE DEF row
<1>6. /\ row.user.role = old.role /\ row.user.password = old.password
      /\ row.user.email = old.email /\ row.user.name = old.name
      /\ row.user.sub = old.sub /\ row.user.status # "DELETED"
      /\ row.user.ban = user[p].ban
  BY <1>2, <1>5 DEF User, BannedStatuses
<1>7. /\ Mapped[id] = AccountOf(users[id]) /\ Mapped[id] # NULL
      /\ Mapped'[id] = AccountOf(row) /\ Mapped'[id] # NULL
      /\ \A other \in UserIds \ {id} : Mapped'[other] = Mapped[other]
  BY <1>1, <1>2, <1>5, MappedRow, RowMapped
<1>8. \A a \in Abstract!Aspects \ {"ban", "open"} : AccountOf(row)[a] = AccountOf(users[id])[a]
  BY <1>6, AspectsOf DEF Abstract!Aspects
<1>9. /\ AccountOf(row).open = TRUE /\ AccountOf(row).ban # NULL
      /\ AccountOf(users[id]).role \notin AdminRoles
  BY <1>3, <1>4, <1>6, AspectsOf DEF BanOf, SaysBanned
<1> QED BY <1>1, <1>2, <1>7, <1>8, <1>9 DEF Wrote, Restored

LEMMA UnbanWrites ==
  ASSUME IInv, NEW p \in Procs, Unban(p)
  PROVE  \E id \in UserIds :
           /\ id = user[p].id /\ Wrote(id, {"ban", "open"}) /\ Decided(id, "unban")
           /\ Mapped'[id].open = TRUE /\ Mapped'[id].ban = NULL
<1> DEFINE id == user[p].id
           old == users[id].user
           row == UnbanRow(users[id])
<1>1. /\ pc[p] = "Unban" /\ now' = now /\ TypeOK /\ users' = [users EXCEPT ![id] = row]
      /\ Decided(id, "unban")
  BY DEF Unban, Calling, IInv, Decided
<1>2. id \in UserIds /\ users[id] \in Row /\ old \in User /\ users[id] # NULL
  BY <1>1, CallingRow, StoreAssumption
<1>3. row \in Row /\ row.user = [old EXCEPT !.ban = NULL, !.status = "ACTIVE"]
  BY <1>2, UnbanRowRow
<1> HIDE DEF row
<1>4. /\ row.user.role = old.role /\ row.user.password = old.password
      /\ row.user.email = old.email /\ row.user.name = old.name
      /\ row.user.sub = old.sub /\ row.user.status # "DELETED"
      /\ BanOf(row.user) = NULL
  BY <1>2, <1>3 DEF User, BanOf
<1>5. /\ Mapped[id] = AccountOf(users[id]) /\ Mapped[id] # NULL
      /\ Mapped'[id] = AccountOf(row) /\ Mapped'[id] # NULL
      /\ \A other \in UserIds \ {id} : Mapped'[other] = Mapped[other]
  BY <1>1, <1>2, <1>3, MappedRow, RowMapped
<1>6. \A a \in Abstract!Aspects \ {"ban", "open"} : AccountOf(row)[a] = AccountOf(users[id])[a]
  BY <1>4, AspectsOf DEF Abstract!Aspects
<1>7. AccountOf(row).open = TRUE /\ AccountOf(row).ban = NULL
  BY <1>4, AspectsOf
<1> QED BY <1>1, <1>2, <1>5, <1>6, <1>7 DEF Wrote, Restored

LEMMA SubscriptionWrites ==
  ASSUME IInv, NEW p \in Procs, WriteSubscription(p)
  PROVE  \E id \in UserIds :
           /\ id = user[p].id /\ Wrote(id, {"sub"}) /\ banWrites' = banWrites
           /\ Mapped'[id].sub # NULL
<1> DEFINE id == user[p].id
           old == users[id].user
           row == SubscriptionRow(users[id], user[p].sub)
<1>1. /\ pc[p] = "UpdateSubscription" /\ now' = now /\ banWrites' = banWrites /\ TypeOK
      /\ users' = [users EXCEPT ![id] = row]
  BY DEF WriteSubscription, Calling, IInv
<1>2. /\ user[p] \in User /\ id \in UserIds /\ users[id] \in Row /\ old \in User
      /\ users[id] # NULL
  BY <1>1, CallingRow, StoreAssumption
<1>3. user[p].sub \in SubscriptionInfo \union {NULL} /\ user[p].sub # NULL
  BY <1>1, <1>2, CallingHolds DEF Holds, User
<1>4. row \in Row /\ row.user = [old EXCEPT !.sub = user[p].sub]
  BY <1>2, <1>3, SubscriptionRowRow
<1> HIDE DEF row
<1>5. /\ row.user.role = old.role /\ row.user.password = old.password
      /\ row.user.email = old.email /\ row.user.name = old.name
      /\ row.user.status = old.status /\ BanOf(row.user) = BanOf(old)
      /\ row.user.sub = user[p].sub
  BY <1>2, <1>4 DEF User, BanOf
<1>6. /\ Mapped[id] = AccountOf(users[id]) /\ Mapped[id] # NULL
      /\ Mapped'[id] = AccountOf(row) /\ Mapped'[id] # NULL
      /\ \A other \in UserIds \ {id} : Mapped'[other] = Mapped[other]
  BY <1>1, <1>2, <1>4, MappedRow, RowMapped
<1>7. \A a \in Abstract!Aspects \ {"sub"} : AccountOf(row)[a] = AccountOf(users[id])[a]
  <2>1. /\ row.user.role = old.role /\ row.user.email = old.email
        /\ row.user.name = old.name /\ row.user.password = old.password
        /\ row.user.status = old.status
    BY <1>5
  <2>2. BanOf(row.user) = BanOf(old)
    BY <1>5
  <2> HIDE DEF id
  <2> QED BY <2>1, <2>2, AspectsOf DEF Abstract!Aspects
<1>8. AccountOf(row).sub # NULL
  BY <1>3, <1>5, AspectsOf
<1> QED BY <1>1, <1>2, <1>6, <1>7, <1>8 DEF Wrote, Restored
-----------------------------------------------------------------------------
(***************************************************************************)
(* The refinement of Accounts: every step of a fresh request is a step of  *)
(* Accounts or leaves the accounts, the decisions and the clock alone.     *)
(***************************************************************************)

\* What Accounts can see did not move.
LEMMA Unseen ==
  ASSUME UNCHANGED <<users, banWrites, now>>
  PROVE  UNCHANGED Abstract!vars
BY DEF Abstract!vars

LEMMA VisibleOpen ==
  ASSUME TypeOK, NEW id \in UserIds, Visible(users, id)
  PROVE  Abstract!Open(id) /\ Mapped[id].open = TRUE
<1>1. Mapped[id] = AccountOf(users[id]) /\ Mapped[id] # NULL
  BY MappedRow DEF Visible
<1>2. AccountOf(users[id]).open = TRUE
  BY AspectsOf DEF Visible
<1> QED BY <1>1, <1>2 DEF Abstract!Open, Mapped

\* An account that was open and stays so was edited in these aspects.
LEMMA WroteEdits ==
  ASSUME NEW id \in UserIds, NEW aspects, Abstract!Open(id), Wrote(id, aspects)
  PROVE  /\ Abstract!Edit(id, aspects)
         /\ Mapped'[id].open = Mapped[id].open => Abstract!Edit(id, aspects \ {"open"})
<1>1. ASSUME NEW few, \A a \in Abstract!Aspects \ few : Mapped'[id][a] = Mapped[id][a]
      PROVE  Abstract!Edit(id, few)
  BY <1>1 DEF Wrote, Restored, Abstract!Edit, Mapped
<1>2. \A a \in Abstract!Aspects \ aspects : Mapped'[id][a] = Mapped[id][a]
  BY DEF Wrote, Restored
<1>3. Mapped'[id].open = Mapped[id].open =>
        \A a \in Abstract!Aspects \ (aspects \ {"open"}) : Mapped'[id][a] = Mapped[id][a]
  BY <1>2
<1> QED BY <1>1, <1>2, <1>3

LEMMA CreateRefines ==
  ASSUME TypeOK, NEW p \in Procs, Create(p)
  PROVE  Abstract!Next \/ UNCHANGED <<users, banWrites, now>>
<1>1. ASSUME NEW id \in UserIds,
             Mapped[id] = NULL, Mapped'[id] # NULL,
             Mapped'[id].open, Mapped'[id].role = "USER",
             Mapped'[id].ban = NULL, Mapped'[id].sub = NULL,
             \A other \in UserIds \ {id} : Mapped'[other] = Mapped[other],
             UNCHANGED <<banWrites, now>>
      PROVE  Abstract!Next
  <2>1. Abstract!Create(id)
    BY <1>1 DEF Abstract!Create, Mapped
  <2> QED BY <2>1 DEF Abstract!Next
<1> QED BY <1>1, CreateWrites

LEMMA UpdateRefines ==
  ASSUME TypeOK, NEW p \in Procs, Fresh(p), Sees(p), Update(p)
  PROVE  Abstract!Next \/ UNCHANGED <<users, banWrites, now>>
<1>1. pc[p] = "Update"
  BY DEF Update, Calling
<1>2. Visible(users, user[p].id) /\ Stems(op[p], Copied(p), Mapped[user[p].id], now)
  BY <1>1, FreshStems
<1>3. ASSUME NEW id \in UserIds, id = user[p].id, banWrites' = banWrites,
             \/ Restored(id, Mapped[id], Profile) /\ Edited(Mapped'[id], Mapped[id], Mapped[id])
             \/ Restored(id, Mapped[id], {"password"})
             \/ Restored(id, Mapped[id], {"open"}) /\ ~ Mapped'[id].open
             \/ /\ Mapped[id].ban # NULL /\ Expired(Mapped[id].ban, now)
                /\ Restored(id, Mapped[id], {"ban"}) /\ Mapped'[id].ban = NULL
      PROVE  Abstract!Next
  <2>1. Abstract!Open(id) /\ Mapped[id] # NULL
    BY <1>2, <1>3, VisibleOpen, MappedRow DEF Visible
  <2>2. \A aspects : Restored(id, Mapped[id], aspects) => Abstract!Edit(id, aspects)
    BY <2>1, WroteEdits DEF Wrote
  <2>3. CASE Abstract!Edit(id, Profile) /\ Edited(Mapped'[id], Mapped[id], Mapped[id])
    <3>1. Abstract!EditProfile(id)
      BY <1>3, <2>3 DEF Abstract!EditProfile, Profile, Edited, EditedAs, Mapped
    <3> QED BY <3>1 DEF Abstract!Next
  <2>6. CASE Abstract!Edit(id, {"password"})
    <3>1. Abstract!ChangePassword(id)
      BY <1>3, <2>6 DEF Abstract!ChangePassword
    <3> QED BY <3>1 DEF Abstract!Next
  <2>4. CASE Abstract!Edit(id, {"open"}) /\ ~ Mapped'[id].open
    <3>1. Abstract!Delete(id)
      BY <1>3, <2>4 DEF Abstract!Delete, Mapped
    <3> QED BY <3>1 DEF Abstract!Next
  <2>5. CASE /\ Mapped[id].ban # NULL /\ Expired(Mapped[id].ban, now)
             /\ Abstract!Edit(id, {"ban"}) /\ Mapped'[id].ban = NULL
    <3>1. Abstract!Forget(id)
      BY <1>3, <2>1, <2>5 DEF Abstract!Forget, Abstract!Expired, Expired, Mapped
    <3> QED BY <3>1 DEF Abstract!Next
  <2> QED BY <1>3, <2>2, <2>3, <2>4, <2>5, <2>6
<1>4. PICK version : version = Mapped[user[p].id]
  OBVIOUS
<1>5. Saw(p, version, version)
  BY <1>4 DEF Sees
<1> QED BY <1>2, <1>3, <1>4, <1>5, UpdateWrites

LEMMA BanRefines ==
  ASSUME IInv, NEW p \in Procs, Fresh(p), Ban(p)
  PROVE  Abstract!Next
<1>1. PICK id \in UserIds :
        /\ id = user[p].id /\ Wrote(id, {"ban", "open"}) /\ Decided(id, "ban")
        /\ Mapped'[id].open = TRUE /\ Mapped'[id].ban # NULL
        /\ Mapped[id].role \notin AdminRoles
  BY BanWrites
<1>2. Abstract!Open(id) /\ Mapped[id].open = TRUE
  BY <1>1, VisibleOpen DEF Ban, Calling, Fresh, IInv
<1>3. Abstract!Edit(id, {"ban", "open"} \ {"open"}) /\ {"ban", "open"} \ {"open"} = {"ban"}
  BY <1>1, <1>2, WroteEdits
<1>4. Abstract!Ban(id)
  BY <1>1, <1>2, <1>3 DEF Abstract!Ban, Abstract!Decide, Decided, Mapped
<1> QED BY <1>4 DEF Abstract!Next

LEMMA UnbanRefines ==
  ASSUME IInv, NEW p \in Procs, Fresh(p), Unban(p)
  PROVE  Abstract!Next
<1>1. PICK id \in UserIds :
        /\ id = user[p].id /\ Wrote(id, {"ban", "open"}) /\ Decided(id, "unban")
        /\ Mapped'[id].open = TRUE /\ Mapped'[id].ban = NULL
  BY UnbanWrites
<1>2. Visible(users, id) /\ SaysBanned(users[id].user.ban) /\ TypeOK
  BY <1>1 DEF Unban, Calling, Fresh, IInv
<1>3. Abstract!Open(id) /\ Mapped[id].open = TRUE /\ Mapped[id].ban # NULL
  BY <1>2, VisibleOpen, MappedRow, AspectsOf DEF Visible, BanOf, SaysBanned
<1>4. Abstract!Edit(id, {"ban", "open"} \ {"open"}) /\ {"ban", "open"} \ {"open"} = {"ban"}
  BY <1>1, <1>3, WroteEdits
<1>5. Abstract!Unban(id)
  BY <1>1, <1>3, <1>4 DEF Abstract!Unban, Abstract!Decide, Decided, Mapped
<1> QED BY <1>5 DEF Abstract!Next

LEMMA WriteSubscriptionRefines ==
  ASSUME IInv, NEW p \in Procs, Fresh(p), WriteSubscription(p)
  PROVE  Abstract!Next
<1>1. PICK id \in UserIds :
        /\ id = user[p].id /\ Wrote(id, {"sub"}) /\ banWrites' = banWrites
        /\ Mapped'[id].sub # NULL
  BY SubscriptionWrites
<1>2. Abstract!Open(id)
  BY <1>1, VisibleOpen DEF WriteSubscription, Calling, Fresh, IInv
<1>3. Abstract!Subscribe(id)
  BY <1>1, <1>2, WroteEdits DEF Abstract!Subscribe, Mapped
<1> QED BY <1>3 DEF Abstract!Next


\* Every step takes effect as Accounts says, except a write of a request that is not fresh.
LEMMA NextRefines ==
  ASSUME IInv, [Next]_vars
  PROVE  \/ \E p \in Procs : ~ (Fresh(p) /\ Sees(p)) /\ pc[p] \in RowWrites /\ Acts(p)
         \/ Abstract!Next
         \/ UNCHANGED Abstract!vars
<1>1. TypeOK
  BY DEF IInv
<1>2. ASSUME NEW p \in Procs, First(p) \/ FirstFails(p) \/ PostgresFails(p) \/ MongoFails(p)
      PROVE  UNCHANGED <<users, banWrites, now>>
  BY <1>2 DEF First, FirstFails, PostgresFails, MongoFails, Register, GetUserById,
     GetUserByEmail, ValidateToken, UpdateUser, GetUser, Authenticate, DeleteUser,
     ChangePassword, BanUser, UnbanUser, UpdateSubscription, CancelSubscription, Quiet, stores
<1>3. ASSUME NEW p \in Procs, Step(p), (Fresh(p) /\ Sees(p)) \/ pc[p] \notin RowWrites
      PROVE  Abstract!Next \/ UNCHANGED <<users, banWrites, now>>
  <2>1. CASE \/ FindByID(p) \/ GetMetadata(p) \/ ReadMetadata(p) \/ SaveMetadata(p)
             \/ LogBanChange(p) \/ LogSubscriptionChange(p) \/ LogActivity(p)
    BY <2>1 DEF FindByID, GetMetadata, ReadMetadata, SaveMetadata, LogBanChange,
                LogSubscriptionChange, LogActivity, Calling, stores
  <2>2. Update(p) \/ Ban(p) \/ Unban(p) \/ WriteSubscription(p) => Fresh(p) /\ Sees(p)
    BY <1>3 DEF Update, Ban, Unban, WriteSubscription, Calling, RowWrites
  <2> QED BY <1>1, <1>3, <2>1, <2>2, CreateRefines, UpdateRefines, BanRefines, UnbanRefines,
             WriteSubscriptionRefines DEF Step
<1>4. CASE Die \/ UNCHANGED vars
  <2>1. UNCHANGED <<users, banWrites, now>>
    BY <1>4 DEF Die, Quiet, vars, stores
  <2> QED BY <2>1, Unseen
<1>5. CASE Tick
  <2>1. now' = now + 1 /\ users' = users /\ banWrites' = banWrites
    BY <1>5 DEF Tick, stores
  <2> QED BY <2>1 DEF Abstract!Next, Abstract!Tick
<1> QED BY <1>1, <1>2, <1>3, <1>4, <1>5, Unseen, StepActs DEF Next, Fault, Crash, HealthCheck, AtRest

LEMMA InitRefines ==
  ASSUME Init PROVE Abstract!Init
<1>1. ASSUME NEW id \in UserIds, Mapped[id] # NULL
      PROVE  Mapped[id].open /\ Mapped[id].ban = NULL /\ Mapped[id].sub = NULL
  <2>1. id \in DOMAIN Seed /\ users[id] = SeedRow(id)
    BY <1>1 DEF Init, Mapped
  <2>2. /\ SeedRow(id).user.status = "ACTIVE" /\ SeedRow(id).user.sub = NULL
        /\ BanOf(SeedRow(id).user) = NULL
    BY DEF SeedRow, FromDomain, BanOf
  <2>3. Mapped[id] = AccountOf(SeedRow(id))
    BY <1>1, <2>1 DEF Mapped
  <2> QED BY <2>2, <2>3, AspectsOf
<1> QED BY <1>1 DEF Init, Abstract!Init, Mapped
-----------------------------------------------------------------------------
(***************************************************************************)
(* A service that serves one request at a time: every request is fresh,    *)
(* its histories tell the truth in order, and it implements Accounts.      *)
(***************************************************************************)
Serial == \A p, q \in Procs : p = q

InOrder ==
  faults = 0 =>
    \/ banWrites = banHistory /\ \A p \in Procs : pc[p] # "LogBanChange"
    \/ \E p \in Procs :
         pc[p] = "LogBanChange" /\ banWrites = Append(banHistory, EntryOf(p))

SerialInv == IInv /\ InOrder /\ \A p \in Procs : Fresh(p) /\ Sees(p)

\* A step of a request that neither decides nor logs.
LEMMA PassesInOrder ==
  ASSUME Serial, TypeOK, InOrder, NEW p \in Procs, Passes(p)
  PROVE  InOrder'
<1> SUFFICES ASSUME faults' = 0 PROVE InOrder'
  BY DEF InOrder
<1>1. faults = 0 /\ pc[p] # "LogBanChange"
  BY DEF Passes, TypeOK
<1>2. \A q \in Procs : q = p
  BY DEF Serial
<1>3. banWrites = banHistory
  BY <1>1, <1>2 DEF InOrder
<1> QED BY <1>2, <1>3 DEF Passes, InOrder

LEMMA BanInOrder ==
  ASSUME Serial, TypeOK, InOrder, NEW p \in Procs, Ban(p) \/ Unban(p)
  PROVE  InOrder'
<1> SUFFICES ASSUME faults' = 0 PROVE InOrder'
  BY DEF InOrder
<1>1. /\ pc[p] \in {"Ban", "Unban"} /\ op' = op /\ faults' = faults
      /\ banHistory' = banHistory
      /\ Continue(p, "LogBanChange", user[p], NULL)
  BY DEF Ban, Unban, Calling, bounds
<1>2. pc'[p] = "LogBanChange" /\ user'[p] = user[p]
  BY <1>1, StepMoves
<1>3. /\ pc[p] = "Ban" => op[p] = "BanUser"
      /\ pc[p] = "Unban" => op[p] = "UnbanUser"
  BY <1>1, CallingHolds, Callers DEF Holds
<1>4. EntryOf(p)' = [user |-> user[p].id, action |-> IF pc[p] = "Ban" THEN "ban" ELSE "unban"]
  BY <1>1, <1>2, <1>3 DEF EntryOf, BanAction
<1>5. banWrites' = Append(banWrites, EntryOf(p)')
  BY <1>4 DEF Ban, Unban, Calling
<1>6. banWrites = banHistory
  BY <1>1 DEF InOrder, Serial
<1> QED BY <1>1, <1>2, <1>5, <1>6 DEF InOrder

LEMMA LogBanChangeInOrder ==
  ASSUME Serial, TypeOK, InOrder, NEW p \in Procs, LogBanChange(p)
  PROVE  InOrder'
<1> SUFFICES ASSUME faults' = 0 PROVE InOrder'
  BY DEF InOrder
<1>1. /\ pc[p] = "LogBanChange" /\ faults' = faults /\ banWrites' = banWrites
      /\ Continue(p, "LogActivity", user[p], NULL)
      /\ banHistory' = Append(banHistory, EntryOf(p))
  BY DEF LogBanChange, Calling, bounds, EntryOf
<1>2. \A q \in Procs : q = p
  BY DEF Serial
<1>3. banWrites = Append(banHistory, EntryOf(p))
  BY <1>1, <1>2 DEF InOrder
<1>4. pc'[p] = "LogActivity"
  BY <1>1, Moved
<1> QED BY <1>1, <1>2, <1>3, <1>4 DEF InOrder

LEMMA NextInOrder ==
  ASSUME Serial, TypeOK, InOrder, [Next]_vars
  PROVE  InOrder'
<1>1. ASSUME NEW p \in Procs, Step(p) PROVE InOrder'
  BY <1>1, OtherCallPasses, PassesInOrder, BanInOrder, LogBanChangeInOrder
     DEF Step, OtherCall
<1>2. ASSUME NEW p \in Procs, First(p) \/ FirstFails(p) \/ PostgresFails(p) \/ MongoFails(p)
      PROVE  InOrder'
  BY <1>2, FirstPasses, FailurePasses, PassesInOrder
<1>3. CASE Die
  BY <1>3 DEF Die, TypeOK, InOrder
<1>4. CASE Tick \/ UNCHANGED vars
  BY <1>4 DEF Tick, vars, stores, local, bounds, InOrder, EntryOf
<1> QED BY <1>1, <1>2, <1>3, <1>4 DEF Next, Fault, Crash, HealthCheck, AtRest

\* Going on with what one saw, one sees what is.
LEMMA GoesOn ==
  ASSUME TypeOK, NEW p \in Procs, Sees(p), GoesOnSeeing(p)
  PROVE  Sees(p)'
<1>1. PICK found : found = Mapped[user[p].id]
  OBVIOUS
<1>2. Mapped'[user'[p].id] = found
  BY <1>1 DEF GoesOnSeeing, Mapped
<1>3. Saw(p, found, found)'
  BY <1>1 DEF Sees, GoesOnSeeing
<1> QED BY <1>2, <1>3 DEF Sees

LEMMA NextSerial ==
  ASSUME Serial, SerialInv, [Next]_vars
  PROVE  SerialInv'
<1>1. IInv' /\ InOrder' /\ TypeOK
  BY NextSafe, NextInOrder DEF SerialInv, IInv
<1>2. ASSUME NEW p \in Procs, First(p) \/ Step(p) \/ FirstFails(p) \/ PostgresFails(p)
                                \/ MongoFails(p)
      PROVE  Fresh(p)' /\ Sees(p)'
  BY <1>1, <1>2, FirstFresh, StepFresh, FaultFresh, MovesSees, GoesOn DEF SerialInv
<1>3. ASSUME NEW p \in Procs, Die PROVE Fresh(p)' /\ Sees(p)'
  BY <1>3 DEF Die, Fresh, Sees, Saw
<1>4. ASSUME NEW p \in Procs, Tick PROVE Fresh(p)' /\ Sees(p)'
  <2>1. SameLocals(p) /\ users' = users
    BY <1>4 DEF Tick, local, stores, SameLocals
  <2> QED BY <1>1, <1>4, <2>1, TickFresh, WaitsSees DEF SerialInv
<1>5. ASSUME NEW p \in Procs, UNCHANGED vars PROVE Fresh(p)' /\ Sees(p)'
  <2>1. SameLocals(p) /\ users' = users
    BY <1>5 DEF vars, local, stores, SameLocals
  <2>2. Sees(p)'
    BY <1>1, <2>1, WaitsSees DEF SerialInv
  <2> QED BY <1>5, <2>2 DEF SerialInv, Fresh, Visible, vars, stores, local
<1>6. \A p \in Procs : Fresh(p)' /\ Sees(p)'
  <2>1. ASSUME NEW q \in Procs, First(q) \/ Step(q) \/ FirstFails(q) \/ PostgresFails(q)
                                  \/ MongoFails(q)
        PROVE  \A p \in Procs : Fresh(p)' /\ Sees(p)'
    BY <1>2, <2>1 DEF Serial
  <2> QED BY <1>3, <1>4, <1>5, <2>1 DEF Next, Fault, Crash, HealthCheck, AtRest
<1> QED BY <1>1, <1>6 DEF SerialInv

LEMMA InitSerial ==
  ASSUME Init PROVE SerialInv
<1>1. InOrder /\ \A p \in Procs : Fresh(p) /\ Sees(p)
  BY DEF Init, InOrder, Fresh, Sees, Saw
<1> QED BY <1>1, InitSafe DEF SerialInv

LEMMA Serially ==
  ASSUME Serial PROVE Spec => []SerialInv
<1>1. SerialInv /\ [Next]_vars => SerialInv'
  BY NextSerial
<1> QED BY <1>1, InitSerial, PTL DEF Spec

\* Without faults, a service that serves one request at a time logs the bans and unbans in
\* the order it stored them: at most the last is still missing.
THEOREM UserBanHistoryInOrder ==
  ASSUME Serial PROVE Spec => []BanHistoryInOrder
<1>1. SerialInv => BanHistoryInOrder
  <2> SUFFICES ASSUME SerialInv, faults = 0
               PROVE  banWrites \in {banHistory} \union
                                    {Append(banHistory, entry) : entry \in BanEntry}
    BY DEF BanHistoryInOrder
  <2>1. \A p \in Procs : pc[p] = "LogBanChange" => EntryOf(p) \in BanEntry
    BY OneEntry DEF SerialInv, IInv
  <2> QED BY <2>1 DEF SerialInv, InOrder
<1> QED BY <1>1, Serially, PTL

\* One request at a time, the history of subscriptions tells the level and the status that
\* each change replaced.
THEOREM UserOldSubscriptionTrue ==
  ASSUME Serial PROVE Spec => []OldSubscriptionTrue
<1>1. SerialInv => OldSubscriptionTrue
  BY DEF SerialInv, Fresh, OldSubscriptionTrue
<1> QED BY <1>1, Serially, PTL

\* A service that serves one request at a time does to accounts what Accounts says: each
\* statement takes effect as one operation, on the aspect it is about, whatever fails.
THEOREM UserImplementsAccounts ==
  ASSUME Serial PROVE Spec => ImplementsAccounts
<1>1. SerialInv /\ [Next]_vars => [Abstract!Next]_(Abstract!vars)
  BY NextRefines DEF SerialInv
<1> QED BY <1>1, InitRefines, Serially, PTL DEF Spec, ImplementsAccounts, Abstract!Spec
-----------------------------------------------------------------------------
(***************************************************************************)
(* Any number of requests: a request is fresh until it is stale.           *)
(***************************************************************************)

\* The account a request is about to store stems from a version that was stored, and an
\* UpdateUser has seen one.
Holding(p, version, seen) ==
  /\ Saw(p, version, seen)
  /\ pc[p] = "Update" => Stems(op[p], Copied(p), version, now)

CopyStems(p) ==
  Between(p) \/ pc[p] = "Update" =>
    \E version, seen \in versions[user[p].id] : Holding(p, version, seen)

Recorded ==
  /\ versions \in [UserIds -> SUBSET Account]
  /\ \A id \in UserIds : Mapped[id] # NULL => Mapped[id] \in versions[id]

RaceInv ==
  /\ IInv /\ Recorded
  /\ \A p \in Procs : CopyStems(p) /\ (p \in stale \/ (Fresh(p) /\ Sees(p)))

\* What a request has read holds as long as it waits and nobody writes there.
LEMMA WaitsFresh ==
  ASSUME TypeOK, NEW p \in Procs, Fresh(p), SameLocals(p), now' = now,
         HasRead(p) => Target(p)' = Target(p)
  PROVE  Fresh(p)'
<1>1. CASE pc[p] \in RowWrites
  <2>1. users'[user[p].id] = users[user[p].id]
    BY <1>1 DEF RowWrites, HasRead, Target, SameLocals
  <2> QED BY <1>1, <2>1 DEF Fresh, SameLocals, RowWrites, Visible
<1>2. CASE pc[p] = "SaveMetadata"
  <2>1. metadata'[user[p].id] = metadata[user[p].id]
    BY <1>2 DEF HasRead, Target, SameLocals
  <2> QED BY <1>2, <2>1 DEF Fresh, SameLocals
<1>3. CASE pc[p] \notin LateWrites
  BY <1>3 DEF Fresh, SameLocals, LateWrites, RowWrites
<1> QED BY <1>1, <1>2, <1>3 DEF LateWrites

\* A step is one request's, which has read anew or writes nothing, or it ends all requests,
\* or nothing but the clock moves.
LEMMA NextMoves ==
  ASSUME IInv, [Next]_vars
  PROVE  \/ \E p \in Procs :
              /\ Fresh(p)' /\ now' = now
              /\ Sees(p)' \/ GoesOnSeeing(p)
              /\ \A q \in Procs \ {p} : SameLocals(q)
         \/ \A q \in Procs : pc'[q] = "idle"
         \/ Tick \/ UNCHANGED vars
<1>1. TypeOK
  BY DEF IInv
<1>2. ASSUME NEW p \in Procs, First(p) \/ Step(p) \/ FirstFails(p) \/ PostgresFails(p)
                                \/ MongoFails(p)
      PROVE  /\ Fresh(p)' /\ now' = now
             /\ Sees(p)' \/ GoesOnSeeing(p)
             /\ \A q \in Procs \ {p} : SameLocals(q)
  <2>1. Fresh(p)'
    BY <1>1, <1>2, FirstFresh, StepFresh, FaultFresh
  <2>2. now' = now /\ (op' = op \/ \E o : op' = [op EXCEPT ![p] = o])
    BY <1>2 DEF First, Register, GetUserById, GetUserByEmail, ValidateToken, UpdateUser,
       GetUser, Authenticate, DeleteUser, ChangePassword, BanUser, UnbanUser,
       UpdateSubscription, CancelSubscription, Start, Step, Create, FindByID, Update, Ban,
       Unban, WriteSubscription, GetMetadata, ReadMetadata, SaveMetadata, LogBanChange,
       LogSubscriptionChange, LogActivity, Calling, FirstFails, PostgresFails, MongoFails,
       Quiet
  <2>3. \/ \E code : Answer(p, code)
        \/ \E c, u, x : Continue(p, c, u, x)
    BY <1>2 DEF First, Register, GetUserById, GetUserByEmail, ValidateToken, UpdateUser,
       GetUser, NotFound, Authenticate, DeleteUser, ChangePassword, BanUser, UnbanUser,
       UpdateSubscription, CancelSubscription, Step, Create, FindByID, Update, UpdateFailed,
       AfterUpdate, Ban, Unban, WriteSubscription, GetMetadata, AfterGetUser, ReadMetadata,
       SaveMetadata, LogBanChange, LogSubscriptionChange, LogActivity, Finish, FirstFails,
       PostgresFails, MongoFails
  <2>4. \A q \in Procs \ {p} : op'[q] = op[q]
    BY <1>1, <2>2 DEF TypeOK
  <2>5. \A q \in Procs \ {p} : pc'[q] = pc[q] /\ user'[q] = user[q] /\ aux'[q] = aux[q]
    BY <1>1, <2>3 DEF TypeOK, Answer, Continue
  <2> QED BY <1>1, <1>2, <2>1, <2>2, <2>4, <2>5, MovesSees DEF SameLocals
<1>3. CASE Die
  BY <1>1, <1>3 DEF Die, TypeOK
<1> QED BY <1>2, <1>3 DEF Next, Fault, Crash, HealthCheck, AtRest

\* A request that waits, and one whose Target nobody writes, is as fresh as it was.
LEMMA WaitsRace ==
  ASSUME TypeOK, NEW q \in Procs, ObserveStale, SameLocals(q), now' = now,
         q \in stale \/ (Fresh(q) /\ Sees(q))
  PROVE  q \in stale' \/ (Fresh(q)' /\ Sees(q)')
<1>1. HasRead(q)' = HasRead(q)
  BY DEF HasRead, Between, SameLocals
<1>2. HasRead(q) /\ (q \in stale \/ Target(q)' # Target(q)) => q \in stale'
  BY <1>1 DEF ObserveStale, StillHolds, SameLocals
<1>3. CASE ~ HasRead(q)
  <2>1. pc'[q] \notin LateWrites /\ ~ Between(q)'
    BY <1>1, <1>3 DEF HasRead, LateWrites
  <2> QED BY <2>1 DEF Fresh, Sees, Saw, Between, LateWrites, RowWrites
<1>4. CASE Target(q)' = Target(q) /\ Fresh(q) /\ Sees(q)
  <2>1. Between(q) \/ pc[q] = "Update" => users'[user[q].id] = users[user[q].id]
    BY <1>4 DEF Target, Between, SameLocals
  <2> QED BY <1>4, <2>1, WaitsFresh, WaitsSees
<1> QED BY <1>2, <1>3, <1>4

LEMMA RaceFresh ==
  ASSUME RaceInv, [RaceNext]_raceVars, NEW q \in Procs
  PROVE  q \in stale' \/ (Fresh(q)' /\ Sees(q)')
<1>1. IInv /\ TypeOK /\ (q \in stale \/ (Fresh(q) /\ Sees(q)))
  BY DEF RaceInv, IInv
<1>2. CASE UNCHANGED raceVars
  <2>1. SameLocals(q) /\ now' = now /\ stale' = stale /\ UNCHANGED <<users, metadata>>
    BY <1>2 DEF raceVars, vars, local, stores, SameLocals
  <2>2. HasRead(q) => Target(q)' = Target(q)
    BY <2>1 DEF Target, SameLocals
  <2> QED BY <1>1, <2>1, <2>2, WaitsFresh, WaitsSees
<1>3. CASE RaceNext
  <2>1. [Next]_vars /\ ObserveStale
    BY <1>3 DEF RaceNext
  <2>2. CASE pc'[q] = "idle"
    BY <2>2 DEF Fresh, Sees, Saw
  <2>3. CASE SameLocals(q) /\ now' = now
    BY <1>1, <2>1, <2>3, WaitsRace
  <2>4. CASE Tick
    <3>1. SameLocals(q) /\ UNCHANGED <<users, metadata>>
      BY <2>4 DEF Tick, local, stores, SameLocals
    <3>2. HasRead(q) /\ q \in stale => q \in stale'
      BY <2>1, <3>1 DEF ObserveStale, StillHolds, HasRead, Between, SameLocals
    <3>3. ~ HasRead(q) => Fresh(q)' /\ Sees(q)'
      BY <3>1 DEF Fresh, Sees, Saw, HasRead, Between, RowWrites, SameLocals
    <3>4. Fresh(q) /\ Sees(q) => Fresh(q)' /\ Sees(q)'
      BY <1>1, <2>4, <3>1, TickFresh, WaitsSees
    <3> QED BY <1>1, <3>2, <3>3, <3>4
  <2>5. CASE UNCHANGED vars
    BY <1>1, <2>1, <2>5, WaitsRace DEF vars, local, SameLocals
  <2>6. CASE Fresh(q)' /\ GoesOnSeeing(q)
    <3>1. CASE q \in stale
      <4>1. HasRead(q)' => q \in stale'
        BY <2>1, <2>6, <3>1 DEF ObserveStale, StillHolds, HasRead, GoesOnSeeing
      <4>2. ~ HasRead(q)' => Sees(q)'
        BY DEF Sees, Saw, HasRead, Between, RowWrites
      <4> QED BY <2>6, <4>1, <4>2
    <3>2. CASE Sees(q)
      BY <1>1, <2>6, <3>2, GoesOn
    <3> QED BY <1>1, <3>1, <3>2
  <2> QED BY <1>1, <2>1, <2>2, <2>3, <2>4, <2>5, <2>6, NextMoves
<1> QED BY <1>2, <1>3

LEMMA VersionsGrow ==
  ASSUME Recorded, ObserveVersions, TypeOK'
  PROVE  Recorded' /\ \A id \in UserIds : versions[id] \subseteq versions'[id]
<1>1. \A id \in UserIds :
        versions'[id] = versions[id] \union
                          (IF users'[id] = NULL THEN {} ELSE {AccountOf(users'[id])})
  BY DEF ObserveVersions
<1>2. \A id \in UserIds : Mapped'[id] # NULL => Mapped'[id] = AccountOf(users'[id])
                                                /\ users'[id] # NULL
  BY DEF Mapped
<1>3. \A id \in UserIds : users'[id] # NULL => AccountOf(users'[id]) \in Account
  <2>1. \A id \in UserIds : users'[id] # NULL => users'[id] \in Row
    BY DEF TypeOK
  <2> QED BY <2>1, AccountOfRow
<1>4. versions' \in [UserIds -> SUBSET Account]
  BY <1>1, <1>3 DEF ObserveVersions, Recorded
<1> QED BY <1>1, <1>2, <1>4 DEF Recorded

\* A call that is going to be made on a user is made on one that there is.
LEMMA HeldVersion ==
  ASSUME TypeOK, Recorded, NEW p \in Procs, Between(p) \/ pc[p] = "Update"
  PROVE  Mapped[user[p].id] \in versions[user[p].id]
<1>1. user[p].id \in UserIds /\ users[user[p].id] # NULL
  BY CallingHolds, StoreAssumption DEF Between
<1> QED BY <1>1, MappedRow DEF Recorded

\* The account an Update is about to store stems from the one there is, if what it read is
\* fresh.
LEMMA FreshUpdatesStem ==
  TypeOK => \A q \in Procs : Fresh(q) /\ pc[q] = "Update" =>
              Stems(op[q], Copied(q), Mapped[user[q].id], now)
BY FreshStems

\* What is fresh stems from the account as it is.
LEMMA FreshCopyStems ==
  TypeOK /\ Recorded => \A p \in Procs : Fresh(p) /\ Sees(p) => CopyStems(p)
<1> SUFFICES ASSUME TypeOK, Recorded, NEW p \in Procs, Fresh(p), Sees(p),
                    Between(p) \/ pc[p] = "Update"
             PROVE  CopyStems(p)
  BY DEF CopyStems
<1>1. pc[p] = "Update" => Stems(op[p], Copied(p), Mapped[user[p].id], now)
  BY FreshStems
<1>2. Holding(p, Mapped[user[p].id], Mapped[user[p].id])
  BY <1>1 DEF Holding, Sees
<1> QED BY <1>2, HeldVersion DEF CopyStems

\* A request goes on holding what stems from versions while it waits, whatever others store.
LEMMA WaitsStems ==
  ASSUME TypeOK, TypeOK', Recorded, ObserveVersions, NEW p \in Procs, CopyStems(p),
         SameLocals(p), now' = now \/ Tick
  PROVE  CopyStems(p)'
<1> SUFFICES ASSUME Between(p) \/ pc[p] = "Update" PROVE CopyStems(p)'
  BY DEF CopyStems, Between, SameLocals
<1>1. PICK version \in versions[user[p].id], seen \in versions[user[p].id] :
        Holding(p, version, seen)
  BY DEF CopyStems
<1>2. user[p].id \in UserIds
  BY CallingHolds DEF Between
<1>3. version.ban # NULL /\ Expired(version.ban, now) => Expired(version.ban, now')
  <2>1. version.ban \in BanInfo \union {NULL}
    BY <1>2 DEF Recorded, Account
  <2>2. now \in Nat /\ (now' = now \/ now' = now + 1)
    BY StoreAssumption DEF Tick, TypeOK, Times
  <2> QED BY <2>1, <2>2, StoreAssumption DEF Expired, BanInfo, Times
<1>4. version \in versions'[user[p].id] /\ seen \in versions'[user[p].id]
  BY <1>2, VersionsGrow
<1>5. Copied(p)' = Copied(p)
  BY DEF Copied, SameLocals
<1>6. pc[p] = "Update" => Stems(op[p], Copied(p), version, now')
  BY <1>1, <1>3 DEF Stems, Holding
<1>7. Saw(p, version, seen)'
  BY <1>1, <1>5 DEF Holding, Saw, SameLocals
<1>8. Holding(p, version, seen)'
  BY <1>5, <1>6, <1>7 DEF Holding, SameLocals
<1> QED BY <1>4, <1>8 DEF CopyStems, SameLocals

\* The second read of an UpdateUser: it holds what it saw at the first, and what it found now.
LEMMA GoesOnStems ==
  ASSUME TypeOK, TypeOK', Recorded, Recorded', ObserveVersions, NEW p \in Procs, CopyStems(p),
         GoesOnSeeing(p), Fresh(p)'
  PROVE  CopyStems(p)'
<1>1. PICK id, found : id = user[p].id /\ found = Mapped[id]
  OBVIOUS
<1>2. /\ id \in UserIds /\ found \in versions[id]
      /\ user'[p].id = id /\ Mapped'[id] = found
  <2>1. Between(p) /\ user'[p].id = id /\ users' = users
    BY <1>1 DEF GoesOnSeeing
  <2>2. id \in UserIds
    BY <1>1, <2>1, CallingHolds DEF Between
  <2>3. found \in versions[id]
    BY <1>1, <2>1, HeldVersion
  <2> QED BY <1>1, <2>1, <2>2, <2>3 DEF Mapped
<1>3. PICK version \in versions[id], seen \in versions[id] : Saw(p, version, seen)
  BY <1>1 DEF CopyStems, GoesOnSeeing, Holding
<1>4. Saw(p, found, seen)'
  BY <1>1, <1>3 DEF GoesOnSeeing
<1>5. found \in versions'[id] /\ seen \in versions'[id]
  BY <1>2, <1>3, VersionsGrow
<1>6. pc'[p] = "Update" => Stems(op[p], Copied(p), Mapped[user[p].id], now)'
  <2>1. (TypeOK => \A q \in Procs : Fresh(q) /\ pc[q] = "Update" =>
                      Stems(op[q], Copied(q), Mapped[user[q].id], now))'
    BY FreshUpdatesStem, PTL
  <2> QED BY <2>1
<1>7. Holding(p, found, seen)'
  BY <1>2, <1>4, <1>6 DEF Holding
<1> QED BY <1>2, <1>5, <1>7 DEF CopyStems

LEMMA RaceStems ==
  ASSUME RaceInv, RaceNext, IInv', NEW q \in Procs
  PROVE  CopyStems(q)'
<1>1. IInv /\ TypeOK /\ TypeOK' /\ Recorded /\ CopyStems(q) /\ [Next]_vars /\ ObserveVersions
  BY DEF RaceInv, IInv, RaceNext
<1>2. Recorded'
  BY <1>1, VersionsGrow
<1>3. Fresh(q)' /\ Sees(q)' => CopyStems(q)'
  <2>1. (TypeOK /\ Recorded => \A p \in Procs : Fresh(p) /\ Sees(p) => CopyStems(p))'
    BY FreshCopyStems, PTL
  <2> QED BY <1>1, <1>2, <2>1
<1>4. CASE pc'[q] = "idle"
  BY <1>4 DEF CopyStems, Between
<1>5. CASE SameLocals(q) /\ now' = now
  BY <1>1, <1>5, WaitsStems
<1>6. CASE Tick
  BY <1>1, <1>6, WaitsStems DEF Tick, local, SameLocals
<1>7. CASE UNCHANGED vars
  BY <1>1, <1>7, WaitsStems DEF vars, local, SameLocals
<1>8. CASE Fresh(q)' /\ GoesOnSeeing(q)
  BY <1>1, <1>2, <1>8, GoesOnStems
<1> QED BY <1>1, <1>3, <1>4, <1>5, <1>6, <1>7, <1>8, NextMoves

LEMMA NextRace ==
  ASSUME RaceInv, [RaceNext]_raceVars
  PROVE  RaceInv'
<1>1. IInv'
  BY NextSafe DEF RaceInv, RaceNext, raceVars
<1>2. \A p \in Procs : p \in stale' \/ (Fresh(p)' /\ Sees(p)')
  BY RaceFresh
<1>3. CASE RaceNext
  <2>1. Recorded'
    BY <1>1, <1>3, VersionsGrow DEF RaceInv, IInv, RaceNext
  <2>2. \A p \in Procs : CopyStems(p)'
    BY <1>1, <1>3, RaceStems
  <2> QED BY <1>1, <1>2, <2>1, <2>2 DEF RaceInv
<1>4. CASE UNCHANGED raceVars
  <2>1. Recorded' /\ \A p \in Procs : CopyStems(p)'
    BY <1>4 DEF RaceInv, raceVars, vars, stores, local, Recorded, CopyStems, Between, Holding,
                Saw, Copied, Mapped
  <2> QED BY <1>1, <1>2, <2>1 DEF RaceInv
<1> QED BY <1>3, <1>4

LEMMA InitRace ==
  ASSUME RaceInit PROVE RaceInv
<1>1. Recorded
  <2>1. \A id \in UserIds :
          versions[id] = IF users[id] = NULL THEN {} ELSE {AccountOf(users[id])}
    BY DEF RaceInit
  <2>2. \A id \in UserIds : users[id] # NULL => AccountOf(users[id]) \in Account
    BY InitSafe, AccountOfRow DEF RaceInit, IInv, TypeOK
  <2> QED BY <2>1, <2>2 DEF RaceInit, Recorded, Mapped
<1>2. \A p \in Procs : CopyStems(p) /\ Fresh(p) /\ Sees(p)
  BY DEF RaceInit, Init, CopyStems, Between, Fresh, Sees, Saw
<1> QED BY <1>1, <1>2, InitSafe DEF RaceInv, RaceInit

LEMMA Racing == RaceSpec => []RaceInv
<1>1. RaceInv /\ [RaceNext]_raceVars => RaceInv'
  BY NextRace
<1> QED BY <1>1, InitRace, PTL DEF RaceSpec

\* However many requests race, each one takes effect as Accounts says, except where it
\* writes a row that another has written since it first read it.
THEOREM UserAccountsUnlessStale == RaceSpec => AccountsUnlessStale
<1>1. ASSUME RaceInv, [RaceNext]_raceVars
      PROVE  \/ \E p \in stale : pc[p] \in RowWrites /\ Acts(p)
             \/ Abstract!Next
             \/ UNCHANGED Abstract!vars
  <2>1. IInv /\ [Next]_vars
    BY <1>1 DEF RaceInv, RaceNext, raceVars
  <2>2. \A p \in Procs : ~ (Fresh(p) /\ Sees(p)) => p \in stale
    BY <1>1 DEF RaceInv
  <2> QED BY <2>1, <2>2, NextRefines
<1> QED BY <1>1, Racing, PTL DEF RaceSpec, AccountsUnlessStale

\* However many requests race, the history of subscriptions is told what a change replaces,
\* unless another request has written the row since it was read.
THEOREM UserOldSubscriptionTrueUnlessStale == RaceSpec => []OldSubscriptionTrueUnlessStale
<1>1. RaceInv => OldSubscriptionTrueUnlessStale
  BY DEF RaceInv, OldSubscriptionTrueUnlessStale, Fresh
<1> QED BY <1>1, Racing, PTL

\* However many requests race, only an update that looked for the document before another
\* stored it writes over stored metadata.
THEOREM UserMetadataStayUnlessStale == RaceSpec => MetadataStayUnlessStale
<1>1. ASSUME RaceInv, [RaceNext]_raceVars
      PROVE  \/ \E p \in stale : pc[p] = "SaveMetadata" /\ Acts(p)
             \/ Stay
  <2>1. IInv /\ [Next]_vars
    BY <1>1 DEF RaceInv, RaceNext, raceVars
  <2>2. \A p \in Procs : ~ Fresh(p) => p \in stale
    BY <1>1 DEF RaceInv
  <2> QED BY <2>1, <2>2, NextKeepsMetadata DEF IInv
<1> QED BY <1>1, Racing, PTL DEF RaceSpec, MetadataStayUnlessStale, Stay
-----------------------------------------------------------------------------
(***************************************************************************)
(* The refinement of AccountVersions: each statement changes the account   *)
(* as it is, or the version that the copy it writes stems from.            *)
(***************************************************************************)

LEMMA Remembered ==
  ASSUME TypeOK', ObserveVersions
  PROVE  Versioned!Remember
<1>1. \A id \in UserIds : users'[id] # NULL => AccountOf(users'[id]) # NULL
  <2>1. \A id \in UserIds : users'[id] # NULL => users'[id] \in Row
    BY DEF TypeOK
  <2> QED BY <2>1, AccountOfRow
<1>2. \A id \in UserIds :
        (IF users'[id] = NULL THEN {} ELSE {AccountOf(users'[id])}) =
        (IF Mapped'[id] = NULL THEN {} ELSE {Mapped'[id]})
  BY <1>1 DEF Mapped
<1> QED BY <1>2 DEF ObserveVersions, Versioned!Remember

\* When no account changes there is nothing to remember.
LEMMA NothingNew ==
  ASSUME TypeOK, Recorded, ObserveVersions, users' = users
  PROVE  versions' = versions
<1>1. \A id \in UserIds :
        versions[id] \union (IF users[id] = NULL THEN {} ELSE {AccountOf(users[id])})
          = versions[id]
  <2>1. \A id \in UserIds :
          users[id] # NULL => Mapped[id] = AccountOf(users[id]) /\ Mapped[id] # NULL
    BY MappedRow
  <2> QED BY <2>1 DEF Recorded
<1>2. versions = [id \in UserIds |-> versions[id]]
  BY DEF Recorded
<1> QED BY <1>1, <1>2 DEF ObserveVersions

LEMMA RestoredRestores ==
  ASSUME NEW id \in UserIds, NEW version, NEW aspects, Restored(id, version, aspects)
  PROVE  Versioned!Restore(id, version, aspects)
BY DEF Restored, Abstract!Aspects, Versioned!Restore, Versioned!Aspects, Mapped

LEMMA WroteAmends ==
  ASSUME NEW id \in UserIds, NEW aspects, Wrote(id, aspects)
  PROVE  Versioned!Amend(id, aspects)
BY DEF Wrote, Restored, Abstract!Aspects, Versioned!Amend, Versioned!Restore,
       Versioned!Aspects, Mapped

LEMMA CreateLate ==
  ASSUME TypeOK, NEW p \in Procs, Create(p)
  PROVE  Versioned!LateNext \/ UNCHANGED <<users, banWrites, now>>
<1>1. ASSUME NEW id \in UserIds,
             Mapped[id] = NULL, Mapped'[id] # NULL,
             Mapped'[id].open, Mapped'[id].role = "USER",
             Mapped'[id].ban = NULL, Mapped'[id].sub = NULL,
             \A other \in UserIds \ {id} : Mapped'[other] = Mapped[other],
             UNCHANGED <<banWrites, now>>
      PROVE  Versioned!LateNext
  <2>1. Versioned!Create(id)
    BY <1>1 DEF Versioned!Create, Mapped
  <2> QED BY <2>1 DEF Versioned!LateNext
<1> QED BY <1>1, CreateWrites

LEMMA UpdateLate ==
  ASSUME TypeOK, Recorded, NEW p \in Procs, CopyStems(p), Update(p)
  PROVE  Versioned!LateNext \/ UNCHANGED <<users, banWrites, now>>
<1>1. pc[p] = "Update"
  BY DEF Update, Calling
<1>2. PICK version \in versions[user[p].id], seen \in versions[user[p].id] :
        Stems(op[p], Copied(p), version, now) /\ Saw(p, version, seen)
  BY <1>1 DEF CopyStems, Holding
<1>3. ASSUME NEW id \in UserIds, id = user[p].id, banWrites' = banWrites,
             \/ Restored(id, version, Profile) /\ Edited(Mapped'[id], version, seen)
             \/ Restored(id, version, {"password"})
             \/ Restored(id, version, {"open"}) /\ ~ Mapped'[id].open
             \/ /\ version.ban # NULL /\ Expired(version.ban, now)
                /\ Restored(id, version, {"ban"}) /\ Mapped'[id].ban = NULL
      PROVE  Versioned!LateNext
  <2>1. version \in versions[id] /\ seen \in versions[id]
    BY <1>3
  <2>2. CASE Restored(id, version, Profile) /\ Edited(Mapped'[id], version, seen)
    <3>1. Versioned!LateEditProfile(id, version, seen)
      BY <1>3, <2>2, RestoredRestores
         DEF Versioned!LateEditProfile, Versioned!Asked, Abstract!Asked, Profile, Edited, EditedAs,
             Mapped
    <3> QED BY <2>1, <3>1 DEF Versioned!LateNext
  <2>5. CASE Restored(id, version, {"password"})
    <3>1. Versioned!LateChangePassword(id, version)
      BY <1>3, <2>5, RestoredRestores DEF Versioned!LateChangePassword
    <3> QED BY <2>1, <3>1 DEF Versioned!LateNext
  <2>3. CASE Restored(id, version, {"open"}) /\ ~ Mapped'[id].open
    <3>1. Versioned!LateDelete(id, version)
      BY <1>3, <2>3, RestoredRestores DEF Versioned!LateDelete, Mapped
    <3> QED BY <2>1, <3>1 DEF Versioned!LateNext
  <2>4. CASE /\ version.ban # NULL /\ Expired(version.ban, now)
             /\ Restored(id, version, {"ban"}) /\ Mapped'[id].ban = NULL
    <3>1. Versioned!LateForget(id, version)
      BY <1>3, <2>4, RestoredRestores
         DEF Versioned!LateForget, Versioned!Expired, Expired, Mapped
    <3> QED BY <2>1, <3>1 DEF Versioned!LateNext
  <2> QED BY <1>3, <2>2, <2>3, <2>4, <2>5
<1> QED BY <1>2, <1>3, UpdateWrites

LEMMA BanLate ==
  ASSUME IInv, NEW p \in Procs, Ban(p)
  PROVE  Versioned!LateNext
<1>1. PICK id \in UserIds :
        /\ id = user[p].id /\ Wrote(id, {"ban", "open"}) /\ Decided(id, "ban")
        /\ Mapped'[id].open = TRUE /\ Mapped'[id].ban # NULL
        /\ Mapped[id].role \notin AdminRoles
  BY BanWrites
<1>2. Versioned!LateBan(id)
  BY <1>1, WroteAmends DEF Versioned!LateBan, Versioned!Decide, Decided, Mapped
<1> QED BY <1>2 DEF Versioned!LateNext

LEMMA UnbanLate ==
  ASSUME IInv, NEW p \in Procs, Unban(p)
  PROVE  Versioned!LateNext
<1>1. PICK id \in UserIds :
        /\ id = user[p].id /\ Wrote(id, {"ban", "open"}) /\ Decided(id, "unban")
        /\ Mapped'[id].open = TRUE /\ Mapped'[id].ban = NULL
  BY UnbanWrites
<1>2. Versioned!LateUnban(id)
  BY <1>1, WroteAmends DEF Versioned!LateUnban, Versioned!Decide, Decided, Mapped
<1> QED BY <1>2 DEF Versioned!LateNext

LEMMA WriteSubscriptionLate ==
  ASSUME IInv, NEW p \in Procs, WriteSubscription(p)
  PROVE  Versioned!LateNext
<1>1. PICK id \in UserIds :
        /\ id = user[p].id /\ Wrote(id, {"sub"}) /\ banWrites' = banWrites
        /\ Mapped'[id].sub # NULL
  BY SubscriptionWrites
<1>2. Versioned!LateSubscribe(id)
  BY <1>1, WroteAmends DEF Versioned!LateSubscribe, Mapped
<1> QED BY <1>2 DEF Versioned!LateNext

\* Every step takes effect on the account as it is or on a version of it.
LEMMA NextLate ==
  ASSUME RaceInv, Next
  PROVE  Versioned!LateNext \/ UNCHANGED <<users, banWrites, now>>
<1>1. IInv /\ TypeOK /\ Recorded /\ \A p \in Procs : CopyStems(p)
  BY DEF RaceInv, IInv
<1>2. ASSUME NEW p \in Procs, First(p) \/ FirstFails(p) \/ PostgresFails(p) \/ MongoFails(p)
      PROVE  UNCHANGED <<users, banWrites, now>>
  BY <1>2 DEF First, FirstFails, PostgresFails, MongoFails, Register, GetUserById,
     GetUserByEmail, ValidateToken, UpdateUser, GetUser, Authenticate, DeleteUser,
     ChangePassword, BanUser, UnbanUser, UpdateSubscription, CancelSubscription, Quiet, stores
<1>3. ASSUME NEW p \in Procs, Step(p)
      PROVE  Versioned!LateNext \/ UNCHANGED <<users, banWrites, now>>
  <2>1. CASE \/ FindByID(p) \/ GetMetadata(p) \/ ReadMetadata(p) \/ SaveMetadata(p)
             \/ LogBanChange(p) \/ LogSubscriptionChange(p) \/ LogActivity(p)
    BY <2>1 DEF FindByID, GetMetadata, ReadMetadata, SaveMetadata, LogBanChange,
                LogSubscriptionChange, LogActivity, Calling, stores
  <2> QED BY <1>1, <1>3, <2>1, CreateLate, UpdateLate, BanLate, UnbanLate,
             WriteSubscriptionLate DEF Step
<1>4. CASE Die \/ UNCHANGED vars
  BY <1>4 DEF Die, Quiet, vars, stores
<1>5. CASE Tick
  <2>1. now' = now + 1 /\ users' = users /\ banWrites' = banWrites
    BY <1>5 DEF Tick, stores
  <2> QED BY <2>1 DEF Versioned!LateNext, Versioned!Tick, Mapped
<1> QED BY <1>2, <1>3, <1>4, <1>5 DEF Next, Fault, Crash, HealthCheck, AtRest

\* However many requests race, the service does to accounts what AccountVersions says: each
\* statement takes effect on the account as it is, or puts back one version of it, changed in
\* the aspect the request is about.
THEOREM UserImplementsVersions == RaceSpec => ImplementsVersions
<1>1. RaceInv /\ RaceInv' /\ [RaceNext]_raceVars
        => [Versioned!VersionNext]_(Versioned!versionVars)
  <2> SUFFICES ASSUME RaceInv, RaceInv', [RaceNext]_raceVars
               PROVE  [Versioned!VersionNext]_(Versioned!versionVars)
    OBVIOUS
  <2>1. TypeOK /\ TypeOK' /\ Recorded
    BY DEF RaceInv, IInv
  <2>2. CASE UNCHANGED <<users, banWrites, now, versions>>
    BY <2>2 DEF Versioned!versionVars, Versioned!vars, Mapped
  <2>3. CASE RaceNext
    <3>1. Versioned!LateNext \/ UNCHANGED <<users, banWrites, now>>
      BY <2>3, NextLate DEF RaceNext
    <3>2. CASE Versioned!LateNext
      BY <2>1, <2>3, <3>2, Remembered DEF RaceNext, Versioned!VersionNext
    <3>3. CASE UNCHANGED <<users, banWrites, now>>
      BY <2>1, <2>2, <2>3, <3>3, NothingNew DEF RaceNext
    <3> QED BY <3>1, <3>2, <3>3
  <2> QED BY <2>2, <2>3 DEF raceVars, vars, stores
<1>2. RaceInit => Versioned!VersionInit
  <2> SUFFICES ASSUME RaceInit PROVE Versioned!VersionInit
    OBVIOUS
  <2>1. Versioned!Init
    BY InitRefines DEF RaceInit, Abstract!Init, Versioned!Init, Mapped
  <2>2. \A id \in UserIds : users[id] # NULL => AccountOf(users[id]) # NULL
    BY InitSafe, AccountOfRow DEF RaceInit, IInv, TypeOK
  <2>3. \A id \in UserIds :
          (IF users[id] = NULL THEN {} ELSE {AccountOf(users[id])}) =
          (IF Mapped[id] = NULL THEN {} ELSE {Mapped[id]})
    BY <2>2 DEF Mapped
  <2>4. versions = [id \in UserIds |-> IF Mapped[id] = NULL THEN {} ELSE {Mapped[id]}]
    BY <2>3 DEF RaceInit
  <2> QED BY <2>1, <2>4 DEF Versioned!VersionInit
<1> QED BY <1>1, <1>2, Racing, PTL DEF RaceSpec, ImplementsVersions, Versioned!VersionSpec
=============================================================================
