-------------------------- MODULE UserService_proofs --------------------------
(***************************************************************************)
(* Proofs about UserService, for any number of processes, ids, requests,   *)
(* faults and clock ticks.                                                 *)
(***************************************************************************)
EXTENDS UserService, UserStore_proofs, SequenceTheorems
-----------------------------------------------------------------------------
(***************************************************************************)
(* Types.  TypeOK is inductive: what a request holds is typed at each of   *)
(* its calls (LocalsOK), and rows, once there, stay.                       *)
(***************************************************************************)
StoresOK ==
  /\ users \in [UserIds -> Row \union {NULL}]
  /\ \A id \in UserIds : users[id] # NULL => users[id].user.id = id
  /\ metadata \in [UserIds -> Metadata \union {NULL}]
  /\ activities \subseteq Activity
  /\ banHistory \in Seq(BanEntry)
  /\ subHistory \subseteq SubEntry
  /\ tokens \subseteq Token
  /\ now \in Times
  /\ started \in 0 .. MaxRequests
  /\ faults \in 0 .. MaxFaults
  /\ banWrites \in Seq(BanEntry)

\* The requests in progress, without what they hold.
CallsOK ==
  /\ DOMAIN pc = Procs /\ DOMAIN user = Procs /\ DOMAIN aux = Procs
  /\ op \in [Procs -> AllOps \union {NULL}]
  /\ reply \in [Procs -> Codes \union {NULL}]

LEMMA TypeOKParts ==
  TypeOK <=> StoresOK /\ CallsOK /\ \A p \in Procs : LocalsOK(p)
BY DEF TypeOK, StoresOK, CallsOK

RowsStay == \A id \in UserIds : users[id] # NULL => users'[id] # NULL

SameLocals(q) ==
  pc'[q] = pc[q] /\ op'[q] = op[q] /\ user'[q] = user[q] /\ aux'[q] = aux[q]

\* A visible row is a row, with the user of its id.
LEMMA VisibleRow ==
  ASSUME StoresOK, NEW id \in UserIds, Visible(users, id)
  PROVE  /\ users[id] \in Row /\ users[id] # NULL
         /\ users[id].user \in User /\ users[id].user.id = id
BY DEF StoresOK, Visible, Row

\* A request that does not move keeps what it needs as long as rows stay.
LEMMA OthersKeep ==
  ASSUME NEW q \in Procs, LocalsOK(q), SameLocals(q), RowsStay
  PROVE  LocalsOK(q)'
<1>1. CASE pc[q] = "idle"
  BY <1>1 DEF LocalsOK, SameLocals
<1>2. CASE pc[q] # "idle"
  <2>1. Holds(op[q], pc[q], user[q], aux[q])'
    BY <1>2 DEF LocalsOK, SameLocals, Holds
  <2>2. pc[q] # "Create" => user[q].id \in UserIds
    BY <1>2 DEF LocalsOK, Holds, User
  <2>3. (pc[q] # "Create" => users[user[q].id] # NULL)'
    BY <1>2, <2>2 DEF LocalsOK, SameLocals, RowsStay
  <2> QED BY <2>1, <2>3 DEF LocalsOK
<1> QED BY <1>1, <1>2

\* Continue and Answer move one request.
LEMMA ContinueMoves ==
  ASSUME CallsOK, NEW p \in Procs, NEW c, NEW u, NEW x, Continue(p, c, u, x)
  PROVE  /\ DOMAIN pc' = Procs /\ DOMAIN user' = Procs /\ DOMAIN aux' = Procs
         /\ reply' \in [Procs -> Codes \union {NULL}]
         /\ pc'[p] = c /\ user'[p] = u /\ aux'[p] = x
         /\ \A q \in Procs \ {p} :
              pc'[q] = pc[q] /\ user'[q] = user[q] /\ aux'[q] = aux[q]
BY DEF Continue, CallsOK

LEMMA AnswerMoves ==
  ASSUME CallsOK, NEW p \in Procs, NEW code \in Codes, Answer(p, code)
  PROVE  /\ DOMAIN pc' = Procs /\ DOMAIN user' = Procs /\ DOMAIN aux' = Procs
         /\ reply' \in [Procs -> Codes \union {NULL}]
         /\ pc'[p] = "idle"
         /\ \A q \in Procs \ {p} :
              pc'[q] = pc[q] /\ user'[q] = user[q] /\ aux'[q] = aux[q]
BY DEF Answer, CallsOK

\* The step of one request: it is enough to look at the stores and at its own locals.
LEMMA ContinueTyped ==
  ASSUME TypeOK, NEW p \in Procs, NEW c, NEW u, NEW x, Continue(p, c, u, x),
         op' \in [Procs -> AllOps \union {NULL}],
         \A q \in Procs \ {p} : op'[q] = op[q],
         StoresOK', RowsStay, LocalsOK(p)'
  PROVE  TypeOK'
<1>1. CallsOK
  BY TypeOKParts
<1>2. CallsOK'
  BY <1>1, ContinueMoves DEF CallsOK
<1>3. ASSUME NEW q \in Procs \ {p} PROVE LocalsOK(q)'
  <2>1. SameLocals(q)
    BY <1>1, ContinueMoves DEF SameLocals
  <2>2. LocalsOK(q)
    BY TypeOKParts
  <2> QED BY <2>1, <2>2, OthersKeep
<1>4. \A q \in Procs : LocalsOK(q)'
  BY <1>3
<1> QED BY <1>2, <1>4, TypeOKParts DEF TypeOK, StoresOK, CallsOK

LEMMA AnswerTyped ==
  ASSUME TypeOK, NEW p \in Procs, NEW code \in Codes, Answer(p, code),
         op' \in [Procs -> AllOps \union {NULL}],
         \A q \in Procs \ {p} : op'[q] = op[q],
         StoresOK', RowsStay
  PROVE  TypeOK'
<1>1. CallsOK
  BY TypeOKParts
<1>2. CallsOK'
  BY <1>1, AnswerMoves DEF CallsOK
<1>3. ASSUME NEW q \in Procs \ {p} PROVE LocalsOK(q)'
  <2>1. SameLocals(q)
    BY <1>1, AnswerMoves DEF SameLocals
  <2>2. LocalsOK(q)
    BY TypeOKParts
  <2> QED BY <2>1, <2>2, OthersKeep
<1>4. LocalsOK(p)'
  BY <1>1, AnswerMoves DEF LocalsOK
<1>5. \A q \in Procs : LocalsOK(q)'
  BY <1>3, <1>4
<1> QED BY <1>2, <1>5, TypeOKParts DEF TypeOK, StoresOK, CallsOK

-----------------------------------------------------------------------------
(***************************************************************************)
(* First statements: the stores stay, and the request has its user, a row  *)
(* of the table, and the locals of its next call.                          *)
(***************************************************************************)
LEMMA FirstStores ==
  ASSUME TypeOK, NEW p \in Procs, NEW o \in AllOps, Start(p, o), Quiet
  PROVE  /\ StoresOK' /\ RowsStay
         /\ op' \in [Procs -> AllOps \union {NULL}]
         /\ op'[p] = o
         /\ \A q \in Procs \ {p} : op'[q] = op[q]
<1>1. StoresOK /\ CallsOK
  BY TypeOKParts
<1>2. started' \in 0 .. MaxRequests
  BY <1>1, ServiceAssumption DEF StoresOK, Start
<1>3. StoresOK' /\ RowsStay
  BY <1>1, <1>2 DEF StoresOK, RowsStay, Start, Quiet, stores
<1> QED BY <1>1, <1>3 DEF CallsOK, Start

LEMMA FirstContinues ==
  ASSUME TypeOK, NEW p \in Procs, NEW o \in AllOps, Start(p, o), Quiet,
         NEW c, NEW u, NEW x, Continue(p, c, u, x),
         Holds(o, c, u, x), c # "Create" => users[u.id] # NULL
  PROVE  TypeOK'
<1>1. pc'[p] = c /\ user'[p] = u /\ aux'[p] = x
  BY TypeOKParts, ContinueMoves
<1>2. users' = users
  BY DEF Quiet, stores
<1>3. LocalsOK(p)'
  BY <1>1, <1>2, FirstStores DEF LocalsOK
<1> QED BY <1>3, FirstStores, ContinueTyped

LEMMA FirstAnswers ==
  ASSUME TypeOK, NEW p \in Procs, NEW o \in AllOps, Start(p, o), Quiet,
         NEW code \in Codes, Answer(p, code)
  PROVE  TypeOK'
BY FirstStores, AnswerTyped

LEMMA CodesTyped ==
  ASSUME NEW o
  PROVE  NotFoundCode(o) \in Codes /\ BannedCode(o) \in Codes
BY DEF NotFoundCode, BannedCode, Codes

LEMMA NotFoundTyped ==
  ASSUME TypeOK, NEW p \in Procs, NEW o \in AllOps, Start(p, o), Quiet,
         NEW id, NotFound(p, o, id)
  PROVE  TypeOK'
BY FirstAnswers, CodesTyped DEF NotFound

LEMMA RegisterTyped ==
  ASSUME TypeOK, NEW p \in Procs, Register(p)
  PROVE  TypeOK'
<1>1. Start(p, "Register") /\ Quiet /\ "Register" \in AllOps
  BY DEF Register, AllOps
<1>2. CASE Answer(p, "AlreadyExists")
  BY <1>1, <1>2, FirstAnswers DEF Codes
<1>3. ASSUME NEW new \in NewUsers, Continue(p, "Create", NULL, new)
      PROVE  TypeOK'
  <2>1. Holds("Register", "Create", NULL, new)
    BY DEF Holds, CallsOf
  <2> QED BY <1>1, <1>3, <2>1, FirstContinues
<1> QED BY <1>2, <1>3 DEF Register

LEMMA GetUserTyped ==
  ASSUME TypeOK, NEW p \in Procs, NEW id \in UserIds,
         NEW o \in {"GetUserById", "ValidateToken", "UpdateUser"},
         NEW request, o = "UpdateUser" => request \in UpdateRequests,
         GetUser(p, o, id, request)
  PROVE  TypeOK'
<1>1. Start(p, o) /\ Quiet /\ o \in AllOps
  BY DEF GetUser, AllOps
<1>2. CASE NotFound(p, o, id)
  BY <1>1, <1>2, NotFoundTyped
<1>3. CASE Answer(p, BannedCode(o))
  BY <1>1, <1>3, CodesTyped, FirstAnswers
<1>4. CASE /\ Visible(users, id)
           /\ Continue(p, "GetMetadata", StrikeExpired(users[id].user, now), request)
  <2>1. users[id] # NULL /\ users[id].user \in User /\ users[id].user.id = id
    BY <1>4, TypeOKParts, VisibleRow
  <2>2. /\ StrikeExpired(users[id].user, now) \in User
        /\ StrikeExpired(users[id].user, now).id = id
    BY <2>1, StrikeExpiredUser
  <2>3. Holds(o, "GetMetadata", StrikeExpired(users[id].user, now), request)
    BY <2>2 DEF Holds, CallsOf
  <2> QED BY <1>1, <1>4, <2>1, <2>2, <2>3, FirstContinues
<1> QED BY <1>2, <1>3, <1>4 DEF GetUser

LEMMA AuthenticateTyped ==
  ASSUME TypeOK, NEW p \in Procs, Authenticate(p)
  PROVE  TypeOK'
<1>1. Start(p, "Authenticate") /\ Quiet /\ "Authenticate" \in AllOps
  BY DEF Authenticate, AllOps
<1>2. CASE \E code \in Codes : Answer(p, code)
  BY <1>1, <1>2, FirstAnswers
<1>3. ASSUME NEW id \in UserIds, Visible(users, id),
             Continue(p, "Update",
               [StrikeExpired(users[id].user, now) EXCEPT !.lastLogin = now],
               [id |-> id, exp |-> now + TokenTTL])
      PROVE  TypeOK'
  <2> DEFINE u == [StrikeExpired(users[id].user, now) EXCEPT !.lastLogin = now]
             x == [id |-> id, exp |-> now + TokenTTL]
  <2>1. users[id] # NULL /\ users[id].user \in User /\ users[id].user.id = id
    BY <1>3, TypeOKParts, VisibleRow
  <2>2. now \in Times /\ now \in Nat
    BY StoreAssumption DEF TypeOK, Times
  <2>3. /\ StrikeExpired(users[id].user, now) \in User
        /\ StrikeExpired(users[id].user, now).id = id
    BY <2>1, StrikeExpiredUser
  <2>4. u \in User /\ u.id = id
    BY <2>2, <2>3 DEF User
  <2>5. x \in Token
    BY <2>2, ServiceAssumption DEF Token
  <2>6. Continue(p, "Update", u, x)
    BY <1>3
  <2> HIDE DEF u, x
  <2>7. Holds("Authenticate", "Update", u, x)
    BY <2>4, <2>5 DEF Holds, CallsOf
  <2> QED BY <1>1, <2>1, <2>4, <2>6, <2>7, FirstContinues
<1> QED BY <1>2, <1>3, CodesTyped DEF Authenticate, WithEmail, Codes

\* The other requests that find a user hold it with one or two fields changed.
LEMMA FoundContinues ==
  ASSUME TypeOK, NEW p \in Procs, NEW o \in AllOps, Start(p, o), Quiet,
         NEW id \in UserIds, Visible(users, id),
         NEW c \in CallsOf(o) \ {"Create"}, NEW u \in User, NEW x,
         u.id = id, Continue(p, c, u, x), Holds(o, c, u, x)
  PROVE  TypeOK'
BY FirstContinues, TypeOKParts, VisibleRow

LEMMA DeleteUserTyped ==
  ASSUME TypeOK, NEW p \in Procs, DeleteUser(p)
  PROVE  TypeOK'
<1>1. Start(p, "DeleteUser") /\ Quiet /\ "DeleteUser" \in AllOps
  BY DEF DeleteUser, AllOps
<1>2. ASSUME NEW id \in UserIds, NotFound(p, "DeleteUser", id)
      PROVE  TypeOK'
  BY <1>1, <1>2, NotFoundTyped
<1>3. ASSUME NEW id \in UserIds, Visible(users, id),
             Continue(p, "Update", [users[id].user EXCEPT !.status = "DELETED"], NULL)
      PROVE  TypeOK'
  <2> DEFINE u == [users[id].user EXCEPT !.status = "DELETED"]
  <2>1. users[id].user \in User /\ users[id].user.id = id
    BY <1>3, TypeOKParts, VisibleRow
  <2>2. u \in User /\ u.id = id
    BY <2>1 DEF User, UserStatuses
  <2>3. Continue(p, "Update", u, NULL)
    BY <1>3
  <2> HIDE DEF u
  <2>4. Holds("DeleteUser", "Update", u, NULL) /\ "Update" \in CallsOf("DeleteUser")
    BY <2>2 DEF Holds, CallsOf
  <2> QED BY <1>1, <1>3, <2>2, <2>3, <2>4, FoundContinues
<1> QED BY <1>2, <1>3 DEF DeleteUser

LEMMA ChangePasswordTyped ==
  ASSUME TypeOK, NEW p \in Procs, ChangePassword(p)
  PROVE  TypeOK'
<1>1. Start(p, "ChangePassword") /\ Quiet /\ "ChangePassword" \in AllOps
  BY DEF ChangePassword, AllOps
<1>2. ASSUME NEW id \in UserIds, NotFound(p, "ChangePassword", id)
      PROVE  TypeOK'
  BY <1>1, <1>2, NotFoundTyped
<1>3. CASE Answer(p, "Internal")
  BY <1>1, <1>3, FirstAnswers DEF Codes
<1>4. ASSUME NEW id \in UserIds, NEW new \in Secrets, Visible(users, id),
             Continue(p, "Update", [users[id].user EXCEPT !.password = <<"hash", new>>], NULL)
      PROVE  TypeOK'
  <2> DEFINE u == [users[id].user EXCEPT !.password = <<"hash", new>>]
  <2>1. users[id].user \in User /\ users[id].user.id = id
    BY <1>4, TypeOKParts, VisibleRow
  <2>2. <<"hash", new>> \in Passwords
    BY DEF Passwords
  <2>3. u \in User /\ u.id = id
    BY <2>1, <2>2 DEF User
  <2>4. Continue(p, "Update", u, NULL)
    BY <1>4
  <2> HIDE DEF u
  <2>5. /\ Holds("ChangePassword", "Update", u, NULL)
        /\ "Update" \in CallsOf("ChangePassword")
    BY <2>3 DEF Holds, CallsOf
  <2> QED BY <1>1, <1>4, <2>3, <2>4, <2>5, FoundContinues
<1> QED BY <1>2, <1>3, <1>4 DEF ChangePassword

LEMMA BanUserTyped ==
  ASSUME TypeOK, NEW p \in Procs, BanUser(p)
  PROVE  TypeOK'
<1>1. Start(p, "BanUser") /\ Quiet /\ "BanUser" \in AllOps
  BY DEF BanUser, AllOps
<1>2. ASSUME NEW id \in UserIds, NotFound(p, "BanUser", id)
      PROVE  TypeOK'
  BY <1>1, <1>2, NotFoundTyped
<1>3. CASE Answer(p, "Internal")
  BY <1>1, <1>3, FirstAnswers DEF Codes
<1>4. ASSUME NEW id \in UserIds, NEW until \in BanEnds, NEW status \in BannedStatuses,
             Visible(users, id),
             Continue(p, "Ban",
               [users[id].user EXCEPT !.ban = NewBanInfo(until), !.status = status], NULL)
      PROVE  TypeOK'
  <2> DEFINE ban == NewBanInfo(until)
             u == [users[id].user EXCEPT !.ban = ban, !.status = status]
  <2>1. users[id].user \in User /\ users[id].user.id = id
    BY <1>4, TypeOKParts, VisibleRow
  <2> until \in Times \union {NULL}
    BY ServiceAssumption
  <2>b. ban \in BanInfo /\ ban.isBanned
    BY DEF NewBanInfo, BanInfo
  <2>2. ban \in BanInfo /\ ban # NULL /\ ban.isBanned
    BY <2>b, StoreAssumption
  <2>3. status \in UserStatuses
    BY DEF UserStatuses
  <2>4. Continue(p, "Ban", u, NULL)
    BY <1>4
  <2> HIDE DEF ban
  <2>5. u \in User /\ u.id = id /\ u.ban = ban
    BY <2>1, <2>2, <2>3 DEF User
  <2> HIDE DEF u
  <2>6. Holds("BanUser", "Ban", u, NULL) /\ "Ban" \in CallsOf("BanUser")
    BY <2>2, <2>5 DEF Holds, CallsOf
  <2> QED BY <1>1, <1>4, <2>4, <2>5, <2>6, FoundContinues
<1>5. "BANNED_TEMPORARILY" \in BannedStatuses /\ "BANNED_PERMANENTLY" \in BannedStatuses
  BY DEF BannedStatuses
<1> QED BY <1>2, <1>3, <1>4, <1>5 DEF BanUser

LEMMA UnbanUserTyped ==
  ASSUME TypeOK, NEW p \in Procs, UnbanUser(p)
  PROVE  TypeOK'
<1>1. Start(p, "UnbanUser") /\ Quiet /\ "UnbanUser" \in AllOps
  BY DEF UnbanUser, AllOps
<1>2. ASSUME NEW id \in UserIds, NotFound(p, "UnbanUser", id)
      PROVE  TypeOK'
  BY <1>1, <1>2, NotFoundTyped
<1>3. CASE Answer(p, "Internal")
  BY <1>1, <1>3, FirstAnswers DEF Codes
<1>4. ASSUME NEW id \in UserIds, Visible(users, id),
             Continue(p, "Unban",
               [users[id].user EXCEPT !.ban = [isBanned |-> FALSE, until |-> NULL],
                                      !.status = "ACTIVE"], NULL)
      PROVE  TypeOK'
  <2> DEFINE ban == [isBanned |-> FALSE, until |-> NULL]
             u == [users[id].user EXCEPT !.ban = ban, !.status = "ACTIVE"]
  <2>1. users[id].user \in User /\ users[id].user.id = id
    BY <1>4, TypeOKParts, VisibleRow
  <2>2. ban \in BanInfo
    BY DEF BanInfo
  <2>3. Continue(p, "Unban", u, NULL)
    BY <1>4
  <2> HIDE DEF ban
  <2>4. u \in User /\ u.id = id
    BY <2>1, <2>2 DEF User, UserStatuses
  <2> HIDE DEF u
  <2>5. Holds("UnbanUser", "Unban", u, NULL) /\ "Unban" \in CallsOf("UnbanUser")
    BY <2>4 DEF Holds, CallsOf
  <2> QED BY <1>1, <1>4, <2>3, <2>4, <2>5, FoundContinues
<1> QED BY <1>2, <1>3, <1>4 DEF UnbanUser

\* What is kept of a subscription for its history.
LEMMA BriefTyped ==
  /\ \A sub \in SubscriptionInfo : Brief(sub) \in Briefs
  /\ \A found \in User : Remember(found) \in Briefs
<1>1. \A sub \in SubscriptionInfo : Brief(sub) \in Briefs
  BY DEF Brief, Briefs, SubscriptionInfo
<1>2. Brief(NoSubscription) \in Briefs
  BY DEF Brief, Briefs, NoSubscription
<1>3. ASSUME NEW found \in User PROVE Remember(found) \in Briefs
  <2>1. found.sub \in SubscriptionInfo \union {NULL}
    BY DEF User
  <2> QED BY <1>1, <1>2, <2>1 DEF Remember, ColumnsOf
<1> QED BY <1>1, <1>3

\* A subscription call holds the user with the new subscription and the old values.
LEMMA SubscriptionContinues ==
  ASSUME TypeOK, NEW p \in Procs, NEW o \in {"UpdateSubscription", "CancelSubscription"},
         Start(p, o), Quiet, NEW id \in UserIds, Visible(users, id),
         NEW sub \in SubscriptionInfo,
         Continue(p, "UpdateSubscription", [users[id].user EXCEPT !.sub = sub],
                  Remember(users[id].user))
  PROVE  TypeOK'
<1> DEFINE u == [users[id].user EXCEPT !.sub = sub]
           x == Remember(users[id].user)
<1>1. users[id].user \in User /\ users[id].user.id = id
  BY TypeOKParts, VisibleRow
<1>2. u \in User /\ u.id = id /\ u.sub = sub
  BY <1>1 DEF User
<1>3. x \in Briefs
  BY <1>1, BriefTyped
<1>4. sub # NULL
  BY StoreAssumption
<1>5. Continue(p, "UpdateSubscription", u, x)
  OBVIOUS
<1> HIDE DEF u, x
<1>6. /\ Holds(o, "UpdateSubscription", u, x)
      /\ "UpdateSubscription" \in CallsOf(o) \ {"Create"}
  BY <1>2, <1>3, <1>4 DEF Holds, CallsOf
<1>7. o \in AllOps
  BY DEF AllOps
<1> QED BY <1>2, <1>5, <1>6, <1>7, FoundContinues

LEMMA UpdateSubscriptionTyped ==
  ASSUME TypeOK, NEW p \in Procs, UpdateSubscription(p)
  PROVE  TypeOK'
<1>1. Start(p, "UpdateSubscription") /\ Quiet /\ "UpdateSubscription" \in AllOps
  BY DEF UpdateSubscription, AllOps
<1>2. ASSUME NEW id \in UserIds, NotFound(p, "UpdateSubscription", id)
      PROVE  TypeOK'
  BY <1>1, <1>2, NotFoundTyped
<1> QED BY <1>1, <1>2, SubscriptionContinues, ServiceAssumption DEF UpdateSubscription

LEMMA CancelSubscriptionTyped ==
  ASSUME TypeOK, NEW p \in Procs, CancelSubscription(p)
  PROVE  TypeOK'
<1>1. Start(p, "CancelSubscription") /\ Quiet /\ "CancelSubscription" \in AllOps
  BY DEF CancelSubscription, AllOps
<1>2. ASSUME NEW id \in UserIds, NotFound(p, "CancelSubscription", id)
      PROVE  TypeOK'
  BY <1>1, <1>2, NotFoundTyped
<1>3. CASE Answer(p, "Internal")
  BY <1>1, <1>3, FirstAnswers DEF Codes
<1>4. ASSUME NEW id \in UserIds, NEW immediate \in BOOLEAN, Visible(users, id),
             users[id].user.sub # NULL,
             Continue(p, "UpdateSubscription",
               [users[id].user EXCEPT !.sub = Cancel(users[id].user.sub, immediate, now)],
               Remember(users[id].user))
      PROVE  TypeOK'
  <2>1. users[id].user.sub \in SubscriptionInfo
    BY <1>4, TypeOKParts, VisibleRow DEF User
  <2>2. now \in Times
    BY DEF TypeOK
  <2>3. Cancel(users[id].user.sub, immediate, now) \in SubscriptionInfo
    BY <2>1, <2>2 DEF Cancel, SubscriptionInfo, SubscriptionStatuses
  <2> QED BY <1>1, <1>4, <2>3, SubscriptionContinues
<1> QED BY <1>2, <1>3, <1>4 DEF CancelSubscription

LEMMA FirstTyped ==
  ASSUME TypeOK, NEW p \in Procs, First(p)
  PROVE  TypeOK'
<1>1. CASE GetUserById(p)
  BY <1>1, GetUserTyped DEF GetUserById
<1>2. CASE GetUserByEmail(p)
  <2>1. "GetUserByEmail" \in AllOps
    BY DEF AllOps
  <2> QED BY <1>2, <2>1, FirstAnswers, CodesTyped DEF GetUserByEmail
<1>3. CASE ValidateToken(p)
  <2>1. "ValidateToken" \in AllOps /\ "Unauthenticated" \in Codes
    BY DEF AllOps, Codes
  <2>2. \A token \in tokens : token.id \in UserIds
    BY DEF TypeOK, Token
  <2> QED BY <1>3, <2>1, <2>2, FirstAnswers, GetUserTyped DEF ValidateToken
<1>4. CASE UpdateUser(p)
  <2>1. UpdateRequests \subseteq Draft
    BY ServiceAssumption
  <2> QED BY <1>4, <2>1, GetUserTyped DEF UpdateUser
<1> QED BY <1>1, <1>2, <1>3, <1>4, RegisterTyped, DeleteUserTyped, AuthenticateTyped,
           ChangePasswordTyped, BanUserTyped, UnbanUserTyped,
           UpdateSubscriptionTyped, CancelSubscriptionTyped DEF First
-----------------------------------------------------------------------------
(***************************************************************************)
(* Later calls: the request goes on with what its next call needs.         *)
(***************************************************************************)
LEMMA StepContinues ==
  ASSUME TypeOK, NEW p \in Procs, op' = op,
         NEW c, NEW u \in User, NEW x, Continue(p, c, u, x),
         StoresOK', RowsStay, Holds(op[p], c, u, x), users'[u.id] # NULL
  PROVE  TypeOK'
<1>1. CallsOK
  BY TypeOKParts
<1>2. pc'[p] = c /\ user'[p] = u /\ aux'[p] = x
  BY <1>1, ContinueMoves
<1>3. LocalsOK(p)'
  BY <1>2 DEF LocalsOK
<1> QED BY <1>1, <1>3, ContinueTyped DEF CallsOK

LEMMA StepAnswers ==
  ASSUME TypeOK, NEW p \in Procs, op' = op, NEW code \in Codes, Answer(p, code),
         StoresOK', RowsStay
  PROVE  TypeOK'
BY TypeOKParts, AnswerTyped DEF CallsOK

\* What a request holds when it makes a call.
LEMMA CallingHolds ==
  ASSUME TypeOK, NEW p \in Procs, pc[p] # "idle"
  PROVE  /\ Holds(op[p], pc[p], user[p], aux[p])
         /\ pc[p] # "Create" => /\ user[p] \in User /\ user[p].id \in UserIds
                                /\ users[user[p].id] \in Row
                                /\ users[user[p].id].user.id = user[p].id
<1>1. LocalsOK(p) /\ StoresOK
  BY TypeOKParts
<1>2. pc[p] # "Create" => user[p] \in User /\ user[p].id \in UserIds
  BY <1>1 DEF LocalsOK, Holds, User
<1> QED BY <1>1, <1>2 DEF LocalsOK, StoresOK

\* The requests that make a call.
LEMMA Callers ==
  ASSUME NEW o
  PROVE  /\ "Create" \in CallsOf(o) => o = "Register"
         /\ "GetMetadata" \in CallsOf(o) => o \in {"GetUserById", "ValidateToken", "UpdateUser"}
         /\ \A c \in {"FindByID", "ReadMetadata", "SaveMetadata"} :
              c \in CallsOf(o) => o = "UpdateUser"
         /\ "Update" \in CallsOf(o) =>
              o \in {"UpdateUser", "DeleteUser", "Authenticate", "ChangePassword"}
         /\ "Ban" \in CallsOf(o) => o = "BanUser"
         /\ "Unban" \in CallsOf(o) => o = "UnbanUser"
         /\ "LogBanChange" \in CallsOf(o) => o \in {"BanUser", "UnbanUser"}
         /\ \A c \in {"UpdateSubscription", "LogSubscriptionChange"} :
              c \in CallsOf(o) => o \in {"UpdateSubscription", "CancelSubscription"}
         /\ "LogActivity" \in CallsOf(o) =>
              o \in AllOps \ {"GetUserById", "GetUserByEmail", "ValidateToken",
                              "DeleteUser", "HealthCheck"}
BY DEF CallsOf, AllOps

\* Every request that makes other calls than reads ends with LogActivity.
LEMMA MayLogActivity ==
  ASSUME NEW o \in {"Register", "UpdateUser", "ChangePassword", "BanUser", "UnbanUser",
                    "UpdateSubscription", "CancelSubscription", "Authenticate"},
         NEW u \in User, NEW x, o = "Authenticate" => x \in Token
  PROVE  Holds(o, "LogActivity", u, x)
BY DEF Holds, CallsOf

\* A statement writes one row; the rest of the stores stays.
LEMMA RowWritten ==
  ASSUME TypeOK, NEW id \in UserIds, NEW row \in Row, row.user.id = id,
         users' = [users EXCEPT ![id] = row],
         UNCHANGED <<metadata, activities, banHistory, subHistory, tokens, now, bounds>>,
         banWrites' \in Seq(BanEntry)
  PROVE  StoresOK' /\ RowsStay /\ users'[id] = row
<1>1. StoresOK
  BY TypeOKParts
<1>2. row # NULL
  BY StoreAssumption
<1>3. users' \in [UserIds -> Row \union {NULL}] /\ users'[id] = row
  BY <1>1 DEF StoresOK
<1>4. \A i \in UserIds : users'[i] = IF i = id THEN row ELSE users[i]
  BY <1>1 DEF StoresOK
<1>5. RowsStay /\ \A i \in UserIds : users'[i] # NULL => users'[i].user.id = i
  BY <1>1, <1>2, <1>4 DEF StoresOK, RowsStay
<1> QED BY <1>1, <1>3, <1>5 DEF StoresOK, bounds

LEMMA CreateTyped ==
  ASSUME TypeOK, NEW p \in Procs, Create(p)
  PROVE  TypeOK'
<1>1. pc[p] = "Create" /\ UNCHANGED <<op, bounds, now>>
  BY DEF Create, Calling
<1>2. op[p] = "Register" /\ aux[p] \in NewUsers
  BY <1>1, CallingHolds, Callers DEF Holds
<1>3. PICK id \in UserIds :
        LET new == [id |-> id, email |-> aux[p].email, name |-> aux[p].name,
                    password |-> Hash(aux[p].password),
                    status |-> "ACTIVE", role |-> "USER",
                    ban |-> NULL, sub |-> NULL, lastLogin |-> NULL] IN
        \/ /\ Clashes(users, new)
           /\ Answer(p, "Internal")
           /\ UNCHANGED users
        \/ /\ ~ Clashes(users, new)
           /\ users' = [users EXCEPT ![id] = FromDomain(new)]
           /\ Continue(p, "LogActivity", new, NULL)
  BY DEF Create
<1>4. UNCHANGED <<metadata, activities, banHistory, subHistory, tokens, banWrites>>
  BY DEF Create
<1> DEFINE new == [id |-> id, email |-> aux[p].email, name |-> aux[p].name,
                   password |-> Hash(aux[p].password),
                   status |-> "ACTIVE", role |-> "USER",
                   ban |-> NULL, sub |-> NULL, lastLogin |-> NULL]
<1>5. aux[p] \in Draft /\ aux[p].email # NULL /\ aux[p].name # NULL /\ aux[p].password # Blank
  BY <1>2, ServiceAssumption
<1>6. Hash(aux[p].password) \in Passwords
  <2>1. aux[p].password \in Passwords
    BY <1>5 DEF Draft
  <2> QED BY <2>1 DEF Hash, Passwords
<1>7. new \in User /\ new.id = id
  BY <1>5, <1>6 DEF User, Draft, UserStatuses, UserRoles
<1>8. CASE Answer(p, "Internal") /\ UNCHANGED users
  <2>1. StoresOK' /\ RowsStay
    BY <1>1, <1>4, <1>8, TypeOKParts DEF StoresOK, RowsStay, bounds
  <2> QED BY <1>1, <1>8, <2>1, StepAnswers DEF Codes
<1>9. CASE /\ users' = [users EXCEPT ![id] = FromDomain(new)]
           /\ Continue(p, "LogActivity", new, NULL)
  <2> HIDE DEF new
  <2>1. FromDomain(new) \in Row /\ FromDomain(new).user.id = id
    BY <1>7, FromDomainRow
  <2>2. banWrites' \in Seq(BanEntry)
    BY <1>4 DEF TypeOK
  <2>3. StoresOK' /\ RowsStay /\ users'[id] = FromDomain(new)
    BY <1>1, <1>4, <1>9, <2>1, <2>2, RowWritten
  <2>4. Holds(op[p], "LogActivity", new, NULL)
    BY <1>2, <1>7, MayLogActivity
  <2>5. users'[new.id] # NULL
    BY <1>7, <2>1, <2>3, StoreAssumption
  <2> QED BY <1>1, <1>7, <1>9, <2>3, <2>4, <2>5, StepContinues
<1> QED BY <1>3, <1>8, <1>9

\* A step that writes nothing but the counters and the clock.
LEMMA NothingWritten ==
  ASSUME TypeOK, UNCHANGED <<stores, tokens, banWrites>>,
         now' \in Times, started' \in 0 .. MaxRequests, faults' \in 0 .. MaxFaults
  PROVE  StoresOK' /\ RowsStay
BY TypeOKParts DEF StoresOK, RowsStay, stores

LEMMA CallingKeeps ==
  ASSUME TypeOK, NEW p \in Procs, NEW c, Calling(p, c)
  PROVE  /\ op' = op /\ now' = now /\ UNCHANGED bounds
         /\ now' \in Times /\ started' \in 0 .. MaxRequests /\ faults' \in 0 .. MaxFaults
BY DEF TypeOK, Calling, bounds

\* TakeAllowed takes an email, a name and a password; nothing else of the draft.
LEMMA TakeAllowedUser ==
  ASSUME NEW found \in User, NEW draft \in FullDraft
  PROVE  /\ TakeAllowed(found, draft) \in User
         /\ TakeAllowed(found, draft).id = found.id
         /\ TakeAllowed(found, draft).role = found.role
         /\ TakeAllowed(found, draft).status = found.status
         /\ TakeAllowed(found, draft).ban = found.ban
         /\ TakeAllowed(found, draft).sub = found.sub
         /\ \/ TakeAllowed(found, draft).password = found.password
            \/ TakeAllowed(found, draft).password[1] = "hash"
<1> DEFINE password == IF draft.password # Blank /\ ~ IsHashed(draft.password)
                       THEN Hash(draft.password) ELSE found.password
<1>1. /\ password \in Passwords \union {Blank}
      /\ password = found.password \/ password[1] = "hash"
  <2>1. CASE draft.password # Blank /\ ~ IsHashed(draft.password)
    <3>1. draft.password \in Passwords
      BY <2>1 DEF FullDraft, Draft
    <3> QED BY <2>1, <3>1 DEF Hash, Passwords
  <2>2. CASE ~ (draft.password # Blank /\ ~ IsHashed(draft.password))
    BY <2>2 DEF User
  <2> QED BY <2>1, <2>2
<1>2. TakeAllowed(found, draft)
        = [found EXCEPT !.email = draft.email, !.name = draft.name, !.password = password]
  BY DEF TakeAllowed
<1>3. draft.email \in Emails /\ draft.name \in Names
  BY DEF FullDraft, Draft
<1> HIDE DEF password
<1> QED BY <1>1, <1>2, <1>3 DEF User

LEMMA FindByIDTyped ==
  ASSUME TypeOK, NEW p \in Procs, FindByID(p)
  PROVE  TypeOK'
<1> DEFINE id == user[p].id
           u == TakeAllowed(users[id].user, aux[p])
<1>1. pc[p] = "FindByID" /\ Calling(p, "FindByID")
  BY DEF FindByID, Calling
<1>2. op[p] = "UpdateUser" /\ aux[p] \in FullDraft /\ id \in UserIds
  BY <1>1, CallingHolds, Callers DEF Holds
<1>3. op' = op /\ StoresOK' /\ RowsStay /\ users' = users
  BY <1>1, CallingKeeps, NothingWritten DEF FindByID, stores
<1>4. CASE Answer(p, "Internal")
  BY <1>3, <1>4, StepAnswers DEF Codes
<1>5. CASE Visible(users, id) /\ Continue(p, "Update", u, aux[p])
  <2>1. users[id] # NULL /\ users[id].user \in User /\ users[id].user.id = id
    BY <1>2, <1>5, TypeOKParts, VisibleRow
  <2>2. u \in User /\ u.id = id
    BY <1>2, <2>1, TakeAllowedUser
  <2> HIDE DEF u
  <2>3. Holds(op[p], "Update", u, aux[p])
    BY <1>2, <2>2 DEF Holds, CallsOf
  <2>4. users'[u.id] # NULL
    BY <1>3, <2>1, <2>2
  <2> QED BY <1>3, <1>5, <2>2, <2>3, <2>4, StepContinues
<1> QED BY <1>4, <1>5 DEF FindByID

\* The Update statement of a request, run or not.
LEMMA AfterUpdateTyped ==
  ASSUME TypeOK, NEW p \in Procs, pc[p] = "Update", op' = op,
         StoresOK', RowsStay, AfterUpdate(p) \/ UpdateFailed(p)
  PROVE  TypeOK'
<1>1. /\ Holds(op[p], "Update", user[p], aux[p])
      /\ user[p] \in User /\ user[p].id \in UserIds /\ users[user[p].id] # NULL
  BY CallingHolds, StoreAssumption
<1>2. op[p] \in {"UpdateUser", "DeleteUser", "Authenticate", "ChangePassword"}
  BY <1>1, Callers DEF Holds
<1>3. users'[user[p].id] # NULL
  BY <1>1 DEF RowsStay
<1>4. CASE \E code \in Codes : Answer(p, code)
  BY <1>4, StepAnswers
<1>5. CASE op[p] = "UpdateUser" /\ Continue(p, "ReadMetadata", user[p], aux[p])
  <2>1. Holds(op[p], "ReadMetadata", user[p], aux[p])
    BY <1>1, <1>5 DEF Holds, CallsOf
  <2> QED BY <1>1, <1>3, <1>5, <2>1, StepContinues
<1>6. CASE op[p] # "DeleteUser" /\ Continue(p, "LogActivity", user[p], aux[p])
  <2>1. op[p] = "Authenticate" => aux[p] \in Token
    BY <1>1 DEF Holds
  <2>2. Holds(op[p], "LogActivity", user[p], aux[p])
    BY <1>1, <1>2, <1>6, <2>1, MayLogActivity
  <2> QED BY <1>1, <1>3, <1>6, <2>2, StepContinues
<1> QED BY <1>4, <1>5, <1>6 DEF AfterUpdate, UpdateFailed, Codes

LEMMA UpdateTyped ==
  ASSUME TypeOK, NEW p \in Procs, Update(p)
  PROVE  TypeOK'
<1>1. pc[p] = "Update" /\ Calling(p, "Update")
  BY DEF Update, Calling
<1>2. user[p] \in User /\ user[p].id \in UserIds
  BY <1>1, CallingHolds
<1>3. op' = op /\ now' = now /\ UNCHANGED bounds
  BY <1>1, CallingKeeps
<1>4. CASE UpdateFailed(p) /\ UNCHANGED users
  <2>1. StoresOK' /\ RowsStay
    BY <1>1, <1>4, CallingKeeps, NothingWritten DEF Update, stores
  <2> QED BY <1>1, <1>3, <1>4, <2>1, AfterUpdateTyped
<1>5. CASE users' = [users EXCEPT ![user[p].id] = FromDomain(user[p])] /\ AfterUpdate(p)
  <2>1. FromDomain(user[p]) \in Row /\ FromDomain(user[p]).user.id = user[p].id
    BY <1>2, FromDomainRow
  <2>2. banWrites' \in Seq(BanEntry)
    BY DEF Update, TypeOK
  <2>3. StoresOK' /\ RowsStay
    BY <1>2, <1>3, <1>5, <2>1, <2>2, RowWritten DEF Update
  <2> QED BY <1>1, <1>3, <1>5, <2>3, AfterUpdateTyped
<1> QED BY <1>4, <1>5 DEF Update

\* A ban or an unban, and the entry the observer keeps of it.
LEMMA BanTyped ==
  ASSUME TypeOK, NEW p \in Procs, Ban(p)
  PROVE  TypeOK'
<1> DEFINE id == user[p].id
           row == BanRow(users[id], user[p].ban)
<1>1. pc[p] = "Ban" /\ Calling(p, "Ban")
  BY DEF Ban, Calling
<1>2. /\ op[p] = "BanUser" /\ user[p] \in User /\ id \in UserIds
      /\ user[p].ban \in BanInfo /\ user[p].ban.isBanned
      /\ users[id] \in Row /\ users[id].user.id = id
  BY <1>1, CallingHolds, Callers DEF Holds, User
<1>3. row \in Row /\ row.user.id = id
  <2>1. row \in Row /\ row.user = [users[id].user EXCEPT !.ban = user[p].ban,
                                                         !.status = BanStatus(user[p].ban)]
    BY <1>2, BanRowRow
  <2> QED BY <1>2, <2>1 DEF Row, User
<1>4. banWrites' \in Seq(BanEntry)
  <2>1. [user |-> id, action |-> "ban"] \in BanEntry /\ banWrites \in Seq(BanEntry)
    BY <1>2 DEF BanEntry, TypeOK
  <2> QED BY <2>1 DEF Ban
<1>5. users' = [users EXCEPT ![id] = row]
  BY DEF Ban
<1> HIDE DEF row
<1>6. StoresOK' /\ RowsStay /\ users'[id] = row
  BY <1>1, <1>2, <1>3, <1>4, <1>5, CallingKeeps, RowWritten DEF Ban
<1>7. Holds(op[p], "LogBanChange", user[p], NULL)
  BY <1>2 DEF Holds, CallsOf
<1>8. users'[user[p].id] # NULL
  BY <1>3, <1>6, StoreAssumption
<1> QED BY <1>1, <1>2, <1>6, <1>7, <1>8, CallingKeeps, StepContinues DEF Ban

LEMMA UnbanTyped ==
  ASSUME TypeOK, NEW p \in Procs, Unban(p)
  PROVE  TypeOK'
<1> DEFINE id == user[p].id
           row == UnbanRow(users[id])
<1>1. pc[p] = "Unban" /\ Calling(p, "Unban")
  BY DEF Unban, Calling
<1>2. /\ op[p] = "UnbanUser" /\ user[p] \in User /\ id \in UserIds
      /\ users[id] \in Row /\ users[id].user.id = id
  BY <1>1, CallingHolds, Callers DEF Holds
<1>3. row \in Row /\ row.user.id = id
  <2>1. row \in Row /\ row.user = [users[id].user EXCEPT !.ban = NULL, !.status = "ACTIVE"]
    BY <1>2, UnbanRowRow
  <2> QED BY <1>2, <2>1 DEF Row, User
<1>4. banWrites' \in Seq(BanEntry)
  <2>1. [user |-> id, action |-> "unban"] \in BanEntry /\ banWrites \in Seq(BanEntry)
    BY <1>2 DEF BanEntry, TypeOK
  <2> QED BY <2>1 DEF Unban
<1>5. users' = [users EXCEPT ![id] = row]
  BY DEF Unban
<1> HIDE DEF row
<1>6. StoresOK' /\ RowsStay /\ users'[id] = row
  BY <1>1, <1>2, <1>3, <1>4, <1>5, CallingKeeps, RowWritten DEF Unban
<1>7. Holds(op[p], "LogBanChange", user[p], NULL)
  BY <1>2 DEF Holds, CallsOf
<1>8. users'[user[p].id] # NULL
  BY <1>3, <1>6, StoreAssumption
<1> QED BY <1>1, <1>2, <1>6, <1>7, <1>8, CallingKeeps, StepContinues DEF Unban

LEMMA WriteSubscriptionTyped ==
  ASSUME TypeOK, NEW p \in Procs, WriteSubscription(p)
  PROVE  TypeOK'
<1> DEFINE id == user[p].id
           row == SubscriptionRow(users[id], user[p].sub)
<1>1. pc[p] = "UpdateSubscription" /\ Calling(p, "UpdateSubscription")
  BY DEF WriteSubscription, Calling
<1>2. /\ Holds(op[p], pc[p], user[p], aux[p]) /\ user[p] \in User /\ id \in UserIds
      /\ users[id] \in Row /\ users[id].user.id = id
  BY <1>1, CallingHolds
<1>3. /\ op[p] \in {"UpdateSubscription", "CancelSubscription"}
      /\ user[p].sub # NULL /\ aux[p] \in Briefs
  BY <1>1, <1>2, Callers DEF Holds
<1>4. row \in Row /\ row.user.id = id
  <2>1. row \in Row /\ row.user = [users[id].user EXCEPT !.sub = user[p].sub]
    BY <1>2, SubscriptionRowRow DEF User
  <2> QED BY <1>2, <2>1 DEF Row, User
<1>5. users' = [users EXCEPT ![id] = row] /\ banWrites' \in Seq(BanEntry)
  BY DEF WriteSubscription, TypeOK
<1> HIDE DEF row
<1>6. StoresOK' /\ RowsStay /\ users'[id] = row
  BY <1>1, <1>2, <1>4, <1>5, CallingKeeps, RowWritten DEF WriteSubscription
<1>7. Holds(op[p], "LogSubscriptionChange", user[p], aux[p])
  BY <1>2, <1>3 DEF Holds, CallsOf
<1>8. users'[user[p].id] # NULL
  BY <1>4, <1>6, StoreAssumption
<1> QED BY <1>1, <1>2, <1>6, <1>7, <1>8, CallingKeeps, StepContinues DEF WriteSubscription

\* A MongoDB call leaves the table as it is: the request goes on or answers.
LEMMA MongoContinues ==
  ASSUME TypeOK, NEW p \in Procs, pc[p] \notin {"idle", "Create"}, op' = op,
         users' = users, StoresOK', NEW c, NEW x, Continue(p, c, user[p], x),
         Holds(op[p], c, user[p], x)
  PROVE  TypeOK'
<1>1. user[p] \in User /\ users[user[p].id] # NULL
  BY CallingHolds, StoreAssumption
<1> QED BY <1>1, StepContinues DEF RowsStay

LEMMA AfterGetUserTyped ==
  ASSUME TypeOK, NEW p \in Procs, pc[p] = "GetMetadata", op' = op,
         users' = users, StoresOK', AfterGetUser(p)
  PROVE  TypeOK'
<1>1. Holds(op[p], "GetMetadata", user[p], aux[p]) /\ user[p] \in User
  BY CallingHolds
<1>2. CASE Answer(p, "OK")
  BY <1>2, StepAnswers DEF RowsStay, Codes
<1>3. CASE /\ op[p] = "UpdateUser"
           /\ Continue(p, "FindByID", user[p], UpdateFromProto(user[p], aux[p]))
  <2> DEFINE x == UpdateFromProto(user[p], aux[p])
  <2>1. aux[p] \in Draft
    BY <1>1, <1>3, ServiceAssumption DEF Holds
  <2>2. aux[p].metadata \in Metadata
    BY <2>1 DEF Draft
  <2>3. user[p].email \in Emails /\ user[p].name \in Names /\ user[p].role \in UserRoles
    BY <1>1 DEF User
  <2>4. x \in FullDraft
    BY <2>1, <2>2, <2>3, StoreAssumption DEF UpdateFromProto, FullDraft, Draft
  <2>5. Continue(p, "FindByID", user[p], x)
    BY <1>3
  <2> HIDE DEF x
  <2>6. Holds(op[p], "FindByID", user[p], x)
    BY <1>1, <1>3, <2>4 DEF Holds, CallsOf
  <2>7. pc[p] \notin {"idle", "Create"}
    OBVIOUS
  <2> QED BY <2>5, <2>6, <2>7, MongoContinues
<1> QED BY <1>2, <1>3 DEF AfterGetUser

LEMMA GetMetadataTyped ==
  ASSUME TypeOK, NEW p \in Procs, GetMetadata(p)
  PROVE  TypeOK'
<1>1. pc[p] = "GetMetadata" /\ Calling(p, "GetMetadata") /\ users' = users
  BY DEF GetMetadata, Calling, stores
<1>2. StoresOK'
  BY <1>1, CallingKeeps, NothingWritten DEF GetMetadata
<1> QED BY <1>1, <1>2, CallingKeeps, AfterGetUserTyped DEF GetMetadata

LEMMA ReadMetadataTyped ==
  ASSUME TypeOK, NEW p \in Procs, ReadMetadata(p)
  PROVE  TypeOK'
<1>1. pc[p] = "ReadMetadata" /\ Calling(p, "ReadMetadata") /\ users' = users
  BY DEF ReadMetadata, Calling, stores
<1>2. StoresOK'
  BY <1>1, CallingKeeps, NothingWritten DEF ReadMetadata
<1>3. /\ op[p] = "UpdateUser" /\ aux[p] \in FullDraft /\ user[p] \in User
  BY <1>1, CallingHolds, Callers DEF Holds
<1>4. CASE Continue(p, "SaveMetadata", user[p], aux[p])
  <2>1. Holds(op[p], "SaveMetadata", user[p], aux[p])
    BY <1>3 DEF Holds, CallsOf
  <2> QED BY <1>1, <1>2, <1>4, <2>1, CallingKeeps, MongoContinues
<1>5. CASE Continue(p, "LogActivity", user[p], NULL)
  <2>1. Holds(op[p], "LogActivity", user[p], NULL)
    BY <1>3, MayLogActivity
  <2> QED BY <1>1, <1>2, <1>5, <2>1, CallingKeeps, MongoContinues
<1> QED BY <1>4, <1>5 DEF ReadMetadata

LEMMA SaveMetadataTyped ==
  ASSUME TypeOK, NEW p \in Procs, SaveMetadata(p)
  PROVE  TypeOK'
<1>1. pc[p] = "SaveMetadata" /\ Calling(p, "SaveMetadata")
      /\ users' = users /\ UNCHANGED <<activities, banHistory, subHistory, tokens, banWrites>>
  BY DEF SaveMetadata, Calling
<1>2. op[p] = "UpdateUser" /\ aux[p].metadata \in Metadata /\ user[p] \in User
  BY <1>1, CallingHolds, Callers DEF Holds, FullDraft, Draft
<1>3. StoresOK'
  BY <1>1, <1>2, CallingKeeps, TypeOKParts DEF StoresOK, SaveMetadata
<1>4. Holds(op[p], "LogActivity", user[p], NULL)
  BY <1>2, MayLogActivity
<1> QED BY <1>1, <1>3, <1>4, CallingKeeps, MongoContinues DEF SaveMetadata

LEMMA LogBanChangeTyped ==
  ASSUME TypeOK, NEW p \in Procs, LogBanChange(p)
  PROVE  TypeOK'
<1>1. pc[p] = "LogBanChange" /\ Calling(p, "LogBanChange")
      /\ users' = users /\ UNCHANGED <<metadata, activities, subHistory, tokens, banWrites>>
  BY DEF LogBanChange, Calling
<1>2. op[p] \in {"BanUser", "UnbanUser"} /\ user[p] \in User /\ user[p].id \in UserIds
  BY <1>1, CallingHolds, Callers DEF Holds
<1>3. banHistory' \in Seq(BanEntry)
  <2>1. [user |-> user[p].id, action |-> BanAction(op[p])] \in BanEntry
    BY <1>2 DEF BanEntry, BanAction
  <2> QED BY <2>1 DEF LogBanChange, TypeOK
<1>4. StoresOK'
  BY <1>1, <1>3, CallingKeeps, TypeOKParts DEF StoresOK
<1>5. Holds(op[p], "LogActivity", user[p], NULL)
  BY <1>2, MayLogActivity
<1> QED BY <1>1, <1>4, <1>5, CallingKeeps, MongoContinues DEF LogBanChange

LEMMA LogSubscriptionChangeTyped ==
  ASSUME TypeOK, NEW p \in Procs, LogSubscriptionChange(p)
  PROVE  TypeOK'
<1>1. pc[p] = "LogSubscriptionChange" /\ Calling(p, "LogSubscriptionChange")
      /\ users' = users /\ UNCHANGED <<metadata, activities, banHistory, tokens, banWrites>>
  BY DEF LogSubscriptionChange, Calling
<1>2. /\ Holds(op[p], pc[p], user[p], aux[p])
      /\ user[p] \in User /\ user[p].id \in UserIds
  BY <1>1, CallingHolds
<1>3. /\ op[p] \in {"UpdateSubscription", "CancelSubscription"}
      /\ user[p].sub \in SubscriptionInfo /\ aux[p] \in Briefs
  BY <1>1, <1>2, Callers DEF Holds, User
<1>4. subHistory' \subseteq SubEntry
  <2> DEFINE entry == [id |-> GenerateUUID, user |-> user[p].id,
                       old |-> aux[p], new |-> Brief(user[p].sub)]
  <2>1. Brief(user[p].sub) \in Briefs
    BY <1>3, BriefTyped
  <2>2. entry \in SubEntry
    BY <1>2, <1>3, <2>1 DEF SubEntry, GenerateUUID, TypeOK
  <2>3. subHistory' = Insert(subHistory, entry)
    BY DEF LogSubscriptionChange
  <2> HIDE DEF entry
  <2> QED BY <2>2, <2>3 DEF Insert, TypeOK
<1>5. StoresOK'
  BY <1>1, <1>4, CallingKeeps, TypeOKParts DEF StoresOK
<1>6. Holds(op[p], "LogActivity", user[p], NULL)
  BY <1>2, <1>3, MayLogActivity
<1> QED BY <1>1, <1>5, <1>6, CallingKeeps, MongoContinues DEF LogSubscriptionChange

\* The last call of a request, run or not.
LEMMA FinishTyped ==
  ASSUME TypeOK, NEW p \in Procs, pc[p] = "LogActivity", Finish(p)
  PROVE  Answer(p, "OK") /\ tokens' \subseteq Token
<1>1. op[p] = "Authenticate" => aux[p] \in Token
  BY CallingHolds DEF Holds
<1> QED BY <1>1 DEF Finish, TypeOK

LEMMA LogActivityTyped ==
  ASSUME TypeOK, NEW p \in Procs, LogActivity(p)
  PROVE  TypeOK'
<1>1. pc[p] = "LogActivity" /\ Calling(p, "LogActivity") /\ Finish(p)
      /\ users' = users /\ UNCHANGED <<metadata, banHistory, subHistory, banWrites>>
  BY DEF LogActivity, Calling
<1>2. /\ Holds(op[p], pc[p], user[p], aux[p])
      /\ user[p] \in User /\ user[p].id \in UserIds
  BY <1>1, CallingHolds
<1>3. activities' \subseteq Activity
  <2> DEFINE doc == [id |-> GenerateUUID, user |-> user[p].id, type |-> ActivityOf(op[p])]
  <2>1. ActivityOf(op[p]) \in ActivityTypes
    BY <1>1, <1>2, Callers DEF Holds, ActivityOf, ActivityTypes, AllOps
  <2>2. doc \in Activity
    BY <1>2, <2>1 DEF Activity, GenerateUUID, TypeOK
  <2>3. activities' = Insert(activities, doc)
    BY DEF LogActivity
  <2> HIDE DEF doc
  <2> QED BY <2>2, <2>3 DEF Insert, TypeOK
<1>4. StoresOK' /\ RowsStay
  BY <1>1, <1>3, FinishTyped, CallingKeeps, TypeOKParts DEF StoresOK, RowsStay
<1> QED BY <1>1, <1>4, FinishTyped, CallingKeeps, StepAnswers DEF Codes

LEMMA StepTyped ==
  ASSUME TypeOK, NEW p \in Procs, Step(p)
  PROVE  TypeOK'
BY CreateTyped, FindByIDTyped, UpdateTyped, BanTyped, UnbanTyped,
   WriteSubscriptionTyped, GetMetadataTyped, ReadMetadataTyped, SaveMetadataTyped,
   LogBanChangeTyped, LogSubscriptionChangeTyped, LogActivityTyped DEF Step
-----------------------------------------------------------------------------
(***************************************************************************)
(* Faults and the clock.                                                   *)
(***************************************************************************)
LEMMA FaultCounted ==
  ASSUME TypeOK, faults < MaxFaults, faults' = faults + 1
  PROVE  faults' \in 0 .. MaxFaults
BY ServiceAssumption DEF TypeOK

LEMMA FirstFailsTyped ==
  ASSUME TypeOK, NEW p \in Procs, FirstFails(p)
  PROVE  TypeOK'
<1>1. PICK o \in Ops :
        /\ started < MaxRequests /\ faults < MaxFaults
        /\ started' = started + 1 /\ faults' = faults + 1
        /\ op' = [op EXCEPT ![p] = o]
        /\ Answer(p, IF o \in {"Authenticate", "UpdateUser"}
                     THEN NotFoundCode(o) ELSE "Internal")
        /\ Quiet
  BY DEF FirstFails
<1>2. started' \in 0 .. MaxRequests
  BY <1>1, ServiceAssumption DEF TypeOK
<1>3. StoresOK' /\ RowsStay
  BY <1>1, <1>2, FaultCounted, NothingWritten DEF Quiet, TypeOK
<1>4. /\ op' \in [Procs -> AllOps \union {NULL}]
      /\ \A q \in Procs \ {p} : op'[q] = op[q]
  BY <1>1, ServiceAssumption DEF TypeOK
<1>5. \E code \in Codes : Answer(p, code)
  BY <1>1, CodesTyped DEF Codes
<1> QED BY <1>3, <1>4, <1>5, AnswerTyped

LEMMA PostgresFailsTyped ==
  ASSUME TypeOK, NEW p \in Procs, PostgresFails(p)
  PROVE  TypeOK'
<1>1. /\ pc[p] \in PostgresCalls /\ op' = op
      /\ UpdateFailed(p) /\ Quiet
      /\ faults < MaxFaults /\ faults' = faults + 1 /\ started' = started
  BY DEF PostgresFails
<1>2. StoresOK' /\ RowsStay
  BY <1>1, FaultCounted, NothingWritten DEF Quiet, TypeOK
<1>3. CASE Answer(p, "Internal")
  BY <1>1, <1>2, <1>3, StepAnswers DEF Codes
<1>4. CASE op[p] = "Authenticate" /\ Continue(p, "LogActivity", user[p], aux[p])
  <2>1. pc[p] # "idle"
    BY <1>1 DEF PostgresCalls
  <2>2. Holds(op[p], pc[p], user[p], aux[p])
    BY <2>1, CallingHolds
  <2>3. pc[p] = "Update"
    BY <1>1, <1>4, <2>2 DEF Holds, CallsOf, PostgresCalls
  <2> QED BY <1>1, <1>2, <2>3, AfterUpdateTyped
<1> QED BY <1>1, <1>3, <1>4 DEF UpdateFailed

LEMMA MongoFailsTyped ==
  ASSUME TypeOK, NEW p \in Procs, MongoFails(p)
  PROVE  TypeOK'
<1>1. /\ op' = op /\ users' = users /\ UNCHANGED <<stores, started, now, banWrites>>
      /\ faults' \in 0 .. MaxFaults
  BY FaultCounted DEF MongoFails, stores
<1>2. tokens' \subseteq Token => StoresOK' /\ RowsStay
  BY <1>1, TypeOKParts DEF StoresOK, RowsStay, stores
<1>3. tokens \subseteq Token
  BY DEF TypeOK
<1>4. CASE pc[p] = "GetMetadata" /\ AfterGetUser(p) /\ UNCHANGED tokens
  BY <1>1, <1>2, <1>3, <1>4, AfterGetUserTyped
<1>5. CASE /\ pc[p] \in MongoCalls \ {"GetMetadata", "LogActivity"}
           /\ Continue(p, "LogActivity", user[p], NULL) /\ UNCHANGED tokens
  <2>1. pc[p] \notin {"idle", "Create"}
    BY <1>5 DEF MongoCalls
  <2>2. Holds(op[p], pc[p], user[p], aux[p]) /\ user[p] \in User
    BY <2>1, CallingHolds
  <2>3. op[p] \in {"UpdateUser", "BanUser", "UnbanUser",
                   "UpdateSubscription", "CancelSubscription"}
    BY <1>5, <2>2 DEF Holds, CallsOf, MongoCalls
  <2>4. Holds(op[p], "LogActivity", user[p], NULL)
    BY <2>2, <2>3, MayLogActivity
  <2> QED BY <1>1, <1>2, <1>3, <1>5, <2>1, <2>4, MongoContinues
<1>6. CASE pc[p] = "LogActivity" /\ Finish(p)
  BY <1>1, <1>2, <1>6, FinishTyped, StepAnswers DEF Codes
<1> QED BY <1>4, <1>5, <1>6 DEF MongoFails

\* The process dies: no request holds anything any more.
LEMMA DieTyped ==
  ASSUME TypeOK, Die, started' \in 0 .. MaxRequests,
         op' \in [Procs -> AllOps \union {NULL}]
  PROVE  TypeOK'
<1>1. StoresOK'
  BY FaultCounted, NothingWritten DEF Die, Quiet, TypeOK
<1>2. CallsOK'
  BY DEF Die, CallsOK, TypeOK
<1>3. \A p \in Procs : LocalsOK(p)'
  BY DEF Die, LocalsOK
<1> QED BY <1>1, <1>2, <1>3, TypeOKParts DEF TypeOK, StoresOK, CallsOK

LEMMA TickTyped ==
  ASSUME TypeOK, Tick
  PROVE  TypeOK'
<1>1. now' \in Times
  BY StoreAssumption DEF Tick, TypeOK, Times
<1>2. StoresOK' /\ RowsStay
  BY <1>1, NothingWritten DEF Tick, TypeOK, stores, bounds
<1>3. CallsOK' /\ \A p \in Procs : LocalsOK(p)'
  <2>1. \A p \in Procs : SameLocals(p) /\ LocalsOK(p)
    BY TypeOKParts DEF Tick, SameLocals, local
  <2> QED BY <1>2, <2>1, OthersKeep DEF Tick, CallsOK, TypeOK, local
<1> QED BY <1>2, <1>3 DEF TypeOK, StoresOK, CallsOK

LEMMA NextTyped ==
  ASSUME TypeOK, [Next]_vars
  PROVE  TypeOK'
<1>1. CASE Crash
  BY <1>1, DieTyped DEF Crash, TypeOK
<1>2. ASSUME NEW p \in Procs, HealthCheck(p) PROVE TypeOK'
  <2>1. started' \in 0 .. MaxRequests /\ Die
    BY <1>2, ServiceAssumption DEF HealthCheck, TypeOK
  <2>2. op' \in [Procs -> AllOps \union {NULL}]
    BY <1>2 DEF HealthCheck, TypeOK, AllOps
  <2> QED BY <2>1, <2>2, DieTyped
<1>3. CASE UNCHANGED vars
  <2>1. StoresOK' /\ CallsOK'
    BY <1>3, TypeOKParts DEF StoresOK, CallsOK, vars, stores, local, bounds
  <2>2. \A p \in Procs : LocalsOK(p)'
    BY <1>3, TypeOKParts, OthersKeep
       DEF RowsStay, SameLocals, vars, stores, local
  <2> QED BY <2>1, <2>2 DEF TypeOK, StoresOK, CallsOK
<1> QED BY <1>1, <1>2, <1>3, FirstTyped, StepTyped, FirstFailsTyped, PostgresFailsTyped,
           MongoFailsTyped, TickTyped DEF Next, Fault, AtRest

LEMMA InitTyped ==
  ASSUME Init PROVE TypeOK
<1>1. ASSUME NEW id \in DOMAIN Seed
      PROVE  SeedRow(id) \in Row /\ SeedRow(id).user.id = id /\ id \in UserIds
  <2> DEFINE u == [id |-> id, email |-> Seed[id].email, name |-> Seed[id].name,
                   password |-> <<"hash", Seed[id].secret>>,
                   status |-> "ACTIVE", role |-> Seed[id].role,
                   ban |-> NULL, sub |-> NULL, lastLogin |-> NULL]
  <2>1. /\ id \in UserIds /\ Seed[id].email \in Emails /\ Seed[id].name \in Names
        /\ Seed[id].secret \in Secrets /\ Seed[id].role \in UserRoles
    BY ServiceAssumption
  <2>2. <<"hash", Seed[id].secret>> \in Passwords
    BY <2>1 DEF Passwords
  <2>3. u \in User /\ u.id = id
    BY <2>1, <2>2 DEF User, UserStatuses
  <2>4. SeedRow(id) = FromDomain(u)
    BY DEF SeedRow
  <2> HIDE DEF u
  <2> QED BY <2>1, <2>3, <2>4, FromDomainRow
<1>2. /\ users \in [UserIds -> Row \union {NULL}]
      /\ \A id \in UserIds : users[id] # NULL => users[id].user.id = id
  BY <1>1 DEF Init
<1>3. now \in Times /\ started \in 0 .. MaxRequests /\ faults \in 0 .. MaxFaults
  BY StoreAssumption, ServiceAssumption DEF Init, Times
<1>4. banHistory \in Seq(BanEntry) /\ banWrites \in Seq(BanEntry)
  BY EmptySeq DEF Init
<1>5. StoresOK
  BY <1>2, <1>3, <1>4 DEF Init, StoresOK
<1>6. CallsOK /\ \A p \in Procs : LocalsOK(p)
  BY DEF Init, CallsOK, LocalsOK
<1> QED BY <1>5, <1>6, TypeOKParts

\* However many requests interleave and fail, every request holds what its next
\* database call needs, and every row the statements leave is one.
THEOREM UserServiceTyped == Spec => []TypeOK
<1>1. TypeOK /\ [Next]_vars => TypeOK'
  BY NextTyped
<1> QED BY <1>1, InitTyped, PTL DEF Spec
=============================================================================
