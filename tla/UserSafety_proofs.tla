-------------------------- MODULE UserSafety_proofs ---------------------------
(***************************************************************************)
(* What holds of the table users however requests race, for any number of  *)
(* requests, faults and ids.  The safety invariants are not inductive: a   *)
(* request stores a copy it read some steps earlier.  They become so with  *)
(* what is known of the copy about to be stored (CopiesFit) and of the     *)
(* user about to be banned (BansFit).  Then what the audit history tells   *)
(* of the bans and unbans that were made.                                  *)
(***************************************************************************)
EXTENDS UserService_proofs, FiniteSetTheorems

\* What the safety invariants say of one stored user.
Fit(u, time) ==
  /\ u.password[1] = "hash"
  /\ IsAdmin(u) => ~ SaysBanned(u.ban)
  /\ StatusFitsBan(u, time)

RowsFit == \A id \in Rows : Fit(users[id].user, now)

\* A copy about to be stored whole is fit to be, and has the role of its row.
CopyFits(p) ==
  pc[p] = "Update" =>
    /\ Fit(user[p], now)
    /\ user[p].role = users[user[p].id].user.role

\* The check BanUser made on its copy still holds of the row.
BanFits(p) == pc[p] = "Ban" => ~ IsAdmin(users[user[p].id].user)

IInv ==
  /\ TypeOK
  /\ FilterColumnsAgree
  /\ RowsFit
  /\ \A p \in Procs : CopyFits(p) /\ BanFits(p)

LEMMA RowsFitMeans ==
  RowsFit <=> PasswordsHashed /\ AdminsNotBanned /\ StatusMatchesBan
BY DEF RowsFit, Fit, PasswordsHashed, AdminsNotBanned, StatusMatchesBan

\* What a statement may do to a row.
RowStep(id) ==
  users'[id] = users[id] \/
    /\ users'[id] # NULL
    /\ ColumnsAgree(users'[id])
    /\ Fit(users'[id].user, now)
    /\ users[id] # NULL => users'[id].user.role = users[id].user.role

RolesStay == \A id \in Rows : users'[id].user.role = users[id].user.role

\* A step of p that respects its row and moves p to a call whose copy fits.
LEMMA SafeStep ==
  ASSUME IInv, TypeOK', NEW p \in Procs, now' = now,
         \A id \in UserIds : RowStep(id),
         \A q \in Procs \ {p} : pc'[q] = pc[q] /\ user'[q] = user[q],
         CopyFits(p)', BanFits(p)'
  PROVE  IInv' /\ RolesStay
<1>1. ASSUME NEW id \in UserIds, users'[id] # NULL
      PROVE  ColumnsAgree(users'[id]) /\ Fit(users'[id].user, now)
  BY <1>1 DEF RowStep, IInv, FilterColumnsAgree, RowsFit, Rows
<1>2. FilterColumnsAgree' /\ RowsFit'
  BY <1>1 DEF FilterColumnsAgree, RowsFit, Rows
<1>3. RolesStay
  BY DEF RowStep, RolesStay, Rows
<1>4. ASSUME NEW q \in Procs \ {p} PROVE CopyFits(q)' /\ BanFits(q)'
  <2>1. pc[q] \in {"Update", "Ban"} => user[q].id \in Rows
    <3>1. pc[q] \in {"Update", "Ban"} => pc[q] # "idle" /\ pc[q] # "Create"
      OBVIOUS
    <3> QED BY <3>1, CallingHolds, StoreAssumption DEF IInv, Rows
  <2>2. CopyFits(q) /\ BanFits(q)
    BY DEF IInv
  <2>3. pc'[q] = pc[q] /\ user'[q] = user[q]
    OBVIOUS
  <2> QED BY <1>3, <2>1, <2>2, <2>3 DEF CopyFits, BanFits, RolesStay, IsAdmin
<1> QED BY <1>2, <1>3, <1>4 DEF IInv

\* The request that moves, and those that do not.
LEMMA Moved ==
  ASSUME TypeOK, NEW p \in Procs
  PROVE  /\ \A c, u, x : Continue(p, c, u, x) =>
              /\ pc'[p] = c /\ user'[p] = u
              /\ \A q \in Procs \ {p} : pc'[q] = pc[q] /\ user'[q] = user[q]
         /\ \A code : Answer(p, code) =>
              /\ pc'[p] = "idle"
              /\ \A q \in Procs \ {p} : pc'[q] = pc[q] /\ user'[q] = user[q]
BY DEF TypeOK, Continue, Answer

\* Most steps move p to a call that needs nothing more.
GoesElsewhere(p) ==
  \/ \E code : Answer(p, code)
  \/ \E c, u, x : c \notin {"Update", "Ban"} /\ Continue(p, c, u, x)

LEMMA ElsewhereSafe ==
  ASSUME IInv, TypeOK', NEW p \in Procs, now' = now,
         \A id \in UserIds : RowStep(id), GoesElsewhere(p)
  PROVE  IInv' /\ RolesStay
<1>1. TypeOK
  BY DEF IInv
<1>2. /\ pc'[p] \notin {"Update", "Ban"}
      /\ \A q \in Procs \ {p} : pc'[q] = pc[q] /\ user'[q] = user[q]
  BY <1>1, Moved DEF GoesElsewhere
<1>3. CopyFits(p)' /\ BanFits(p)'
  BY <1>2 DEF CopyFits, BanFits
<1> QED BY <1>2, <1>3, SafeStep

\* A request that has just read a row may store a copy that fits and kept the role.
LEMMA CopySafe ==
  ASSUME IInv, TypeOK', NEW p \in Procs, now' = now, users' = users,
         NEW u, NEW x, Continue(p, "Update", u, x),
         Fit(u, now), u.role = users[u.id].user.role
  PROVE  IInv' /\ RolesStay
<1>1. TypeOK
  BY DEF IInv
<1>2. /\ pc'[p] = "Update" /\ user'[p] = u
      /\ \A q \in Procs \ {p} : pc'[q] = pc[q] /\ user'[q] = user[q]
  BY <1>1, Moved
<1>3. CopyFits(p)' /\ BanFits(p)'
  BY <1>2 DEF CopyFits, BanFits
<1>4. \A id \in UserIds : RowStep(id)
  BY DEF RowStep
<1> QED BY <1>2, <1>3, <1>4, SafeStep

\* One row is written.
LEMMA WriteSafe ==
  ASSUME IInv, TypeOK', NEW p \in Procs, now' = now, GoesElsewhere(p),
         NEW id \in UserIds, NEW row \in Row, users' = [users EXCEPT ![id] = row],
         ColumnsAgree(row), Fit(row.user, now),
         users[id] # NULL => row.user.role = users[id].user.role
  PROVE  IInv' /\ RolesStay
<1>1. row # NULL
  BY StoreAssumption
<1>2. \A i \in UserIds : users'[i] = IF i = id THEN row ELSE users[i]
  BY DEF IInv, TypeOK
<1>3. \A i \in UserIds : RowStep(i)
  BY <1>1, <1>2 DEF RowStep
<1> QED BY <1>3, ElsewhereSafe
-----------------------------------------------------------------------------
(***************************************************************************)
(* First statements: copies of visible rows.                               *)
(***************************************************************************)
LEMMA VisibleFits ==
  ASSUME IInv, NEW id \in UserIds, Visible(users, id)
  PROVE  /\ users[id] \in Row /\ users[id].user \in User /\ users[id].user.id = id
         /\ Fit(users[id].user, now)
<1>1. TypeOK /\ StoresOK
  BY TypeOKParts DEF IInv
<1>2. id \in Rows
  BY <1>1, VisibleRow DEF Rows
<1> QED BY <1>1, <1>2, VisibleRow DEF IInv, RowsFit

\* Striking an expired ban off a copy leaves it fit: the ban did run out.
LEMMA StrikeFits ==
  ASSUME NEW u \in User, NEW time \in Times, Fit(u, time)
  PROVE  Fit([StrikeExpired(u, time) EXCEPT !.lastLogin = time], time)
<1> DEFINE struck == StrikeExpired(u, time)
           login == [struck EXCEPT !.lastLogin = time]
<1> SUFFICES Fit(login, time)
  OBVIOUS
<1>1. /\ struck \in User /\ struck.role = u.role
      /\ struck.status = u.status /\ struck.password = u.password
      /\ \/ struck.ban = u.ban
         \/ /\ struck.ban \in BanInfo /\ ~ struck.ban.isBanned
            /\ Expired(struck.ban, time)
  BY StrikeExpiredUser
<1> HIDE DEF struck
<1>2. /\ login.role = u.role /\ login.status = u.status
      /\ login.password = u.password /\ login.ban = struck.ban
  BY <1>1 DEF User
<1> HIDE DEF login
<1>3. CASE struck.ban = u.ban
  BY <1>2, <1>3 DEF Fit, StatusFitsBan, IsAdmin
<1>4. CASE struck.ban \in BanInfo /\ ~ struck.ban.isBanned /\ Expired(struck.ban, time)
  <2>1. ~ SaysBanned(login.ban) /\ login.ban # NULL
    BY <1>2, <1>4, StoreAssumption DEF SaysBanned
  <2> QED BY <1>2, <1>4, <2>1 DEF Fit, StatusFitsBan, IsAdmin
<1> QED BY <1>1, <1>3, <1>4

LEMMA AuthenticateSafe ==
  ASSUME IInv, TypeOK', NEW p \in Procs, Authenticate(p)
  PROVE  IInv' /\ RolesStay
<1>1. now' = now /\ users' = users
  BY DEF Authenticate, Quiet, stores
<1>2. CASE \E code : Answer(p, code)
  BY <1>1, <1>2, ElsewhereSafe DEF RowStep, GoesElsewhere
<1>3. ASSUME NEW id \in UserIds, Visible(users, id),
             Continue(p, "Update",
               [StrikeExpired(users[id].user, now) EXCEPT !.lastLogin = now],
               [id |-> id, exp |-> now + TokenTTL])
      PROVE  IInv' /\ RolesStay
  <2> DEFINE struck == StrikeExpired(users[id].user, now)
             u == [struck EXCEPT !.lastLogin = now]
  <2>1. /\ users[id].user \in User /\ users[id].user.id = id
        /\ Fit(users[id].user, now)
    BY <1>3, VisibleFits
  <2>2. now \in Times
    BY DEF IInv, TypeOK
  <2>3. struck \in User /\ struck.id = id /\ struck.role = users[id].user.role
    BY <2>1, StrikeExpiredUser
  <2>4. Fit(u, now)
    BY <2>1, <2>2, StrikeFits
  <2>5. Continue(p, "Update", u, [id |-> id, exp |-> now + TokenTTL])
    BY <1>3
  <2> HIDE DEF struck
  <2>6. u.id = id /\ u.role = users[id].user.role
    BY <2>3 DEF User
  <2> HIDE DEF u
  <2> QED BY <1>1, <2>4, <2>5, <2>6, CopySafe
<1> QED BY <1>2, <1>3 DEF Authenticate, WithEmail

LEMMA DeleteUserSafe ==
  ASSUME IInv, TypeOK', NEW p \in Procs, DeleteUser(p)
  PROVE  IInv' /\ RolesStay
<1>1. now' = now /\ users' = users
  BY DEF DeleteUser, Quiet, stores
<1>2. CASE \E code : Answer(p, code)
  BY <1>1, <1>2, ElsewhereSafe DEF RowStep, GoesElsewhere
<1>3. ASSUME NEW id \in UserIds, Visible(users, id),
             Continue(p, "Update", [users[id].user EXCEPT !.status = "DELETED"], NULL)
      PROVE  IInv' /\ RolesStay
  <2> DEFINE u == [users[id].user EXCEPT !.status = "DELETED"]
  <2>1. /\ users[id].user \in User /\ users[id].user.id = id
        /\ Fit(users[id].user, now)
    BY <1>3, VisibleFits
  <2>2. /\ u.id = id /\ u.role = users[id].user.role /\ u.ban = users[id].user.ban
        /\ u.password = users[id].user.password /\ u.status = "DELETED"
    BY <2>1 DEF User
  <2>3. Continue(p, "Update", u, NULL)
    BY <1>3
  <2> HIDE DEF u
  <2>4. Fit(u, now)
    BY <2>1, <2>2 DEF Fit, StatusFitsBan, IsAdmin, BannedStatuses
  <2> QED BY <1>1, <2>2, <2>3, <2>4, CopySafe
<1> QED BY <1>2, <1>3 DEF DeleteUser, NotFound

LEMMA ChangePasswordSafe ==
  ASSUME IInv, TypeOK', NEW p \in Procs, ChangePassword(p)
  PROVE  IInv' /\ RolesStay
<1>1. now' = now /\ users' = users
  BY DEF ChangePassword, Quiet, stores
<1>2. CASE \E code : Answer(p, code)
  BY <1>1, <1>2, ElsewhereSafe DEF RowStep, GoesElsewhere
<1>3. ASSUME NEW id \in UserIds, NEW new \in Secrets, Visible(users, id),
             Continue(p, "Update",
               [users[id].user EXCEPT !.password = <<"hash", new>>], NULL)
      PROVE  IInv' /\ RolesStay
  <2> DEFINE u == [users[id].user EXCEPT !.password = <<"hash", new>>]
  <2>1. /\ users[id].user \in User /\ users[id].user.id = id
        /\ Fit(users[id].user, now)
    BY <1>3, VisibleFits
  <2>2. /\ u.id = id /\ u.role = users[id].user.role /\ u.ban = users[id].user.ban
        /\ u.password[1] = "hash" /\ u.status = users[id].user.status
    BY <2>1 DEF User
  <2>3. Continue(p, "Update", u, NULL)
    BY <1>3
  <2> HIDE DEF u
  <2>4. Fit(u, now)
    BY <2>1, <2>2 DEF Fit, StatusFitsBan, IsAdmin
  <2> QED BY <1>1, <2>2, <2>3, <2>4, CopySafe
<1> QED BY <1>2, <1>3 DEF ChangePassword, NotFound

\* BanUser checks the role on a copy; the role of the row is the same and stays.
LEMMA BanUserSafe ==
  ASSUME IInv, TypeOK', NEW p \in Procs, BanUser(p)
  PROVE  IInv' /\ RolesStay
<1>1. now' = now /\ users' = users
  BY DEF BanUser, Quiet, stores
<1>2. CASE \E code : Answer(p, code)
  BY <1>1, <1>2, ElsewhereSafe DEF RowStep, GoesElsewhere
<1>3. ASSUME NEW id \in UserIds, NEW ban, NEW status, Visible(users, id),
             ~ IsAdmin(users[id].user),
             Continue(p, "Ban",
               [users[id].user EXCEPT !.ban = ban, !.status = status], NULL)
      PROVE  IInv' /\ RolesStay
  <2> DEFINE u == [users[id].user EXCEPT !.ban = ban, !.status = status]
  <2>1. users[id].user \in User /\ users[id].user.id = id
    BY <1>3, VisibleFits
  <2>2. u.id = id
    BY <2>1 DEF User
  <2>3. Continue(p, "Ban", u, NULL)
    BY <1>3
  <2> HIDE DEF u
  <2>4. /\ pc'[p] = "Ban" /\ user'[p] = u
        /\ \A q \in Procs \ {p} : pc'[q] = pc[q] /\ user'[q] = user[q]
    BY <2>3, Moved DEF IInv
  <2>5. CopyFits(p)' /\ BanFits(p)'
    BY <1>1, <1>3, <2>2, <2>4 DEF CopyFits, BanFits, IsAdmin
  <2> QED BY <1>1, <2>4, <2>5, SafeStep DEF RowStep
<1> QED BY <1>2, <1>3 DEF BanUser, NotFound

LEMMA FirstSafe ==
  ASSUME IInv, TypeOK', NEW p \in Procs, First(p)
  PROVE  IInv' /\ RolesStay
<1>1. CASE \/ Authenticate(p) \/ DeleteUser(p) \/ ChangePassword(p) \/ BanUser(p)
  BY <1>1, AuthenticateSafe, DeleteUserSafe, ChangePasswordSafe, BanUserSafe
<1>2. ASSUME now' = now, users' = users, GoesElsewhere(p)
      PROVE  IInv' /\ RolesStay
  BY <1>2, ElsewhereSafe DEF RowStep
<1>3. CASE Register(p) \/ GetUserByEmail(p)
  BY <1>2, <1>3 DEF Register, GetUserByEmail, Quiet, stores, GoesElsewhere
<1>4. ASSUME NEW o, NEW id, NEW request, GetUser(p, o, id, request)
      PROVE  IInv' /\ RolesStay
  BY <1>2, <1>4 DEF GetUser, NotFound, Quiet, stores, GoesElsewhere
<1>5. CASE ValidateToken(p)
  <2>1. PICK token \in tokens :
          \/ GetUser(p, "ValidateToken", token.id, NULL)
          \/ Answer(p, "Unauthenticated") /\ Quiet
    BY <1>5 DEF ValidateToken
  <2> QED BY <1>2, <1>4, <2>1 DEF Quiet, stores, GoesElsewhere
<1>6. CASE GetUserById(p) \/ UpdateUser(p)
  BY <1>4, <1>6 DEF GetUserById, UpdateUser
<1>7. CASE UnbanUser(p) \/ UpdateSubscription(p) \/ CancelSubscription(p)
  <2>1. now' = now /\ users' = users
    BY <1>7 DEF UnbanUser, UpdateSubscription, CancelSubscription, Quiet, stores
  <2>2. GoesElsewhere(p)
    BY <1>7 DEF UnbanUser, UpdateSubscription, CancelSubscription, NotFound, GoesElsewhere
  <2> QED BY <1>2, <2>1, <2>2
<1> QED BY <1>1, <1>3, <1>5, <1>6, <1>7 DEF First
-----------------------------------------------------------------------------
(***************************************************************************)
(* Later statements.                                                       *)
(***************************************************************************)
LEMMA CreateSafe ==
  ASSUME IInv, TypeOK', NEW p \in Procs, Create(p)
  PROVE  IInv' /\ RolesStay
<1>1. pc[p] = "Create" /\ now' = now /\ TypeOK
  BY DEF Create, Calling, IInv
<1>2. PICK id \in UserIds :
        LET new == [id |-> id, email |-> aux[p].email, name |-> aux[p].name,
                    password |-> Hash(aux[p].password),
                    status |-> "ACTIVE", role |-> "USER",
                    ban |-> NULL, sub |-> NULL, lastLogin |-> NULL] IN
        /\ users[id] = NULL
        /\ \/ Answer(p, "Internal") /\ UNCHANGED users
           \/ /\ users' = [users EXCEPT ![id] = FromDomain(new)]
              /\ Continue(p, "LogActivity", new, NULL)
  BY DEF Create
<1> DEFINE new == [id |-> id, email |-> aux[p].email, name |-> aux[p].name,
                   password |-> Hash(aux[p].password),
                   status |-> "ACTIVE", role |-> "USER",
                   ban |-> NULL, sub |-> NULL, lastLogin |-> NULL]
<1>3. GoesElsewhere(p)
  BY <1>2 DEF GoesElsewhere
<1>4. CASE UNCHANGED users
  BY <1>1, <1>3, <1>4, ElsewhereSafe DEF RowStep
<1>5. CASE users' = [users EXCEPT ![id] = FromDomain(new)]
  <2>1. aux[p] \in Draft /\ aux[p].email # NULL /\ aux[p].name # NULL /\ aux[p].password # Blank
    BY <1>1, CallingHolds, ServiceAssumption DEF Holds
  <2>2. Hash(aux[p].password) \in Passwords
    <3>1. aux[p].password \in Passwords
      BY <2>1 DEF Draft
    <3> QED BY <3>1 DEF Hash, Passwords
  <2>3. new \in User
    BY <2>1, <2>2 DEF User, Draft, UserStatuses, UserRoles
  <2>4. Fit(new, now)
    BY DEF Fit, Hash, StatusFitsBan, SaysBanned, BannedStatuses
  <2> HIDE DEF new
  <2>5. /\ FromDomain(new) \in Row /\ FromDomain(new).user = new
        /\ ColumnsAgree(FromDomain(new))
    BY <2>3, FromDomainRow
  <2> QED BY <1>1, <1>2, <1>3, <1>5, <2>4, <2>5, WriteSafe
<1> QED BY <1>2, <1>4, <1>5

\* The copy is stored as it is: it was fit, and still is.
LEMMA UpdateSafe ==
  ASSUME IInv, TypeOK', NEW p \in Procs, Update(p)
  PROVE  IInv' /\ RolesStay
<1>1. pc[p] = "Update" /\ now' = now /\ TypeOK
  BY DEF Update, Calling, IInv
<1>2. user[p] \in User /\ user[p].id \in UserIds
  BY <1>1, CallingHolds
<1>3. Fit(user[p], now) /\ user[p].role = users[user[p].id].user.role
  BY <1>1 DEF IInv, CopyFits
<1>4. GoesElsewhere(p)
  BY DEF Update, AfterUpdate, UpdateFailed, GoesElsewhere
<1>5. CASE UNCHANGED users
  BY <1>1, <1>4, <1>5, ElsewhereSafe DEF RowStep
<1>6. CASE users' = [users EXCEPT ![user[p].id] = FromDomain(user[p])]
  <2>1. /\ FromDomain(user[p]) \in Row /\ FromDomain(user[p]).user = user[p]
        /\ ColumnsAgree(FromDomain(user[p]))
    BY <1>2, FromDomainRow
  <2> QED BY <1>1, <1>2, <1>3, <1>4, <1>6, <2>1, WriteSafe
<1> QED BY <1>5, <1>6 DEF Update

\* The row a statement that changes some columns finds.
LEMMA CallingRow ==
  ASSUME IInv, NEW p \in Procs, pc[p] \notin {"idle", "Create"}
  PROVE  /\ user[p] \in User /\ user[p].id \in UserIds
         /\ users[user[p].id] \in Row /\ users[user[p].id].user \in User
         /\ ColumnsAgree(users[user[p].id])
         /\ Fit(users[user[p].id].user, now)
<1>1. /\ user[p] \in User /\ user[p].id \in UserIds
      /\ users[user[p].id] \in Row
  BY CallingHolds DEF IInv
<1>2. user[p].id \in Rows
  BY <1>1, StoreAssumption DEF Rows
<1> QED BY <1>1, <1>2 DEF IInv, FilterColumnsAgree, RowsFit, Row

LEMMA BanSafe ==
  ASSUME IInv, TypeOK', NEW p \in Procs, Ban(p)
  PROVE  IInv' /\ RolesStay
<1> DEFINE id == user[p].id
           old == users[id].user
           row == BanRow(users[id], user[p].ban)
<1>1. pc[p] = "Ban" /\ now' = now /\ GoesElsewhere(p) /\ users' = [users EXCEPT ![id] = row]
  BY DEF Ban, Calling, GoesElsewhere
<1>2. /\ user[p] \in User /\ id \in UserIds /\ users[id] \in Row /\ old \in User
      /\ ColumnsAgree(users[id]) /\ Fit(old, now)
  BY <1>1, CallingRow
<1>3. user[p].ban \in BanInfo /\ user[p].ban.isBanned
  BY <1>1, <1>2, CallingHolds DEF IInv, Holds, User
<1>4. ~ IsAdmin(old)
  BY <1>1 DEF IInv, BanFits
<1>5. /\ row \in Row /\ ColumnsAgree(row)
      /\ row.user = [old EXCEPT !.ban = user[p].ban, !.status = BanStatus(user[p].ban)]
      /\ BanStatus(user[p].ban) \in BannedStatuses
  BY <1>2, <1>3, BanRowRow
<1> HIDE DEF row
<1>6. /\ row.user.role = old.role /\ row.user.password = old.password
      /\ row.user.ban = user[p].ban /\ row.user.status \in BannedStatuses
  BY <1>2, <1>5 DEF User
<1>7. user[p].ban # NULL
  BY <1>3, StoreAssumption
<1>8. Fit(row.user, now)
  BY <1>2, <1>3, <1>4, <1>6, <1>7 DEF Fit, StatusFitsBan, IsAdmin
<1> QED BY <1>1, <1>2, <1>5, <1>6, <1>8, WriteSafe

LEMMA UnbanSafe ==
  ASSUME IInv, TypeOK', NEW p \in Procs, Unban(p)
  PROVE  IInv' /\ RolesStay
<1> DEFINE id == user[p].id
           old == users[id].user
           row == UnbanRow(users[id])
<1>1. pc[p] = "Unban" /\ now' = now /\ GoesElsewhere(p) /\ users' = [users EXCEPT ![id] = row]
  BY DEF Unban, Calling, GoesElsewhere
<1>2. /\ id \in UserIds /\ users[id] \in Row /\ old \in User
      /\ ColumnsAgree(users[id]) /\ Fit(old, now)
  BY <1>1, CallingRow
<1>3. /\ row \in Row /\ ColumnsAgree(row)
      /\ row.user = [old EXCEPT !.ban = NULL, !.status = "ACTIVE"]
  BY <1>2, UnbanRowRow
<1> HIDE DEF row
<1>4. /\ row.user.role = old.role /\ row.user.password = old.password
      /\ row.user.ban = NULL /\ row.user.status = "ACTIVE"
  BY <1>2, <1>3 DEF User
<1>5. Fit(row.user, now)
  BY <1>2, <1>4 DEF Fit, StatusFitsBan, SaysBanned, BannedStatuses
<1> QED BY <1>1, <1>2, <1>3, <1>4, <1>5, WriteSafe

LEMMA WriteSubscriptionSafe ==
  ASSUME IInv, TypeOK', NEW p \in Procs, WriteSubscription(p)
  PROVE  IInv' /\ RolesStay
<1> DEFINE id == user[p].id
           old == users[id].user
           row == SubscriptionRow(users[id], user[p].sub)
<1>1. /\ pc[p] = "UpdateSubscription" /\ now' = now /\ GoesElsewhere(p)
      /\ users' = [users EXCEPT ![id] = row]
  BY DEF WriteSubscription, Calling, GoesElsewhere
<1>2. /\ user[p] \in User /\ id \in UserIds /\ users[id] \in Row /\ old \in User
      /\ ColumnsAgree(users[id]) /\ Fit(old, now)
  BY <1>1, CallingRow
<1>3. user[p].sub \in SubscriptionInfo \union {NULL}
  BY <1>2 DEF User
<1>4. /\ row \in Row /\ ColumnsAgree(row)
      /\ row.user = [old EXCEPT !.sub = user[p].sub]
  BY <1>2, <1>3, SubscriptionRowRow
<1> HIDE DEF row
<1>5. /\ row.user.role = old.role /\ row.user.password = old.password
      /\ row.user.ban = old.ban /\ row.user.status = old.status
  BY <1>2, <1>4 DEF User
<1>6. Fit(row.user, now)
  BY <1>2, <1>5 DEF Fit, StatusFitsBan, IsAdmin
<1> QED BY <1>1, <1>2, <1>4, <1>5, <1>6, WriteSafe

LEMMA FindByIDSafe ==
  ASSUME IInv, TypeOK', NEW p \in Procs, FindByID(p)
  PROVE  IInv' /\ RolesStay
<1> DEFINE id == user[p].id
           found == users[id].user
           u == TakeAllowed(found, aux[p])
<1>1. pc[p] = "FindByID" /\ now' = now /\ users' = users /\ TypeOK
  BY DEF FindByID, Calling, stores, IInv
<1>2. CASE \E code : Answer(p, code)
  BY <1>1, <1>2, ElsewhereSafe DEF RowStep, GoesElsewhere
<1>3. CASE Visible(users, id) /\ Continue(p, "Update", u, aux[p])
  <2>1. id \in UserIds
    BY <1>1, CallingHolds
  <2>2. op[p] = "UpdateUser" /\ aux[p] \in FullDraft
    BY <1>1, CallingHolds, Callers DEF Holds
  <2>3. found \in User /\ found.id = id /\ Fit(found, now)
    BY <1>3, <2>1, VisibleFits
  <2>4. /\ u.id = id /\ u.role = found.role /\ u.status = found.status
        /\ u.ban = found.ban
        /\ u.password = found.password \/ u.password[1] = "hash"
    BY <2>2, <2>3, TakeAllowedUser
  <2> HIDE DEF u
  <2>5. Fit(u, now)
    BY <2>3, <2>4 DEF Fit, StatusFitsBan, IsAdmin
  <2> QED BY <1>1, <1>3, <2>4, <2>5, CopySafe
<1> QED BY <1>2, <1>3 DEF FindByID

\* MongoDB calls do not touch the table.
LEMMA StepSafe ==
  ASSUME IInv, TypeOK', NEW p \in Procs, Step(p)
  PROVE  IInv' /\ RolesStay
<1>1. CASE GetMetadata(p)
  <2>1. now' = now /\ users' = users /\ GoesElsewhere(p)
    BY <1>1 DEF GetMetadata, Calling, stores, AfterGetUser, GoesElsewhere
  <2> QED BY <2>1, ElsewhereSafe DEF RowStep
<1>2. CASE ReadMetadata(p) \/ SaveMetadata(p) \/ LogBanChange(p) \/ LogSubscriptionChange(p)
  <2>1. now' = now /\ users' = users /\ GoesElsewhere(p)
    BY <1>2 DEF ReadMetadata, SaveMetadata, LogBanChange, LogSubscriptionChange,
                Calling, stores, GoesElsewhere
  <2> QED BY <2>1, ElsewhereSafe DEF RowStep
<1>3. CASE LogActivity(p)
  <2>1. now' = now /\ users' = users /\ GoesElsewhere(p)
    BY <1>3 DEF LogActivity, Finish, Calling, GoesElsewhere
  <2> QED BY <2>1, ElsewhereSafe DEF RowStep
<1> QED BY <1>1, <1>2, <1>3, CreateSafe, FindByIDSafe, UpdateSafe, BanSafe, UnbanSafe,
           WriteSubscriptionSafe DEF Step
-----------------------------------------------------------------------------
(***************************************************************************)
(* Faults, and the clock: an expired ban stays expired.                    *)
(***************************************************************************)
LEMMA FaultSafe ==
  ASSUME IInv, TypeOK', NEW p \in Procs,
         FirstFails(p) \/ PostgresFails(p) \/ MongoFails(p)
  PROVE  IInv' /\ RolesStay
<1>1. now' = now /\ users' = users
  BY DEF FirstFails, PostgresFails, MongoFails, Quiet, stores
<1>2. GoesElsewhere(p)
  BY DEF FirstFails, PostgresFails, UpdateFailed, MongoFails, AfterGetUser, Finish,
         GoesElsewhere
<1> QED BY <1>1, <1>2, ElsewhereSafe DEF RowStep

LEMMA DieSafe ==
  ASSUME IInv, TypeOK', Die
  PROVE  IInv' /\ RolesStay
<1>1. now' = now /\ users' = users
  BY DEF Die, Quiet, stores
<1>2. FilterColumnsAgree' /\ RowsFit' /\ RolesStay
  BY <1>1 DEF IInv, FilterColumnsAgree, RowsFit, RolesStay, Rows
<1>3. \A p \in Procs : pc'[p] = "idle"
  BY DEF Die
<1> QED BY <1>2, <1>3 DEF IInv, CopyFits, BanFits

LEMMA FitLater ==
  ASSUME NEW u \in User, NEW time \in Times, Fit(u, time), time + 1 \in Times
  PROVE  Fit(u, time + 1)
<1>1. \A ban \in BanInfo : Expired(ban, time) => Expired(ban, time + 1)
  BY StoreAssumption DEF Expired, BanInfo, Times
<1>2. u.ban # NULL => u.ban \in BanInfo
  BY DEF User
<1> QED BY <1>1, <1>2 DEF Fit, StatusFitsBan

LEMMA TickSafe ==
  ASSUME IInv, TypeOK', Tick
  PROVE  IInv' /\ RolesStay
<1>1. /\ now \in Times /\ now' \in Times /\ now' = now + 1
      /\ users' = users /\ pc' = pc /\ user' = user
  BY DEF Tick, IInv, TypeOK, stores, local
<1>2. \A u \in User : Fit(u, now) => Fit(u, now')
  BY <1>1, FitLater
<1>3. \A id \in Rows : users[id].user \in User
  BY DEF IInv, TypeOK, Rows, Row
<1>4. FilterColumnsAgree' /\ RowsFit' /\ RolesStay
  BY <1>1, <1>2, <1>3 DEF IInv, FilterColumnsAgree, RowsFit, RolesStay, Rows
<1>5. \A p \in Procs : pc[p] = "Update" => user[p] \in User
  BY CallingHolds DEF IInv
<1>6. \A p \in Procs : CopyFits(p)' /\ BanFits(p)'
  BY <1>1, <1>2, <1>5 DEF IInv, CopyFits, BanFits
<1> QED BY <1>4, <1>6 DEF IInv

LEMMA NextSafe ==
  ASSUME IInv, [Next]_vars
  PROVE  IInv' /\ RolesStay
<1>1. TypeOK'
  BY NextTyped DEF IInv
<1>2. CASE UNCHANGED vars
  <2>1. now' = now /\ users' = users /\ pc' = pc /\ user' = user
    BY <1>2 DEF vars, stores, local
  <2>2. FilterColumnsAgree' /\ RowsFit' /\ RolesStay
    BY <2>1 DEF IInv, FilterColumnsAgree, RowsFit, RolesStay, Rows
  <2>3. \A p \in Procs : CopyFits(p)' /\ BanFits(p)'
    BY <2>1 DEF IInv, CopyFits, BanFits
  <2> QED BY <1>1, <2>2, <2>3 DEF IInv
<1> QED BY <1>1, <1>2, FirstSafe, StepSafe, FaultSafe, DieSafe, TickSafe
        DEF Next, Fault, Crash, HealthCheck, AtRest

LEMMA InitSafe ==
  ASSUME Init PROVE IInv
<1>1. ASSUME NEW id \in DOMAIN Seed
      PROVE  ColumnsAgree(SeedRow(id)) /\ Fit(SeedRow(id).user, 0)
  <2> DEFINE u == [id |-> id, email |-> Seed[id].email, name |-> Seed[id].name,
                   password |-> <<"hash", Seed[id].secret>>,
                   status |-> "ACTIVE", role |-> Seed[id].role,
                   ban |-> NULL, sub |-> NULL, lastLogin |-> NULL]
  <2>1. SeedRow(id) = FromDomain(u)
    BY DEF SeedRow
  <2>2. Fit(u, 0)
    BY DEF Fit, StatusFitsBan, SaysBanned, BannedStatuses
  <2> HIDE DEF u
  <2> QED BY <2>1, <2>2 DEF FromDomain, ColumnsAgree
<1>2. FilterColumnsAgree /\ RowsFit
  BY <1>1 DEF Init, FilterColumnsAgree, RowsFit, Rows
<1> QED BY <1>2, InitTyped DEF Init, IInv, CopyFits, BanFits

LEMMA Safe == Spec => []IInv
<1>1. IInv /\ [Next]_vars => IInv'
  BY NextSafe
<1> QED BY <1>1, InitSafe, PTL DEF Spec

\* The filter columns and the JSON columns of a row agree, whichever statements
\* of whichever requests wrote them.
THEOREM UserFilterColumnsAgree == Spec => []FilterColumnsAgree
BY Safe, PTL DEF IInv

\* No race, fault or stale copy stores a blank or plain password.
THEOREM UserPasswordsHashed == Spec => []PasswordsHashed
BY Safe, RowsFitMeans, PTL DEF IInv

\* No race leaves a ban without a banned status, or a banned status without a ban.
THEOREM UserStatusMatchesBan == Spec => []StatusMatchesBan
BY Safe, RowsFitMeans, PTL DEF IInv

\* No interleaving of BanUser with other requests bans an administrator.
THEOREM UserAdminsNotBanned == Spec => []AdminsNotBanned
BY Safe, RowsFitMeans, PTL DEF IInv

\* No step of any request changes the role of a row.
THEOREM UserRolesStay == Spec => RolesNeverChange
<1>1. IInv /\ [Next]_vars =>
        [\A id \in Rows : users'[id].user.role = users[id].user.role]_vars
  BY NextSafe DEF RolesStay
<1> QED BY <1>1, Safe, PTL DEF Spec, RolesNeverChange
-----------------------------------------------------------------------------
(***************************************************************************)
(* ban_history: each Ban and Unban statement has its entry, or a request   *)
(* that is about to add it, or a fault that lost it.                       *)
(***************************************************************************)

\* The entry a request about to call LogBanChange will add.
EntryOf(p) == [user |-> user[p].id, action |-> BanAction(op[p])]

Accounted(entry) ==
  LET logged == Occurrences(banHistory, entry) + Cardinality(AboutToLog(entry))
      written == Occurrences(banWrites, entry)
  IN  logged <= written /\ (faults = 0 => logged = written)

\* BanHistoryAccounts, with what makes its numbers numbers.
HistoryInv ==
  \A entry \in BanEntry : IsFiniteSet(AboutToLog(entry)) /\ Accounted(entry)

\* The requests that do not move.
OthersStay(p) ==
  \A q \in Procs \ {p} : pc'[q] = pc[q] /\ op'[q] = op[q] /\ user'[q] = user[q]

LEMMA OccurrencesAppend ==
  ASSUME NEW history \in Seq(BanEntry), NEW entry, NEW other \in BanEntry
  PROVE  /\ Occurrences(history, entry) \in Nat
         /\ Occurrences(Append(history, other), entry)
              = Occurrences(history, entry) + (IF other = entry THEN 1 ELSE 0)
<1> DEFINE S == {i \in DOMAIN history : history[i] = entry}
           T == {i \in DOMAIN Append(history, other) : Append(history, other)[i] = entry}
           n == Len(history) + 1
<1>1. /\ DOMAIN history = 1 .. Len(history) /\ Len(history) \in Nat
      /\ DOMAIN Append(history, other) = 1 .. n
      /\ Append(history, other)[n] = other
      /\ \A i \in 1 .. Len(history) : Append(history, other)[i] = history[i]
  BY AppendProperties, LenProperties
<1>2. IsFiniteSet(S)
  <2>1. IsFiniteSet(1 .. Len(history)) /\ S \subseteq 1 .. Len(history)
    BY <1>1, FS_Interval
  <2> QED BY <2>1, FS_Subset
<1>3. T = IF other = entry THEN S \union {n} ELSE S
  BY <1>1
<1>4. n \notin S
  BY <1>1
<1>5. Occurrences(history, entry) = Cardinality(S)
      /\ Occurrences(Append(history, other), entry) = Cardinality(T)
  BY DEF Occurrences
<1> HIDE DEF S, T, n
<1>6. Cardinality(S) \in Nat /\ Cardinality(S \union {n}) = Cardinality(S) + 1
  BY <1>2, <1>4, FS_AddElement, FS_CardinalityType
<1> QED BY <1>3, <1>5, <1>6

LEMMA AboutToLogMeans ==
  ASSUME NEW entry \in BanEntry
  PROVE  AboutToLog(entry) = {p \in Procs : pc[p] = "LogBanChange" /\ user[p].id = entry.user
                                              /\ entry.action = BanAction(op[p])}
BY DEF AboutToLog, BanAction

\* A request that is about to log belongs to one entry.
LEMMA OneEntry ==
  ASSUME TypeOK, NEW p \in Procs, pc[p] = "LogBanChange"
  PROVE  /\ EntryOf(p) \in BanEntry
         /\ \A entry \in BanEntry : p \in AboutToLog(entry) <=> entry = EntryOf(p)
<1>1. user[p].id \in UserIds
  BY CallingHolds
<1>2. EntryOf(p) \in BanEntry
  BY <1>1 DEF EntryOf, BanEntry, BanAction
<1>3. ASSUME NEW entry \in BanEntry
      PROVE  p \in AboutToLog(entry) <=> entry = EntryOf(p)
  <2>1. entry = EntryOf(p) <=> entry.user = user[p].id /\ entry.action = BanAction(op[p])
    BY DEF EntryOf, BanEntry
  <2> QED BY <2>1, AboutToLogMeans
<1> QED BY <1>2, <1>3

\* Steps that neither decide nor log: whoever was about to log was kept from it by a fault.
Passes(p) ==
  /\ OthersStay(p) /\ pc'[p] # "LogBanChange"
  /\ UNCHANGED <<banHistory, banWrites>>
  /\ faults' \in {faults, faults + 1}
  /\ pc[p] = "LogBanChange" => faults' = faults + 1

LEMMA PassesAccounted ==
  ASSUME TypeOK, TypeOK', HistoryInv, NEW p \in Procs, Passes(p)
  PROVE  HistoryInv'
<1> SUFFICES ASSUME NEW entry \in BanEntry
             PROVE  IsFiniteSet(AboutToLog(entry)') /\ Accounted(entry)'
  BY DEF HistoryInv
<1>1. AboutToLog(entry)' = AboutToLog(entry) \ {p}
  BY DEF AboutToLog, Passes, OthersStay
<1>2. IsFiniteSet(AboutToLog(entry)) /\ Accounted(entry)
  BY DEF HistoryInv
<1>3. /\ IsFiniteSet(AboutToLog(entry) \ {p})
      /\ Cardinality(AboutToLog(entry)) \in Nat
      /\ Cardinality(AboutToLog(entry) \ {p}) \in Nat
      /\ Cardinality(AboutToLog(entry) \ {p}) <= Cardinality(AboutToLog(entry))
  BY <1>2, FS_RemoveElement, FS_CardinalityType, FS_Subset
<1>4. pc[p] # "LogBanChange" => AboutToLog(entry) \ {p} = AboutToLog(entry)
  BY DEF AboutToLog
<1>5. Occurrences(banHistory, entry) \in Nat /\ Occurrences(banWrites, entry) \in Nat
  BY OccurrencesAppend DEF TypeOK
<1>6. faults \in Nat /\ banHistory' = banHistory /\ banWrites' = banWrites
  BY DEF TypeOK, Passes
<1>7. /\ Occurrences(banHistory, entry)' = Occurrences(banHistory, entry)
      /\ Occurrences(banWrites, entry)' = Occurrences(banWrites, entry)
  BY <1>6 DEF Occurrences
<1>8. CASE pc[p] = "LogBanChange"
  <2>1. faults' # 0
    BY <1>6, <1>8 DEF Passes
  <2> QED BY <1>1, <1>2, <1>3, <1>5, <1>7, <2>1 DEF Accounted
<1>9. CASE pc[p] # "LogBanChange"
  <2>1. faults' = 0 => faults = 0
    BY <1>6 DEF Passes
  <2> QED BY <1>1, <1>2, <1>3, <1>4, <1>5, <1>7, <1>9, <2>1 DEF Accounted
<1> QED BY <1>3, <1>1, <1>8, <1>9

\* A decision: its statement ran, and its request is about to log it.
LEMMA DecisionAccounted ==
  ASSUME TypeOK, TypeOK', HistoryInv, NEW p \in Procs,
         OthersStay(p), pc[p] # "LogBanChange", pc'[p] = "LogBanChange",
         EntryOf(p)' \in BanEntry,
         banHistory' = banHistory, banWrites' = Append(banWrites, EntryOf(p)'),
         faults' = faults
  PROVE  HistoryInv'
<1> SUFFICES ASSUME NEW entry \in BanEntry
             PROVE  IsFiniteSet(AboutToLog(entry)') /\ Accounted(entry)'
  BY DEF HistoryInv
<1> DEFINE one == IF EntryOf(p)' = entry THEN 1 ELSE 0
<1>1. /\ EntryOf(p)' \in BanEntry
      /\ p \in AboutToLog(entry)' <=> entry = EntryOf(p)'
  <2>1. entry = EntryOf(p)' <=> entry.user = user'[p].id /\ entry.action = BanAction(op'[p])
    BY DEF EntryOf, BanEntry
  <2> QED BY <2>1 DEF AboutToLog, BanAction
<1>2. p \notin AboutToLog(entry)
  BY DEF AboutToLog
<1>3. AboutToLog(entry)' = IF EntryOf(p)' = entry THEN AboutToLog(entry) \union {p}
                                                  ELSE AboutToLog(entry)
  <2>1. \A q \in Procs \ {p} : q \in AboutToLog(entry)' <=> q \in AboutToLog(entry)
    BY DEF AboutToLog, OthersStay
  <2>2. AboutToLog(entry) \subseteq Procs /\ AboutToLog(entry)' \subseteq Procs
    BY DEF AboutToLog
  <2>3. \A q \in Procs : q \in AboutToLog(entry)' <=>
          q \in AboutToLog(entry) \/ (q = p /\ EntryOf(p)' = entry)
    BY <1>1, <1>2, <2>1
  <2> QED BY <2>2, <2>3
<1>4. IsFiniteSet(AboutToLog(entry)) /\ Accounted(entry)
  BY DEF HistoryInv
<1>5. /\ Cardinality(AboutToLog(entry)) \in Nat
      /\ IsFiniteSet(AboutToLog(entry) \union {p})
      /\ Cardinality(AboutToLog(entry) \union {p}) = Cardinality(AboutToLog(entry)) + 1
  BY <1>2, <1>4, FS_AddElement, FS_CardinalityType
<1>6. /\ IsFiniteSet(AboutToLog(entry)')
      /\ Cardinality(AboutToLog(entry)') = Cardinality(AboutToLog(entry)) + one
  BY <1>3, <1>4, <1>5
<1>7. /\ Occurrences(banWrites, entry) \in Nat
      /\ Occurrences(banWrites', entry) = Occurrences(banWrites, entry) + one
  <2>1. banWrites \in Seq(BanEntry)
    BY DEF TypeOK
  <2> QED BY <1>1, <2>1, OccurrencesAppend
<1>8. Occurrences(banHistory, entry) \in Nat
  BY OccurrencesAppend, <1>1 DEF TypeOK
<1> HIDE DEF one
<1>9. /\ Occurrences(banHistory, entry)' = Occurrences(banHistory, entry)
      /\ Occurrences(banWrites, entry)' = Occurrences(banWrites', entry)
      /\ Cardinality(AboutToLog(entry))' = Cardinality(AboutToLog(entry)')
  BY DEF Occurrences
<1>10. one \in {0, 1}
  BY DEF one
<1> QED BY <1>4, <1>5, <1>6, <1>7, <1>8, <1>9, <1>10 DEF Accounted

\* The log: the entry moves from a request about to add it to the history.
LEMMA LoggedAccounted ==
  ASSUME TypeOK, HistoryInv, NEW p \in Procs,
         OthersStay(p), pc[p] = "LogBanChange", pc'[p] # "LogBanChange",
         banHistory' = Append(banHistory, EntryOf(p)), banWrites' = banWrites,
         faults' = faults
  PROVE  HistoryInv'
<1> SUFFICES ASSUME NEW entry \in BanEntry
             PROVE  IsFiniteSet(AboutToLog(entry)') /\ Accounted(entry)'
  BY DEF HistoryInv
<1> DEFINE one == IF EntryOf(p) = entry THEN 1 ELSE 0
<1>1. EntryOf(p) \in BanEntry /\ (p \in AboutToLog(entry) <=> entry = EntryOf(p))
  BY OneEntry
<1>2. AboutToLog(entry)' = AboutToLog(entry) \ {p}
  BY DEF AboutToLog, OthersStay
<1>3. IsFiniteSet(AboutToLog(entry)) /\ Accounted(entry)
  BY DEF HistoryInv
<1>4. /\ IsFiniteSet(AboutToLog(entry) \ {p})
      /\ Cardinality(AboutToLog(entry)) \in Nat
      /\ Cardinality(AboutToLog(entry) \ {p}) \in Nat
      /\ p \in AboutToLog(entry) =>
           Cardinality(AboutToLog(entry) \ {p}) = Cardinality(AboutToLog(entry)) - 1
  BY <1>3, FS_RemoveElement, FS_CardinalityType
<1>5. p \notin AboutToLog(entry) => AboutToLog(entry) \ {p} = AboutToLog(entry)
  OBVIOUS
<1>6. Cardinality(AboutToLog(entry)) = Cardinality(AboutToLog(entry) \ {p}) + one
  <2> DEFINE before == Cardinality(AboutToLog(entry))
             after == Cardinality(AboutToLog(entry) \ {p})
  <2>1. before \in Nat /\ after \in Nat
    BY <1>4
  <2>2. p \in AboutToLog(entry) => after = before - 1 /\ one = 1
    BY <1>1, <1>4
  <2>3. p \notin AboutToLog(entry) => after = before /\ one = 0
    BY <1>1, <1>5
  <2> HIDE DEF before, after, one
  <2>4. before = after + one
    BY <2>1, <2>2, <2>3
  <2> QED BY <2>4 DEF before, after
<1>7. /\ Occurrences(banHistory, entry) \in Nat
      /\ Occurrences(banHistory', entry) = Occurrences(banHistory, entry) + one
  <2>1. banHistory \in Seq(BanEntry)
    BY DEF TypeOK
  <2> QED BY <1>1, <2>1, OccurrencesAppend
<1>8. Occurrences(banWrites, entry) \in Nat
  BY OccurrencesAppend, <1>1 DEF TypeOK
<1>9. /\ Occurrences(banHistory, entry)' = Occurrences(banHistory', entry)
      /\ Occurrences(banWrites, entry)' = Occurrences(banWrites, entry)
      /\ Cardinality(AboutToLog(entry))' = Cardinality(AboutToLog(entry)')
  BY DEF Occurrences
<1>10. one \in {0, 1}
  OBVIOUS
<1> HIDE DEF one
<1> QED BY <1>2, <1>3, <1>4, <1>6, <1>7, <1>8, <1>9, <1>10 DEF Accounted

\* All requests in progress are gone, and the histories stay as they are.
LEMMA GoneAccounted ==
  ASSUME TypeOK, HistoryInv, \A p \in Procs : pc'[p] # "LogBanChange",
         UNCHANGED <<banHistory, banWrites>>, faults' = faults + 1
  PROVE  HistoryInv'
<1> SUFFICES ASSUME NEW entry \in BanEntry
             PROVE  IsFiniteSet(AboutToLog(entry)') /\ Accounted(entry)'
  BY DEF HistoryInv
<1>1. AboutToLog(entry)' = {}
  BY DEF AboutToLog
<1>2. /\ IsFiniteSet(AboutToLog(entry)') /\ Cardinality(AboutToLog(entry))' = 0
  BY <1>1, FS_EmptySet
<1>3. IsFiniteSet(AboutToLog(entry)) /\ Accounted(entry)
  BY DEF HistoryInv
<1>4. Cardinality(AboutToLog(entry)) \in Nat
  BY <1>3, FS_CardinalityType
<1>5. Occurrences(banHistory, entry) \in Nat /\ Occurrences(banWrites, entry) \in Nat
  BY OccurrencesAppend DEF TypeOK
<1>6. /\ Occurrences(banHistory, entry)' = Occurrences(banHistory, entry)
      /\ Occurrences(banWrites, entry)' = Occurrences(banWrites, entry)
  BY DEF Occurrences
<1>7. faults \in Nat /\ faults' # 0
  BY DEF TypeOK
<1> QED BY <1>2, <1>3, <1>4, <1>5, <1>6, <1>7 DEF Accounted

\* Nothing the history is about moves.
LEMMA StillAccounted ==
  ASSUME HistoryInv, UNCHANGED <<pc, op, user, banHistory, banWrites, faults>>
  PROVE  HistoryInv'
<1>1. \A entry \in BanEntry :
        /\ AboutToLog(entry)' = AboutToLog(entry)
        /\ Occurrences(banHistory, entry)' = Occurrences(banHistory, entry)
        /\ Occurrences(banWrites, entry)' = Occurrences(banWrites, entry)
  BY DEF AboutToLog, Occurrences
<1> QED BY <1>1 DEF HistoryInv, Accounted
-----------------------------------------------------------------------------
(***************************************************************************)
(* The actions.                                                            *)
(***************************************************************************)

\* A step of p moves the locals of p only.
LEMMA StepMoves ==
  ASSUME TypeOK, NEW p \in Procs,
         op' = op \/ \E o : op' = [op EXCEPT ![p] = o]
  PROVE  /\ \A c, u, x : Continue(p, c, u, x) =>
              OthersStay(p) /\ pc'[p] = c /\ user'[p] = u
         /\ \A code : Answer(p, code) => OthersStay(p) /\ pc'[p] = "idle"
<1>1. \A q \in Procs \ {p} : op'[q] = op[q]
  BY DEF TypeOK
<1> QED BY <1>1, Moved DEF OthersStay

LEMMA FirstPasses ==
  ASSUME TypeOK, NEW p \in Procs, First(p) \/ FirstFails(p)
  PROVE  Passes(p)
<1>1. /\ pc[p] = "idle" /\ \E o : op' = [op EXCEPT ![p] = o]
      /\ faults' \in {faults, faults + 1} /\ Quiet
  BY DEF First, FirstFails, Register, GetUserById, GetUserByEmail, ValidateToken, UpdateUser,
         GetUser, Authenticate, DeleteUser, ChangePassword, BanUser, UnbanUser,
         UpdateSubscription, CancelSubscription, Start
<1>2. \/ \E code : Answer(p, code)
      \/ \E c, u, x : c # "LogBanChange" /\ Continue(p, c, u, x)
  BY DEF First, FirstFails, Register, GetUserById, GetUserByEmail, ValidateToken, UpdateUser,
         GetUser, Authenticate, DeleteUser, ChangePassword, BanUser, UnbanUser,
         UpdateSubscription, CancelSubscription, NotFound
<1>3. OthersStay(p) /\ pc'[p] # "LogBanChange"
  BY <1>1, <1>2, StepMoves
<1> QED BY <1>1, <1>3 DEF Passes, Quiet, stores

\* The calls that neither decide about a ban nor log one.
OtherCall(p) ==
  \/ Create(p) \/ FindByID(p) \/ Update(p) \/ WriteSubscription(p)
  \/ GetMetadata(p) \/ ReadMetadata(p) \/ SaveMetadata(p)
  \/ LogSubscriptionChange(p) \/ LogActivity(p)

LEMMA OtherCallPasses ==
  ASSUME TypeOK, NEW p \in Procs, OtherCall(p)
  PROVE  Passes(p)
<1>1. /\ pc[p] # "LogBanChange" /\ op' = op /\ faults' = faults
      /\ UNCHANGED <<banHistory, banWrites>>
  BY DEF OtherCall, Create, FindByID, Update, WriteSubscription, GetMetadata, ReadMetadata,
         SaveMetadata, LogSubscriptionChange, LogActivity, Calling, stores, bounds
<1>2. \/ \E code : Answer(p, code)
      \/ \E c, u, x : c # "LogBanChange" /\ Continue(p, c, u, x)
  BY DEF OtherCall, Create, FindByID, Update, WriteSubscription, GetMetadata, ReadMetadata,
         SaveMetadata, LogSubscriptionChange, LogActivity, UpdateFailed, AfterUpdate,
         AfterGetUser, Finish
<1>3. OthersStay(p) /\ pc'[p] # "LogBanChange"
  BY <1>1, <1>2, StepMoves
<1> QED BY <1>1, <1>3 DEF Passes

LEMMA FailurePasses ==
  ASSUME TypeOK, NEW p \in Procs, PostgresFails(p) \/ MongoFails(p)
  PROVE  Passes(p)
<1>1. op' = op /\ faults' = faults + 1 /\ UNCHANGED <<banHistory, banWrites>>
  BY DEF PostgresFails, MongoFails, Quiet, stores
<1>2. \/ \E code : Answer(p, code)
      \/ \E c, u, x : c # "LogBanChange" /\ Continue(p, c, u, x)
  BY DEF PostgresFails, MongoFails, UpdateFailed, AfterGetUser, Finish
<1>3. OthersStay(p) /\ pc'[p] # "LogBanChange"
  BY <1>1, <1>2, StepMoves
<1> QED BY <1>1, <1>3 DEF Passes

LEMMA BanAccounted ==
  ASSUME TypeOK, TypeOK', HistoryInv, NEW p \in Procs, Ban(p) \/ Unban(p)
  PROVE  HistoryInv'
<1>1. /\ pc[p] \in {"Ban", "Unban"} /\ op' = op /\ faults' = faults
      /\ banHistory' = banHistory
      /\ Continue(p, "LogBanChange", user[p], NULL)
  BY DEF Ban, Unban, Calling, bounds
<1>2. OthersStay(p) /\ pc'[p] = "LogBanChange" /\ user'[p] = user[p]
  BY <1>1, StepMoves
<1>3. pc[p] \in CallsOf(op[p]) /\ user[p].id \in UserIds
  BY <1>1, CallingHolds DEF Holds
<1>4. /\ pc[p] = "Ban" => op[p] = "BanUser"
      /\ pc[p] = "Unban" => op[p] = "UnbanUser"
  BY <1>3, Callers
<1>5. EntryOf(p)' = [user |-> user[p].id, action |-> IF pc[p] = "Ban" THEN "ban" ELSE "unban"]
  BY <1>1, <1>2, <1>4 DEF EntryOf, BanAction
<1>6. EntryOf(p)' \in BanEntry
  BY <1>3, <1>5 DEF BanEntry
<1>7. banWrites' = Append(banWrites, EntryOf(p)')
  BY <1>5 DEF Ban, Unban, Calling
<1> QED BY <1>1, <1>2, <1>6, <1>7, DecisionAccounted

LEMMA LogBanChangeAccounted ==
  ASSUME TypeOK, HistoryInv, NEW p \in Procs, LogBanChange(p)
  PROVE  HistoryInv'
<1>1. /\ pc[p] = "LogBanChange" /\ op' = op /\ faults' = faults /\ banWrites' = banWrites
      /\ Continue(p, "LogActivity", user[p], NULL)
      /\ banHistory' = Append(banHistory, EntryOf(p))
  BY DEF LogBanChange, Calling, bounds, EntryOf
<1>2. OthersStay(p) /\ pc'[p] = "LogActivity"
  BY <1>1, StepMoves
<1> QED BY <1>1, <1>2, LoggedAccounted

LEMMA NextAccounted ==
  ASSUME TypeOK, TypeOK', HistoryInv, [Next]_vars
  PROVE  HistoryInv'
<1>1. ASSUME NEW p \in Procs, Step(p) PROVE HistoryInv'
  BY <1>1, OtherCallPasses, PassesAccounted, BanAccounted, LogBanChangeAccounted
     DEF Step, OtherCall
<1>2. ASSUME NEW p \in Procs, First(p) \/ FirstFails(p) \/ PostgresFails(p) \/ MongoFails(p)
      PROVE  HistoryInv'
  BY <1>2, FirstPasses, FailurePasses, PassesAccounted
<1>3. CASE Die
  BY <1>3, GoneAccounted DEF Die, Quiet, stores
<1>4. CASE Tick \/ UNCHANGED vars
  BY <1>4, StillAccounted DEF Tick, vars, stores, local, bounds
<1> QED BY <1>1, <1>2, <1>3, <1>4 DEF Next, Fault, Crash, HealthCheck, AtRest

LEMMA InitAccounted ==
  ASSUME Init PROVE HistoryInv
<1> SUFFICES ASSUME NEW entry \in BanEntry
             PROVE  IsFiniteSet(AboutToLog(entry)) /\ Accounted(entry)
  BY DEF HistoryInv
<1>1. AboutToLog(entry) = {}
  BY DEF Init, AboutToLog
<1>2. Occurrences(banHistory, entry) = 0 /\ Occurrences(banWrites, entry) = 0
  <2>1. {i \in DOMAIN << >> : << >>[i] = entry} = {}
    OBVIOUS
  <2> QED BY <2>1, FS_EmptySet DEF Init, Occurrences
<1> QED BY <1>1, <1>2, FS_EmptySet DEF Accounted

\* Every ban and unban that was stored has its entry in the audit history or a request about
\* to add it, unless a fault lost it, and nothing else has: for any number of racing requests.
THEOREM UserBanHistoryAccounts == Spec => []BanHistoryAccounts
<1>1. (TypeOK /\ HistoryInv) /\ [Next]_vars => (TypeOK /\ HistoryInv)'
  BY NextTyped, NextAccounted
<1>2. Init => TypeOK /\ HistoryInv
  BY InitTyped, InitAccounted
<1>3. HistoryInv => BanHistoryAccounts
  BY DEF HistoryInv, Accounted, BanHistoryAccounts
<1> QED BY <1>1, <1>2, <1>3, PTL DEF Spec
-----------------------------------------------------------------------------
(***************************************************************************)
(* UserListing reads a table that UserTable changes.  This service changes *)
(* it in no other way.                                                     *)
(***************************************************************************)
TableStep == [Table!TableNext]_users

LEMMA CreateInserts ==
  ASSUME IInv, NEW p \in Procs, Create(p)
  PROVE  TableStep
<1>1. pc[p] = "Create" /\ TypeOK
  BY DEF Create, Calling, IInv
<1>2. /\ aux[p] \in Draft /\ aux[p].email # NULL /\ aux[p].name # NULL
      /\ aux[p].password # Blank
  BY <1>1, CallingHolds, ServiceAssumption DEF Holds
<1>3. /\ aux[p].email \in Emails /\ aux[p].name \in Names
      /\ aux[p].password[2] \in Secrets
  BY <1>2 DEF Draft, Passwords
<1> DEFINE draft == [email |-> aux[p].email, name |-> aux[p].name,
                     secret |-> aux[p].password[2], role |-> "USER"]
<1>4. draft \in [email : Emails, name : Names, secret : Secrets, role : {"USER"}]
  BY <1>3
<1>5. CASE UNCHANGED users
  BY <1>5 DEF TableStep
<1>6. CASE ~ UNCHANGED users
  <2>1. PICK id \in UserIds :
          /\ users[id] = NULL
          /\ ~ Clashes(users, Table!NewUser(id, draft))
          /\ users' = [users EXCEPT ![id] = FromDomain(Table!NewUser(id, draft))]
    BY <1>6 DEF Create, Table!NewUser, Hash, Table!Hash
  <2>2. Table!InsertRow(id)
    BY <1>4, <2>1 DEF Table!InsertRow, Clashes, Table!Clashes, FromDomain, Table!FromDomain,
       SaysBanned, Table!SaysBanned, ColumnsOf, Table!ColumnsOf, NoSubscription,
       Table!NoSubscription
  <2> QED BY <2>2 DEF TableStep, Table!TableNext
<1> QED BY <1>5, <1>6

\* The row an UPDATE statement sets.
UpdatedTo(id, row) ==
  \/ \E u \in User : u.id = id /\ ~ Clashes(users, u) /\ row = FromDomain(u)
  \/ row = UnbanRow(users[id])
  \/ \E end \in Times \union {NULL} : row = BanRow(users[id], NewBanInfo(end))
  \/ \E sub \in SubscriptionInfo : row = SubscriptionRow(users[id], sub)

LEMMA UpdateRowMeans ==
  ASSUME NEW id \in UserIds, users[id] # NULL, NEW row, UpdatedTo(id, row),
         users' = [users EXCEPT ![id] = row]
  PROVE  TableStep
<1>1. \A u : Table!FromDomain(u) = FromDomain(u) /\ Table!Clashes(users, u) = Clashes(users, u)
  BY DEF Clashes, Table!Clashes, FromDomain, Table!FromDomain, SaysBanned, Table!SaysBanned,
         ColumnsOf, Table!ColumnsOf, NoSubscription, Table!NoSubscription
<1>2. /\ Table!UnbanRow(users[id]) = UnbanRow(users[id])
      /\ \A end : Table!BanRow(users[id], Table!NewBanInfo(end))
                  = BanRow(users[id], NewBanInfo(end))
      /\ \A sub : Table!SubscriptionRow(users[id], sub) = SubscriptionRow(users[id], sub)
  BY DEF UnbanRow, Table!UnbanRow, BanRow, Table!BanRow, NewBanInfo, Table!NewBanInfo,
         BanStatus, Table!BanStatus, JsonField, Table!JsonField, SubscriptionRow,
         Table!SubscriptionRow, ColumnsOf, Table!ColumnsOf, NoSubscription,
         Table!NoSubscription
<1>3. \/ row \in {Table!FromDomain(u) : u \in Table!UpdatedUsers(id)}
      \/ row \in {Table!UnbanRow(users[id])}
      \/ row \in {Table!BanRow(users[id], Table!NewBanInfo(end)) : end \in Times \union {NULL}}
      \/ row \in {Table!SubscriptionRow(users[id], sub) : sub \in SubscriptionInfo}
  BY <1>1, <1>2 DEF UpdatedTo, Table!UpdatedUsers
<1>4. Table!UpdateRow(id)
  BY <1>3 DEF Table!UpdateRow
<1> QED BY <1>4 DEF TableStep, Table!TableNext

LEMMA WritesUpdate ==
  ASSUME IInv, NEW p \in Procs,
         Update(p) \/ Ban(p) \/ Unban(p) \/ WriteSubscription(p)
  PROVE  TableStep
<1> DEFINE id == user[p].id
<1>1. pc[p] \in {"Update", "Ban", "Unban", "UpdateSubscription"}
  BY DEF Update, Ban, Unban, WriteSubscription, Calling
<1>2. user[p] \in User /\ id \in UserIds /\ users[id] \in Row
  BY <1>1, CallingRow
<1>3. users[id] # NULL
  BY <1>2, StoreAssumption
<1>4. TypeOK /\ pc[p] # "idle"
  BY <1>1 DEF IInv
<1>5. Holds(op[p], pc[p], user[p], aux[p])
  BY <1>4, CallingHolds
<1>6. CASE UNCHANGED users
  BY <1>6 DEF TableStep
<1>7. CASE /\ ~ Clashes(users, user[p])
           /\ users' = [users EXCEPT ![id] = FromDomain(user[p])]
  BY <1>2, <1>3, <1>7, UpdateRowMeans DEF UpdatedTo
<1>8. CASE Ban(p)
  <2>1. pc[p] = "Ban" /\ users' = [users EXCEPT ![id] = BanRow(users[id], user[p].ban)]
    BY <1>8 DEF Ban, Calling
  <2>2. user[p].ban \in BanInfo /\ user[p].ban.isBanned
    BY <1>2, <1>5, <2>1 DEF Holds, User
  <2>3. /\ user[p].ban.until \in Times \union {NULL}
        /\ user[p].ban = NewBanInfo(user[p].ban.until)
    BY <2>2 DEF BanInfo, NewBanInfo
  <2>4. UpdatedTo(id, BanRow(users[id], user[p].ban))
    BY <2>3 DEF UpdatedTo
  <2> QED BY <1>2, <1>3, <2>1, <2>4, UpdateRowMeans
<1>9. CASE Unban(p)
  <2>1. users' = [users EXCEPT ![id] = UnbanRow(users[id])]
    BY <1>9 DEF Unban
  <2>2. UpdatedTo(id, UnbanRow(users[id]))
    BY DEF UpdatedTo
  <2> QED BY <1>2, <1>3, <2>1, <2>2, UpdateRowMeans
<1>10. CASE WriteSubscription(p)
  <2>1. /\ pc[p] = "UpdateSubscription"
        /\ users' = [users EXCEPT ![id] = SubscriptionRow(users[id], user[p].sub)]
    BY <1>10 DEF WriteSubscription, Calling
  <2>2. user[p].sub \in SubscriptionInfo
    BY <1>2, <1>5, <2>1 DEF Holds, User
  <2>3. UpdatedTo(id, SubscriptionRow(users[id], user[p].sub))
    BY <2>2 DEF UpdatedTo
  <2> QED BY <1>2, <1>3, <2>1, <2>3, UpdateRowMeans
<1> QED BY <1>6, <1>7, <1>8, <1>9, <1>10 DEF Update

LEMMA NextOnTable ==
  ASSUME IInv, [Next]_vars
  PROVE  TableStep
<1>1. ASSUME NEW p \in Procs, Step(p) PROVE TableStep
  <2>1. CASE Create(p)
    BY <2>1, CreateInserts
  <2>2. CASE Update(p) \/ Ban(p) \/ Unban(p) \/ WriteSubscription(p)
    BY <2>2, WritesUpdate
  <2>3. CASE \/ FindByID(p) \/ GetMetadata(p) \/ ReadMetadata(p) \/ SaveMetadata(p)
             \/ LogBanChange(p) \/ LogSubscriptionChange(p) \/ LogActivity(p)
    <3>1. UNCHANGED users
      BY <2>3 DEF FindByID, GetMetadata, ReadMetadata, SaveMetadata, LogBanChange,
                  LogSubscriptionChange, LogActivity, stores
    <3> QED BY <3>1 DEF TableStep
  <2> QED BY <1>1, <2>1, <2>2, <2>3 DEF Step
<1>2. ASSUME NEW p \in Procs, First(p) PROVE TableStep
  <2>1. UNCHANGED users
    BY <1>2 DEF First, Register, GetUserById, GetUserByEmail, ValidateToken, UpdateUser,
         GetUser, Authenticate, DeleteUser, ChangePassword, BanUser, UnbanUser,
         UpdateSubscription, CancelSubscription, Quiet, stores
  <2> QED BY <2>1 DEF TableStep
<1>3. CASE Fault \/ Tick \/ AtRest \/ UNCHANGED vars
  <2>1. UNCHANGED users
    BY <1>3 DEF Fault, Crash, HealthCheck, Die, FirstFails, PostgresFails, MongoFails, Tick,
                AtRest, Quiet, vars, stores
  <2> QED BY <2>1 DEF TableStep
<1> QED BY <1>1, <1>2, <1>3 DEF Next

LEMMA InitOnTable ==
  ASSUME Init PROVE Table!TableInit
BY DEF Init, SeedRow, FromDomain, SaysBanned, ColumnsOf, NoSubscription, Table!TableInit,
       Table!NewUser, Table!Hash, Table!FromDomain, Table!SaysBanned, Table!ColumnsOf,
       Table!NoSubscription

\* Whatever requests do, however they race and whatever fails, the rows change only as
\* UserTable says: what is proved of a List that reads such a table holds of this service.
THEOREM UserImplementsTable == Spec => Table!TableSpec
<1>1. IInv /\ [Next]_vars => [Table!TableNext]_users
  BY NextOnTable DEF TableStep
<1>2. Init => Table!TableInit
  BY InitOnTable
<1> QED BY <1>1, <1>2, Safe, PTL DEF Spec, Table!TableSpec
=============================================================================
