------------------------------ MODULE UserTable ------------------------------
(***************************************************************************)
(* The table users as it changes under whoever reads it: the statements of *)
(* the requests that write, each of them a step, in any order and on any   *)
(* row.  UserListing reads this table.  UserService, which says which      *)
(* request sends which statement and with what, is shown to change it in   *)
(* no other way.                                                           *)
(***************************************************************************)
EXTENDS UserStore

CONSTANTS
  Seed,     \* the rows there from the start: [email, name, secret, role]
  NewRows,  \* the rows of CreateUser, but for their id
  Copies,   \* the users the full-row UPDATE may write (bound: some of User)
  BanEnds   \* the ends of bans, NULL for none

ASSUME TableAssumption ==
  /\ DOMAIN Seed \subseteq UserIds
  /\ \A new \in NewRows \union {Seed[id] : id \in DOMAIN Seed} :
       /\ new.email \in Emails /\ new.name \in Names /\ new.secret \in Secrets
       /\ new.role \in UserRoles
  /\ \A new \in NewRows : new.role = "USER"
  /\ Copies \subseteq User
  /\ BanEnds \subseteq Times \union {NULL}
  /\ Subscriptions \subseteq SubscriptionInfo

VARIABLE table  \* the rows of users, NULL where there is none

NewUser(id, draft) ==
  [id |-> id, email |-> draft.email, name |-> draft.name,
   password |-> Hash(<<"plain", draft.secret>>), status |-> "ACTIVE", role |-> draft.role,
   ban |-> NULL, sub |-> NULL, lastLogin |-> NULL]

TableInit ==
  table = [id \in UserIds |->
    IF id \in DOMAIN Seed THEN FromDomain(NewUser(id, Seed[id])) ELSE NULL]

\* INSERT.
InsertRow(id) ==
  \E draft \in NewRows :
    /\ table[id] = NULL
    /\ ~ Clashes(table, NewUser(id, draft))
    /\ table' = [table EXCEPT ![id] = FromDomain(NewUser(id, draft))]

UpdatedUsers_ProtoName(id) ==  \* mutant: the protocol's name of the status
  {[user EXCEPT !.status = "USER_STATUS_DELETED"] : user \in {u \in Copies : u.id = id}}

\* The full-row UPDATE writes a user back as some request read it and changed it, whatever
\* the row has become since; the database refuses it where it clashes with another row.
UpdatedUsers(id) == {user \in Copies : user.id = id /\ ~ Clashes(table, user)}

\* The UPDATE statements, of every column and of single ones.
UpdateRow(id) ==
  /\ table[id] # NULL
  /\ \E row \in
       {FromDomain(user) : user \in UpdatedUsers(id)}
       \union {UnbanRow(table[id])}
       \union {BanRow(table[id], NewBanInfo(end)) : end \in BanEnds}
       \union {SubscriptionRow(table[id], sub) : sub \in Subscriptions} :
       table' = [table EXCEPT ![id] = row]

TableNext == \E id \in UserIds : InsertRow(id) \/ UpdateRow(id)

TableSpec == TableInit /\ [][TableNext]_table
=============================================================================
