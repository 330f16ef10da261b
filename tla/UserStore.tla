----------------------------- MODULE UserStore ------------------------------
(***************************************************************************)
(* The rows of the Postgres table "users" and what each statement of       *)
(* PostgresUserRepository does to one of them, together with the domain    *)
(* objects (User, BanInfo, SubscriptionInfo) the rows are read into.       *)
(*                                                                         *)
(* A row keeps, beside the columns a User is read back from (`user`), the  *)
(* columns the List filters use: is_banned and the subscription_* columns. *)
(* Nothing reads those into a User: they are written next to the JSON      *)
(* columns, and agree with them only if every writer keeps them so.        *)
(*                                                                         *)
(* Abstractions.  Name stands for name, phone and service_email, which the *)
(* code copies alike.  A password string is a pair: <<"plain", s>>, or     *)
(* <<"hash", s>> for a bcrypt hash of s (one hash for each secret: salts   *)
(* are left out), or Blank.  Time counts seconds.                          *)
(***************************************************************************)
EXTENDS Integers

CONSTANTS
  NULL,           \* an absent pointer, row or document
  UserIds,        \* the ids a row can have
  Emails, Names, Secrets,
  Subscriptions,  \* the subscriptions a client can ask for
  Levels,         \* the levels of a subscription
  UniqueColumns,  \* the columns of users with a unique index (error 23505)
  MaxTime         \* bound on the clock

Times == 0 .. MaxTime

(***************************************************************************)
(* Domain objects.                                                         *)
(***************************************************************************)
BannedStatuses == {"BANNED_PERMANENTLY", "BANNED_TEMPORARILY"}

\* The statuses some statement of the service writes: the other values of the
\* enumeration are never stored.
UserStatuses == {"ACTIVE", "DELETED"} \union BannedStatuses

UserRoles == {"USER", "MODERATOR", "ADMIN", "SUPER_ADMIN"}

AdminRoles == {"ADMIN", "SUPER_ADMIN", "MODERATOR"}

SubscriptionStatuses == {"INACTIVE", "ACTIVE", "CANCELED"}

BanInfo == [isBanned : BOOLEAN, until : Times \union {NULL}]

SubscriptionInfo ==
  [status : SubscriptionStatuses, level : Levels, end : Times \union {NULL}]

Passwords == {"plain", "hash"} \X Secrets

Blank == <<"blank", NULL>>

Hash(password) == <<"hash", password[2]>>

IsHashed(password) == password[1] = "hash"

User ==
  [id : UserIds, email : Emails, name : Names,
   password : Passwords \union {Blank},
   status : UserStatuses, role : UserRoles,
   ban : BanInfo \union {NULL},
   sub : SubscriptionInfo \union {NULL},
   lastLogin : Times \union {NULL}]

(***************************************************************************)
(* BanInfo and SubscriptionInfo methods.                                   *)
(***************************************************************************)

\* A ban says the user is banned, whether or not it has run out.
SaysBanned(ban) == ban # NULL /\ ban.isBanned

Expired(ban, now) == ban.until # NULL /\ now > ban.until

\* User.IsBanned, its answer.
IsBanned(user, now) == SaysBanned(user.ban) /\ ~ Expired(user.ban, now)

\* User.IsBanned, its side effect: an expired ban is struck off the copy.
StrikeExpired(user, now) ==
  IF SaysBanned(user.ban) /\ Expired(user.ban, now)
  THEN [user EXCEPT !.ban = [isBanned |-> FALSE, until |-> user.ban.until]]
  ELSE user

IsAdmin(user) == user.role \in AdminRoles

NewBanInfo(until) == [isBanned |-> TRUE, until |-> until]

Cancel(sub, immediate, now) ==
  [status |-> "CANCELED", level |-> sub.level,
   end |-> IF immediate THEN now ELSE sub.end]

(***************************************************************************)
(* Rows.                                                                   *)
(***************************************************************************)
NoSubscription == [status |-> "", level |-> "", end |-> NULL]

SubscriptionColumns == SubscriptionInfo \union {NoSubscription}

ColumnsOf(sub) == IF sub = NULL THEN NoSubscription ELSE sub

\* The columns of users.
Row == [user : User, is_banned : BOOLEAN, subscription : SubscriptionColumns]

\* NULL is none of the things it stands for the absence of.
ASSUME StoreAssumption ==
  /\ MaxTime \in Nat
  /\ NULL \notin Emails /\ NULL \notin Names
  /\ NULL \notin BanInfo /\ NULL \notin SubscriptionInfo
  /\ NULL \notin Row

FromDomain(user) ==
  [user |-> user, is_banned |-> SaysBanned(user.ban),
   subscription |-> ColumnsOf(user.sub)]

\* ban_info->>key on the JSON of a BanInfo.  The struct has no json tags, so the
\* keys are the names of its Go fields; a key that is not there gives NULL.
JsonField(ban, key) == IF key = "BannedUntil" THEN ban.until ELSE NULL

\* The CASE of the Ban statement.
BanStatus(ban) ==
  IF JsonField(ban, "banned_until") # NULL
  THEN "BANNED_TEMPORARILY"
  ELSE "BANNED_PERMANENTLY"

BanRow_KeepsStatus(row, ban) ==  \* mutant: the status is not set
  [row EXCEPT !.user = [row.user EXCEPT !.ban = ban], !.is_banned = TRUE]

BanRow(row, ban) ==
  [row EXCEPT !.user = [row.user EXCEPT !.ban = ban, !.status = BanStatus(ban)],
              !.is_banned = TRUE]

UnbanRow_KeepsFlag(row) ==  \* mutant: is_banned is not reset
  [row EXCEPT !.user = [row.user EXCEPT !.ban = NULL, !.status = "ACTIVE"]]

UnbanRow(row) ==
  [row EXCEPT !.user = [row.user EXCEPT !.ban = NULL, !.status = "ACTIVE"],
              !.is_banned = FALSE]

SubscriptionRow(row, sub) ==
  [row EXCEPT !.user = [row.user EXCEPT !.sub = sub],
              !.subscription = ColumnsOf(sub)]

(***************************************************************************)
(* The table: a function from ids to rows, NULL where there is none.       *)
(***************************************************************************)

Visible_Deleted(table, id) == table[id] # NULL  \* mutant: no filter on status

\* FindByID returns the user: soft-deleted rows are invisible.
Visible(table, id) == table[id] # NULL /\ table[id].user.status # "DELETED"

\* The rows FindByEmail can return.
WithEmail(table, email) ==
  {id \in UserIds : Visible(table, id) /\ table[id].user.email = email}

\* Exists: email or name already used by a visible row.
Exists(table, email, name) ==
  \E id \in UserIds :
    /\ Visible(table, id)
    /\ table[id].user.email = email \/ table[id].user.name = name

\* Error 23505: another row, deleted or not, has the value of a unique column.
Clashes(table, user) ==
  \E id \in UserIds \ {user.id}, column \in UniqueColumns :
    table[id] # NULL /\ table[id].user[column] = user[column]

\* The derived columns say what the columns they are derived from say.
ColumnsAgree(row) ==
  /\ row.is_banned = SaysBanned(row.user.ban)
  /\ row.subscription = ColumnsOf(row.user.sub)

\* Status and ban_info belong together: a ban that holds shows in the status, and
\* a banned status has a ban behind it, which is only struck off once it ran out.
StatusFitsBan(user, now) ==
  /\ SaysBanned(user.ban) => user.status \in BannedStatuses \union {"DELETED"}
  /\ user.status \in BannedStatuses =>
       /\ user.ban # NULL
       /\ user.ban.isBanned \/ Expired(user.ban, now)
=============================================================================
