---------------------------- MODULE UserService -----------------------------
(***************************************************************************)
(* The user service: every gRPC request is a goroutine that runs a handler *)
(* of UserHandler, the method of UserService it calls, and the statements  *)
(* that method sends to Postgres and MongoDB.  There is no transaction and *)
(* no lock, so a request is a sequence of atomic statements and requests   *)
(* interleave between any two of them.                                     *)
(*                                                                         *)
(* A request starts with its first statement (nothing before it can be     *)
(* seen by another request).  pc[p] names the next repository call of      *)
(* process p, op[p] the request, user[p] the *domain.User the method holds *)
(* and aux[p] what else it holds: the handler's modified copy in           *)
(* UpdateUser, the old subscription in the subscription calls, the token   *)
(* in Authenticate.                                                        *)
(***************************************************************************)
EXTENDS UserStore, Sequences, FiniteSets

CONSTANTS
  Procs,        \* the goroutines that serve requests
  Ops,          \* the requests clients may send
  MetaKeys, MetaValues,  \* metadata of a user, in MongoDB
  NewUsers,     \* the users clients may ask to create
  UpdateRequests,  \* the UpdateUser requests clients may send
  BanEnds,      \* values of banned_until a ban request can carry, NULL if none
  Seed,         \* rows the table starts with: admins are only made there
  TokenTTL,     \* lifetime of a JWT (config.JWT)
  MaxRequests,  \* bound: requests started
  MaxFaults     \* bound: failed statements, crashes and panics

Metadata == [MetaKeys -> MetaValues \union {NULL}]  \* NULL: no such key

NoMetadata == [k \in MetaKeys |-> NULL]

\* The object a handler builds from a request for Register and UpdateUser.  NULL,
\* Blank and UNSPECIFIED stand for the fields an UpdateUser request leaves out.
Draft == [email : Emails \union {NULL}, name : Names \union {NULL},
          password : Passwords \union {Blank},
          role : UserRoles \union {"UNSPECIFIED"}, metadata : Metadata]

AllOps == {"Register", "GetUserById", "GetUserByEmail", "ValidateToken",
           "UpdateUser", "DeleteUser", "Authenticate", "ChangePassword",
           "BanUser", "UnbanUser", "UpdateSubscription", "CancelSubscription",
           "HealthCheck"}

ASSUME ServiceAssumption ==
  /\ Ops \subseteq AllOps
  /\ NULL \notin Metadata
  /\ TokenTTL \in Nat
  /\ MaxRequests \in Nat /\ MaxFaults \in Nat
  /\ BanEnds \subseteq Times \union {NULL}
  /\ Subscriptions \subseteq SubscriptionInfo
  /\ NewUsers \subseteq Draft /\ UpdateRequests \subseteq Draft
  /\ \A new \in NewUsers :
       /\ new.email # NULL /\ new.name # NULL /\ new.password # Blank
       /\ new.metadata = NoMetadata
  /\ DOMAIN Seed \subseteq UserIds
  /\ \A id \in DOMAIN Seed :
       /\ Seed[id].email \in Emails /\ Seed[id].name \in Names
       /\ Seed[id].secret \in Secrets /\ Seed[id].role \in UserRoles

VARIABLES
  users,       \* Postgres: the table users
  metadata,    \* MongoDB: user_metadata, NULL where there is no document
  activities,  \* MongoDB: user_activities, a set of documents keyed by id
  banHistory,  \* MongoDB: ban_history, in insertion order
  subHistory,  \* MongoDB: subscription_history, a set keyed by id
  tokens,      \* the tokens clients have been given
  pc, op, user, aux,  \* the requests in progress
  reply,       \* gRPC code each process answered with, NULL while it is busy
  now,         \* the clock, in seconds
  started, faults,    \* requests and faults so far
  banWrites    \* observer: the Ban and Unban statements, in order

stores == <<users, metadata, activities, banHistory, subHistory>>
local == <<pc, op, user, aux, reply>>
bounds == <<started, faults>>
vars == <<stores, tokens, local, now, bounds, banWrites>>

(***************************************************************************)
(* Types.                                                                  *)
(***************************************************************************)
Token == [id : UserIds, exp : Nat]

PostgresCalls ==
  {"Create", "FindByID", "Update", "Ban", "Unban", "UpdateSubscription"}

MongoCalls ==
  {"GetMetadata", "ReadMetadata", "SaveMetadata", "LogBanChange",
   "LogSubscriptionChange", "LogActivity"}

Codes == {"OK", "AlreadyExists", "NotFound", "PermissionDenied",
          "Unauthenticated", "Internal"}

ActivityTypes == {"LOGIN", "PROFILE_UPDATE", "PASSWORD_CHANGE", "BAN", "UNBAN",
                  "SUBSCRIPTION_START", "SUBSCRIPTION_END"}

Activity == [id : Times, user : UserIds, type : ActivityTypes]

BanEntry == [user : UserIds, action : {"ban", "unban"}]

\* What the history of subscriptions tells of one.
Brief(sub) == [status |-> sub.status, level |-> sub.level]

Briefs == [status : SubscriptionStatuses \union {""}, level : Levels \union {""}]

SubEntry == [id : Times, user : UserIds, old : Briefs, new : Briefs]

\* Where each request can be between two of its calls.
CallsOf(o) ==
  CASE o = "Register" -> {"Create", "LogActivity"}
    [] o \in {"GetUserById", "ValidateToken"} -> {"GetMetadata"}
    [] o = "UpdateUser" -> {"GetMetadata", "FindByID", "Update", "ReadMetadata",
                            "SaveMetadata", "LogActivity"}
    [] o = "DeleteUser" -> {"Update"}
    [] o \in {"Authenticate", "ChangePassword"} -> {"Update", "LogActivity"}
    [] o = "BanUser" -> {"Ban", "LogBanChange", "LogActivity"}
    [] o = "UnbanUser" -> {"Unban", "LogBanChange", "LogActivity"}
    [] o \in {"UpdateSubscription", "CancelSubscription"} ->
         {"UpdateSubscription", "LogSubscriptionChange", "LogActivity"}
    [] OTHER -> {}

\* A draft with nothing left out: what Register and UserService.UpdateUser get.
FullDraft == {draft \in Draft : draft.email # NULL /\ draft.name # NULL}

\* What a request o that is about to make the call c holds: the user u, the locals x.
Holds(o, c, u, x) ==
  /\ c \in CallsOf(o)
  /\ c = "Create" => x \in NewUsers
  /\ c # "Create" => u \in User
  /\ o = "UpdateUser" => CASE c = "GetMetadata" -> x \in UpdateRequests
                           [] c \in {"FindByID", "Update", "ReadMetadata", "SaveMetadata"} ->
                                x \in FullDraft
                           [] OTHER -> TRUE
  /\ o = "Authenticate" => x \in Token
  /\ c = "Ban" => u.ban # NULL /\ u.ban.isBanned
  /\ c \in {"UpdateSubscription", "LogSubscriptionChange"} =>
       x \in Briefs /\ u.sub # NULL

LocalsOK(p) ==
  pc[p] # "idle" =>
    /\ Holds(op[p], pc[p], user[p], aux[p])
    /\ pc[p] # "Create" => users[user[p].id] # NULL

\* Every variable has its type, and every request holds what its next call needs.
TypeOK ==
  /\ users \in [UserIds -> Row \union {NULL}]
  /\ \A id \in UserIds : users[id] # NULL => users[id].user.id = id
  /\ metadata \in [UserIds -> Metadata \union {NULL}]
  /\ activities \subseteq Activity
  /\ banHistory \in Seq(BanEntry)
  /\ subHistory \subseteq SubEntry
  /\ tokens \subseteq Token
  /\ DOMAIN pc = Procs /\ DOMAIN user = Procs /\ DOMAIN aux = Procs
  /\ op \in [Procs -> AllOps \union {NULL}]
  /\ reply \in [Procs -> Codes \union {NULL}]
  /\ \A p \in Procs : LocalsOK(p)
  /\ now \in Times
  /\ started \in 0 .. MaxRequests
  /\ faults \in 0 .. MaxFaults
  /\ banWrites \in Seq(BanEntry)

SeedRow(id) ==
  FromDomain([id |-> id, email |-> Seed[id].email, name |-> Seed[id].name,
              password |-> <<"hash", Seed[id].secret>>,
              status |-> "ACTIVE", role |-> Seed[id].role,
              ban |-> NULL, sub |-> NULL, lastLogin |-> NULL])

Init ==
  /\ users = [id \in UserIds |-> IF id \in DOMAIN Seed THEN SeedRow(id) ELSE NULL]
  /\ metadata = [id \in UserIds |-> NULL]
  /\ activities = {} /\ banHistory = <<>> /\ subHistory = {}
  /\ tokens = {}
  /\ pc = [p \in Procs |-> "idle"]
  /\ op = [p \in Procs |-> NULL]
  /\ user = [p \in Procs |-> NULL]
  /\ aux = [p \in Procs |-> NULL]
  /\ reply = [p \in Procs |-> NULL]
  /\ now = 0 /\ started = 0 /\ faults = 0
  /\ banWrites = <<>>

(***************************************************************************)
(* Steps of a request.                                                     *)
(***************************************************************************)

\* p takes up a request.
Start(p, o) ==
  /\ pc[p] = "idle" /\ o \in Ops
  /\ started < MaxRequests
  /\ started' = started + 1
  /\ op' = [op EXCEPT ![p] = o]
  /\ UNCHANGED faults

\* p goes on to call c, holding the user u and the locals x.
Continue(p, c, u, x) ==
  /\ pc' = [pc EXCEPT ![p] = c]
  /\ user' = [user EXCEPT ![p] = u]
  /\ aux' = [aux EXCEPT ![p] = x]
  /\ reply' = [reply EXCEPT ![p] = NULL]

\* p answers with the code.
Answer(p, code) ==
  /\ pc' = [pc EXCEPT ![p] = "idle"]
  /\ user' = [user EXCEPT ![p] = NULL]
  /\ aux' = [aux EXCEPT ![p] = NULL]
  /\ reply' = [reply EXCEPT ![p] = code]

\* Code of the answer when the repository reports no such user.  It reports it as a
\* *DomainError, which is never == to the domain.ErrUserNotFound the handlers
\* compare with, so none of them but UpdateUser answers NotFound.
NotFoundCode(o) ==
  CASE o = "ValidateToken" -> "Unauthenticated"
    [] o = "Authenticate" -> "Unauthenticated"
    [] o = "UpdateUser" -> "NotFound"
    [] OTHER -> "Internal"

\* Code of the answer when GetUser or Authenticate refuses a banned user.
BannedCode(o) ==
  CASE o = "ValidateToken" -> "Unauthenticated"
    [] o = "UpdateUser" -> "NotFound"
    [] OTHER -> "PermissionDenied"
-----------------------------------------------------------------------------
(***************************************************************************)
(* First statements of the requests.                                       *)
(***************************************************************************)
Quiet == UNCHANGED <<stores, tokens, now, banWrites>>

\* FindByID found nobody.
NotFound(p, o, id) == ~ Visible(users, id) /\ Answer(p, NotFoundCode(o))

\* Register: is the email or the name taken?  The user to create waits in aux.
\* (The model has as many ids as users: uuid.New() never repeats one.)
Register(p) ==
  /\ Start(p, "Register")
  /\ Cardinality({id \in UserIds : users[id] = NULL})
       > Cardinality({q \in Procs : pc[q] = "Create"})
  /\ \E new \in NewUsers :
       \/ /\ Exists(users, new.email, new.name)
          /\ Answer(p, "AlreadyExists")
       \/ /\ ~ Exists(users, new.email, new.name)
          /\ Continue(p, "Create", NULL, new)
  /\ Quiet

\* UserService.GetUser up to its MongoDB call: find the user, refuse a banned one.
\* GetUserById and ValidateToken are no more than that; UpdateUser begins with it.
GetUser(p, o, id, request) ==
  /\ Start(p, o)
  /\ \/ NotFound(p, o, id)
     \/ /\ Visible(users, id)
        /\ IsBanned(users[id].user, now)
        /\ Answer(p, BannedCode(o))
     \/ /\ Visible(users, id)
        /\ ~ IsBanned(users[id].user, now)
        /\ Continue(p, "GetMetadata", StrikeExpired(users[id].user, now), request)
  /\ Quiet

GetUserById(p) == \E id \in UserIds : GetUser(p, "GetUserById", id, NULL)

\* GetUserByEmail hands the email to GetUser as an id: no row has such an id.
GetUserByEmail(p) ==
  /\ Start(p, "GetUserByEmail")
  /\ Answer(p, NotFoundCode("GetUserByEmail"))
  /\ Quiet

\* ValidateToken: only an unexpired token gets as far as the database.
ValidateToken(p) ==
  \E token \in tokens :
    \/ now < token.exp /\ GetUser(p, "ValidateToken", token.id, NULL)
    \/ /\ now >= token.exp
       /\ Start(p, "ValidateToken")
       /\ Answer(p, "Unauthenticated")
       /\ Quiet

UpdateUser(p) ==
  \E id \in UserIds, request \in UpdateRequests :
    GetUser(p, "UpdateUser", id, request)

\* Authenticate: find by email, compare passwords, refuse a banned user, sign the
\* token; the login time is set on the copy that is then written back.
Authenticate(p) ==
  /\ Start(p, "Authenticate")
  /\ \E email \in Emails, password \in Passwords :
       \/ /\ WithEmail(users, email) = {}
          /\ Answer(p, NotFoundCode("Authenticate"))
       \/ \E id \in WithEmail(users, email) :
            \/ /\ users[id].user.password # Hash(password)
               /\ Answer(p, "Unauthenticated")
            \/ /\ users[id].user.password = Hash(password)
               /\ IsBanned(users[id].user, now)
               /\ Answer(p, BannedCode("Authenticate"))
            \/ /\ users[id].user.password = Hash(password)
               /\ ~ IsBanned(users[id].user, now)
               /\ Continue(p, "Update",
                    [StrikeExpired(users[id].user, now) EXCEPT !.lastLogin = now],
                    [id |-> id, exp |-> now + TokenTTL])
  /\ Quiet

DeleteUser(p) ==
  /\ Start(p, "DeleteUser")
  /\ \E id \in UserIds :
       \/ NotFound(p, "DeleteUser", id)
       \/ /\ Visible(users, id)
          /\ Continue(p, "Update",
               [users[id].user EXCEPT !.status = "DELETED"], NULL)
  /\ Quiet

\* ChangePassword, which no handler calls: the current password must be given in
\* plain (bcrypt compares a plain password with a hash).
ChangePassword(p) ==
  /\ Start(p, "ChangePassword")
  /\ \E id \in UserIds, current \in Secrets, new \in Secrets :
       \/ NotFound(p, "ChangePassword", id)
       \/ /\ Visible(users, id)
          /\ users[id].user.password # <<"hash", current>>
          /\ Answer(p, "Internal")
       \/ /\ Visible(users, id)
          /\ users[id].user.password = <<"hash", current>>
          /\ Continue(p, "Update",
               [users[id].user EXCEPT !.password = <<"hash", new>>], NULL)
  /\ Quiet

\* The status set here is the one the caller is told; the one stored is computed by
\* the statement.
BanUser(p) ==
  /\ Start(p, "BanUser")
  /\ \E id \in UserIds, until \in BanEnds :
       \/ NotFound(p, "BanUser", id)
       \/ /\ Visible(users, id)
          /\ IsAdmin(users[id].user)
          /\ Answer(p, "Internal")
       \/ /\ Visible(users, id)
          /\ ~ IsAdmin(users[id].user)
          /\ Continue(p, "Ban",
               [users[id].user EXCEPT
                  !.ban = NewBanInfo(until),
                  !.status = IF until # NULL THEN "BANNED_TEMPORARILY"
                                             ELSE "BANNED_PERMANENTLY"], NULL)
  /\ Quiet

UnbanUser(p) ==
  /\ Start(p, "UnbanUser")
  /\ \E id \in UserIds :
       \/ NotFound(p, "UnbanUser", id)
       \/ /\ Visible(users, id)
          /\ ~ SaysBanned(users[id].user.ban)
          /\ Answer(p, "Internal")
       \/ /\ Visible(users, id)
          /\ SaysBanned(users[id].user.ban)
          /\ Continue(p, "Unban",
               [users[id].user EXCEPT
                  !.ban = [isBanned |-> FALSE, until |-> NULL],
                  !.status = "ACTIVE"], NULL)
  /\ Quiet

Remember_Nothing(found) == Brief(NoSubscription)  \* mutant: old values not kept

\* The old level and status of a subscription, kept for its history.
Remember(found) == Brief(ColumnsOf(found.sub))

UpdateSubscription(p) ==
  /\ Start(p, "UpdateSubscription")
  /\ \E id \in UserIds, sub \in Subscriptions :
       \/ NotFound(p, "UpdateSubscription", id)
       \/ /\ Visible(users, id)
          /\ Continue(p, "UpdateSubscription",
               [users[id].user EXCEPT !.sub = sub],
               Remember(users[id].user))
  /\ Quiet

CancelSubscription(p) ==
  /\ Start(p, "CancelSubscription")
  /\ \E id \in UserIds, immediate \in BOOLEAN :
       \/ NotFound(p, "CancelSubscription", id)
       \/ /\ Visible(users, id)
          /\ users[id].user.sub = NULL
          /\ Answer(p, "Internal")
       \/ /\ Visible(users, id)
          /\ users[id].user.sub # NULL
          /\ Continue(p, "UpdateSubscription",
               [users[id].user EXCEPT
                  !.sub = Cancel(users[id].user.sub, immediate, now)],
               Remember(users[id].user))
  /\ Quiet

\* The first statement of a request fails.  Authenticate takes any error of
\* FindByEmail for wrong credentials.
FirstFails(p) ==
  \E o \in Ops \ {"ValidateToken", "GetUserByEmail", "HealthCheck"} :
    /\ pc[p] = "idle" /\ started < MaxRequests /\ faults < MaxFaults
    /\ started' = started + 1 /\ faults' = faults + 1
    /\ op' = [op EXCEPT ![p] = o]
    /\ Answer(p, IF o \in {"Authenticate", "UpdateUser"}
                 THEN NotFoundCode(o) ELSE "Internal")
    /\ Quiet
-----------------------------------------------------------------------------
(***************************************************************************)
(* Later Postgres statements.                                              *)
(***************************************************************************)
Calling(p, c) ==
  /\ pc[p] = c
  /\ UNCHANGED <<op, bounds, now>>

\* INSERT INTO users, under a new id.  The SaveMetadata of Register never runs: a
\* CreateUserRequest carries no metadata.
Create(p) ==
  /\ Calling(p, "Create")
  /\ \E id \in {i \in UserIds : users[i] = NULL} :
       LET new == [id |-> id, email |-> aux[p].email, name |-> aux[p].name,
                   password |-> Hash(aux[p].password),
                   status |-> "ACTIVE", role |-> "USER",
                   ban |-> NULL, sub |-> NULL, lastLogin |-> NULL] IN
       \/ /\ Clashes(users, new)
          /\ Answer(p, "Internal")
          /\ UNCHANGED users
       \/ /\ ~ Clashes(users, new)
          /\ users' = [users EXCEPT ![id] = FromDomain(new)]
          /\ Continue(p, "LogActivity", new, NULL)
  /\ UNCHANGED <<metadata, activities, banHistory, subHistory, tokens, banWrites>>

TakeAllowed_AnyPassword(found, draft) ==  \* mutant: the draft's password, as it is
  [found EXCEPT !.email = draft.email, !.name = draft.name,
                !.password = draft.password]

TakeAllowed_Role(found, draft) ==  \* mutant: the role is an allowed field
  [found EXCEPT !.email = draft.email, !.name = draft.name, !.role = draft.role]

\* The fields UpdateUser may change, and a password that is not hashed yet.
TakeAllowed(found, draft) ==
  [found EXCEPT
     !.email = draft.email, !.name = draft.name,
     !.password = IF draft.password # Blank /\ ~ IsHashed(draft.password)
                  THEN Hash(draft.password) ELSE found.password]

\* UserService.UpdateUser reads the user again and takes what is allowed from the
\* object the handler built.
FindByID(p) ==
  /\ Calling(p, "FindByID")
  /\ LET id == user[p].id  draft == aux[p] IN
       \/ /\ ~ Visible(users, id)
          /\ Answer(p, "Internal")
       \/ /\ Visible(users, id)
          /\ Continue(p, "Update", TakeAllowed(users[id].user, draft), draft)
  /\ UNCHANGED <<stores, tokens, banWrites>>

\* What follows the Update statement of each request.
AfterUpdate(p) ==
  \/ /\ op[p] = "DeleteUser"
     /\ Answer(p, "OK")
  \/ /\ op[p] = "UpdateUser" /\ aux[p].metadata # NoMetadata
     /\ Continue(p, "ReadMetadata", user[p], aux[p])
  \/ /\ \/ op[p] \in {"Authenticate", "ChangePassword"}
        \/ op[p] = "UpdateUser" /\ aux[p].metadata = NoMetadata
     /\ Continue(p, "LogActivity", user[p], aux[p])

\* An Update that fails ends the request, except that a login goes on without it.
UpdateFailed(p) ==
  \/ /\ op[p] = "Authenticate"
     /\ Continue(p, "LogActivity", user[p], aux[p])
  \/ /\ op[p] # "Authenticate"
     /\ Answer(p, "Internal")

\* UPDATE users SET every column: the whole copy goes back, as it was read.
Update(p) ==
  /\ Calling(p, "Update")
  /\ \/ /\ Clashes(users, user[p])
        /\ UpdateFailed(p)
        /\ UNCHANGED users
     \/ /\ ~ Clashes(users, user[p])
        /\ users' = [users EXCEPT ![user[p].id] = FromDomain(user[p])]
        /\ AfterUpdate(p)
  /\ UNCHANGED <<metadata, activities, banHistory, subHistory, tokens, banWrites>>

Ban(p) ==
  /\ Calling(p, "Ban")
  /\ users' = [users EXCEPT ![user[p].id] = BanRow(@, user[p].ban)]
  /\ banWrites' = Append(banWrites, [user |-> user[p].id, action |-> "ban"])
  /\ Continue(p, "LogBanChange", user[p], NULL)
  /\ UNCHANGED <<metadata, activities, banHistory, subHistory, tokens>>

Unban(p) ==
  /\ Calling(p, "Unban")
  /\ users' = [users EXCEPT ![user[p].id] = UnbanRow(@)]
  /\ banWrites' = Append(banWrites, [user |-> user[p].id, action |-> "unban"])
  /\ Continue(p, "LogBanChange", user[p], NULL)
  /\ UNCHANGED <<metadata, activities, banHistory, subHistory, tokens>>

\* Both UpdateSubscription and CancelSubscription end in this statement.
WriteSubscription(p) ==
  /\ Calling(p, "UpdateSubscription")
  /\ users' = [users EXCEPT ![user[p].id] = SubscriptionRow(@, user[p].sub)]
  /\ Continue(p, "LogSubscriptionChange", user[p], aux[p])
  /\ UNCHANGED <<metadata, activities, banHistory, subHistory, tokens, banWrites>>

\* Postgres answers a statement with an error and has not run it.
PostgresFails(p) ==
  /\ pc[p] \in PostgresCalls
  /\ faults < MaxFaults /\ faults' = faults + 1
  /\ UpdateFailed(p)
  /\ Quiet /\ UNCHANGED <<op, started>>
-----------------------------------------------------------------------------
(***************************************************************************)
(* MongoDB calls.  Their errors are only logged.                           *)
(***************************************************************************)
UpdateFromProto_NoDefaults(u, request) == request  \* mutant: fields left
                                              \* out of the request stay empty

\* The request laid over the user GetUser returned: its password is blanked, and it
\* never has metadata (see GetMetadata).
UpdateFromProto(u, request) ==
  [email |-> IF request.email # NULL THEN request.email ELSE u.email,
   name |-> IF request.name # NULL THEN request.name ELSE u.name,
   password |-> request.password,
   role |-> IF request.role # "UNSPECIFIED" THEN request.role ELSE u.role,
   metadata |-> request.metadata]

\* The end of GetUser: its caller answers, or UpdateUser goes on.
AfterGetUser(p) ==
  \/ /\ op[p] # "UpdateUser"
     /\ Answer(p, "OK")
  \/ /\ op[p] = "UpdateUser"
     /\ Continue(p, "FindByID", user[p], UpdateFromProto(user[p], aux[p]))

\* GetMetadata of the repository finds no document, or one it cannot decode: the upsert
\* of SaveMetadata made it with an ObjectID for its _id, which the driver does not
\* decode into the string UserMetadataDocument.ID.  GetUser ignores the error, so the
\* user it returns has no metadata either way.
GetMetadata(p) ==
  /\ Calling(p, "GetMetadata")
  /\ AfterGetUser(p)
  /\ UNCHANGED <<stores, tokens, banWrites>>

ReadMetadata_IgnoresError(p) ==  \* mutant: the error is ignored, as GetUser does
  /\ Calling(p, "ReadMetadata")
  /\ Continue(p, "SaveMetadata", user[p], aux[p])
  /\ UNCHANGED <<stores, tokens, banWrites>>

\* UpdateMetadata reads the document with the same GetMetadata: where there is one it
\* gives up, where there is none what was asked for is all there is to save.
ReadMetadata(p) ==
  /\ Calling(p, "ReadMetadata")
  /\ \/ /\ metadata[user[p].id] # NULL
        /\ Continue(p, "LogActivity", user[p], NULL)
     \/ /\ metadata[user[p].id] = NULL
        /\ Continue(p, "SaveMetadata", user[p], aux[p])
  /\ UNCHANGED <<stores, tokens, banWrites>>

\* The upsert replaces the document, or makes one.
SaveMetadata(p) ==
  /\ Calling(p, "SaveMetadata")
  /\ metadata' = [metadata EXCEPT ![user[p].id] = aux[p].metadata]
  /\ Continue(p, "LogActivity", user[p], NULL)
  /\ UNCHANGED <<users, activities, banHistory, subHistory, tokens, banWrites>>

BanAction_Same(o) == "ban"  \* mutant: UnbanUser logs what BanUser logs

BanAction(o) == IF o = "BanUser" THEN "ban" ELSE "unban"

LogBanChange(p) ==
  /\ Calling(p, "LogBanChange")
  /\ banHistory' = Append(banHistory,
       [user |-> user[p].id, action |-> BanAction(op[p])])
  /\ Continue(p, "LogActivity", user[p], NULL)
  /\ UNCHANGED <<users, metadata, activities, subHistory, tokens, banWrites>>

\* generateUUID: the ids of audit documents are the second they are made in.
GenerateUUID == now

\* InsertOne: a document whose id is taken is not inserted, the error is logged.
Insert(docs, doc) ==
  IF \E d \in docs : d.id = doc.id THEN docs ELSE docs \union {doc}

LogSubscriptionChange(p) ==
  /\ Calling(p, "LogSubscriptionChange")
  /\ subHistory' = Insert(subHistory,
       [id |-> GenerateUUID, user |-> user[p].id,
        old |-> aux[p], new |-> Brief(user[p].sub)])
  /\ Continue(p, "LogActivity", user[p], NULL)
  /\ UNCHANGED <<users, metadata, activities, banHistory, tokens, banWrites>>

ActivityOf(o) ==
  CASE o \in {"Register", "Authenticate"} -> "LOGIN"
    [] o = "UpdateUser" -> "PROFILE_UPDATE"
    [] o = "ChangePassword" -> "PASSWORD_CHANGE"
    [] o = "BanUser" -> "BAN"
    [] o = "UnbanUser" -> "UNBAN"
    [] o = "UpdateSubscription" -> "SUBSCRIPTION_START"
    [] o = "CancelSubscription" -> "SUBSCRIPTION_END"

\* The last call of most requests: a login hands out its token now.
Finish(p) ==
  /\ Answer(p, "OK")
  /\ tokens' = IF op[p] = "Authenticate" THEN tokens \union {aux[p]} ELSE tokens

LogActivity(p) ==
  /\ Calling(p, "LogActivity")
  /\ activities' = Insert(activities,
       [id |-> GenerateUUID, user |-> user[p].id, type |-> ActivityOf(op[p])])
  /\ Finish(p)
  /\ UNCHANGED <<users, metadata, banHistory, subHistory, banWrites>>

\* A MongoDB call fails: the request goes on without its result.
MongoFails(p) ==
  /\ faults < MaxFaults /\ faults' = faults + 1
  /\ \/ /\ pc[p] = "GetMetadata"
        /\ AfterGetUser(p)
        /\ UNCHANGED tokens
     \/ /\ pc[p] \in MongoCalls \ {"GetMetadata", "LogActivity"}
        /\ Continue(p, "LogActivity", user[p], NULL)
        /\ UNCHANGED tokens
     \/ /\ pc[p] = "LogActivity"
        /\ Finish(p)
  /\ UNCHANGED <<stores, op, started, now, banWrites>>
-----------------------------------------------------------------------------
\* The process dies and is started again: requests in progress are gone, what the
\* databases hold stays.
Die ==
  /\ faults < MaxFaults /\ faults' = faults + 1
  /\ pc' = [p \in Procs |-> "idle"]
  /\ user' = [p \in Procs |-> NULL]
  /\ aux' = [p \in Procs |-> NULL]
  /\ UNCHANGED reply
  /\ Quiet

Crash ==
  /\ \E p \in Procs : pc[p] # "idle"
  /\ Die
  /\ UNCHANGED <<op, started>>

\* HealthCheck panics in the request's goroutine, and nothing recovers it.
HealthCheck(p) ==
  /\ pc[p] = "idle" /\ "HealthCheck" \in Ops
  /\ started < MaxRequests /\ started' = started + 1
  /\ op' = [op EXCEPT ![p] = "HealthCheck"]
  /\ Die

Tick ==
  /\ now < MaxTime /\ now' = now + 1
  /\ UNCHANGED <<stores, tokens, local, bounds, banWrites>>

\* The bounded run is over.
AtRest ==
  /\ \A p \in Procs : pc[p] = "idle"
  /\ started = MaxRequests /\ now = MaxTime
  /\ UNCHANGED vars

First(p) ==
  \/ Register(p) \/ GetUserById(p) \/ GetUserByEmail(p) \/ ValidateToken(p)
  \/ UpdateUser(p) \/ DeleteUser(p) \/ Authenticate(p) \/ ChangePassword(p)
  \/ BanUser(p) \/ UnbanUser(p) \/ UpdateSubscription(p) \/ CancelSubscription(p)

\* The next repository call of a request in progress returns.
Step(p) ==
  \/ Create(p) \/ FindByID(p) \/ Update(p) \/ Ban(p) \/ Unban(p)
  \/ WriteSubscription(p)
  \/ GetMetadata(p) \/ ReadMetadata(p) \/ SaveMetadata(p)
  \/ LogBanChange(p) \/ LogSubscriptionChange(p) \/ LogActivity(p)

Fault ==
  \/ Crash
  \/ \E p \in Procs :
       HealthCheck(p) \/ FirstFails(p) \/ PostgresFails(p) \/ MongoFails(p)

Next == (\E p \in Procs : First(p) \/ Step(p)) \/ Fault \/ Tick \/ AtRest

Spec == Init /\ [][Next]_vars
-----------------------------------------------------------------------------
(***************************************************************************)
(* Properties that hold however requests interleave.                       *)
(***************************************************************************)
Rows == {id \in UserIds : users[id] # NULL}

\* The columns List filters by (is_banned, subscription_status and _level) tell
\* what the JSON columns tell, though six statements write them in four ways.
FilterColumnsAgree == \A id \in Rows : ColumnsAgree(users[id])

\* Stale copies written back whole carry a status and a ban_info that were stored
\* together, so no race leaves a ban that holds without a banned status, or a
\* banned status whose ban was lifted rather than run out.
StatusMatchesBan == \A id \in Rows : StatusFitsBan(users[id].user, now)

\* No stored password is blank or plain, although handlers blank the password of
\* the very objects they pass on, and clients send plain ones.
PasswordsHashed == \A id \in Rows : users[id].user.password[1] = "hash"

\* No request changes a role, although UpdateUser requests carry one and the
\* handler sets it on the object it hands to the service.
RolesNeverChange ==
  [][\A id \in Rows : users'[id].user.role = users[id].user.role]_vars

\* An administrator is never banned: the check of BanUser is made on a copy, some
\* statements before the ban is stored.
AdminsNotBanned ==
  \A id \in Rows : IsAdmin(users[id].user) =>
    ~ SaysBanned(users[id].user.ban)

\* How often each entry occurs in a history.
Occurrences(history, entry) ==
  Cardinality({i \in DOMAIN history : history[i] = entry})

AboutToLog(entry) ==
  {p \in Procs : /\ pc[p] = "LogBanChange" /\ user[p].id = entry.user
                 /\ entry.action = IF op[p] = "BanUser" THEN "ban" ELSE "unban"}

\* ban_history has an entry for each Ban and Unban statement that ran, once its
\* request got so far, and never one for a statement that did not run; only a
\* fault loses an entry.
BanHistoryAccounts ==
  \A entry \in BanEntry :
    LET logged == Occurrences(banHistory, entry) + Cardinality(AboutToLog(entry))
        written == Occurrences(banWrites, entry)
    IN  logged <= written /\ (faults = 0 => logged = written)

-----------------------------------------------------------------------------
(***************************************************************************)
(* Properties of a service that serves one request at a time.              *)
(***************************************************************************)

\* ban_history tells the bans and unbans in the order they were made.
BanHistoryInOrder ==
  faults = 0 => banWrites \in
    {banHistory} \union {Append(banHistory, entry) : entry \in BanEntry}

\* The old level and status a subscription change will be logged with are those
\* it replaces.
OldSubscriptionTrue ==
  \A p \in Procs : pc[p] = "UpdateSubscription" =>
    aux[p] = Brief(users[user[p].id].subscription)

\* What an account is, for Accounts: no account is one thing more.
Account ==
  [open : BOOLEAN, email : Emails, name : Names, password : Passwords \union {Blank},
   role : UserRoles, ban : BanInfo \union {NULL}, sub : SubscriptionInfo \union {NULL}]

ASSUME AccountAssumption == NULL \notin Account

\* The account a row stands for: a ban that was struck off is none.
AccountOf(row) ==
  [open |-> row.user.status # "DELETED", email |-> row.user.email,
   name |-> row.user.name, password |-> row.user.password, role |-> row.user.role,
   ban |-> IF SaysBanned(row.user.ban) THEN row.user.ban ELSE NULL,
   sub |-> row.user.sub]

Abstract == INSTANCE Accounts WITH
  account <- [id \in UserIds |-> IF users[id] = NULL THEN NULL ELSE AccountOf(users[id])],
  decisions <- banWrites,
  ProfileRequests <- UpdateRequests

\* Requests served one at a time take effect as Accounts says, with crashes and
\* failed statements anywhere in them.
ImplementsAccounts == Abstract!Spec

\* The table users as UserListing sees it change, whoever writes to it.
Table == INSTANCE UserTable WITH
  table <- users,
  NewRows <- [email : Emails, name : Names, secret : Secrets, role : {"USER"}],
  Copies <- User,
  BanEnds <- Times \union {NULL},
  Subscriptions <- SubscriptionInfo
-----------------------------------------------------------------------------
(***************************************************************************)
(* What comments of the code say of the program.                           *)
(***************************************************************************)

\* user_server.go:223: "Обновляем время последнего входа" (we update the time of the
\* last login) is all the Update of a login does: the other columns stay.
LoginWritesLoginTimeOnly ==
  [][\A p \in Procs :
       pc[p] = "Update" /\ pc'[p] # "Update"
         /\ op[p] = "Authenticate" /\ users' # users =>
         LET id == user[p].id IN
         [StrikeExpired(users[id].user, now) EXCEPT !.lastLogin = NULL]
           = [StrikeExpired(users'[id].user, now) EXCEPT !.lastLogin = NULL]]_vars

\* user.proto:275 and user_domain.go:32: a permanent ban ("Перманентный бан") is one
\* with no BannedUntil.
PermanentBanHasNoEnd ==
  \A id \in Rows : users[id].user.status = "BANNED_PERMANENTLY" =>
    users[id].user.ban.until = NULL

\* user.proto:170: the password of an UpdateUser request is "уже хешированный" (already
\* hashed): when the update has been stored, that hash is the stored password.
HashedPasswordStored ==
  [][\A p \in Procs :
       pc[p] = "Update" /\ pc'[p] \in {"ReadMetadata", "LogActivity"}
         /\ op[p] = "UpdateUser" /\ IsHashed(aux[p].password) =>
           users'[user[p].id].user.password = aux[p].password]_vars

\* mongo_user_repository.go:121: "UpdateMetadata обновляет метаданные пользователя" (updates
\* the metadata of the user): when the call has returned and no statement has failed, the
\* document has what was asked for.
MetadataUpdated ==
  [][\A p \in Procs, k \in MetaKeys :
       op[p] = "UpdateUser" /\ pc[p] \in {"ReadMetadata", "SaveMetadata"}
         /\ pc'[p] = "LogActivity" /\ faults' = faults /\ aux[p].metadata[k] # NULL =>
           /\ metadata'[user[p].id] # NULL
           /\ metadata'[user[p].id][k] = aux[p].metadata[k]]_vars

\* user_domain.go:587: generateUUID generates a UUID: no document is refused because its
\* id is taken.
AuditIdsUnique ==
  [][\A p \in Procs :
       pc[p] = "LogActivity" /\ pc'[p] = "idle" /\ faults' = faults =>
         \E doc \in activities' \ activities : doc.user = user[p].id]_vars
=============================================================================
