---------------------------- MODULE UserListing -----------------------------
(***************************************************************************)
(* ListUsers: the request's filter, the two statements of                  *)
(* PostgresUserRepository.List, the answer with its page count, and what a *)
(* client gets that walks through the pages while other requests write to  *)
(* the table.                                                              *)
(*                                                                         *)
(* The rows are those of UserTable, with the time they were created: the   *)
(* writing requests of UserService appear here by the one statement each   *)
(* of them sends, in any order and on any row.                             *)
(*                                                                         *)
(* Abstractions.  Emails and names are atoms, so a search finds the values *)
(* it is equal to.  The fields of an answer that no property tells apart   *)
(* (times, texts, the blank password, the echoed page) are left out.       *)
(***************************************************************************)
EXTENDS UserTable, FiniteSets, Sequences

CONSTANTS
  Walkers,          \* clients that walk through a listing, once each
  Writers,          \* clients that send the other requests, or watch the health
  Requests,         \* the ListUsersRequests a walk can begin with
  SeedTimes,        \* when the rows of Seed were created
  DefaultPageSize,  \* 20
  MaxPageSize,      \* 100
  MaxWrites         \* bound on the statements that write

Clients == Walkers \union Writers

ASSUME ListingAssumption ==
  /\ DefaultPageSize \in Nat /\ MaxPageSize \in Nat
  /\ 1 <= DefaultPageSize /\ DefaultPageSize <= MaxPageSize
  /\ Walkers \intersect Writers = {}
  /\ IsFiniteSet(UserIds)
  /\ \A request \in Requests : request.page \in Int /\ request.page_size \in Int
  /\ MaxWrites \in Nat
  /\ SeedTimes \in [DOMAIN Seed -> Times]

-----------------------------------------------------------------------------
(***************************************************************************)
(* The enumerations of the protocol: the names of the domain in the order  *)
(* of their numbers.  Number 0 is UNSPECIFIED.                             *)
(***************************************************************************)
UserStatusNames ==
  <<"ACTIVE", "INACTIVE", "SUSPENDED", "PENDING", "DELETED", "BANNED_PERMANENTLY",
    "BANNED_TEMPORARILY", "BANNED_BY_ADMIN", "BANNED_BY_SYSTEM", "BANNED_FOR_SPAM",
    "BANNED_FOR_ABUSE", "BANNED_FOR_FRAUD">>

UserRoleNames == <<"USER", "MODERATOR", "ADMIN", "SUPER_ADMIN", "BANNED_USER">>

SubscriptionStatusNames ==
  <<"INACTIVE", "TRIAL", "ACTIVE", "PAST_DUE", "CANCELED", "EXPIRED", "PAUSED",
    "PENDING", "GRACE_PERIOD", "UPGRADING", "DOWNGRADING">>

SubscriptionLevelNames ==
  <<"FREE", "BASIC", "STANDARD", "PRO", "PREMIUM", "ENTERPRISE", "LIFETIME",
    "STARTER", "BUSINESS", "ULTIMATE">>

EnumToProto(names, value) ==
  IF \E n \in DOMAIN names : names[n] = value
  THEN CHOOSE n \in DOMAIN names : names[n] = value
  ELSE 0

EnumFromProto_NextNumber(names, n) ==  \* mutant: a case returns its neighbour's name
  IF n + 1 \in DOMAIN names THEN names[n + 1] ELSE "UNSPECIFIED"

EnumFromProto(names, n) == IF n \in DOMAIN names THEN names[n] ELSE "UNSPECIFIED"

StatusToProto(status) == EnumToProto(UserStatusNames, status)
StatusFromProto(n) == EnumFromProto(UserStatusNames, n)
RoleToProto(role) == EnumToProto(UserRoleNames, role)
RoleFromProto(n) == EnumFromProto(UserRoleNames, n)
SubStatusToProto(status) == EnumToProto(SubscriptionStatusNames, status)
SubStatusFromProto(n) == EnumFromProto(SubscriptionStatusNames, n)
LevelToProto(level) == EnumToProto(SubscriptionLevelNames, level)
LevelFromProto(n) == EnumFromProto(SubscriptionLevelNames, n)

BanToProto(ban) == [is_banned |-> ban.isBanned, banned_until |-> ban.until]

SubscriptionToProto(sub) ==
  [status |-> SubStatusToProto(sub.status), level |-> LevelToProto(sub.level),
   subscription_end |-> sub.end]

UserToProto(user) ==
  [id |-> user.id,
   status |-> StatusToProto(user.status), role |-> RoleToProto(user.role),
   ban_info |-> IF user.ban = NULL THEN NULL ELSE BanToProto(user.ban),
   subscription |-> IF user.sub = NULL THEN NULL ELSE SubscriptionToProto(user.sub)]

-----------------------------------------------------------------------------
(***************************************************************************)
(* The filter the handler makes of a request, and the WHERE List makes of  *)
(* that filter.                                                            *)
(***************************************************************************)
AnyText == ""

Filter(request) ==
  [search |-> request.search,
   status |-> StatusFromProto(request.status), role |-> RoleFromProto(request.role),
   isBanned |-> IF request.is_banned THEN TRUE ELSE NULL,
   subStatus |-> IF request.subscription_status = 0 THEN NULL
                 ELSE SubStatusFromProto(request.subscription_status),
   subLevel |-> IF request.subscription_level = 0 THEN NULL
                ELSE LevelFromProto(request.subscription_level)]

Matches(row, filter) ==
  /\ row.user.status # "DELETED"
  /\ filter.search = AnyText \/ filter.search \in {row.user.name, row.user.email}
  /\ filter.status = "UNSPECIFIED" \/ row.user.status = filter.status
  /\ filter.role = "UNSPECIFIED" \/ row.user.role = filter.role
  /\ filter.isBanned = NULL \/ row.is_banned
  /\ filter.subStatus = NULL \/ row.subscription.status = filter.subStatus
  /\ filter.subLevel = NULL \/ row.subscription.level = filter.subLevel

\* The rows that match.
Listed(rows, request) ==
  LET filter == Filter(request)
  IN {id \in UserIds : rows[id] # NULL /\ Matches(rows[id], filter)}

PageOf(page) == IF page < 1 THEN 1 ELSE page

PageSizeOf(size) ==
  IF size < 1 THEN DefaultPageSize ELSE IF size > MaxPageSize THEN MaxPageSize ELSE size

Offset(page, size) == (PageOf(page) - 1) * PageSizeOf(size)

Orders_None(ids, times) ==  \* mutant: no ORDER BY
  {order \in [1 .. Cardinality(ids) -> ids] :
     \A i, j \in DOMAIN order : i < j => order[i] # order[j]}

\* ORDER BY created_at DESC: rows created at one time come in any order.
Orders(ids, times) ==
  {order \in [1 .. Cardinality(ids) -> ids] :
     \A i, j \in DOMAIN order :
       i < j => order[i] # order[j] /\ times[order[i]] >= times[order[j]]}

\* LIMIT and OFFSET: the ids a page shows of an order.
Slice(order, page, size) ==
  {order[i] : i \in {i \in DOMAIN order :
     Offset(page, size) < i /\ i <= Offset(page, size) + PageSizeOf(size)}}

TotalPages_RoundedDown(total, size) ==  \* mutant: the last, shorter page is not counted
  IF size > 0 THEN total \div size ELSE 0

\* total_pages: from the page size of the request, not the one the query used.
TotalPages(total, size) == IF size > 0 THEN (total + size - 1) \div size ELSE 0

-----------------------------------------------------------------------------
VARIABLES
  created,  \* the column created_at
  at,       \* where each client's request is
  walk,     \* what each walker knows, and what befell its walk
  writes    \* statements that have written so far

listingVars == <<table, created, at, walk, writes>>

InFlight == {"begun", "counted", "stored", "hung"}

(***************************************************************************)
(* A walk: its first request, the page it asks for next, the total of its  *)
(* last count, the ids it was shown.  The rest only observes: `due` is what was *)
(* listed at the count of the first page; since then `left` says a row has *)
(* ceased to be listed, `joined` that one has begun to; `late` that one    *)
(* has between the last count and its select; `twice` that a row was shown *)
(* again.                                                                  *)
(***************************************************************************)
Walk ==
  [state : {"new", "walking", "done"}, request : Requests,
   page : Int, total : Nat,
   seen : SUBSET UserIds, due : SUBSET UserIds,
   left : BOOLEAN, joined : BOOLEAN, late : BOOLEAN, twice : BOOLEAN]

NewWalk(request) ==
  [state |-> "new", request |-> request, page |-> request.page, total |-> 0,
   seen |-> {}, due |-> {},
   left |-> FALSE, joined |-> FALSE, late |-> FALSE, twice |-> FALSE]

ListingTypeOK ==
  /\ table \in [UserIds -> Row \union {NULL}]
  /\ created \in [UserIds -> Times]
  /\ at \in [Clients -> InFlight \union {"idle", "watching"}]
  /\ \A c \in Walkers :
       at[c] \notin {"stored", "watching"} /\ (at[c] # "idle" => walk[c].state = "walking")
  /\ \A c \in Writers : at[c] # "counted"
  /\ walk \in [Walkers -> Walk]
  /\ writes \in 0 .. MaxWrites

ListingInit ==
  /\ TableInit
  /\ created = [id \in UserIds |-> IF id \in DOMAIN Seed THEN SeedTimes[id] ELSE 0]
  /\ at = [c \in Clients |-> "idle"]
  /\ walk \in [Walkers -> {NewWalk(request) : request \in Requests}]
  /\ writes = 0

-----------------------------------------------------------------------------
(***************************************************************************)
(* ListUsers.                                                              *)
(***************************************************************************)
Move(c, from, to) == at[c] = from /\ at' = [at EXCEPT ![c] = to]

\* The walker asks for its next page, the first one or one after an answer or an error.
AskPage(c) ==
  /\ walk[c].state # "done"
  /\ Move(c, "idle", "begun")
  /\ walk' = [walk EXCEPT ![c].state = "walking"]
  /\ UNCHANGED <<table, created, writes>>

\* SELECT COUNT(*).  At the first page what is listed now is what the walk should show.
CountUsers(c) ==
  LET listed == Listed(table, walk[c].request)
      counted == [walk[c] EXCEPT !.total = Cardinality(listed), !.late = FALSE]
  IN /\ Move(c, "begun", "counted")
     /\ walk' = [walk EXCEPT ![c] =
          IF @.page # @.request.page THEN counted
          ELSE [counted EXCEPT !.due = listed, !.left = FALSE, !.joined = FALSE]]
     /\ UNCHANGED <<table, created, writes>>

\* SELECT ... LIMIT OFFSET, and the answer: the walker goes on to the next page while
\* the answer's total_pages says there is one.
SelectUsers(c) ==
  /\ Move(c, "counted", "idle")
  /\ \E order \in Orders(Listed(table, walk[c].request), created) :
       LET w == walk[c]
           shown == Slice(order, w.page, w.request.page_size)
           more == w.page < TotalPages(w.total, w.request.page_size)
       IN walk' = [walk EXCEPT ![c] =
            [w EXCEPT !.state = IF more THEN "walking" ELSE "done",
                      !.page = IF more THEN w.page + 1 ELSE w.page,
                      !.seen = w.seen \union shown,
                      !.twice = w.twice \/ w.seen \intersect shown # {}]]
  /\ UNCHANGED <<table, created, writes>>

ListFails_Retries(c) ==  \* mutant: the statements are tried again, for ever
  /\ c \in Walkers /\ at[c] \in {"begun", "counted"}
  /\ at' = [at EXCEPT ![c] = "begun"]
  /\ UNCHANGED <<table, created, walk, writes>>

\* Either statement fails: the handler answers Internal, and the walker may ask again.
ListFails(c) ==
  /\ c \in Walkers /\ at[c] \in {"begun", "counted"}
  /\ at' = [at EXCEPT ![c] = "idle"]
  /\ UNCHANGED <<table, created, walk, writes>>

ListUsers(c) == CountUsers(c) \/ SelectUsers(c) \/ ListFails(c)

(***************************************************************************)
(* The other requests.                                                     *)
(***************************************************************************)
AskWrite(c) ==
  /\ Move(c, "idle", "begun")
  /\ UNCHANGED <<table, created, walk, writes>>

\* What the walks notice of a table that changes.
Observe(old, new) ==
  walk' = [c \in Walkers |->
    LET w == walk[c]
        before == Listed(old, w.request)
        after == Listed(new, w.request)
        gone == before \ after # {}
        come == after \ before # {}
    IN [w EXCEPT !.left = @ \/ gone, !.joined = @ \/ come,
                 !.late = @ \/ (come /\ at[c] = "counted")]]

\* created_at is the time the object was made, which may be before rows that were inserted
\* earlier.  No UPDATE writes it.
Insert ==
  \E id \in UserIds, time \in Times :
    InsertRow(id) /\ created' = [created EXCEPT ![id] = time]

Update == (\E id \in UserIds : UpdateRow(id)) /\ UNCHANGED created

\* The statement of a request that writes; what is left of it goes to MongoDB.
WriteRow(c) ==
  /\ writes < MaxWrites /\ writes' = writes + 1
  /\ Move(c, "begun", "stored")
  /\ Insert \/ Update
  /\ Observe(table, table')

\* The request was refused, its statement failed, or it only read.
WriteFails(c) ==
  /\ Move(c, "begun", "idle")
  /\ UNCHANGED <<table, created, walk, writes>>

\* The documents of the audit are written, or fail to be, which is only printed.
LogToMongo(c) ==
  /\ Move(c, "stored", "idle")
  /\ UNCHANGED <<table, created, walk, writes>>

OtherRequest(c) == WriteRow(c) \/ WriteFails(c) \/ LogToMongo(c)

\* A statement never returns: the calls carry context.Background(), without a deadline.
Hang(c) ==
  /\ at[c] \in InFlight \ {"hung"}
  /\ at' = [at EXCEPT ![c] = "hung"]
  /\ UNCHANGED <<table, created, walk, writes>>
-----------------------------------------------------------------------------
(***************************************************************************)
(* Properties.                                                             *)
(***************************************************************************)

\* Two rows have one created_at, which ORDER BY does not tell apart.
Ties ==
  \E i, j \in UserIds :
    i # j /\ table[i] # NULL /\ table[j] # NULL /\ created[i] = created[j]

\* A walk from the first page with a page size in range that is told by total_pages that
\* it is over was shown every row it should: rows are missed only if one ceased to be
\* listed meanwhile (the rows behind it move up a page), if one began to be listed
\* between the last count and its select, or if two rows have one created_at.  Rows inserted otherwise cost nothing,
\* nor do pages that failed or a process that died between two pages.
WalkComplete ==
  \A c \in Walkers :
    LET w == walk[c] IN
    /\ w.state = "done" /\ w.request.page <= 1 /\ w.request.page_size \in 1 .. MaxPageSize
    /\ ~ w.left /\ ~ w.late /\ ~ Ties
    => w.due \subseteq w.seen

\* A walk is shown a row twice only if one began to be listed meanwhile, if it asked for
\* page 0, which is page 1, or if two rows have one created_at.  This holds of every
\* page size, in range or not.
WalkShowsOnce ==
  \A c \in Walkers :
    walk[c].twice => walk[c].joined \/ walk[c].request.page < 1 \/ Ties

\* The request that asks for users like one it was shown.
RequestLike(user) ==
  [search |-> AnyText, status |-> user.status, role |-> user.role,
   is_banned |-> user.ban_info # NULL /\ user.ban_info.is_banned,
   subscription_status |-> IF user.subscription = NULL THEN 0 ELSE user.subscription.status,
   subscription_level |-> IF user.subscription = NULL THEN 0 ELSE user.subscription.level]

\* Who filters by what a listing shows of a user finds that user: the tables of the
\* enumerations lead there and back, and the columns the filters use say what the JSON
\* columns, which are shown, say.  (Not the converse: a row whose column is set and whose JSON
\* is NULL is found for what it is not shown with.)
ShownFilterFinds ==
  \A id \in UserIds :
    Visible(table, id) => id \in Listed(table, RequestLike(UserToProto(table[id].user)))
=============================================================================
