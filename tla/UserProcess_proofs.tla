-------------------------- MODULE UserProcess_proofs --------------------------
(***************************************************************************)
(* Proofs about UserProcess and UserListing, for any clients, requests,    *)
(* rows, page sizes and number of writes: types, the databases of the      *)
(* calls, the agreement of what a listing shows with what its filters      *)
(* find, and what a walk through the pages of a changing table is shown.   *)
(***************************************************************************)
EXTENDS UserProcess, UserStore_proofs, FiniteSetTheorems

\* The columns the filters use agree with the JSON columns, in every row.
RowsAgree == \A id \in UserIds : table[id] # NULL => ColumnsAgree(table[id])

\* Where main is tells what is open.
MainHas ==
  /\ main \in {"mongo", "listen", "serving", "signalled", "stopping", "disconnect"} =>
       postgres = "open"
  /\ main \in {"listen", "serving", "signalled", "stopping", "disconnect"} => mongo = "open"

\* Calls are there only while the server serves or drains.
CallsServed ==
  \A c \in Clients : at[c] # "idle" => main \in Running \union {"stopping"}

IInv == TypeOK /\ RowsAgree /\ MainHas /\ CallsServed
-----------------------------------------------------------------------------
(***************************************************************************)
(* The enumerations.                                                       *)
(***************************************************************************)
\* A name that has a number has it for good: the way there and back is the identity.
LEMMA EnumRoundTrip ==
  ASSUME NEW names, NEW value, EnumToProto(names, value) # 0
  PROVE  EnumFromProto(names, EnumToProto(names, value)) = value
<1>1. \E n \in DOMAIN names : names[n] = value
  BY DEF EnumToProto
<1> DEFINE n == CHOOSE n \in DOMAIN names : names[n] = value
<1>2. n \in DOMAIN names /\ names[n] = value
  BY <1>1
<1>3. EnumToProto(names, value) = n
  BY <1>1 DEF EnumToProto
<1> QED BY <1>2, <1>3 DEF EnumFromProto

\* The number 0 filters nothing.
LEMMA EnumUnspecified ==
  /\ StatusFromProto(0) = "UNSPECIFIED" /\ RoleFromProto(0) = "UNSPECIFIED"
<1>1. 0 \notin DOMAIN UserStatusNames /\ 0 \notin DOMAIN UserRoleNames
  BY DEF UserStatusNames, UserRoleNames
<1> QED BY <1>1 DEF StatusFromProto, RoleFromProto, EnumFromProto

\* A row whose columns agree is found by what is shown of it.
LEMMA ShownIsFound ==
  ASSUME NEW row \in Row, ColumnsAgree(row), row.user.status # "DELETED"
  PROVE  Matches(row, Filter(RequestLike(UserToProto(row.user))))
<1> DEFINE user == row.user
           shown == UserToProto(user)
           request == RequestLike(shown)
           filter == Filter(request)
<1>1. /\ filter.search = AnyText
      /\ request.status = StatusToProto(user.status) /\ request.role = RoleToProto(user.role)
      /\ filter.status = StatusFromProto(request.status)
      /\ filter.role = RoleFromProto(request.role)
  BY DEF Filter, RequestLike, UserToProto
<1>2. filter.status = "UNSPECIFIED" \/ user.status = filter.status
  BY <1>1, EnumRoundTrip, EnumUnspecified DEF StatusToProto, StatusFromProto
<1>3. filter.role = "UNSPECIFIED" \/ user.role = filter.role
  BY <1>1, EnumRoundTrip, EnumUnspecified DEF RoleToProto, RoleFromProto
<1>4. filter.isBanned = NULL \/ row.is_banned
  <2>1. shown.ban_info = IF user.ban = NULL THEN NULL
                         ELSE [is_banned |-> user.ban.isBanned, banned_until |-> user.ban.until]
    BY DEF UserToProto, BanToProto
  <2>2. filter.isBanned = IF shown.ban_info # NULL /\ shown.ban_info.is_banned
                          THEN TRUE ELSE NULL
    BY DEF Filter, RequestLike
  <2> HIDE DEF filter, shown
  <2>3. CASE shown.ban_info # NULL /\ shown.ban_info.is_banned
    <3>1. user.ban # NULL /\ user.ban.isBanned
      BY <2>1, <2>3
    <3> QED BY <3>1 DEF ColumnsAgree, SaysBanned
  <2>4. CASE ~ (shown.ban_info # NULL /\ shown.ban_info.is_banned)
    BY <2>2, <2>4
  <2> QED BY <2>3, <2>4
<1>5. /\ filter.subStatus = NULL \/ row.subscription.status = filter.subStatus
      /\ filter.subLevel = NULL \/ row.subscription.level = filter.subLevel
  <2>1. shown.subscription = IF user.sub = NULL THEN NULL ELSE SubscriptionToProto(user.sub)
    BY DEF UserToProto
  <2>2. /\ request.subscription_status =
             IF shown.subscription = NULL THEN 0 ELSE shown.subscription.status
        /\ request.subscription_level =
             IF shown.subscription = NULL THEN 0 ELSE shown.subscription.level
    BY DEF RequestLike
  <2>3. /\ filter.subStatus = IF request.subscription_status = 0 THEN NULL
                              ELSE SubStatusFromProto(request.subscription_status)
        /\ filter.subLevel = IF request.subscription_level = 0 THEN NULL
                             ELSE LevelFromProto(request.subscription_level)
    BY DEF Filter
  <2> HIDE DEF filter, request, shown
  <2>4. CASE shown.subscription = NULL
    BY <2>2, <2>3, <2>4
  <2>5. CASE shown.subscription # NULL
    <3>1. /\ user.sub # NULL
          /\ request.subscription_status = SubStatusToProto(user.sub.status)
          /\ request.subscription_level = LevelToProto(user.sub.level)
      BY <2>1, <2>2, <2>5 DEF SubscriptionToProto
    <3>2. row.subscription = user.sub
      BY <3>1 DEF ColumnsAgree, ColumnsOf
    <3>3. filter.subStatus = NULL \/ user.sub.status = filter.subStatus
      BY <2>3, <3>1, EnumRoundTrip DEF SubStatusToProto, SubStatusFromProto
    <3>4. filter.subLevel = NULL \/ user.sub.level = filter.subLevel
      BY <2>3, <3>1, EnumRoundTrip DEF LevelToProto, LevelFromProto
    <3> QED BY <3>2, <3>3, <3>4
  <2> QED BY <2>4, <2>5
<1> HIDE DEF filter
<1> QED BY <1>1, <1>2, <1>3, <1>4, <1>5 DEF Matches, filter
-----------------------------------------------------------------------------
(***************************************************************************)
(* The rows.                                                               *)
(***************************************************************************)
RowsTyped ==
  /\ table \in [UserIds -> Row \union {NULL}]
  /\ created \in [UserIds -> Times]
  /\ RowsAgree

LEMMA NewUserTyped ==
  ASSUME NEW id \in UserIds, NEW draft,
         draft \in NewRows \/ \E i \in DOMAIN Seed : draft = Seed[i]
  PROVE  NewUser(id, draft) \in User
<1>1. /\ draft.email \in Emails /\ draft.name \in Names /\ draft.secret \in Secrets
      /\ draft.role \in UserRoles
  BY TableAssumption
<1>2. Hash(<<"plain", draft.secret>>) \in Passwords
  BY <1>1 DEF Hash, Passwords
<1> QED BY <1>1, <1>2 DEF NewUser, User, UserStatuses

\* One row is replaced by a row whose columns agree.
LEMMA RowStored ==
  ASSUME RowsTyped, NEW id \in UserIds, NEW row \in Row, ColumnsAgree(row),
         table' = [table EXCEPT ![id] = row], created' \in [UserIds -> Times]
  PROVE  RowsTyped'
<1>1. /\ table' \in [UserIds -> Row \union {NULL}] /\ table'[id] = row
      /\ \A i \in UserIds \ {id} : table'[i] = table[i]
  BY DEF RowsTyped
<1>2. \A i \in UserIds : table'[i] # NULL => ColumnsAgree(table'[i])
  BY <1>1 DEF RowsTyped, RowsAgree
<1> QED BY <1>1, <1>2 DEF RowsTyped, RowsAgree

\* What a statement puts in the place of what it finds.
LEMMA InsertStores ==
  ASSUME NEW id \in UserIds, InsertRow(id)
  PROVE  table[id] = NULL /\ \E row \in Row :
           ColumnsAgree(row) /\ table' = [table EXCEPT ![id] = row]
<1>1. PICK draft \in NewRows :
        table[id] = NULL /\ table' = [table EXCEPT ![id] = FromDomain(NewUser(id, draft))]
  BY DEF InsertRow
<1>2. NewUser(id, draft) \in User
  BY NewUserTyped
<1> QED BY <1>1, <1>2, FromDomainRow

LEMMA UpdateStores ==
  ASSUME RowsTyped, NEW id \in UserIds, UpdateRow(id)
  PROVE  table[id] # NULL /\ \E row \in Row :
           ColumnsAgree(row) /\ table' = [table EXCEPT ![id] = row]
<1>1. /\ table[id] # NULL
      /\ \E row \in
           {FromDomain(user) : user \in UpdatedUsers(id)}
           \union {UnbanRow(table[id])}
           \union {BanRow(table[id], NewBanInfo(end)) : end \in BanEnds}
           \union {SubscriptionRow(table[id], sub) : sub \in Subscriptions} :
           table' = [table EXCEPT ![id] = row]
  BY DEF UpdateRow
<1>2. table[id] \in Row /\ ColumnsAgree(table[id])
  BY <1>1 DEF RowsTyped, RowsAgree
<1>3. ASSUME NEW user \in UpdatedUsers(id)
      PROVE  FromDomain(user) \in Row /\ ColumnsAgree(FromDomain(user))
  <2>1. user \in User
    BY TableAssumption DEF UpdatedUsers
  <2> QED BY <2>1, FromDomainRow
<1>4. UnbanRow(table[id]) \in Row /\ ColumnsAgree(UnbanRow(table[id]))
  BY <1>2, UnbanRowRow
<1>5. ASSUME NEW end \in BanEnds
      PROVE  /\ BanRow(table[id], NewBanInfo(end)) \in Row
             /\ ColumnsAgree(BanRow(table[id], NewBanInfo(end)))
  <2>1. NewBanInfo(end) \in BanInfo /\ NewBanInfo(end).isBanned
    BY TableAssumption DEF NewBanInfo, BanInfo
  <2> QED BY <1>2, <2>1, BanRowRow
<1>6. ASSUME NEW sub \in Subscriptions
      PROVE  /\ SubscriptionRow(table[id], sub) \in Row
             /\ ColumnsAgree(SubscriptionRow(table[id], sub))
  <2>1. sub \in SubscriptionInfo \union {NULL}
    BY TableAssumption
  <2> QED BY <1>2, <2>1, SubscriptionRowRow
<1> QED BY <1>1, <1>3, <1>4, <1>5, <1>6

LEMMA WriteTyped ==
  ASSUME RowsTyped, Insert \/ Update
  PROVE  RowsTyped'
<1>1. created' \in [UserIds -> Times]
  BY DEF RowsTyped, Insert, Update
<1>2. PICK id \in UserIds : \E row \in Row :
        ColumnsAgree(row) /\ table' = [table EXCEPT ![id] = row]
  BY InsertStores, UpdateStores DEF Insert, Update
<1> QED BY <1>1, <1>2, RowStored
-----------------------------------------------------------------------------
(***************************************************************************)
(* The walks.                                                              *)
(***************************************************************************)
LEMMA ListedFinite ==
  ASSUME NEW rows, NEW request
  PROVE  Listed(rows, request) \in SUBSET UserIds /\ Cardinality(Listed(rows, request)) \in Nat
<1>1. Listed(rows, request) \in SUBSET UserIds
  BY DEF Listed
<1> QED BY <1>1, ListingAssumption, FS_Subset, FS_CardinalityType

LEMMA ShownTyped ==
  ASSUME NEW rows, NEW request, NEW times, NEW order \in Orders(Listed(rows, request), times),
         NEW page, NEW size
  PROVE  Slice(order, page, size) \in SUBSET UserIds
<1>1. \A i \in DOMAIN order : order[i] \in UserIds
  BY ListedFinite DEF Orders
<1> QED BY <1>1 DEF Slice

WalksTyped == walk \in [Walkers -> Walk]

LEMMA WalkMoves ==
  ASSUME WalksTyped, NEW c \in Walkers, NEW w \in Walk, walk' = [walk EXCEPT ![c] = w]
  PROVE  /\ WalksTyped' /\ walk'[c] = w
         /\ \A d \in Walkers \ {c} : walk'[d] = walk[d]
BY DEF WalksTyped

LEMMA AskedTyped ==
  ASSUME NEW w \in Walk
  PROVE  [w EXCEPT !.state = "walking"] \in Walk
BY DEF Walk

LEMMA CountedTyped ==
  ASSUME NEW w \in Walk, NEW listed \in SUBSET UserIds, NEW total \in Nat
  PROVE  /\ [w EXCEPT !.total = total, !.late = FALSE] \in Walk
         /\ [[w EXCEPT !.total = total, !.late = FALSE] EXCEPT
               !.due = listed, !.left = FALSE, !.joined = FALSE] \in Walk
BY DEF Walk

LEMMA SelectedTyped ==
  ASSUME NEW w \in Walk, NEW shown \in SUBSET UserIds, NEW more \in BOOLEAN
  PROVE  [w EXCEPT !.state = IF more THEN "walking" ELSE "done",
                   !.page = IF more THEN w.page + 1 ELSE w.page,
                   !.seen = w.seen \union shown,
                   !.twice = w.twice \/ w.seen \intersect shown # {}] \in Walk
<1> DEFINE state == IF more THEN "walking" ELSE "done"
           page == IF more THEN w.page + 1 ELSE w.page
           seen == w.seen \union shown
           twice == w.twice \/ w.seen \intersect shown # {}
<1>1. page \in Int /\ seen \in SUBSET UserIds /\ state \in {"new", "walking", "done"}
  BY DEF Walk
<1>2. twice \in BOOLEAN
  OBVIOUS
<1> HIDE DEF state, page, seen, twice
<1>3. [w EXCEPT !.state = state, !.page = page, !.seen = seen, !.twice = twice] \in Walk
  BY <1>1, <1>2 DEF Walk
<1> QED BY <1>3 DEF state, page, seen, twice

LEMMA ObserveTyped ==
  ASSUME WalksTyped, NEW old, NEW new, Observe(old, new)
  PROVE  WalksTyped' /\ \A c \in Walkers : walk'[c].state = walk[c].state
<1> DEFINE gone(c) == Listed(old, walk[c].request) \ Listed(new, walk[c].request) # {}
           come(c) == Listed(new, walk[c].request) \ Listed(old, walk[c].request) # {}
           noticed(c) == [walk[c] EXCEPT !.left = @ \/ gone(c), !.joined = @ \/ come(c),
                                         !.late = @ \/ (come(c) /\ at[c] = "counted")]
<1>1. walk' = [c \in Walkers |-> noticed(c)]
  BY DEF Observe
<1>2. ASSUME NEW c \in Walkers
      PROVE  noticed(c) \in Walk /\ noticed(c).state = walk[c].state
  <2>1. walk[c] \in Walk
    BY DEF WalksTyped
  <2>2. gone(c) \in BOOLEAN /\ come(c) \in BOOLEAN
    OBVIOUS
  <2> HIDE DEF gone, come
  <2> QED BY <2>1, <2>2 DEF Walk
<1> HIDE DEF noticed
<1> QED BY <1>1, <1>2 DEF WalksTyped
-----------------------------------------------------------------------------
(***************************************************************************)
(* The steps.                                                              *)
(***************************************************************************)
Places == InFlight \union {"idle", "watching"}

CallsTyped ==
  /\ at \in [Clients -> Places]
  /\ \A c \in Walkers :
       at[c] \notin {"stored", "watching"} /\ (at[c] # "idle" => walk[c].state = "walking")
  /\ \A c \in Writers : at[c] # "counted"

WritesTyped == writes \in 0 .. MaxWrites

Parts ==
  /\ RowsTyped /\ CallsTyped /\ WalksTyped /\ WritesTyped /\ ProcessTypeOK
  /\ MainHas /\ CallsServed

LEMMA IInvMeans == IInv <=> Parts
BY DEF IInv, TypeOK, ListingTypeOK, Parts, RowsTyped, CallsTyped, WalksTyped, WritesTyped,
       Places

LEMMA IInvNext == ASSUME Parts' PROVE IInv'
BY DEF IInv, TypeOK, ListingTypeOK, Parts, RowsTyped, CallsTyped, WalksTyped, WritesTyped,
       Places

\* A client moves; the rows and the process stay.
LEMMA CallMoves ==
  ASSUME IInv, NEW c \in Clients, NEW from, NEW to \in Places, Move(c, from, to),
         from # "idle" \/ main \in Running,
         c \in Walkers => to \in {"idle", "begun", "counted", "hung"},
         c \in Writers => to # "counted",
         UNCHANGED processVars, RowsTyped', WalksTyped', WritesTyped',
         \A d \in Walkers \ {c} : walk'[d].state = walk[d].state,
         c \in Walkers /\ to # "idle" => walk'[c].state = "walking"
  PROVE  IInv'
<1> USE IInvMeans DEF Parts
<1>1. /\ at' \in [Clients -> Places] /\ at[c] = from /\ at'[c] = to
      /\ \A d \in Clients \ {c} : at'[d] = at[d]
  BY DEF Move, CallsTyped
<1>2. CallsTyped'
  <2>1. ASSUME NEW d \in Walkers
        PROVE  at'[d] \notin {"stored", "watching"}
                 /\ (at'[d] # "idle" => walk'[d].state = "walking")
    <3>1. CASE d = c
      BY <1>1, <3>1
    <3>2. CASE d # c
      BY <1>1, <3>2 DEF CallsTyped, Clients
    <3> QED BY <3>1, <3>2
  <2>2. ASSUME NEW d \in Writers
        PROVE  at'[d] # "counted"
    BY <1>1 DEF CallsTyped, Clients
  <2> QED BY <1>1, <2>1, <2>2 DEF CallsTyped
<1>3. ProcessTypeOK' /\ MainHas'
  BY DEF ProcessTypeOK, MainHas, processVars
<1>4. CallsServed'
  BY <1>1 DEF CallsServed, processVars
<1> QED BY <1>2, <1>3, <1>4, IInvNext

\* Nothing but the place of a client changes.
LEMMA OnlyMoves ==
  ASSUME IInv, NEW c \in Clients, NEW from, NEW to \in Places, Move(c, from, to),
         from # "idle" \/ (main \in Running /\ c \in Writers),
         c \in Walkers => to \in {"idle", "begun", "counted", "hung"},
         c \in Writers => to # "counted",
         UNCHANGED <<table, created, walk, writes, processVars>>
  PROVE  IInv'
<1> USE IInvMeans DEF Parts
<1>1. RowsTyped' /\ WalksTyped' /\ WritesTyped'
  BY DEF RowsTyped, RowsAgree, WalksTyped, WritesTyped
<1>2. c \in Walkers => walk'[c].state = "walking"
  BY ListingAssumption DEF CallsTyped, Move
<1> QED BY <1>1, <1>2, CallMoves

LEMMA TakesKeeps ==
  ASSUME IInv, NEW c \in Clients, Takes(c)
  PROVE  IInv'
<1> USE IInvMeans DEF Parts
<1>1. CASE c \in Walkers /\ AskPage(c)
  <2> DEFINE w == [walk[c] EXCEPT !.state = "walking"]
  <2>1. /\ Move(c, "idle", "begun") /\ walk' = [walk EXCEPT ![c] = w]
        /\ UNCHANGED <<table, created, writes, processVars>> /\ main \in Running
    BY <1>1 DEF AskPage, Takes
  <2>2. w \in Walk /\ w.state = "walking"
    BY <1>1, AskedTyped DEF WalksTyped, Walk
  <2> HIDE DEF w
  <2>3. /\ WalksTyped' /\ walk'[c].state = "walking"
        /\ \A d \in Walkers \ {c} : walk'[d].state = walk[d].state
    BY <1>1, <2>1, <2>2, WalkMoves
  <2>4. RowsTyped' /\ WritesTyped'
    BY <2>1 DEF RowsTyped, RowsAgree, WritesTyped
  <2> QED BY <1>1, <2>1, <2>3, <2>4, CallMoves, ListingAssumption DEF Places, InFlight
<1>2. CASE c \in Writers /\ AskWrite(c)
  BY <1>2, OnlyMoves, ListingAssumption DEF AskWrite, Takes, Places, InFlight
<1> QED BY <1>1, <1>2 DEF Takes

LEMMA ListUsersKeeps ==
  ASSUME IInv, NEW c \in Walkers, ListUsers(c), UNCHANGED processVars
  PROVE  IInv'
<1> USE IInvMeans DEF Parts
<1> DEFINE listed == Listed(table, walk[c].request)
<1>1. c \in Clients /\ c \notin Writers /\ walk[c] \in Walk
  BY ListingAssumption DEF Clients, WalksTyped
<1>2. CASE CountUsers(c)
  <2> DEFINE counted == [walk[c] EXCEPT !.total = Cardinality(listed), !.late = FALSE]
             w == IF walk[c].page # walk[c].request.page THEN counted
                  ELSE [counted EXCEPT !.due = listed, !.left = FALSE, !.joined = FALSE]
  <2>1. /\ Move(c, "begun", "counted") /\ walk' = [walk EXCEPT ![c] = w]
        /\ UNCHANGED <<table, created, writes>>
    BY <1>2 DEF CountUsers
  <2>2. listed \in SUBSET UserIds /\ Cardinality(listed) \in Nat
    BY ListedFinite
  <2>3. w \in Walk
    BY <1>1, <2>2, CountedTyped
  <2>4. walk[c].state = "walking"
    BY <2>1 DEF CallsTyped, Move
  <2>5. w.state = "walking"
    BY <1>1, <2>4 DEF Walk
  <2> HIDE DEF w
  <2>6. /\ WalksTyped' /\ walk'[c].state = "walking"
        /\ \A d \in Walkers \ {c} : walk'[d].state = walk[d].state
    BY <2>1, <2>3, <2>5, WalkMoves
  <2>7. RowsTyped' /\ WritesTyped'
    BY <2>1 DEF RowsTyped, RowsAgree, WritesTyped
  <2> QED BY <1>1, <2>1, <2>6, <2>7, CallMoves DEF Places, InFlight
<1>3. CASE SelectUsers(c)
  <2>1. PICK order \in Orders(listed, created) :
          LET w == walk[c]
              shown == Slice(order, w.page, w.request.page_size)
              more == w.page < TotalPages(w.total, w.request.page_size)
          IN walk' = [walk EXCEPT ![c] =
               [w EXCEPT !.state = IF more THEN "walking" ELSE "done",
                         !.page = IF more THEN w.page + 1 ELSE w.page,
                         !.seen = w.seen \union shown,
                         !.twice = w.twice \/ w.seen \intersect shown # {}]]
    BY <1>3 DEF SelectUsers
  <2> DEFINE w == walk[c]
             shown == Slice(order, w.page, w.request.page_size)
             more == w.page < TotalPages(w.total, w.request.page_size)
             next == [w EXCEPT !.state = IF more THEN "walking" ELSE "done",
                               !.page = IF more THEN w.page + 1 ELSE w.page,
                               !.seen = w.seen \union shown,
                               !.twice = w.twice \/ w.seen \intersect shown # {}]
  <2>2. walk' = [walk EXCEPT ![c] = next]
    BY <2>1
  <2>3. shown \in SUBSET UserIds /\ more \in BOOLEAN
    BY ShownTyped
  <2>4. next \in Walk
    <3> HIDE DEF shown, more
    <3> QED BY <1>1, <2>3, SelectedTyped
  <2> HIDE DEF next
  <2>5. WalksTyped' /\ \A d \in Walkers \ {c} : walk'[d].state = walk[d].state
    BY <2>2, <2>4, WalkMoves
  <2>6. Move(c, "counted", "idle") /\ UNCHANGED <<table, created, writes>>
    BY <1>3 DEF SelectUsers
  <2>7. RowsTyped' /\ WritesTyped'
    BY <2>6 DEF RowsTyped, RowsAgree, WritesTyped
  <2> QED BY <1>1, <2>5, <2>6, <2>7, CallMoves DEF Places, InFlight
<1>4. CASE ListFails(c)
  BY <1>1, <1>4, OnlyMoves DEF ListFails, Move, Places, InFlight
<1> QED BY <1>2, <1>3, <1>4 DEF ListUsers

LEMMA OtherRequestKeeps ==
  ASSUME IInv, NEW c \in Writers, OtherRequest(c), UNCHANGED processVars
  PROVE  IInv'
<1> USE IInvMeans DEF Parts
<1>1. c \in Clients /\ c \notin Walkers
  BY ListingAssumption DEF Clients
<1>2. CASE WriteRow(c)
  <2>1. RowsTyped'
    BY <1>2, WriteTyped DEF WriteRow
  <2>2. WalksTyped' /\ \A d \in Walkers : walk'[d].state = walk[d].state
    BY <1>2, ObserveTyped DEF WriteRow
  <2>3. WritesTyped'
    BY <1>2, ListingAssumption DEF WriteRow, WritesTyped
  <2> QED BY <1>1, <1>2, <2>1, <2>2, <2>3, CallMoves DEF WriteRow, Places, InFlight
<1>3. CASE WriteFails(c) \/ LogToMongo(c)
  BY <1>1, <1>3, OnlyMoves DEF WriteFails, LogToMongo, Places, InFlight
<1> QED BY <1>2, <1>3 DEF OtherRequest

LEMMA ClientKeeps ==
  ASSUME IInv, NEW c \in Clients,
         Serves(c) \/ Hangs(c) \/ Watch(c) \/ Unwatch(c)
  PROVE  IInv'
<1>1. CASE Serves(c)
  BY <1>1, ListUsersKeeps, OtherRequestKeeps DEF Serves
<1>2. CASE Hangs(c)
  <2>1. /\ at[c] # "idle" /\ Move(c, at[c], "hung")
        /\ UNCHANGED <<table, created, walk, writes, processVars>>
    BY <1>2 DEF Hangs, Hang, InFlight, Move
  <2> QED BY <2>1, OnlyMoves DEF Places, InFlight
<1>3. CASE Watch(c)
  <2>1. c \notin Walkers
    BY <1>3, ListingAssumption DEF Watch
  <2> QED BY <1>3, <2>1, OnlyMoves DEF Watch, Places
<1>4. CASE Unwatch(c)
  BY <1>4, OnlyMoves DEF Unwatch, Places
<1> QED BY <1>1, <1>2, <1>3, <1>4

\* The process ends, wherever it is.
LEMMA ExitKeeps ==
  ASSUME IInv, Exit
  PROVE  IInv'
<1> USE IInvMeans DEF Parts
<1>1. RowsTyped' /\ WalksTyped' /\ WritesTyped'
  BY DEF Exit, RowsTyped, RowsAgree, WalksTyped, WritesTyped
<1>2. CallsTyped' /\ CallsServed'
  BY DEF Exit, CallsTyped, CallsServed, Places, Clients
<1>3. ProcessTypeOK' /\ MainHas'
  BY DEF Exit, ProcessTypeOK, MainHas
<1> QED BY <1>1, <1>2, <1>3, IInvNext

\* main goes on: the rows and the calls stay.
LEMMA MainKeeps ==
  ASSUME IInv,
         Start \/ SignalProcess \/ (MainGoesOn /\ ~ Return)
  PROVE  IInv'
<1> USE IInvMeans DEF Parts
<1> DEFINE MainStep ==
             Start \/ LoadConfig \/ ConnectPostgres \/ ConnectMongoDB \/ Listen
               \/ SignalProcess \/ GracefulStop \/ Drained \/ Disconnect \/ ClosePostgres
<1>1. MainStep
  BY DEF MainGoesOn
<1>2. UNCHANGED listingVars
  BY <1>1 DEF Start, LoadConfig, ConnectPostgres, ConnectMongoDB, Listen, SignalProcess,
     GracefulStop, Drained, Disconnect, ClosePostgres
<1>3. RowsTyped' /\ WalksTyped' /\ WritesTyped' /\ CallsTyped'
  BY <1>2 DEF listingVars, RowsTyped, RowsAgree, WalksTyped, WritesTyped, CallsTyped
<1>4. ProcessTypeOK'
  BY <1>1 DEF Start, LoadConfig, ConnectPostgres, ConnectMongoDB, Listen, SignalProcess,
     GracefulStop, Drained, Disconnect, ClosePostgres, Step, ProcessTypeOK, Starting, Running,
     Ending
<1>5. MainHas'
  BY <1>1 DEF Start, LoadConfig, ConnectPostgres, ConnectMongoDB, Listen, SignalProcess,
     GracefulStop, Drained, Disconnect, ClosePostgres, Step, MainHas
<1>6. CallsServed'
  <2>1. \/ main \notin Running \union {"stopping"}
        \/ main' \in Running \union {"stopping"}
        \/ \A c \in Clients : at[c] = "idle"
    BY <1>1 DEF Start, LoadConfig, ConnectPostgres, ConnectMongoDB, Listen, SignalProcess,
       GracefulStop, Drained, Disconnect, ClosePostgres, Step, Running
  <2> QED BY <1>2, <2>1 DEF CallsServed, listingVars
<1> QED BY <1>3, <1>4, <1>5, <1>6, IInvNext

LEMMA StutterKeeps ==
  ASSUME IInv, UNCHANGED vars
  PROVE  IInv'
<1> USE IInvMeans DEF Parts
<1>1. RowsTyped' /\ WalksTyped' /\ WritesTyped' /\ CallsTyped'
  BY DEF vars, listingVars, RowsTyped, RowsAgree, WalksTyped, WritesTyped, CallsTyped
<1>2. ProcessTypeOK' /\ MainHas' /\ CallsServed'
  BY DEF vars, listingVars, processVars, ProcessTypeOK, MainHas, CallsServed
<1> QED BY <1>1, <1>2, IInvNext

LEMMA NextKeeps ==
  ASSUME IInv, [Next]_vars
  PROVE  IInv'
<1>1. CASE Start \/ SignalProcess \/ (MainGoesOn /\ ~ Return)
  BY <1>1, MainKeeps
<1>2. CASE Return \/ StartFails \/ ServeFails \/ HealthCheck \/ Crash
  BY <1>2, ExitKeeps DEF Return, StartFails, ServeFails, HealthCheck, Crash
<1>3. ASSUME NEW c \in Clients,
             Takes(c) \/ Serves(c) \/ Hangs(c) \/ Watch(c) \/ Unwatch(c)
      PROVE  IInv'
  BY <1>3, TakesKeeps, ClientKeeps
<1>4. CASE UNCHANGED vars
  BY <1>4, StutterKeeps
<1> QED BY <1>1, <1>2, <1>3, <1>4 DEF Next

LEMMA Initially == Init => IInv
<1> SUFFICES ASSUME Init PROVE IInv
  OBVIOUS
<1>1. RowsTyped
  <2> DEFINE seeded(id) == FromDomain(NewUser(id, Seed[id]))
  <2>1. ASSUME NEW id \in DOMAIN Seed
        PROVE  seeded(id) \in Row /\ ColumnsAgree(seeded(id)) /\ id \in UserIds
    BY NewUserTyped, FromDomainRow, TableAssumption
  <2>2. /\ table = [id \in UserIds |-> IF id \in DOMAIN Seed THEN seeded(id) ELSE NULL]
        /\ created = [id \in UserIds |-> IF id \in DOMAIN Seed THEN SeedTimes[id] ELSE 0]
    BY DEF Init, ListingInit, TableInit
  <2>3. table \in [UserIds -> Row \union {NULL}] /\ RowsAgree
    <3> HIDE DEF seeded
    <3> QED BY <2>1, <2>2 DEF RowsAgree
  <2>4. created \in [UserIds -> Times]
    BY <2>2, ListingAssumption, StoreAssumption DEF Times
  <2> QED BY <2>3, <2>4 DEF RowsTyped
<1>2. WalksTyped
  <2>1. \A request \in Requests : NewWalk(request) \in Walk
    BY ListingAssumption DEF NewWalk, Walk
  <2> QED BY <2>1 DEF Init, ListingInit, WalksTyped
<1>3. CallsTyped /\ CallsServed /\ WritesTyped
  BY ListingAssumption DEF Init, ListingInit, CallsTyped, CallsServed, WritesTyped, Places, Clients
<1>4. ProcessTypeOK /\ MainHas
  BY DEF Init, ProcessTypeOK, MainHas
<1> QED BY <1>1, <1>2, <1>3, <1>4, IInvMeans DEF Parts

LEMMA Invariance == Spec => []IInv
<1> QED BY Initially, NextKeeps, PTL DEF Spec
-----------------------------------------------------------------------------
(***************************************************************************)
(* Pages and places.  The place of a row is the number of rows created     *)
(* after it, which come before it in every order; a page shows the rows    *)
(* whose places are on it.  Rows inserted in front of a row, or gone from  *)
(* in front of it, move its place.                                         *)
(***************************************************************************)
\* A page size the code makes of a request is positive.
LEMMA PageSizes ==
  ASSUME NEW size \in Int
  PROVE  PageSizeOf(size) \in Nat /\ PageSizeOf(size) > 0
BY ListingAssumption DEF PageSizeOf

\* The rows of one page end where those of the next begin, or later.
LEMMA NextOffset ==
  ASSUME NEW page \in Int, NEW size \in Int
  PROVE  /\ Offset(page, size) \in Nat
         /\ Offset(page + 1, size) <= Offset(page, size) + PageSizeOf(size)
         /\ page >= 1 => Offset(page + 1, size) = Offset(page, size) + PageSizeOf(size)
         /\ page <= 1 => Offset(page, size) = 0
<1> DEFINE s == PageSizeOf(size)
           p == PageOf(page)
<1>1. s \in Nat /\ s > 0 /\ p \in Nat /\ p >= 1
  BY PageSizes DEF PageOf
<1>2. Offset(page, size) = (p - 1) * s /\ Offset(page + 1, size) = (PageOf(page + 1) - 1) * s
  BY DEF Offset
<1>3. page >= 1 => p = page /\ PageOf(page + 1) = page + 1
  BY DEF PageOf
<1>4. page <= 1 => p = 1
  BY DEF PageOf
<1>4a. page < 1 => PageOf(page + 1) = 1
  BY DEF PageOf
<1> HIDE DEF s, p
<1>5. (p - 1) * s \in Nat
  BY <1>1
<1>6. page >= 1 => (PageOf(page + 1) - 1) * s = (p - 1) * s + s
  BY <1>1, <1>3
<1>7. page <= 1 => (p - 1) * s = 0
  BY <1>1, <1>4
<1>8. page < 1 => (PageOf(page + 1) - 1) * s = 0
  BY <1>1, <1>4a
<1>9. s = PageSizeOf(size)
  BY DEF s
<1> QED BY <1>1, <1>2, <1>5, <1>6, <1>7, <1>8, <1>9

\* The pages counted hold all the rows counted.
LEMMA LastPage ==
  ASSUME NEW total \in Nat, NEW page \in Int, NEW size \in 1 .. MaxPageSize,
         ~ (page < TotalPages(total, size))
  PROVE  total <= Offset(page, size) + PageSizeOf(size)
<1>1. MaxPageSize \in Nat /\ size \in Nat /\ size > 0 /\ PageSizeOf(size) = size
  BY ListingAssumption DEF PageSizeOf
<1> DEFINE q == (total + size - 1) \div size
<1>2. q \in Int /\ q <= page
  BY <1>1 DEF TotalPages
<1>3. total + size - 1 < (q + 1) * size
  BY <1>1
<1> HIDE DEF q
<1>4. PageOf(page) \in Nat /\ PageOf(page) >= q /\ PageOf(page) >= 1
  BY <1>2 DEF PageOf
<1>5. (q + 1) * size <= (PageOf(page) + 1) * size
  BY <1>1, <1>2, <1>4
<1>6. (PageOf(page) + 1) * size = (PageOf(page) - 1) * size + size + size
  BY <1>1, <1>4
<1>7. (PageOf(page) - 1) * size \in Int /\ (q + 1) * size \in Int
  BY <1>1, <1>2, <1>4
<1> QED BY <1>1, <1>3, <1>5, <1>6, <1>7 DEF Offset

\* The rows created later than one: those in front of it in every listing.
Ahead(listed, times, id) == {k \in listed : times[k] > times[id]}

Place(listed, times, id) == Cardinality(Ahead(listed, times, id))

LEMMA PlacesBelow ==
  ASSUME NEW listed \in SUBSET UserIds, NEW times, NEW id
  PROVE  /\ IsFiniteSet(Ahead(listed, times, id)) /\ Place(listed, times, id) \in Nat
         /\ id \in listed /\ times \in [UserIds -> Times] =>
              Place(listed, times, id) < Cardinality(listed)
<1>1. /\ IsFiniteSet(listed) /\ Ahead(listed, times, id) \in SUBSET listed
      /\ IsFiniteSet(Ahead(listed, times, id)) /\ Cardinality(listed) \in Nat
      /\ Place(listed, times, id) \in Nat /\ Place(listed, times, id) <= Cardinality(listed)
      /\ Cardinality(listed) = Place(listed, times, id) => listed = Ahead(listed, times, id)
  BY ListingAssumption, FS_Subset, FS_CardinalityType DEF Ahead, Place
<1>2. id \in listed /\ times \in [UserIds -> Times] => id \notin Ahead(listed, times, id)
  BY StoreAssumption DEF Ahead, Times
<1> QED BY <1>1, <1>2

\* Without ties an order has every row at its place.
LEMMA OrderPlaces ==
  ASSUME NEW listed \in SUBSET UserIds, NEW times \in [UserIds -> Times],
         \A i, j \in listed : i # j => times[i] # times[j],
         NEW order \in Orders(listed, times)
  PROVE  /\ DOMAIN order = 1 .. Cardinality(listed)
         /\ \A id \in listed : \E i \in DOMAIN order : order[i] = id
         /\ \A i \in DOMAIN order :
              order[i] \in listed /\ Place(listed, times, order[i]) = i - 1
<1> DEFINE n == Cardinality(listed)
<1>1. IsFiniteSet(listed) /\ n \in Nat
  BY ListingAssumption, FS_Subset, FS_CardinalityType
<1>2. /\ order \in [1 .. n -> listed]
      /\ \A i, j \in 1 .. n :
           i < j => order[i] # order[j] /\ times[order[i]] >= times[order[j]]
  BY DEF Orders
<1> HIDE DEF n
<1>3. \A i, j \in 1 .. n : i # j => order[i] # order[j]
  BY <1>1, <1>2
<1>4. order \in Injection(1 .. n, listed)
  BY <1>2, <1>3 DEF Injection, IsInjective
<1>5. IsFiniteSet(1 .. n) /\ Cardinality(1 .. n) = n
  BY <1>1, FS_Interval
<1>6. order \in Surjection(1 .. n, listed)
  BY <1>1, <1>4, <1>5, FS_Injection DEF n
<1>7. \A id \in listed : \E i \in 1 .. n : order[i] = id
  BY <1>6 DEF Surjection
<1>8. ASSUME NEW i \in 1 .. n
      PROVE  Place(listed, times, order[i]) = i - 1
  <2> DEFINE before == 1 .. (i - 1)
             ahead == Ahead(listed, times, order[i])
             f == [j \in before |-> order[j]]
  <2>1. before \subseteq 1 .. n /\ i \in Nat
    BY <1>1
  <2>2. \A j \in before : order[j] \in ahead
    <3> TAKE j \in before
    <3>1. j \in 1 .. n /\ j < i
      BY <2>1
    <3>2. order[i] \in listed /\ order[j] \in listed /\ order[i] # order[j]
          /\ times[order[j]] >= times[order[i]]
      BY <1>2, <3>1
    <3>3. times[order[j]] \in Int /\ times[order[i]] \in Int
      BY <3>2, StoreAssumption DEF Times
    <3> QED BY <3>2, <3>3 DEF Ahead
  <2>3. \A k \in ahead : \E j \in before : order[j] = k
    <3> TAKE k \in ahead
    <3>1. k \in listed /\ times[k] > times[order[i]] /\ order[i] \in listed
      BY <1>2 DEF Ahead
    <3>2. PICK j \in 1 .. n : order[j] = k
      BY <1>7, <3>1
    <3>3. times[k] \in Int /\ times[order[i]] \in Int
      BY <3>1, StoreAssumption DEF Times
    <3>4. ~ (times[order[i]] >= times[k])
      BY <3>1, <3>3
    <3>5. j # i /\ ~ (i < j)
      BY <1>2, <3>2, <3>3, <3>1, <3>4
    <3>6. j \in before
      BY <2>1, <3>5
    <3> QED BY <3>2, <3>6
  <2>4. f \in Bijection(before, ahead)
    <3> HIDE DEF ahead
    <3>1. f \in [before -> ahead]
      BY <2>2
    <3>2. \A j, k \in before : f[j] = f[k] => j = k
      BY <1>3, <2>1
    <3>3. \A k \in ahead : \E j \in before : f[j] = k
      BY <2>3
    <3> HIDE DEF f, before
    <3> QED BY <3>1, <3>2, <3>3 DEF Bijection, Injection, IsInjective, Surjection
  <2>5. IsFiniteSet(before) /\ Cardinality(before) = i - 1
    BY <2>1, FS_Interval
  <2>6. ExistsBijection(before, ahead)
    BY <2>4 DEF ExistsBijection
  <2>7. Cardinality(ahead) = Cardinality(before)
    <3> HIDE DEF ahead, before
    <3> QED BY <2>5, <2>6, FS_Bijection
  <2> QED BY <2>5, <2>7 DEF Place
<1> QED BY <1>2, <1>7, <1>8 DEF n

\* Without ties a page shows the rows whose places are on it.
LEMMA SliceShows ==
  ASSUME NEW listed \in SUBSET UserIds, NEW times \in [UserIds -> Times],
         \A i, j \in listed : i # j => times[i] # times[j],
         NEW order \in Orders(listed, times), NEW page \in Int, NEW size \in Int, NEW id
  PROVE  id \in Slice(order, page, size) <=>
           /\ id \in listed
           /\ Offset(page, size) <= Place(listed, times, id)
           /\ Place(listed, times, id) < Offset(page, size) + PageSizeOf(size)
<1> DEFINE from == Offset(page, size)
           to == from + PageSizeOf(size)
<1>1. from \in Nat /\ to \in Nat
  <2>1. Offset(page, size) \in Nat /\ PageSizeOf(size) \in Nat
    BY NextOffset, PageSizes
  <2> QED BY <2>1
<1>2. /\ DOMAIN order = 1 .. Cardinality(listed)
      /\ \A k \in listed : \E i \in DOMAIN order : order[i] = k
      /\ \A i \in DOMAIN order :
           order[i] \in listed /\ Place(listed, times, order[i]) = i - 1
  BY OrderPlaces
<1>3. \A i \in DOMAIN order : i \in Int
  BY <1>2, ListingAssumption, FS_Subset, FS_CardinalityType
<1>4. id \in Slice(order, page, size) <=>
        \E i \in DOMAIN order : from < i /\ i <= to /\ order[i] = id
  BY DEF Slice
<1> HIDE DEF from, to
<1>5. ASSUME id \in Slice(order, page, size)
      PROVE  id \in listed /\ from <= Place(listed, times, id) /\ Place(listed, times, id) < to
  <2>1. PICK i \in DOMAIN order : from < i /\ i <= to /\ order[i] = id
    BY <1>4, <1>5
  <2> QED BY <1>1, <1>2, <1>3, <2>1
<1>6. ASSUME id \in listed, from <= Place(listed, times, id), Place(listed, times, id) < to
      PROVE  id \in Slice(order, page, size)
  <2>1. PICK i \in DOMAIN order : order[i] = id
    BY <1>2, <1>6
  <2> QED BY <1>1, <1>2, <1>3, <1>4, <1>6, <2>1
<1> QED BY <1>5, <1>6 DEF from, to
-----------------------------------------------------------------------------
(***************************************************************************)
(* What holds of a walk w while its request lists the ids `listed`, created *)
(* at `times`.                                                             *)
(***************************************************************************)

\* The first page is asked for, and counted anew, until it is shown.
Begins(w) ==
  /\ w.page >= w.request.page
  /\ w.state # "done" /\ w.page = w.request.page => w.seen = {} /\ ~ w.twice

\* The total is that of the table, unless rows have come since.
Counts(w, listed, where) ==
  where = "counted" /\ ~ w.late => Cardinality(listed) <= w.total

\* What was shown is in front of the page the walk is at, so it is not shown again.
ShownBehind(w, listed, times) ==
  /\ ~ w.joined
  /\ w.request.page >= 1
  => /\ ~ w.twice
     /\ w.state # "done" =>
          \A id \in w.seen \intersect listed :
            Place(listed, times, id) < Offset(w.page, w.request.page_size)

\* What is due and was not shown is on the page the walk is at, or behind it.
DueAhead(w, listed, times) ==
  /\ ~ w.left
  /\ w.request.page <= 1
  /\ w.request.page_size \in 1 .. MaxPageSize
  => /\ w.state # "done" =>
          /\ w.due \subseteq listed
          /\ \A id \in w.due \ w.seen :
               Place(listed, times, id) >= Offset(w.page, w.request.page_size)
     /\ w.state = "done" /\ ~ w.late => w.due \subseteq w.seen

Steady(w, listed, where) == Begins(w) /\ Counts(w, listed, where)

InPlace(w, listed, times) == ShownBehind(w, listed, times) /\ DueAhead(w, listed, times)

LEMMA CountedHolds ==
  ASSUME NEW w \in Walk, NEW listed \in SUBSET UserIds, NEW times, NEW where,
         w.state = "walking", Steady(w, listed, where),
         NEW next,
         next = LET counted == [w EXCEPT !.total = Cardinality(listed), !.late = FALSE]
                IN IF w.page # w.request.page THEN counted
                   ELSE [counted EXCEPT !.due = listed, !.left = FALSE, !.joined = FALSE]
  PROVE  /\ Steady(next, listed, "counted")
         /\ InPlace(w, listed, times) => InPlace(next, listed, times)
<1>1. Cardinality(listed) \in Nat /\ \A id : Place(listed, times, id) \in Nat
  BY PlacesBelow, ListingAssumption, FS_Subset, FS_CardinalityType
<1>2. /\ next.state = "walking" /\ next.request = w.request /\ next.page = w.page
      /\ next.total = Cardinality(listed)
      /\ next.seen = w.seen /\ next.twice = w.twice
  BY DEF Walk
<1>3. Steady(next, listed, "counted")
  BY <1>1, <1>2 DEF Steady, Begins, Counts
<1>4. CASE w.page # w.request.page
  <2>1. next.due = w.due /\ next.left = w.left /\ next.joined = w.joined
    BY <1>4 DEF Walk
  <2>2. ShownBehind(w, listed, times) => ShownBehind(next, listed, times)
    BY <1>2, <2>1 DEF ShownBehind
  <2>3. DueAhead(w, listed, times) => DueAhead(next, listed, times)
    BY <1>2, <2>1 DEF DueAhead
  <2> QED BY <1>3, <2>2, <2>3 DEF InPlace
<1>5. CASE w.page = w.request.page
  <2>1. next.due = listed /\ next.seen = {} /\ ~ next.twice
    BY <1>2, <1>5 DEF Walk, Steady, Begins
  <2>2. w.page \in Int /\ w.request.page_size \in Int
    BY ListingAssumption DEF Walk
  <2>3. w.page <= 1 => Offset(w.page, w.request.page_size) = 0
    BY <2>2, NextOffset
  <2>4. ShownBehind(next, listed, times) /\ DueAhead(next, listed, times)
    BY <1>1, <1>2, <1>5, <2>1, <2>2, <2>3 DEF ShownBehind, DueAhead
  <2> QED BY <1>3, <2>4 DEF InPlace
<1> QED BY <1>4, <1>5

LEMMA SelectedHolds ==
  ASSUME NEW w \in Walk, NEW listed \in SUBSET UserIds, NEW times \in [UserIds -> Times],
         w.state = "walking", Steady(w, listed, "counted"),
         NEW order \in Orders(listed, times),
         NEW shown, shown = Slice(order, w.page, w.request.page_size),
         NEW more \in BOOLEAN, more <=> w.page < TotalPages(w.total, w.request.page_size),
         NEW next \in Walk,
         /\ next.state = IF more THEN "walking" ELSE "done"
         /\ next.page = IF more THEN w.page + 1 ELSE w.page
         /\ next.seen = w.seen \union shown
         /\ next.twice <=> w.twice \/ w.seen \intersect shown # {}
         /\ next.request = w.request /\ next.total = w.total /\ next.due = w.due
         /\ next.left = w.left /\ next.joined = w.joined /\ next.late = w.late
  PROVE  /\ Steady(next, listed, "idle")
         /\ InPlace(w, listed, times) /\ (\A i, j \in listed : i # j => times[i] # times[j])
            => InPlace(next, listed, times)
<1> DEFINE distinct == \A i, j \in listed : i # j => times[i] # times[j]
           page == w.page
           size == w.request.page_size
           place(id) == Place(listed, times, id)
<1>1. page \in Int /\ size \in Int /\ w.request.page \in Int /\ w.total \in Nat
  BY ListingAssumption DEF Walk
<1>2. /\ Offset(page, size) \in Nat /\ PageSizeOf(size) \in Nat
      /\ Offset(page + 1, size) \in Nat
      /\ Offset(page + 1, size) <= Offset(page, size) + PageSizeOf(size)
      /\ page >= 1 => Offset(page + 1, size) = Offset(page, size) + PageSizeOf(size)
  <2> HIDE DEF page, size
  <2>1. page + 1 \in Int
    BY <1>1
  <2>2. Offset(page + 1, size) \in Nat
    BY <1>1, <2>1, NextOffset
  <2> QED BY <1>1, <2>2, NextOffset, PageSizes
<1>3. ASSUME distinct, NEW id
      PROVE  id \in shown <=>
               /\ id \in listed /\ Offset(page, size) <= place(id)
               /\ place(id) < Offset(page, size) + PageSizeOf(size)
  <2>1. \A i, j \in listed : i # j => times[i] # times[j]
    BY <1>3
  <2>2. shown = Slice(order, page, size)
    OBVIOUS
  <2> HIDE DEF page, size
  <2> QED BY <1>1, <2>1, <2>2, SliceShows
<1>4. \A id : place(id) \in Nat /\ (id \in listed => place(id) < Cardinality(listed))
  BY PlacesBelow
<1>5. Cardinality(listed) \in Nat
  BY ListingAssumption, FS_Subset, FS_CardinalityType
<1> HIDE DEF place, distinct
<1>6. Begins(next)
  BY <1>1 DEF Steady, Begins
<1>7. Counts(next, listed, "idle")
  BY DEF Counts
<1>8. ASSUME distinct, InPlace(w, listed, times)
      PROVE  ShownBehind(next, listed, times)
  <2> SUFFICES ASSUME ~ w.joined, w.request.page >= 1
               PROVE  /\ ~ next.twice
                      /\ more => \A id \in next.seen \intersect listed :
                           place(id) < Offset(page + 1, size)
    BY DEF ShownBehind, place
  <2>1. /\ ~ w.twice
        /\ \A id \in w.seen \intersect listed : place(id) < Offset(page, size)
    BY <1>8 DEF InPlace, ShownBehind, place
  <2>2. page >= 1
    BY <1>1 DEF Steady, Begins
  <2>3. w.seen \intersect shown = {}
    BY <1>2, <1>3, <1>4, <1>8, <2>1
  <2>4. \A id \in next.seen \intersect listed : place(id) < Offset(page + 1, size)
    BY <1>2, <1>3, <1>4, <1>8, <2>1, <2>2
  <2> QED BY <2>1, <2>3, <2>4
<1>9. ASSUME distinct, InPlace(w, listed, times)
      PROVE  DueAhead(next, listed, times)
  <2> SUFFICES ASSUME ~ w.left, w.request.page <= 1, size \in 1 .. MaxPageSize
               PROVE  /\ more => /\ w.due \subseteq listed
                                 /\ \A id \in w.due \ next.seen :
                                      place(id) >= Offset(page + 1, size)
                      /\ ~ more /\ ~ w.late => w.due \subseteq next.seen
    BY DEF DueAhead, place
  <2>1. w.due \subseteq listed /\ \A id \in w.due \ w.seen : place(id) >= Offset(page, size)
    BY <1>9 DEF InPlace, DueAhead, place
  <2>2. \A id \in w.due \ next.seen : place(id) >= Offset(page, size) + PageSizeOf(size)
    BY <1>2, <1>3, <1>4, <1>9, <2>1
  <2>3. ASSUME ~ more, ~ w.late
        PROVE  w.due \ next.seen = {}
    <3>1. Cardinality(listed) <= w.total
      BY <2>3 DEF Steady, Counts
    <3>2. w.total <= Offset(page, size) + PageSizeOf(size)
      BY <1>1, <2>3, LastPage
    <3> QED BY <1>1, <1>2, <1>4, <1>5, <2>1, <2>2, <3>1, <3>2
  <2> QED BY <1>2, <1>4, <2>1, <2>2, <2>3
<1> QED BY <1>6, <1>7, <1>8, <1>9 DEF Steady, InPlace, distinct

\* What a walk notices of a table that listed `old` and lists `new`.
Notices(w, old, new, where, next) ==
  /\ next.left <=> w.left \/ old \ new # {}
  /\ next.joined <=> w.joined \/ new \ old # {}
  /\ next.late <=> w.late \/ (new \ old # {} /\ where = "counted")
  /\ next.state = w.state /\ next.request = w.request /\ next.page = w.page
  /\ next.total = w.total /\ next.seen = w.seen /\ next.due = w.due
  /\ next.twice = w.twice

LEMMA ObservedHolds ==
  ASSUME NEW w \in Walk, NEW old \in SUBSET UserIds, NEW new \in SUBSET UserIds,
         NEW times, NEW later, \A id \in old : later[id] = times[id],
         NEW where, Steady(w, old, where),
         NEW next \in Walk, Notices(w, old, new, where, next),
         w.state = "done" => where # "counted"
  PROVE  /\ Steady(next, new, where)
         /\ InPlace(w, old, times) => InPlace(next, new, later)
<1> USE DEF Notices
<1>1. w.total \in Nat /\ Offset(w.page, w.request.page_size) \in Nat
  BY ListingAssumption, NextOffset DEF Walk
<1>2. Begins(next)
  BY DEF Steady, Begins
<1>3. Counts(next, new, where)
  <2> SUFFICES ASSUME where = "counted", ~ next.late PROVE Cardinality(new) <= w.total
    BY DEF Counts
  <2>1. new \in SUBSET old /\ Cardinality(old) <= w.total
    BY DEF Steady, Counts
  <2> QED BY <1>1, <2>1, ListingAssumption, FS_Subset, FS_CardinalityType
<1>4. ASSUME InPlace(w, old, times)
      PROVE  ShownBehind(next, new, later)
  <2> SUFFICES ASSUME ~ next.joined, w.request.page >= 1
               PROVE  /\ ~ w.twice
                      /\ w.state # "done" =>
                           \A id \in w.seen \intersect new :
                             Place(new, later, id) < Offset(w.page, w.request.page_size)
    BY DEF ShownBehind
  <2>1. new \subseteq old
    OBVIOUS
  <2>2. ASSUME NEW id \in new
        PROVE  Place(new, later, id) <= Place(old, times, id)
    <3>1. Ahead(new, later, id) \in SUBSET Ahead(old, times, id)
      BY <2>1 DEF Ahead
    <3> QED BY <3>1, PlacesBelow, FS_Subset DEF Place
  <2>3. \A id : Place(new, later, id) \in Nat /\ Place(old, times, id) \in Nat
    BY PlacesBelow
  <2> QED BY <1>1, <1>4, <2>1, <2>2, <2>3 DEF InPlace, ShownBehind
<1>5. ASSUME InPlace(w, old, times)
      PROVE  DueAhead(next, new, later)
  <2> SUFFICES ASSUME ~ next.left, w.request.page <= 1,
                      w.request.page_size \in 1 .. MaxPageSize
               PROVE  /\ w.state # "done" =>
                           /\ w.due \subseteq new
                           /\ \A id \in w.due \ w.seen :
                                Place(new, later, id) >= Offset(w.page, w.request.page_size)
                      /\ w.state = "done" /\ ~ next.late => w.due \subseteq w.seen
    BY DEF DueAhead
  <2>1. old \subseteq new
    OBVIOUS
  <2>2. ASSUME NEW id \in old
        PROVE  Place(old, times, id) <= Place(new, later, id)
    <3>1. Ahead(old, times, id) \in SUBSET Ahead(new, later, id)
      BY <2>1 DEF Ahead
    <3> QED BY <3>1, PlacesBelow, FS_Subset DEF Place
  <2>3. \A id : Place(new, later, id) \in Nat /\ Place(old, times, id) \in Nat
    BY PlacesBelow
  <2> QED BY <1>1, <1>5, <2>1, <2>2, <2>3 DEF InPlace, DueAhead
<1> QED BY <1>2, <1>3, <1>4, <1>5 DEF Steady, InPlace
-----------------------------------------------------------------------------
\* Rows stay with their creation time, and ties with them.
LEMMA RowsStay ==
  ASSUME IInv, Insert \/ Update
  PROVE  /\ \A id \in UserIds :
              table[id] # NULL => table'[id] # NULL /\ created'[id] = created[id]
         /\ Ties => Ties'
<1>1. RowsTyped
  BY IInvMeans DEF Parts
<1>2. NULL \notin Row
  BY StoreAssumption
<1>3. CASE Insert
  <2>1. PICK id \in UserIds, time \in Times :
          InsertRow(id) /\ created' = [created EXCEPT ![id] = time]
    BY <1>3 DEF Insert
  <2>2. PICK row \in Row : table[id] = NULL /\ table' = [table EXCEPT ![id] = row]
    BY <2>1, InsertStores
  <2>3. \A i \in UserIds :
          table[i] # NULL => table'[i] # NULL /\ created'[i] = created[i]
    BY <1>1, <2>1, <2>2 DEF RowsTyped
  <2> QED BY <2>3 DEF Ties
<1>4. CASE Update
  <2>1. PICK id \in UserIds, row \in Row : table' = [table EXCEPT ![id] = row]
    BY <1>1, <1>4, UpdateStores DEF Update
  <2>2. \A i \in UserIds :
          table[i] # NULL => table'[i] # NULL /\ created'[i] = created[i]
    BY <1>1, <1>2, <1>4, <2>1 DEF RowsTyped, Update
  <2> QED BY <2>2 DEF Ties
<1> QED BY <1>3, <1>4

\* What holds of every walk.
HoldsOf(c) ==
  LET w == walk[c]
      listed == Listed(table, w.request)
  IN Steady(w, listed, at[c]) /\ (~ Ties => InPlace(w, listed, created))

WalksHold == \A c \in Walkers : HoldsOf(c)

\* A walk that is asked nothing, of a table that stays.
LEMMA QuietHolds ==
  ASSUME NEW c \in Walkers, HoldsOf(c), walk'[c] = walk[c], UNCHANGED <<table, created>>,
         at'[c] = "counted" => at[c] = "counted"
  PROVE  HoldsOf(c)'
<1>1. Ties' <=> Ties
  BY DEF Ties
<1> QED BY <1>1 DEF HoldsOf, Steady, Counts

\* One walker acts, on a table that stays.
LEMMA OneActs ==
  ASSUME IInv, WalksHold, NEW c \in Walkers, NEW from, NEW to, Move(c, from, to),
         NEW w, walk' = [walk EXCEPT ![c] = w], UNCHANGED <<table, created>>,
         Steady(w, Listed(table, w.request), to),
         ~ Ties => InPlace(w, Listed(table, w.request), created)
  PROVE  WalksHold'
<1>1. WalksTyped /\ CallsTyped
  BY IInvMeans DEF Parts
<1>2. /\ walk'[c] = w /\ at'[c] = to
      /\ \A d \in Walkers \ {c} : walk'[d] = walk[d] /\ at'[d] = at[d]
  BY <1>1 DEF Move, WalksTyped, CallsTyped, Clients
<1>3. Ties' <=> Ties
  BY DEF Ties
<1>4. HoldsOf(c)'
  BY <1>2, <1>3 DEF HoldsOf
<1>5. \A d \in Walkers \ {c} : HoldsOf(d)'
  BY <1>2, QuietHolds DEF WalksHold
<1> QED BY <1>4, <1>5 DEF WalksHold

LEMMA AskHolds ==
  ASSUME IInv, WalksHold, NEW c \in Walkers, AskPage(c)
  PROVE  WalksHold'
<1> DEFINE w == [walk[c] EXCEPT !.state = "walking"]
           listed == Listed(table, walk[c].request)
<1>1. walk[c] \in Walk /\ HoldsOf(c) /\ walk[c].state # "done"
  BY IInvMeans DEF Parts, WalksTyped, WalksHold, AskPage
<1>2. /\ w.state # "done" /\ w.request = walk[c].request /\ w.page = walk[c].page
      /\ w.total = walk[c].total /\ w.seen = walk[c].seen /\ w.due = walk[c].due
      /\ w.left = walk[c].left /\ w.joined = walk[c].joined /\ w.late = walk[c].late
      /\ w.twice = walk[c].twice
  BY <1>1 DEF Walk
<1>3. Steady(w, listed, "begun") /\ (~ Ties => InPlace(w, listed, created))
  <2> HIDE DEF w, listed
  <2>1. Steady(walk[c], listed, at[c]) /\ (~ Ties => InPlace(walk[c], listed, created))
    BY <1>1 DEF HoldsOf, listed
  <2>2. Steady(w, listed, "begun")
    BY <1>1, <1>2, <2>1 DEF Steady, Begins, Counts
  <2>3. ShownBehind(walk[c], listed, created) => ShownBehind(w, listed, created)
    BY <1>1, <1>2 DEF ShownBehind
  <2>4. DueAhead(walk[c], listed, created) => DueAhead(w, listed, created)
    BY <1>1, <1>2 DEF DueAhead
  <2> QED BY <2>1, <2>2, <2>3, <2>4 DEF InPlace
<1>4. Move(c, "idle", "begun") /\ walk' = [walk EXCEPT ![c] = w]
      /\ UNCHANGED <<table, created>>
  BY DEF AskPage
<1> HIDE DEF w
<1> QED BY <1>2, <1>3, <1>4, OneActs

LEMMA CountHolds ==
  ASSUME IInv, WalksHold, NEW c \in Walkers, CountUsers(c)
  PROVE  WalksHold'
<1> DEFINE listed == Listed(table, walk[c].request)
           counted == [walk[c] EXCEPT !.total = Cardinality(listed), !.late = FALSE]
           w == IF walk[c].page # walk[c].request.page THEN counted
                ELSE [counted EXCEPT !.due = listed, !.left = FALSE, !.joined = FALSE]
<1>1. /\ walk[c] \in Walk /\ HoldsOf(c) /\ at[c] = "begun"
      /\ Move(c, "begun", "counted") /\ walk' = [walk EXCEPT ![c] = w]
      /\ UNCHANGED <<table, created>>
  BY IInvMeans DEF Parts, WalksTyped, WalksHold, CountUsers, Move
<1>2. walk[c].state = "walking"
  BY <1>1, IInvMeans DEF Parts, CallsTyped
<1>3. Steady(walk[c], listed, "begun") /\ (~ Ties => InPlace(walk[c], listed, created))
  BY <1>1 DEF HoldsOf
<1>4. w.request = walk[c].request
  BY <1>1 DEF Walk
<1>5. /\ Steady(w, listed, "counted")
      /\ InPlace(walk[c], listed, created) => InPlace(w, listed, created)
  <2>1. listed \in SUBSET UserIds
    BY ListedFinite
  <2> HIDE DEF listed
  <2> QED BY <1>1, <1>2, <1>3, <2>1, CountedHolds
<1> HIDE DEF w
<1> QED BY <1>1, <1>3, <1>4, <1>5, OneActs

LEMMA SelectHolds ==
  ASSUME IInv, WalksHold, NEW c \in Walkers, SelectUsers(c)
  PROVE  WalksHold'
<1> DEFINE listed == Listed(table, walk[c].request)
<1>1. PICK order \in Orders(listed, created) :
        LET w == walk[c]
            shown == Slice(order, w.page, w.request.page_size)
            more == w.page < TotalPages(w.total, w.request.page_size)
        IN walk' = [walk EXCEPT ![c] =
             [w EXCEPT !.state = IF more THEN "walking" ELSE "done",
                       !.page = IF more THEN w.page + 1 ELSE w.page,
                       !.seen = w.seen \union shown,
                       !.twice = w.twice \/ w.seen \intersect shown # {}]]
  BY DEF SelectUsers
<1> DEFINE w == walk[c]
           shown == Slice(order, w.page, w.request.page_size)
           more == w.page < TotalPages(w.total, w.request.page_size)
           next == [w EXCEPT !.state = IF more THEN "walking" ELSE "done",
                             !.page = IF more THEN w.page + 1 ELSE w.page,
                             !.seen = w.seen \union shown,
                             !.twice = w.twice \/ w.seen \intersect shown # {}]
<1>2. /\ Move(c, "counted", "idle") /\ walk' = [walk EXCEPT ![c] = next]
      /\ UNCHANGED <<table, created>>
  BY <1>1 DEF SelectUsers
<1>3. w \in Walk /\ w.state = "walking" /\ HoldsOf(c) /\ created \in [UserIds -> Times]
  BY <1>2, IInvMeans DEF Parts, WalksTyped, WalksHold, CallsTyped, RowsTyped, Move
<1>4. /\ listed \in SUBSET UserIds
      /\ ~ Ties => \A i, j \in listed : i # j => created[i] # created[j]
  BY DEF Ties, Listed
<1>5. Steady(w, listed, "counted") /\ (~ Ties => InPlace(w, listed, created))
  BY <1>2, <1>3 DEF HoldsOf, Move
<1>6. shown \in SUBSET UserIds /\ more \in BOOLEAN
  BY ShownTyped
<1>7. next \in Walk
  <2> HIDE DEF shown, more, w
  <2> QED BY <1>3, <1>6, SelectedTyped
<1>8. /\ next.state = IF more THEN "walking" ELSE "done"
      /\ next.page = IF more THEN w.page + 1 ELSE w.page
      /\ next.seen = w.seen \union shown
      /\ next.twice <=> w.twice \/ w.seen \intersect shown # {}
      /\ next.request = w.request /\ next.total = w.total /\ next.due = w.due
      /\ next.left = w.left /\ next.joined = w.joined /\ next.late = w.late
  <2> HIDE DEF shown, more, w
  <2> QED BY <1>3 DEF Walk
<1>9. Steady(next, listed, "idle") /\ (~ Ties => InPlace(next, listed, created))
  <2>1. shown = Slice(order, w.page, w.request.page_size)
        /\ (more <=> w.page < TotalPages(w.total, w.request.page_size))
    OBVIOUS
  <2> HIDE DEF shown, more, w, next, listed
  <2> QED BY <1>3, <1>4, <1>5, <1>6, <1>7, <1>8, <2>1, SelectedHolds
<1>10. listed = Listed(table, next.request)
  BY <1>8
<1> HIDE DEF next
<1> QED BY <1>2, <1>9, <1>10, OneActs

LEMMA WriteHolds ==
  ASSUME IInv, WalksHold, NEW c \in Writers, WriteRow(c)
  PROVE  WalksHold'
<1> SUFFICES ASSUME NEW d \in Walkers PROVE HoldsOf(d)'
  BY DEF WalksHold
<1> DEFINE w == walk[d]
           old == Listed(table, w.request)
           new == Listed(table', w.request)
           next == [w EXCEPT !.left = @ \/ old \ new # {}, !.joined = @ \/ new \ old # {},
                             !.late = @ \/ (new \ old # {} /\ at[d] = "counted")]
<1>1. w \in Walk /\ HoldsOf(d) /\ (w.state = "done" => at[d] # "counted")
  BY IInvMeans DEF Parts, WalksTyped, WalksHold, CallsTyped
<1>2. walk'[d] = next
  BY DEF WriteRow, Observe
<1>3. at'[d] = at[d]
  BY IInvMeans, ListingAssumption DEF Parts, CallsTyped, WriteRow, Move, Clients
<1>4. /\ \A id \in UserIds :
           table[id] # NULL => table'[id] # NULL /\ created'[id] = created[id]
      /\ Ties => Ties'
  BY RowsStay DEF WriteRow
<1>5. old \in SUBSET UserIds /\ new \in SUBSET UserIds
      /\ \A id \in old : created'[id] = created[id]
  BY <1>4 DEF Listed
<1>6. Steady(w, old, at[d]) /\ (~ Ties => InPlace(w, old, created))
  BY <1>1 DEF HoldsOf
<1>7. next \in Walk /\ Notices(w, old, new, at[d], next)
  <2> HIDE DEF old, new, w
  <2> QED BY <1>1 DEF Walk, Notices
<1>8. /\ Steady(next, new, at[d])
      /\ InPlace(w, old, created) => InPlace(next, new, created')
  <2> HIDE DEF old, new, w, next
  <2> QED BY <1>1, <1>5, <1>6, <1>7, ObservedHolds
<1>9. new = Listed(table', next.request)
  BY <1>7 DEF Notices
<1> HIDE DEF next
<1> QED BY <1>2, <1>3, <1>4, <1>6, <1>8, <1>9 DEF HoldsOf

\* The table and the walks stay, and no walker begins to select.
LEMMA AllQuiet ==
  ASSUME WalksHold, UNCHANGED <<table, created, walk>>,
         \A c \in Walkers : at'[c] = "counted" => at[c] = "counted"
  PROVE  WalksHold'
BY QuietHolds DEF WalksHold

LEMMA NextHolds ==
  ASSUME IInv, WalksHold, [Next]_vars
  PROVE  WalksHold'
<1>1. CASE Exit
  BY <1>1, AllQuiet DEF Exit, Clients
<1>2. CASE UNCHANGED listingVars
  BY <1>2, AllQuiet DEF listingVars
<1>3. ASSUME NEW c \in Walkers, Takes(c) \/ Serves(c)
      PROVE  WalksHold'
  <2>1. c \notin Writers
    BY ListingAssumption
  <2>2. CASE ListFails(c)
    <3>1. at' = [at EXCEPT ![c] = "idle"] /\ UNCHANGED <<table, created, walk>>
      BY <2>2 DEF ListFails
    <3>2. at \in [Clients -> Places]
      BY IInvMeans DEF Parts, CallsTyped
    <3>3. \A d \in Walkers : at'[d] = "counted" => at[d] = "counted"
      BY <3>1, <3>2 DEF Clients
    <3> QED BY <3>1, <3>3, AllQuiet
  <2> QED BY <1>3, <2>1, <2>2, AskHolds, CountHolds, SelectHolds DEF Takes, Serves, ListUsers
<1>4. ASSUME NEW c \in Clients, NEW from, NEW to, to # "counted", Move(c, from, to),
             UNCHANGED <<table, created, walk>>
      PROVE  WalksHold'
  <2>1. at \in [Clients -> Places]
    BY IInvMeans DEF Parts, CallsTyped
  <2>2. \A d \in Walkers : at'[d] = "counted" => at[d] = "counted"
    BY <1>4, <2>1 DEF Move, Clients
  <2> QED BY <1>4, <2>2, AllQuiet
<1>5. ASSUME NEW c \in Writers, Takes(c) \/ Serves(c)
      PROVE  WalksHold'
  <2>1. c \notin Walkers /\ c \in Clients
    BY ListingAssumption DEF Clients
  <2>2. CASE WriteRow(c)
    BY <2>2, WriteHolds
  <2>3. CASE AskWrite(c) \/ WriteFails(c) \/ LogToMongo(c)
    BY <1>4, <2>1, <2>3 DEF AskWrite, WriteFails, LogToMongo
  <2> QED BY <1>5, <2>1, <2>2, <2>3 DEF Takes, Serves, OtherRequest
<1>6. ASSUME NEW c \in Clients, Hangs(c) \/ Watch(c) \/ Unwatch(c)
      PROVE  WalksHold'
  <2>1. PICK from, to : /\ to # "counted" /\ Move(c, from, to)
                        /\ UNCHANGED <<table, created, walk>>
    BY <1>6 DEF Hangs, Hang, Watch, Unwatch, Move
  <2> QED BY <1>4, <2>1
<1>7. CASE Start \/ SignalProcess \/ MainGoesOn
  BY <1>1, <1>2, <1>7 DEF Start, SignalProcess, MainGoesOn, LoadConfig, ConnectPostgres,
     ConnectMongoDB, Listen, GracefulStop, Drained, Disconnect, ClosePostgres, Return
<1>8. CASE StartFails \/ ServeFails \/ HealthCheck \/ Crash
  BY <1>1, <1>8 DEF StartFails, ServeFails, HealthCheck, Crash
<1>9. CASE UNCHANGED vars
  BY <1>2, <1>9 DEF vars
<1> QED BY <1>3, <1>5, <1>6, <1>7, <1>8, <1>9 DEF Next, Clients

LEMMA InitHolds == Init => WalksHold
<1> SUFFICES ASSUME Init, NEW c \in Walkers PROVE HoldsOf(c)
  BY DEF WalksHold
<1>1. PICK request \in Requests : walk[c] = NewWalk(request)
  BY DEF Init, ListingInit
<1>2. at[c] # "counted"
  BY DEF Init, ListingInit, Clients
<1>3. request.page \in Int
  BY ListingAssumption
<1> QED BY <1>1, <1>2, <1>3
        DEF NewWalk, HoldsOf, Steady, InPlace, Begins, Counts, ShownBehind, DueAhead

LEMMA WalksInvariant == Spec => []WalksHold
<1>1. IInv /\ WalksHold /\ [Next]_vars => WalksHold'
  BY NextHolds
<1> QED BY <1>1, InitHolds, Invariance, PTL DEF Spec
-----------------------------------------------------------------------------
(***************************************************************************)
(* Theorems.                                                               *)
(***************************************************************************)

\* Every variable has its type.
THEOREM UserProcessTyped == Spec => []TypeOK
<1>1. IInv => TypeOK
  BY DEF IInv
<1> QED BY <1>1, Invariance, PTL

\* main opens both databases before the first call and closes them after the last.
THEOREM UserCallsHaveDatabases == Spec => []CallsHaveDatabases
<1>1. IInv => CallsHaveDatabases
  BY DEF IInv, MainHas, CallsServed, CallsHaveDatabases, Running, InFlight
<1> QED BY <1>1, Invariance, PTL

\* Who filters by what a listing shows of a user finds that user, however its row was
\* written: the tables of the enumerations lead there and back, and the filter columns say
\* what the shown ones say.  That a user who is found is shown with what was asked for does
\* not follow, and is not stated.
THEOREM UserShownFilterFinds == Spec => []ShownFilterFinds
<1>1. ASSUME IInv
      PROVE  ShownFilterFinds
  <2> SUFFICES ASSUME NEW id \in UserIds, Visible(table, id)
               PROVE  id \in Listed(table, RequestLike(UserToProto(table[id].user)))
    BY DEF ShownFilterFinds
  <2>1. /\ table[id] # NULL /\ table[id] \in Row /\ ColumnsAgree(table[id])
        /\ table[id].user.status # "DELETED"
    BY <1>1, IInvMeans DEF Parts, RowsTyped, RowsAgree, Visible
  <2>2. Matches(table[id], Filter(RequestLike(UserToProto(table[id].user))))
    BY <2>1, ShownIsFound
  <2> QED BY <2>1, <2>2 DEF Listed
<1> QED BY <1>1, Invariance, PTL

\* A walk from the first page misses no row that was listed all along, while rows come and
\* pages fail, for any number of rows, pages and clients: what is due and was not shown
\* is at a place the walk has yet to reach, and the total bounds the places.
THEOREM UserWalkComplete == Spec => []WalkComplete
<1>1. ASSUME IInv, WalksHold
      PROVE  WalkComplete
  BY <1>1 DEF WalksHold, HoldsOf, InPlace, DueAhead, WalkComplete
<1> QED BY <1>1, Invariance, WalksInvariant, PTL

\* A walk is shown no row twice while none comes: the rows shown are at places before the
\* page it asks for next, and rows that go can only move them forward.
THEOREM UserWalkShowsOnce == Spec => []WalkShowsOnce
<1>1. ASSUME IInv, WalksHold
      PROVE  WalkShowsOnce
  <2> SUFFICES ASSUME NEW c \in Walkers, walk[c].twice, ~ walk[c].joined, ~ Ties
               PROVE  walk[c].request.page < 1
    BY DEF WalkShowsOnce
  <2>1. walk[c].request.page \in Int
    BY <1>1, IInvMeans, ListingAssumption DEF Parts, WalksTyped, Walk
  <2> QED BY <1>1, <2>1 DEF WalksHold, HoldsOf, InPlace, ShownBehind
<1> QED BY <1>1, Invariance, WalksInvariant, PTL
=============================================================================
