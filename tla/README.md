# TLA+ models of poZOVi

The repository holds the backend of a calling service: a **user service** (Go, gRPC, Postgres
and MongoDB), a **WebRTC signalling server** (C++, gRPC, libdatachannel) and an **HTTP gateway**
(Go). This directory keeps TLA+ models of them, the TLC runs that check the models on small
instances, and TLAPS proofs of the properties that matter most.

## 1. Inventory

| Component | State it keeps | Operations | Talks to |
|---|---|---|---|
| gRPC handlers, `internal/delivery/grpch/user_handler.go` | none; objects built per request | 13 RPCs | the user service, by calls |
| User service, `internal/server/user_server.go` | none; the `*domain.User` of the request | Register, GetUser, UpdateUser, DeleteUser, ListUsers, Authenticate, ValidateToken, ChangePassword, BanUser, UnbanUser, UpdateSubscription, CancelSubscription, HealthCheck | both repositories, JWT |
| Postgres repository | the table `users` | Create, FindByID, FindByEmail, Update, List, Exists, Ban, Unban, UpdateSubscription | Postgres |
| Mongo repository | `user_metadata`, `user_activities`, `ban_history`, `subscription_history` | SaveMetadata, GetMetadata, UpdateMetadata, LogActivity, LogSubscriptionChange, LogBanChange | MongoDB |
| Domain objects, mappers, errors | - | IsBanned (with a side effect), Cancel, Unban, UpdateFromProto, ids, error kinds | called by the above |
| Dispatcher (C++) | a queue of tasks, a mutex, a worker thread | start, post, the worker's loop, destructor | every other part of the signalling server posts to it |
| Sessions and signalling (C++) | table of sessions; per session: peer, stream, state, closed flag | createSession, getSession, closeSession; start, setRemoteDescription, addIceCandidate, attachSignalStream, state changes, close; read loop of a stream | the dispatcher, libdatachannel callbacks, gRPC streams |
| Gateway connection manager and HTTP gateway (Go) | a gRPC connection, an RWMutex; a second connection for the proxied calls | connect, GetConnection, Close (ensureConnection is never reached); the proxied requests, the health and error handlers, Run, Close | the greeter, over gRPC |
| Greeter service (Go) | its server, its health status | SayHello, start, GracefulStop | called by the gateway |
| Process of the user service, `cmd/server/main.go`, `config.go`, `pkg/db` | both connections, the server, its health status | start, the signal, GracefulStop, the deferred closes | serves the handlers, opens the databases |
| Generated code and protocol files | - | enum numbers, client calls, handler descriptors | - |

**What is hard here.** A gRPC server runs every request in its own goroutine. The user service has
no transaction and no lock: a request reads a row, changes the copy and writes *every column* back
(`Update`), or writes some columns (`Ban`, `Unban`, `UpdateSubscription`), and then writes audit
documents to another database whose errors are only printed. Requests interleave between any two
statements, any statement can fail, and the process can die between any two. Columns that repeat
each other (`is_banned`, `status`, `ban_info`; `subscription`, `subscription_status`) are written by
five statements in four ways. In the signalling server, threads of gRPC and of libdatachannel post
tasks that run later, on another thread, when what they refer to may be gone; the dispatcher reads its
queue without the mutex. The handlers of a session and the sending of
a message take no mutex: what they read of the session or the stream can change before they use it, by a close() or a start() on
another thread. A session and the table it is in have a mutex each. In the gateway, Close needs a mutex
that health checks come again and again to read under; a goroutine of its own closes the connection of the proxied calls; and the HTTP
server is never shut down. A listing is several requests, each of two
statements, over a table that changes in between and in an order that leaves ties open. A shutdown drains
the requests before it closes the databases under them, and has no timeout.
`PROJECT.json` lists these hazards one by one, each at its line.

**What makes each part correct.**
- *Store and service*: redundant columns agree; status and ban belong together; passwords are stored
  hashed; roles do not change; administrators are not banned; the audit history tells what was done;
  metadata that were stored stay; with requests served one at a time, each is atomic, and with requests that race, the lost update is
  all that can go wrong.
- *Listing*: who walks through all pages is shown every user once; who filters by what he was shown
  finds it.
- *Process*: a request has its databases; a process told to stop ends.
- *Dispatcher*: tasks are run once, in the order posted; the queue is not popped when empty; the
  destructor returns; posted tasks are run.
- *Sessions*: close() is for good; no session is lost open; a session that ends is closed, and no other in its
  place; states follow the transition table; the server crashes of nothing else than what is named.
- *Gateway and greeter*: whoever is served finds an open connection; Close ends; requests are answered; a greeter told to
  stop does.

## 2. Modules

| Module | Models | Form |
|---|---|---|
| `UserStore` | the rows of `users`, what each SQL statement and domain method does to one | operators, no state |
| `UserService` | requests as sequences of statements against Postgres and MongoDB | state machine over `UserStore` |
| `Accounts` | what the service promises: accounts changed by atomic operations | abstract specification |
| `MCUserService` | small instances of `UserService` | constants |
| `UserRaces`, `MCUserRaces` | `UserService` with observers of its races: which requests are stale, which versions accounts had | state machine, extends `UserService` |
| `AccountVersions` | what is left of `Accounts` when requests race | abstract specification, extends `Accounts` |
| `UserTable` | how the table `users` changes under whoever reads it, statement by statement | specification over `UserStore`; abstract to `UserService`, a part of `UserListing` |
| `Dispatcher`, `MCDispatcher` | the dispatcher and its worker thread | state machine |
| `UserListing` | ListUsers, its filter, its two statements and its answer; a client that walks through the pages, and writers | state machine over `UserTable`, without a process |
| `UserProcess`, `MCUserProcess` | the process that serves `UserListing`, from start to end and again | state machine, extends `UserListing` |
| `Sessions`, `MCSessions` | session table, sessions, signal streams and their tasks | state machine |
| `Greeter` | the greeter's process and its one call | state machine without a client |
| `Gateway`, `MCGateway` | the gateway, with the greeter it calls | state machine, extends `Greeter` |
| `UserStore_proofs` | what each statement and domain method leaves of a row or a user | lemmas |
| `UserService_proofs` | the type invariant of `UserService` | theorem and proof |
| `UserSafety_proofs` | the safety of the table `users` and the ban history however requests race; that the service implements `UserTable` | theorems and proofs |
| `UserRaces_proofs` | one request at a time: histories and the implementation of `Accounts`; then races: the same, metadata, and the implementation of `AccountVersions` | theorems and proofs |
| `UserProcess_proofs` | the process's type invariant, databases and filters, and what a walk through the pages is shown | theorems and proofs |
| `Dispatcher_proofs` | the dispatcher's type invariant and queue | theorems and proofs |
| `Sessions_proofs` | all of the sessions' safety | theorems and proofs |
| `Gateway_proofs` | the gateway's type invariant and connection | theorems and proofs |

### UserService

`users` is the table: for each id a row or `NULL`. A row is the `User` that `ToDomain` reads back plus
the columns only the List filters read (`is_banned`, `subscription_status`, `subscription_level`,
`subscription_end`). `metadata`, `activities`, `banHistory` and `subHistory` are the four Mongo
collections: collections whose `_id` comes from `generateUUID` are sets in which an id occurs once,
`ban_history` (whose `_id` MongoDB makes) is a sequence.

A request is a process `p`. Its first statement and everything before it is one action named after
the request (`Register`, `BanUser`, ...); every later repository call is an action named after the
call (`Create`, `FindByID`, `Update`, `Ban`, `LogActivity`, ...) that also does what the code does
until the next call. `pc[p]` is the next call, `user[p]` the `*domain.User` in hand, `aux[p]` the other
locals. `UpdateUser` is the longest: `GetUser` (FindByID, GetMetadata), `UpdateFromProto` on that
copy, FindByID again, `TakeAllowed`, Update, ReadMetadata, SaveMetadata, LogActivity. Email and name of what it writes
are the request's, or those of the first read; everything else is of the second.

No document of `user_metadata` can be read back. `SaveMetadata` makes it with an upsert that sets no `_id`, so that MongoDB gives it
an ObjectID, and version 2 of the driver refuses to decode an ObjectID into the string `ID` of
`UserMetadataDocument` (`mongo_user_repository.go:110`; `mongodb.go` does not set `ObjectIDAsHexString`). Hence `GetMetadata` finds nothing or
fails, which GetUser ignores alike, and `ReadMetadata`, its use in UpdateMetadata, lets only an update go on to `SaveMetadata` that finds
no document: the merge below it is never reached. The run `UserService_metadata` shows what this does to a second update.

Faults: `FirstFails`, `PostgresFails` (a statement is not run and returns an error), `MongoFails` (the
same; the request goes on), `Crash` (the process dies and is restarted, requests in progress are gone)
and `HealthCheck`, whose `panic("unimplemented")` nothing recovers. A reply lost after a statement has
run leaves the databases as a crash after the statement does. `Tick` is the clock, in seconds, since
bans expire and audit ids are seconds.

Abstractions. `name` stands for name, phone and service_email, which the code copies alike. A
password is a secret, plain or hashed; there is one hash for each secret (salts are left out, no
property compares two hashes of one secret). A subscription keeps status, level and end. Reason texts,
IP addresses and the other payload fields are left out. Register saves no metadata because
`CreateUserRequestFromProto` sets none. Error codes are kept: the repositories return a
`*DomainError`, which is never `==` to the sentinel the handlers compare with, so most handlers
answer Internal for an unknown user. Which columns have a unique index is the constant
`UniqueColumns`, because no migration is in the repository; the code only shows (`Create`, error
23505) that some have. Rows of administrators come from `Seed`: no request makes one.

`ChangePassword` is a method of the service no RPC reaches; it is modelled as a request. `ListUsers` is in
`UserListing`. `CheckSubscriptionAccess` only reads, and nothing calls it.

### Accounts

Accounts change by atomic operations: an operation changes the aspect it is about and nothing else,
a closed account stays as it is, administrators are not banned, a ban ends by a decision or by
running out. `UserService` implements it (`ImplementsAccounts`) under the mapping `AccountOf`: a
row whose status is DELETED is a closed account, a ban struck off is no ban, `decisions` are the Ban and
Unban statements. This holds for one process only: the violation run `UserService_login` shows why it
cannot hold for two.

### UserRaces and AccountVersions

What does hold for two. `UserRaces` adds two observers to `UserService`. `stale` has the requests about to write a row (`RowWrites`:
Update, Ban, Unban, UpdateSubscription) or a document (SaveMetadata) that has been changed since they read it, and the UpdateUser
requests between their two reads of the row (`Between`) if it changed since the first; `versions` keeps
every account an id has been. `AccountsUnlessStale`, `OldSubscriptionTrueUnlessStale` and
`MetadataStayUnlessStale` say that the promises made to one request at a time are kept to every request that is not stale: the lost
update is the one race there is. `AccountVersions` says what a stale request may do at worst (`ImplementsVersions`): a full-row UPDATE
takes effect on one earlier version of the account as it was stored (`Restore`), changed in the aspects of its own
operation, so the outcome is never a mixture of two versions; but for the profile, which UpdateUser reads twice: the email and the name
that its request leaves out are those of the version it saw first (`LateEditProfile`). The statements of single columns take effect on
the account as it is (`Amend`), deleted meanwhile or not, and an administrator is not banned even then.

### Dispatcher

One action for each lock-to-unlock section: `PostLock`/`PostPush`, `WorkerTake`; the worker's loop
test `WorkerTest` reads the queue without the mutex, and while a poster holds it that read is a data
race that may see either answer (`SeesTask`). `TaskPosts` is a task that posts. `running_` is a
`std::atomic<bool>` without initialiser: the build asks for C++23, where that is false. main starts the
dispatcher first and destroys it last, so nothing posts before `Start` or after `Stop`. The worker's
wait is its predicate; sleeping and notifying are left out, which is sound because `TakesOnlyTasks`
shows that the predicate holds whenever the worker has the mutex: it never sleeps, so no notification
(the destructor notifies without the mutex) can be missed.

### UserListing and UserProcess

`UserListing` has the table of `UserStore` with each row's `created_at`, and two kinds of client. A walker
asks for page after page of one request as long as `total_pages` tells it that there is another, and
starts again when it likes; `CountUsers` and `SelectUsers` are the two statements of List, and the answer is
made from the rows of the second, the count of the first and the numbers of the request. A writer is any
other request, reduced to the statement by which it changes the table (`WriteRow`, after which it logs to MongoDB). These statements are
in a module of their own, `UserTable`: the INSERT and the UPDATEs of every column and of single ones, any of them on any row, and
what the full-row UPDATE writes is any user of the constant `Copies`, since it is what some request read at some time and changed. That
`UserService` changes its table in no other way is a theorem (`UserImplementsTable`, with `Copies` all users and `NewRows` all
new ones), so what is proved of a walk holds while that service's requests race and fail. `StatusToProto`, `LevelFromProto` and their six sisters are the switches
of the mappers over the enum numbers of the generated code; both directions of one enum are one table, read
in either direction, because the switches agree line by line. Kept as the code has them: `is_banned = false` and
`has_active_subscription` of a request are not looked at; unknown numbers filter as UNSPECIFIED does (or,
for the subscription, by the name UNSPECIFIED); the number of pages is 0 for a size of 0 or less and too small for one above 100; rows
come by `created_at` alone, in any order among equals.
Where a walk goes wrong is recorded with it (`Observe`): whether a row it was due ceased to be listed, whether
one joined, whether one joined between the last count and its select. The password is blanked in the answer and metadata is not
fetched; both are left out.

`UserProcess` adds main: the configuration, Postgres, MongoDB, serving, the signal, GracefulStop, then
the deferred calls in reverse, then the end, after which it may be started again over the same table.
`log.Fatalf` (`StartFails`, `ServeFails`), the panic of `HealthCheck` and `Crash` end it where it stands and run
no deferred call. A statement may wait for ever (`Hang`): all of them run with `context.Background()`.
A client of gRPC's health service may watch for as long as it likes, which is a call in progress too.
The 30-second context that main makes before GracefulStop is discarded, so it has no action.

### Sessions

Session objects are numbered as they are made; `session[o]` is the object, `table` is `sessions_`, `held` are
the objects whose `shared_ptr` a caller of `getSession` holds. A thread is in one place, `at[t]`, with a session
`on[t]` and an argument `arg[t]`: thread 0 is the dispatcher's worker, thread `o` is libdatachannel's, which calls the callbacks of
session `o` one at a time, and `Callers` are threads that hold sessions. What takes no lock is one action for each access:
`handleConnectionStateChange` (`TestClosed`, `CheckState`, `StoreState`, `SwitchState`, then `Terminate`), on all three kinds of thread;
`handleLocalDescription` and `handleIceCandidate` (`LibraryLocal`, `LookAtStream`, `PostLocal`); and a task that sends (`RunSend`,
`UseStream` dereferences `signalStream_`, `LoadClosed`, `EndWrite`), between any two of which a session can be closed and an
RPC return. start() and close() have their mutex, `mutex[o]`, but those readers see their assignments one by one: `StartPeer` starts the peer and
`Renew` makes the state New; `Terminate` or `Close` resets the peer, `Detach` the stream, `MarkClosed` sets `isClosed_`. closeSession
keeps the mutex of the manager, `manager`, all along. The task
queue is the dispatcher's, as `Dispatcher` shows it to be: in order, each once. Two observers tell which threads went on with what they had
looked at when it no longer held: `overtaken` (another thread has written the state) and `outlived` (another has closed the session).

Three facts of the code are constants. `SharesStream`: `SignalStream` inherits `enable_shared_from_this` privately, so
that its weak pointers never lock and every task of a stream does nothing; with TRUE they do what they were
written for, and the behaviours of FALSE are among those of TRUE, less what the tasks do. `Uninitialized`: what
can be found in `state_` of a new session before it is written, since nobody gives it a value. `Callers`: nothing in the repository calls `start`,
`attachSignalStream`, `close`, `handleConnectionStateChange` or `getSession` from outside yet: a caller may call, of a session it holds, whatever
is public (`Call`), close() included, which leaves the session in the table. `createSession` does not compile as written (its
`make_shared` omits the id); the model gives the session its id. What use of an object that is gone can do is a choice: a `closed_` that is
either, or a crash.

Outside (libdatachannel's behaviour, not in the repository): what happens to a callback that runs while its
peer is destroyed, whether destroying it waits for callbacks (with the table's mutex held, at
`SessionManager.cpp:31`, that could deadlock), whether `close()` reports a state from within.

### Greeter and Gateway

The gateway has two connections: the manager's, which only `/health` uses, and the one
`RegisterGreeterHandlerFromEndpoint` opens for the proxied calls, which is closed when the gateway's context is cancelled.
A goroutine is a place, `at[g]`; the RWMutex is modelled with Go's rule that a waiting writer keeps new readers
out (`Announce`, `HasLock`, `RLock`). `ensureConnection` is left out: its one caller, `errorHandler`, tests at `gateway.go:194` for a text that no
error of a call has, since the text of a gRPC status begins with "rpc error: code = ". So the manager dials
once, from main (`ConnectLock`, `Dial`), and `ErrorHandler` only answers. `http.Server` is never shut down: the process ends with
main (`Return`), or where ListenAndServe fails (`RunFails`), even in the middle of Close. A failing first dial is `log.Fatalf`.
`Greeter` is the server: calls are taken while it serves, finished while it stops, and lost when it dies.

## 3. Runs

| Run | Instance | Shows |
|---|---|---|
| `UserRaces` | 2 processes (symmetric), 2 accounts of which one an administrator, the 7 RPCs that change rows or metadata, 3 requests, clock 0..1, no fault | `FilterColumnsAgree`, `StatusMatchesBan`, `PasswordsHashed`, `AdminsNotBanned`, `BanHistoryAccounts`, `ImplementsVersions` hold however requests interleave; `AccountsUnlessStale`, `OldSubscriptionTrueUnlessStale`, `MetadataStayUnlessStale` with their excuse |
| `UserService_serial` | 1 process, 3 ids, all requests, 3 requests, 1 fault anywhere | `ImplementsAccounts`, `BanHistoryInOrder` |
| `UserService_login` | 1 account, 2 processes, Authenticate and BanUser | *violated*: a login undoes a ban stored meanwhile |
| `UserService_permanent` | 1 account, 1 process | *violated*: every ban is stored as permanent |
| `UserService_password` | 1 account, 1 process | *violated*: an already hashed password is dropped silently |
| `UserService_metadata` | 1 account, 1 process, 2 requests | *violated*: a second update of the metadata is answered OK and stores nothing |
| `UserService_audit_ids` | 1 account, 1 process | *violated*: two documents of one second have one id |
| `Dispatcher` | 2 posting threads, 4 tasks | `TasksInOrder`, `TakesOnlyTasks`, `JoinReturns`, `FoundTaskRuns` |
| `UserProcess` | 1 walker, 1 writer, 3 ids of which 2 seeded, 5 requests, 2 writes, any number of restarts | `WalkComplete`, `WalkShowsOnce`, `ShownFilterFinds`, `CallsHaveDatabases`; `ShutdownCompletes` and `CallsEnd` with their excuses |
| `Sessions` | 1 id, 1 stream, 1 caller, 2 session objects, 2 messages, 3 calls of the library or of a caller that report a state or a description | `ClosedHoldsNothing`, `NoneLostOpen`, `TerminatedIsClosed`; `CrashesExplained`, `TerminationClosesOwn` and `StatesFollowTable` with their exceptions |
| `Gateway` | 2 requests that come again and again, a greeter that stops, dies and starts again | `ServesConnected`, `CloseCompletes`, `RequestsEnd`, `GreeterStops` |
| `Dispatcher_lost` | 1 posting thread, 2 tasks | *violated*: a task posted after the worker left never runs |

**Bounds.** Every hazard above needs at most two requests in flight and one that came before (a user
is banned or subscribed, then two requests race), hence 2 processes and 3 requests. Two accounts, one
an administrator, are what ownership of an email, bans and roles tell apart; a third id is free for
Register. The clock needs one tick for a ban to run out: a ban with the end 0 holds at 0 and has
expired at 1. With three requests an account has three versions while
one of them is under way. The requests of `UserRaces` are a new password, two emails and two keys of the metadata, so that one update can undo
another's. One fault suffices for a fault between any two statements. For `UserProcess`, two users
are listed and a third comes, with creation times 0..2 so that ties, and rows older than those already
shown, occur; the requests have a page size in range, one of 0, one above the largest (2 here), page 0, page 2 and a filter; two writes are
what moves a row behind a walker and brings another in front of it; `Copies` are a user there from the start and the one that
comes, each as made, renamed (the filter asks for the old name) and deleted. For `Sessions`, two objects of one id are
one session and its successor; two messages are the two that make them, or one and a state or a description of the client's end;
the worker, a thread of the library for each session and a caller give the unlocked handlers three kinds of thread at once, and the caller attaches, starts and
closes as often as it likes; three reports are what it takes for one thread to overtake another that was to end a session. State
that nobody wrote is found New or Connected, from which the most can happen. For `Gateway`, two requests are one on each
handler, or two readers; requests are unbounded.
`MaxRequests`, `MaxFaults`, `MaxTime`, `MaxPosts`, `MaxSessions`, `MaxMessages`, `MaxEvents` and `MaxWrites`
are guards in the modules and the only bounds (`DefaultPageSize` and `MaxPageSize` are the code's
20 and 100, and 1 and 2 in the run). In the `AtRest` and `Over` states, where a bounded run of `UserService` or
`Dispatcher` ends, the models stutter explicitly, and so does `Sessions` where it waits for clients or has crashed; `UserProcess` and
`Gateway` can always go on. Every other stop is a deadlock and TLC checks for it.

**Fairness.** `UserService` and `UserRaces`: none, and no liveness is claimed of them, since a statement runs with
`context.Background()` and may hang; `UserProcess` says what follows when it does and when it does not. `Dispatcher`: weak fairness of the worker,
of a poster that holds the mutex, and of join; whether anything is posted, and whether main returns,
is left open. Tasks are taken to end. `UserProcess`: main and the calls the server took go on, except a call whose
statement hangs; nobody need start the process, signal it or call it. `Sessions`: none. The worker leaves for good when it finds no
task (`Dispatcher_lost`), and a thread that destroys its own peer with the manager's mutex in hand may wait for ever
(`SessionManager.cpp:31`), so that nothing there must happen. `Gateway`: goroutines inside the code go on, the mutex passes from one to the next
(Go's RWMutex starves neither side), a call that was taken ends and a stopping greeter stops once its calls have; a stream
of the greeter's health service ends, because its server is made with a MaxConnectionAge of 30 seconds and 5 of grace (`Unwatch`). A
connection need not get ready, a signal need not come, nobody need start the greeter.

**The excuses.** A liveness property that holds only with an exception names it, because the exception is the
finding: `ShutdownCompletes` excepts a statement that hangs and a client that watches the health
service (GracefulStop has no timeout: the one main makes at `cmd/server/main.go:112` is thrown away, although the line before calls it a
graceful stop with timeout), and `CallsEnd` the statement that hangs; `RequestsEnd` of `Gateway` excepts the end of the process. In the same way
`WalkComplete` and `WalkShowsOnce` say in which cases a user may be missed or shown twice
(a change of the table at the wrong time, a walk not from the first page, two rows of one creation time), and `WalkComplete` asks for a page
size from 1 to 100, because the number of pages is wrong for all others; `ShownFilterFinds` goes one way only: what a user is shown with finds him, but a
row whose column is set and whose JSON document is missing is found and shown without. `CrashesExplained` says of what the
signalling server may crash (a task that finds no stream, a write on an RPC that has returned), `TerminationClosesOwn` and
`StatesFollowTable` except the threads that another overtook or outlived, and the latter the New of start() and the first write of a state. The
properties of `UserRaces` except a stale request, and `ImplementsVersions` has no exception. `StatusMatchesBan` allows a ban that was struck
off while the status still says BANNED_*, which a login after the end of a ban stores.

## 4. Proofs

Every theorem below is proved with TLAPS for any sets of processes, ids, requests, clients, sessions, posters and
values and any bounds, from assumptions on the constants, which TLC evaluates on every run:
`StoreAssumption` (the clock's bound is a natural number, `NULL` is none of the things it stands for the
absence of), `AccountAssumption` (the same of an account), `ServiceAssumption` (requests are drafts and subscriptions of their types, a new user has
an email, a name and a password, seeded rows are typed), `TableAssumption` (rows and copies are typed, and new users are of role USER), `ListingAssumption` (ids are finitely
many, seeded rows have times, requests are typed, and page sizes are positive), `DispatcherAssumption`, `SessionsAssumption` and `GatewayAssumption` (bounds are natural numbers, null
values are not among the values, callers are no threads of the server's own, the main goroutine serves no request).

**Types (`UserService_proofs`).** `UserServiceTyped`: `Spec => []TypeOK`. `TypeOK` is inductive because it
says more than types: `LocalsOK` says what each request holds at each of its calls (`Holds`: a full
draft before FindByID, a ban before Ban, the old values before UpdateSubscription, a token throughout
a login), and that the row it is about exists, which stays true because no statement removes a row. Two lemmas
carry every action: a step of `p` leaves what the other requests hold alone (`ContinueTyped`,
`AnswerTyped`, from `OthersKeep`), so an action's proof looks at the statement it runs and at the locals of `p`.

**Safety (`UserSafety_proofs`).** `UserFilterColumnsAgree`, `UserPasswordsHashed`, `UserStatusMatchesBan`,
`UserAdminsNotBanned` are invariants and `UserRolesStay` is an action property. None but the first is inductive:
a request stores a copy it read some steps before. The inductive invariant `IInv` adds what is known
of that copy: `CopyFits` (a copy about to be stored whole has a hashed password, a status that fits
its ban, no ban if its role is an administrator's, and the role of its row) and `BanFits` (the row that
is about to be banned is still no administrator's). `CopyFits` is stable under the steps of other
requests because roles never change and because the predicate is about one copy, whatever happened to
the row since: this is the argument why full-row writes of stale copies, which do lose updates
(`UserService_login`), never store a row that contradicts itself. The clock needs `FitLater`: a ban that has run out stays
so.

**Ban history (`UserSafety_proofs`).** `UserBanHistoryAccounts` holds for any number of racing requests. `HistoryInv` is the property with
what makes its numbers numbers: the requests about to log an entry are finitely many, although `Procs` need not be. A step
either passes the histories by (`Passes`; a request kept from logging was kept by a fault, which is why an entry may be missing then), decides
(`DecisionAccounted`: one statement and one request about to log it) or logs (`LoggedAccounted`: from the request to the
history), or the process dies (`GoneAccounted`).

**The table (`UserSafety_proofs`).** `UserImplementsTable`: `Spec => Table!TableSpec`, from `IInv` and statement by statement. Each write finds its row
(`CallingRow`), a ban about to be stored says that it is one, a subscription about to be stored is one (`Holds`), and every other
step, failure and crash leaves the rows alone.

**One request at a time (`UserRaces_proofs`).** `UserBanHistoryInOrder`, `UserOldSubscriptionTrue` and
`UserImplementsAccounts` assume `Serial`, that there is at most one request process; `UserService_login` and the
excuses of `UserRaces` show what breaks without it. The invariant is `SerialInv`: `IInv` of the safety proof, `InOrder` (the decisions are the history, and the one entry
about to be added), `Fresh`: what a request read still holds of the row and of the document it is about to write, and `Sees`: the account is
still what an UpdateUser saw at its first read (`Saw`: the email and the name it carries, and then the profile of its copy, are those seen with the request
laid over them). `Fresh` is where one process is needed: it says that the copy about to be stored differs from its row only as its request means to
(`CopyKeeps`; a login may also strike off a ban that ran out, and the clock may only confirm that), that the user about to be
unbanned is banned, and that a document about to be saved is the first. The refinement
then goes statement by statement: `CreateRefines`, `UpdateRefines` (Delete, EditProfile or Forget of `Accounts`, by the request), `BanRefines`,
`UnbanRefines` and `WriteSubscriptionRefines`; every other step, failure and crash leaves the accounts, the decisions and the
clock alone, and `Tick` is `Tick`. All of these rest on the `Fresh` and the `Sees` of the request that moves and on nothing about the others, so they serve races as well.

**Races (`UserRaces_proofs`).** `UserAccountsUnlessStale`, `UserOldSubscriptionTrueUnlessStale`, `UserMetadataStayUnlessStale` and
`UserImplementsVersions` are theorems of `RaceSpec`, for any number of requests and faults and without `Serial`. The invariant is `RaceInv`: `IInv`; each
request is `Fresh` and `Sees`, or is stale, which holds because a request that moves has just read (`NextMoves`) and one that waits stays fresh
while its target does (`WaitsFresh`); `Recorded` (versions has the account of every row); and `CopyStems`, for stale requests too: the copy
about to be stored is some recorded version but for what its operation changes, and what an UpdateUser saw first is one too
(`Holding`). A fresh copy stems from the row it was read
from (`FreshCopyStems`), and versions are never forgotten, so it goes on stemming from that one (`WaitsStems`); the second read of an UpdateUser
brings a version of its own and leaves what was seen (`GoesOnStems`, by `GoesOnSeeing`). The first three theorems then
are the serial lemmas, applied to whoever is fresh. For the refinement, `UpdateLate` takes the version from `CopyStems`; `BanLate`, `UnbanLate` and `WriteSubscriptionLate` need no
`Fresh` at all, since these statements write single columns, but `BanLate` does need `BanFits`: the role that was checked on a copy is the role of the row.

**Dispatcher (`Dispatcher_proofs`).** `DispatcherTyped`, `DispatcherOrder` and `DispatcherTakesTasks`, from
`IInv`: the types, with `NotStarted` (before start() there is no worker, so start() never makes a second one),
`HasTask` (a worker that runs has a task in hand) and `HolderMayPost` (who holds
the mutex may still post, so numbers of tasks stay in range). `TakesOnlyTasks` is inductive only with the
exception it makes for a mutex that is held: the worker may have seen a push in progress.

**Process (`UserProcess_proofs`).** `UserProcessTyped`, `UserCallsHaveDatabases` and `UserShownFilterFinds`, from
`IInv`: the types, `RowsAgree` (the filter columns of every row say what its JSON columns say, which every statement
keeps by the lemmas of `UserStore_proofs`, one way round), `MainHas` (which connections main has open where it stands) and
`CallsServed` (a request is in progress only while the process serves or drains). `ShownFilterFinds` then is a fact
about enum tables: `EnumRoundTrip` (a name that has a number has it for good), and about columns that agree. It is what a
change of one of the eight switches, or of one of the five writers of the filter columns, would break.

`UserWalkComplete` and `UserWalkShowsOnce` need more: `WalksHold`, of each walk. The place of a row (`Place`) is the number of listed rows
created after it. Without ties a row is at its place in every order the database may choose (`OrderPlaces`, by a bijection between
the rows in front of it and the numbers below its own), so a page shows exactly the rows whose places are on it (`SliceShows`). `ShownBehind`: what was shown is at places before
the page asked for next, as long as no row joins, since rows that leave only lower places. `DueAhead`: what is due and was not shown is at that page's places or behind, as long as
no row leaves, since rows that join only raise them. At the end `Counts` (the total of the last count bounds the places, unless a row came late) and `LastPage`
(the pages that `TotalPages` counts hold the total) leave no place for a row that was not shown. Each of the cases the properties except breaks one of these facts.

**Sessions (`Sessions_proofs`).** All that the run checks: `SessionsTyped`, `SessionsClosedHoldsNothing`, `SessionsNoneLostOpen`, and the
action properties `SessionsCrashesExplained`, `SessionsTerminationClosesOwn`, `SessionsTerminatedIsClosed` and `SessionsStatesFollowTable`. `IInv` adds to the
invariants of the run `Numbered` (objects are numbered in the order
made and there is room for those the queue will make), `EntriesMade` (the table has sessions under their own ids, and callers hold sessions that were made),
`LocksHeld` (who has the mutex of a session is at a place of start() or close(), has one such mutex, has already reset what stands before that place, and in
closeSession the session is the one the table has for the id), and what remains true of an unlocked look while nobody interferes:
`FoundOpen` (a thread that was not outlived still is in an open session), `CheckedHolds` (what a thread that was not overtaken checked still holds) and
`StreamsFound` (a session that posted a description or a candidate has a stream, or was closed, or is losing it to a close() under way). The last three carry
the action properties, which `Kinds` reduces to the few actions that can crash, come back, close or write a state.

**Gateway (`Gateway_proofs`).** `GatewayTyped` and `GatewayServesConnected`, from `IInv`: the types, `ServesConnected`, `MainsTurn`
(from SetupRoutes on there is a connection, and the context is cancelled from Cancel on and not before) and `Uncalled` (a request about to call is unknown
to the greeter). `ServesConnected` is about four parties, the request, main, the goroutine that closes the proxy and grpc, which changes the state of a connection
at any time but never takes it out of Shutdown; `MainsTurn` is what ties them together.

**Only model-checked.** Liveness (`JoinReturns`, `FoundTaskRuns`, `ShutdownCompletes`, `CallsEnd`,
`CloseCompletes`, `RequestsEnd`, `GreeterStops`), which TLAPS does not reach.

**Only proved.** `RolesNeverChange` (TLC meets a change of a role as a violation of `ImplementsVersions`), `OldSubscriptionTrue` (TLC checks
it with its excuse, which a lone request never needs), and `UserImplementsTable`, for which TLC would have to enumerate all users.

## 5. Plan

Done: every module of section 2, its runs, and the proofs of section 4. Left, in this order:

1. What unique columns guarantee for racing registrations, once the repository has a schema.
2. `Sessions` again when the server calls `start`, `attachSignalStream` and `close`: `Callers` then become the code that calls them, in its order.
3. The queue that `Sessions` takes its tasks from as a specification of its own, which `Dispatcher` implements, as `UserTable` is for the rows.

## 6. Not modelled

- `ensureConnection` of the gateway, its retries and the reconnection in `connect`: no error of a call has the text that `errorHandler` tests for.
- Repository methods nothing calls: `Delete`, `CancelSubscription`, `FindByPhone` and `GetUserByRole` of Postgres, `DeleteMetadata`, `CreateIndexes` and the
  history readers of MongoDB; `RunMigrations`; `pkg/grpcserver` of the gateway.
- `CheckSubscriptionAccess` with `HasValidSubscription` and `CanAccessFeature`: no RPC and no code reaches them. Read, not run, they compare
  levels as strings (`user_server.go:495`) and look at features that no handler stores.
- The values of the configuration, pool limits (the keys of the file are not the names of the fields, so the limits stay 0, which is
  unlimited for Postgres), the expiry that `AuthenticateResponse` reports (24 hours whatever is configured).
- Encoding and transport of gRPC, protocol buffers and HTTP; JWT cryptography and bcrypt; libdatachannel and the media of `RtcPeer`; the gateway's
  home page and version header; log lines and the texts of errors.
- The frontend directory, which holds a title only.
