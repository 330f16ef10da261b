------------------------------ MODULE Gateway -------------------------------
(***************************************************************************)
(* The HTTP gateway in front of the greeter: its connection manager, its   *)
(* handlers, and main(), from the first dial to the shutdown.              *)
(*                                                                         *)
(* The process has two connections to the greeter.  One the manager dials, *)
(* guarded by a RWMutex, and only /health looks at it.  The other the      *)
(* generated RegisterGreeterHandlerFromEndpoint makes for the calls, and   *)
(* closes when the gateway's context is cancelled.                         *)
(*                                                                         *)
(* A sync.RWMutex is not reentrant.  A writer first keeps new readers and  *)
(* other writers out, then waits for the readers inside.  Each wait and    *)
(* each critical section with a library call in it is an action; the       *)
(* goroutine sleeps between actions.  When main returns all of them end.   *)
(*                                                                         *)
(* errorHandler would start ensureConnection for an error whose text is    *)
(* exactly "grpc: the client connection is closing".  The errors of calls  *)
(* are gRPC statuses, whose text begins with "rpc error: code = ", so that *)
(* it never does, nothing else calls ensureConnection, and the manager     *)
(* dials once: connect is called by main alone, and reconnects nothing.    *)
(*                                                                         *)
(* Left out: a signal before signal.Notify, which ends the process; the    *)
(* home page, the version header and the texts of the answers.             *)
(***************************************************************************)
EXTENDS Integers, Greeter

CONSTANTS
  Main,          \* the main goroutine
  NONE           \* no goroutine, no connection

Requests == Calls  \* HTTP requests; one that was answered can come again

Goroutines == Requests \union {Main}

ConnectivityState == {"Ready", "Idle", "Connecting", "TransientFailure", "Shutdown"}

ASSUME GatewayAssumption ==
  /\ Main \notin Requests
  /\ NONE \notin Goroutines /\ NONE \notin ConnectivityState \union {"open", "closed"}

VARIABLES
  conn,       \* conn of the manager: the state of the connection, or NONE for nil
  writer,     \* who has the mutex, or waits in it for the readers to leave
  readers,    \* who reads under the mutex
  proxy,      \* the connection of the calls: NONE, "open", "closed"
  cancelled,  \* the gateway's context is cancelled
  at          \* where each goroutine is

managerVars == <<conn, writer, readers>>
gatewayVars == <<managerVars, proxy, cancelled, at>>
vars == <<gatewayVars, greeterVars>>

MainPlaces ==
  {"connect", "dial", "setup", "checking", "register", "serving", "cancel", "close",
   "closing", "returning", "exited"}
ServingPlaces == {"serving", "cancel", "close", "closing", "returning"}
RequestPlaces == {"idle", "health", "reading", "state", "greet", "calling"}

\* Every variable has its type, and every goroutine is at a place of its own kind.
TypeOK ==
  /\ conn \in ConnectivityState \union {NONE}
  /\ writer \in Goroutines \union {NONE}
  /\ readers \subseteq Goroutines
  /\ proxy \in {NONE, "open", "closed"}
  /\ cancelled \in BOOLEAN
  /\ at \in [Goroutines -> MainPlaces \union RequestPlaces]
  /\ at[Main] \in MainPlaces
  /\ \A r \in Requests : at[r] \in RequestPlaces
  /\ GreeterTypeOK

Init ==
  /\ conn = NONE
  /\ writer = NONE /\ readers = {}
  /\ proxy = NONE /\ cancelled = FALSE
  /\ at = [g \in Goroutines |-> IF g = Main THEN "connect" ELSE "idle"]
  /\ GreeterInit

\* Goroutine g goes on; what it does not say of the gateway stays.
Go(g, from, to) ==
  /\ at[Main] # "exited"
  /\ at[g] = from /\ at' = [at EXCEPT ![g] = to]

\* The mutex: Lock() keeps others out and then waits for the readers that are inside.
Announce(g) == writer = NONE /\ writer' = g /\ UNCHANGED readers
HasLock(g) == writer = g /\ readers = {}
Unlock == writer' = NONE /\ UNCHANGED readers
RLock(g) == writer = NONE /\ readers' = readers \union {g} /\ UNCHANGED writer
RUnlock(g) == readers' = readers \ {g} /\ UNCHANGED writer
mutex == <<writer, readers>>
-----------------------------------------------------------------------------
(***************************************************************************)
(* GRPCConnectionManager.  Its connect is called while the manager is      *)
(* made: there is no old connection to close.                              *)
(***************************************************************************)
ConnectLock ==
  /\ Go(Main, "connect", "dial")
  /\ Announce(Main)
  /\ UNCHANGED <<conn, proxy, cancelled, greeterVars>>

\* The dial blocks, for ten seconds at most, until the greeter answers it.
Dial ==
  /\ Go(Main, "dial", "setup")
  /\ HasLock(Main)
  /\ (Serves /\ conn' = "Ready") \/ UNCHANGED conn
  /\ Unlock
  /\ UNCHANGED <<proxy, cancelled, greeterVars>>

\* grpc moves a connection from state to state until it is closed; it is ready only
\* while the greeter serves.  Keepalive drops it when it is idle.
ConnectionChanges ==
  /\ at[Main] # "exited"
  /\ conn \notin {NONE, "Shutdown"}
  /\ conn' \in {"Idle", "Connecting", "TransientFailure"} \union
       (IF Serves THEN {"Ready"} ELSE {})
  /\ UNCHANGED <<mutex, proxy, cancelled, at, greeterVars>>
-----------------------------------------------------------------------------
(***************************************************************************)
(* main, SetupRoutes and Close.                                            *)
(***************************************************************************)
\* GetConnection: taking the read lock and leaving it.
GetConnection(g, from, inside) ==
  /\ Go(g, from, inside)
  /\ RLock(g)
  /\ UNCHANGED <<conn, proxy, cancelled, greeterVars>>

GotConnection_StaysInside(g, inside, found, nil) ==  \* mutant: RUnlock is missing
  /\ Go(g, inside, IF conn = NONE THEN nil ELSE found)
  /\ UNCHANGED mutex
  /\ UNCHANGED <<conn, proxy, cancelled, greeterVars>>

GotConnection_NeverNil(g, inside, found, nil) ==  \* mutant: nil is not looked for
  /\ Go(g, inside, found)
  /\ RUnlock(g)
  /\ UNCHANGED <<conn, proxy, cancelled, greeterVars>>

GotConnection(g, inside, found, nil) ==
  /\ Go(g, inside, IF conn = NONE THEN nil ELSE found)
  /\ RUnlock(g)
  /\ UNCHANGED <<conn, proxy, cancelled, greeterVars>>

\* The handlers get a connection of their own, made without waiting for the greeter;
\* the goroutine that serves HTTP starts.
RegisterRoutes ==
  /\ Go(Main, "register", "serving")
  /\ proxy' = "open"
  /\ UNCHANGED <<managerVars, cancelled, greeterVars>>

\* ListenAndServe fails: log.Fatalf, wherever main is, and nothing is closed.
RunFails ==
  /\ \E from \in ServingPlaces : Go(Main, from, "exited")
  /\ UNCHANGED <<managerVars, proxy, cancelled, greeterVars>>

SignalGateway ==
  /\ Go(Main, "serving", "cancel")
  /\ UNCHANGED <<managerVars, proxy, cancelled, greeterVars>>

\* Gateway.Close cancels the context and closes the manager.
Cancel ==
  /\ Go(Main, "cancel", "close")
  /\ cancelled' = TRUE
  /\ UNCHANGED <<managerVars, proxy, greeterVars>>

CloseLock ==
  /\ Go(Main, "close", "closing")
  /\ Announce(Main)
  /\ UNCHANGED <<conn, proxy, cancelled, greeterVars>>

Close ==
  /\ Go(Main, "closing", "returning")
  /\ HasLock(Main)
  /\ conn' = IF conn = NONE THEN NONE ELSE "Shutdown"
  /\ Unlock
  /\ UNCHANGED <<proxy, cancelled, greeterVars>>

\* main returns, and whatever is in progress ends with it.
Return ==
  /\ Go(Main, "returning", "exited")
  /\ UNCHANGED <<managerVars, proxy, cancelled, greeterVars>>

\* The goroutine of RegisterGreeterHandlerFromEndpoint.
CloseProxy ==
  /\ at[Main] # "exited"
  /\ cancelled /\ proxy = "open" /\ proxy' = "closed"
  /\ UNCHANGED <<managerVars, cancelled, at, greeterVars>>

MainGoesOn ==
  \/ ConnectLock \/ Dial
  \/ GetConnection(Main, "setup", "checking")
  \/ GotConnection(Main, "checking", "register", "exited")
  \/ RegisterRoutes \/ Cancel \/ CloseLock \/ Close \/ Return
-----------------------------------------------------------------------------
(***************************************************************************)
(* HTTP requests.  The HTTP server is never shut down: they come until     *)
(* main returns.                                                           *)
(***************************************************************************)
HTTPServes == at[Main] \in ServingPlaces

Request(r) ==
  /\ HTTPServes
  /\ Go(r, "idle", "health") \/ (Go(r, "idle", "greet") /\ r \notin inflight \union broken)
  /\ UNCHANGED <<managerVars, proxy, cancelled, greeterVars>>

\* healthHandler asks the connection for its state with the mutex released.
ReadState(r) ==
  /\ Go(r, "state", "idle")
  /\ UNCHANGED <<managerVars, proxy, cancelled, greeterVars>>

\* errorHandler: the error is answered.
ErrorHandler(r, from) ==
  /\ Go(r, from, "idle")
  /\ UNCHANGED <<managerVars, proxy, cancelled>>

\* SayHello is invoked on the connection of the calls, which is closed, or which grpc may not
\* have ready although the greeter serves.
Invoke(r) ==
  \/ /\ Go(r, "greet", "calling")
     /\ proxy = "open"
     /\ Accepts(r)
     /\ UNCHANGED <<managerVars, proxy, cancelled>>
  \/ /\ ErrorHandler(r, "greet")
     /\ UNCHANGED greeterVars

\* The greeter answers the call and its answer is forwarded.
Reply(r) ==
  /\ Go(r, "calling", "idle")
  /\ SayHello(r)
  /\ UNCHANGED <<managerVars, proxy, cancelled>>

\* The greeter died under the call.
CallBreaks(r) ==
  /\ at[r] = "calling" /\ SeesBroken(r)
  /\ ErrorHandler(r, "calling")

\* The HTTP client left, which cancels the call.
ClientLeaves(r) ==
  /\ at[r] = "calling" /\ UNCHANGED greeterVars
  /\ ErrorHandler(r, "calling")

\* The connection of the calls was closed under the call.
CallCut(r) ==
  /\ at[r] = "calling" /\ proxy = "closed"
  /\ ErrorHandler(r, "calling")
  /\ UNCHANGED greeterVars

\* The greeter's side of a call that nobody waits for.
Abandoned(r) ==
  /\ at[r] # "calling" \/ at[Main] = "exited"
  /\ SayHello(r) \/ SeesBroken(r)
  /\ UNCHANGED gatewayVars

RequestGoesOn(r) ==
  \/ GetConnection(r, "health", "reading")
  \/ GotConnection(r, "reading", "state", "idle")
  \/ ReadState(r) \/ Invoke(r) \/ Reply(r) \/ CallBreaks(r) \/ CallCut(r)
-----------------------------------------------------------------------------
GreeterProcess == Lifecycle /\ UNCHANGED gatewayVars

Next ==
  \/ MainGoesOn \/ RunFails \/ SignalGateway \/ CloseProxy \/ ConnectionChanges
  \/ \E r \in Requests : Request(r) \/ RequestGoesOn(r) \/ ClientLeaves(r) \/ Abandoned(r)
  \/ GreeterProcess

\* Goroutines inside the code go on, the mutex passes from one to the next, calls that were
\* taken end (SayHello waits a tenth of a second), and a greeter told to stop does.  A
\* stream of its health service ends at the latest when MaxConnectionAge and its grace are
\* over.  A signal need not come, nor the greeter be started, nor a connection get ready.
Fairness ==
  /\ WF_vars(MainGoesOn) /\ WF_vars(CloseProxy)
  /\ \A r \in Requests : WF_vars(RequestGoesOn(r)) /\ WF_vars(Abandoned(r))
  /\ WF_vars((GracefulStop \/ Stopped) /\ UNCHANGED gatewayVars)
  /\ WF_vars(Unwatch /\ UNCHANGED gatewayVars)

Spec == Init /\ [][Next]_vars /\ Fairness
-----------------------------------------------------------------------------
(***************************************************************************)
(* Properties.                                                             *)
(***************************************************************************)

\* Whoever is served finds the connection that main dialled: SetupRoutes lets no gateway
\* serve without one, nothing takes it away, and only a Close that has waited for all readers
\* closes it, after the gateway's context, so that healthHandler, which uses it when it no
\* longer has the mutex, is shown "Shutdown" on the way out only.
ServesConnected ==
  /\ \A r \in Requests : at[r] # "idle" => conn # NONE
  /\ conn = "Shutdown" \/ proxy = "closed" => cancelled /\ at[Main] \notin {"serving", "cancel"}

\* Gateway.Close ends, and the process with it, however many read under the mutex it needs
\* and ask for it again.
CloseCompletes == at[Main] = "cancel" ~> at[Main] = "exited"

\* A request is answered, unless the process ends: when the greeter dies under it, when
\* the connection of the calls is closed under it, and when Close keeps readers out.
RequestsEnd == \A r \in Requests : at[r] # "idle" ~> at[r] = "idle" \/ at[Main] = "exited"

\* A greeter told to stop does stop, whatever the gateway goes on asking it for and whoever
\* watches its health service, although GracefulStop has no timeout.
GreeterStops == server = "stopping" ~> server # "stopping"
=============================================================================
