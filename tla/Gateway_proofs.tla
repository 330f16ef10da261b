---------------------------- MODULE Gateway_proofs ----------------------------
(***************************************************************************)
(* Proofs about Gateway, for any requests.  Why whoever is served finds a  *)
(* connection: main gets past SetupRoutes with one only, no step takes it  *)
(* away, and requests begin after that.  Why it is not closed: only Close  *)
(* closes it, behind the cancelling of the context.                        *)
(***************************************************************************)
EXTENDS Gateway, TLAPS

\* How far main is tells what there can be.
MainsTurn ==
  /\ at[Main] \in {"register"} \union ServingPlaces => conn # NONE
  /\ at[Main] \in {"close", "closing", "returning"} => cancelled
  /\ cancelled => at[Main] \in {"close", "closing", "returning", "exited"}

\* A request that is to call the greeter has no call there.
Uncalled == \A r \in Requests : at[r] = "greet" => r \notin inflight \union broken

IInv == TypeOK /\ ServesConnected /\ MainsTurn /\ Uncalled
-----------------------------------------------------------------------------
Places == MainPlaces \union RequestPlaces

LEMMA Distinct ==
  /\ Main \in Goroutines /\ Main \notin Requests
  /\ Requests \subseteq Goroutines /\ NONE \notin Goroutines
  /\ NONE \notin ConnectivityState /\ NONE # "open" /\ NONE # "closed"
BY GatewayAssumption DEF Goroutines

\* A goroutine goes on, and no other does.
LEMMA Goes ==
  ASSUME TypeOK, NEW g \in Goroutines, NEW from, NEW to \in Places, Go(g, from, to)
  PROVE  /\ at[g] = from /\ at'[g] = to /\ at[Main] # "exited"
         /\ at' \in [Goroutines -> Places]
         /\ \A h \in Goroutines : h # g => at'[h] = at[h]
BY DEF Go, TypeOK, Places

\* The greeter's own steps.
LEMMA GreeterSteps ==
  ASSUME GreeterTypeOK, NEW C \in SUBSET Calls, \A c \in C : c \notin inflight \union broken
  PROVE  /\ Lifecycle => GreeterTypeOK' /\ \A c \in C : c \notin inflight' \union broken'
         /\ \A c \in Calls :
              SayHello(c) \/ SeesBroken(c) =>
                GreeterTypeOK' /\ \A d \in C : d \notin inflight' \union broken'
         /\ \A c \in C : Accepts(c) =>
              GreeterTypeOK' /\ \A d \in C \ {c} : d \notin inflight' \union broken'
<1>1. ASSUME Lifecycle
      PROVE  GreeterTypeOK' /\ \A c \in C : c \notin inflight' \union broken'
  <2>1. CASE Watch \/ Unwatch
    BY <2>1 DEF Watch, Unwatch, GreeterTypeOK, Serves
  <2>2. CASE Listen \/ SignalServer \/ GracefulStop \/ Stopped
    BY <2>2 DEF Listen, SignalServer, GracefulStop, Stopped, GreeterTypeOK
  <2>3. CASE ServeFails
    BY <2>3 DEF ServeFails, GreeterTypeOK
  <2> QED BY <1>1, <2>1, <2>2, <2>3 DEF Lifecycle
<1>2. ASSUME NEW c \in Calls, SayHello(c) \/ SeesBroken(c)
      PROVE  GreeterTypeOK' /\ \A d \in C : d \notin inflight' \union broken'
  BY <1>2 DEF SayHello, SeesBroken, GreeterTypeOK
<1>3. ASSUME NEW c \in C, Accepts(c)
      PROVE  GreeterTypeOK' /\ \A d \in C \ {c} : d \notin inflight' \union broken'
  BY <1>3 DEF Accepts, Serves, GreeterTypeOK
<1> QED BY <1>1, <1>2, <1>3
-----------------------------------------------------------------------------
(***************************************************************************)
(* The steps.                                                              *)
(***************************************************************************)
\* The parts of IInv that a step of one kind leaves alone.
ManagerTyped ==
  /\ conn \in ConnectivityState \union {NONE}
  /\ writer \in Goroutines \union {NONE}
  /\ readers \subseteq Goroutines
  /\ proxy \in {NONE, "open", "closed"}
  /\ cancelled \in BOOLEAN

AtTyped ==
  /\ at \in [Goroutines -> Places]
  /\ at[Main] \in MainPlaces
  /\ \A r \in Requests : at[r] \in RequestPlaces

LEMMA IInvMeans ==
  IInv <=> /\ ManagerTyped /\ AtTyped /\ GreeterTypeOK
           /\ ServesConnected /\ MainsTurn /\ Uncalled
BY DEF IInv, TypeOK, ManagerTyped, AtTyped, Places

LEMMA IInvNext ==
  ASSUME ManagerTyped', AtTyped', GreeterTypeOK', ServesConnected', MainsTurn', Uncalled'
  PROVE  IInv'
BY DEF IInv, TypeOK, ManagerTyped, AtTyped, Places

\* A step of main, which leaves the greeter alone and takes no connection away.
LEMMA MainKeeps ==
  ASSUME IInv, NEW from \in MainPlaces, NEW to \in MainPlaces, Go(Main, from, to),
         UNCHANGED greeterVars, ManagerTyped', MainsTurn',
         conn # NONE => conn' # NONE,
         conn' = "Shutdown" \/ proxy' = "closed" => cancelled'
  PROVE  IInv'
<1> USE IInvMeans, Distinct
<1>1. /\ at' \in [Goroutines -> Places] /\ at'[Main] = to
      /\ \A h \in Goroutines : h # Main => at'[h] = at[h]
  BY Goes DEF Places, IInv
<1>2. AtTyped'
  BY <1>1 DEF AtTyped
<1>3. GreeterTypeOK'
  BY DEF GreeterTypeOK, greeterVars
<1>4. ServesConnected'
  BY <1>1 DEF ServesConnected, MainsTurn
<1>5. Uncalled'
  BY <1>1 DEF Uncalled, greeterVars
<1> QED BY <1>2, <1>3, <1>4, <1>5, IInvNext

\* A step of a request, which leaves the manager alone but for the readers.
LEMMA RequestKeeps ==
  ASSUME IInv, NEW r \in Requests, NEW from \in RequestPlaces, NEW to \in RequestPlaces,
         Go(r, from, to), UNCHANGED <<conn, writer, proxy, cancelled>>,
         readers' \subseteq Goroutines, from = "idle" => HTTPServes,
         GreeterTypeOK',
         \A q \in Requests : at[q] = "greet" /\ q # r => q \notin inflight' \union broken',
         to = "greet" => r \notin inflight' \union broken'
  PROVE  IInv'
<1> USE IInvMeans, Distinct
<1>1. /\ at' \in [Goroutines -> Places] /\ at'[r] = to /\ at[r] = from
      /\ \A h \in Goroutines : h # r => at'[h] = at[h]
  BY Goes DEF Places, IInv
<1>2. AtTyped'
  BY <1>1 DEF AtTyped
<1>3. ManagerTyped'
  BY DEF ManagerTyped
<1>4. MainsTurn'
  BY <1>1 DEF MainsTurn
<1>5. ServesConnected'
  <2>1. conn # NONE \/ at[r] # "idle"
    BY <1>1 DEF MainsTurn, HTTPServes
  <2> QED BY <1>1, <2>1 DEF ServesConnected
<1>6. Uncalled'
  BY <1>1 DEF Uncalled
<1> QED BY <1>2, <1>3, <1>4, <1>5, <1>6, IInvNext

LEMMA MainGoesOnKeeps ==
  ASSUME IInv, MainGoesOn \/ RunFails \/ SignalGateway
  PROVE  IInv'
<1> USE IInvMeans, Distinct
<1>1. ASSUME NEW from \in MainPlaces, NEW to \in MainPlaces, Go(Main, from, to),
             UNCHANGED <<conn, proxy, cancelled, greeterVars>>,
             writer' \in Goroutines \union {NONE}, readers' \subseteq Goroutines,
             to \in {"register"} \union ServingPlaces =>
               conn # NONE \/ from \in {"register"} \union ServingPlaces,
             to \in {"close", "closing", "returning"} =>
               from \in {"close", "closing", "returning"},
             from \in {"close", "closing", "returning"} =>
               to \in {"close", "closing", "returning", "exited"}
      PROVE  IInv'
  <2>1. at[Main] = from /\ at'[Main] = to /\ at[Main] # "exited"
    BY <1>1, Goes DEF IInv, Places
  <2>2. ManagerTyped'
    BY <1>1 DEF ManagerTyped
  <2>3. MainsTurn'
    BY <1>1, <2>1 DEF MainsTurn
  <2> QED BY <1>1, <2>2, <2>3, MainKeeps DEF ServesConnected
<1>2. CASE ConnectLock
  BY <1>1, <1>2 DEF ConnectLock, Announce, MainPlaces, ManagerTyped, ServingPlaces
<1>3. CASE Dial
  <2>1. /\ Go(Main, "dial", "setup") /\ writer' = NONE
        /\ conn' \in {"Ready", conn} /\ UNCHANGED <<readers, proxy, cancelled, greeterVars>>
    BY <1>3 DEF Dial, Unlock
  <2>2. at[Main] = "dial" /\ at'[Main] = "setup"
    BY <2>1, Goes DEF IInv, Places, MainPlaces
  <2>3. ManagerTyped'
    BY <2>1 DEF ManagerTyped, ConnectivityState
  <2>4. MainsTurn'
    BY <2>1, <2>2 DEF MainsTurn, ServingPlaces
  <2>5. /\ conn # NONE => conn' # NONE
        /\ conn' = "Shutdown" \/ proxy' = "closed" => cancelled'
    BY <2>1 DEF ServesConnected, ConnectivityState
  <2> QED BY <2>1, <2>3, <2>4, <2>5, MainKeeps DEF MainPlaces
<1>4. CASE GetConnection(Main, "setup", "checking")
  BY <1>1, <1>4 DEF GetConnection, RLock, MainPlaces, ManagerTyped, ServingPlaces
<1>5. CASE GotConnection(Main, "checking", "register", "exited")
  <2> DEFINE to == IF conn = NONE THEN "exited" ELSE "register"
  <2>1. /\ Go(Main, "checking", to) /\ readers' = readers \ {Main}
        /\ UNCHANGED <<writer, conn, proxy, cancelled, greeterVars>>
    BY <1>5 DEF GotConnection, RUnlock
  <2>2. to \in {"exited", "register"} /\ (to = "register" => conn # NONE)
    OBVIOUS
  <2> HIDE DEF to
  <2> QED BY <1>1, <2>1, <2>2 DEF MainPlaces, ManagerTyped, ServingPlaces
<1>6. CASE RegisterRoutes
  <2>1. /\ Go(Main, "register", "serving") /\ proxy' = "open"
        /\ UNCHANGED <<conn, writer, readers, cancelled, greeterVars>>
    BY <1>6 DEF RegisterRoutes, managerVars
  <2>2. at[Main] = "register" /\ at'[Main] = "serving"
    BY <2>1, Goes DEF IInv, Places, MainPlaces
  <2>3. ManagerTyped' /\ MainsTurn'
    BY <2>1, <2>2 DEF ManagerTyped, MainsTurn, ServingPlaces
  <2> QED BY <2>1, <2>3, MainKeeps DEF MainPlaces, ServesConnected
<1>7. CASE RunFails
  BY <1>1, <1>7 DEF RunFails, managerVars, MainPlaces, ManagerTyped, ServingPlaces
<1>8. CASE SignalGateway
  BY <1>1, <1>8 DEF SignalGateway, managerVars, MainPlaces, ManagerTyped, ServingPlaces
<1>9. CASE Cancel
  <2>1. /\ Go(Main, "cancel", "close") /\ cancelled' = TRUE
        /\ UNCHANGED <<conn, writer, readers, proxy, greeterVars>>
    BY <1>9 DEF Cancel, managerVars
  <2>2. at[Main] = "cancel" /\ at'[Main] = "close"
    BY <2>1, Goes DEF IInv, Places, MainPlaces
  <2>3. ManagerTyped' /\ MainsTurn'
    BY <2>1, <2>2 DEF ManagerTyped, MainsTurn, ServingPlaces
  <2> QED BY <2>1, <2>3, MainKeeps DEF MainPlaces
<1>10. CASE CloseLock
  BY <1>1, <1>10 DEF CloseLock, Announce, MainPlaces, ManagerTyped, ServingPlaces
<1>11. CASE Close
  <2>1. /\ Go(Main, "closing", "returning") /\ writer' = NONE
        /\ conn' = IF conn = NONE THEN NONE ELSE "Shutdown"
        /\ UNCHANGED <<readers, proxy, cancelled, greeterVars>>
    BY <1>11 DEF Close, Unlock
  <2>2. at[Main] = "closing" /\ at'[Main] = "returning"
    BY <2>1, Goes DEF IInv, Places, MainPlaces
  <2>3. cancelled /\ conn # NONE /\ conn' = "Shutdown"
    BY <2>1, <2>2 DEF MainsTurn, ServingPlaces
  <2>4. ManagerTyped' /\ MainsTurn'
    BY <2>1, <2>2, <2>3 DEF ManagerTyped, MainsTurn, ConnectivityState
  <2> QED BY <2>1, <2>3, <2>4, MainKeeps DEF MainPlaces, ConnectivityState
<1>12. CASE Return
  BY <1>1, <1>12 DEF Return, managerVars, MainPlaces, ManagerTyped, ServingPlaces
<1> QED BY <1>2, <1>3, <1>4, <1>5, <1>6, <1>7, <1>8, <1>9, <1>10, <1>11, <1>12 DEF MainGoesOn

\* What a request that goes on without the greeter leaves of it.
LEMMA GreeterStays ==
  ASSUME IInv, UNCHANGED greeterVars
  PROVE  /\ GreeterTypeOK'
         /\ \A q \in Requests : at[q] = "greet" => q \notin inflight' \union broken'
BY IInvMeans DEF GreeterTypeOK, greeterVars, Uncalled

\* What the greeter does leaves the calls that are still to be made uncalled.
LEMMA GreeterMoves ==
  ASSUME IInv, Lifecycle \/ \E c \in Calls : SayHello(c) \/ SeesBroken(c)
  PROVE  /\ GreeterTypeOK'
         /\ \A q \in Requests : at[q] = "greet" => q \notin inflight' \union broken'
<1> DEFINE C == {q \in Requests : at[q] = "greet"}
<1>1. C \in SUBSET Calls /\ \A c \in C : c \notin inflight \union broken
  BY IInvMeans DEF Uncalled, Requests
<1>2. GreeterTypeOK' /\ \A c \in C : c \notin inflight' \union broken'
  <2> HIDE DEF C
  <2> QED BY <1>1, IInvMeans, GreeterSteps
<1> QED BY <1>2

\* A request whose call failed.
LEMMA ErrorHandlerKeeps ==
  ASSUME IInv, NEW r \in Requests, NEW from \in {"greet", "calling"}, ErrorHandler(r, from),
         GreeterTypeOK',
         \A q \in Requests : at[q] = "greet" => q \notin inflight' \union broken'
  PROVE  IInv'
<1>1. /\ Go(r, from, "idle") /\ UNCHANGED <<conn, writer, readers, proxy, cancelled>>
      /\ from # "idle" /\ readers' \subseteq Goroutines
  BY IInvMeans DEF ErrorHandler, managerVars, ManagerTyped
<1> QED BY <1>1, RequestKeeps DEF RequestPlaces

LEMMA RequestGoesOnKeeps ==
  ASSUME IInv, NEW r \in Requests,
         RequestGoesOn(r) \/ Request(r) \/ ClientLeaves(r)
  PROVE  IInv'
<1> USE IInvMeans, Distinct
<1>1. CASE Request(r)
  <2>1. UNCHANGED <<conn, writer, readers, proxy, cancelled, greeterVars>>
    BY <1>1 DEF Request, managerVars
  <2>2. readers' \subseteq Goroutines
    BY <2>1 DEF ManagerTyped
  <2>3. \/ Go(r, "idle", "health")
        \/ Go(r, "idle", "greet") /\ r \notin inflight \union broken
    BY <1>1 DEF Request
  <2>4. r \notin inflight' \union broken' \/ Go(r, "idle", "health")
    BY <2>1, <2>3 DEF greeterVars
  <2>5. HTTPServes
    BY <1>1 DEF Request
  <2> QED BY <2>1, <2>2, <2>3, <2>4, <2>5, GreeterStays, RequestKeeps DEF RequestPlaces
<1>2. CASE GetConnection(r, "health", "reading")
  <2>1. /\ Go(r, "health", "reading") /\ readers' = readers \union {r}
        /\ UNCHANGED <<writer, conn, proxy, cancelled, greeterVars>>
    BY <1>2 DEF GetConnection, RLock
  <2>2. readers' \subseteq Goroutines
    BY <2>1 DEF ManagerTyped
  <2> QED BY <2>1, <2>2, GreeterStays, RequestKeeps DEF RequestPlaces
<1>3. CASE GotConnection(r, "reading", "state", "idle")
  <2> DEFINE to == IF conn = NONE THEN "idle" ELSE "state"
  <2>1. /\ Go(r, "reading", to) /\ readers' = readers \ {r}
        /\ UNCHANGED <<writer, conn, proxy, cancelled, greeterVars>>
    BY <1>3 DEF GotConnection, RUnlock
  <2>2. to \in RequestPlaces /\ to # "greet" /\ "reading" \in RequestPlaces
    BY DEF RequestPlaces
  <2> HIDE DEF to
  <2>3. readers' \subseteq Goroutines
    BY <2>1 DEF ManagerTyped
  <2> QED BY <2>1, <2>2, <2>3, GreeterStays, RequestKeeps
<1>4. CASE ReadState(r)
  <2>1. /\ Go(r, "state", "idle")
        /\ UNCHANGED <<writer, readers, conn, proxy, cancelled, greeterVars>>
    BY <1>4 DEF ReadState, managerVars
  <2>2. readers' \subseteq Goroutines
    BY <2>1 DEF ManagerTyped
  <2> QED BY <2>1, <2>2, GreeterStays, RequestKeeps DEF RequestPlaces
<1>5. CASE Invoke(r)
  <2>1. CASE Go(r, "greet", "calling") /\ Accepts(r)
             /\ UNCHANGED <<managerVars, proxy, cancelled>>
    <3>1. at[r] = "greet" /\ r \in Calls
      BY <2>1 DEF Go, Requests
    <3> DEFINE C == {q \in Requests : at[q] = "greet"}
    <3>2. C \in SUBSET Calls /\ r \in C /\ \A c \in C : c \notin inflight \union broken
      BY <3>1 DEF Uncalled, Requests
    <3>3. GreeterTypeOK' /\ \A c \in C \ {r} : c \notin inflight' \union broken'
      <4> HIDE DEF C
      <4> QED BY <2>1, <3>2, GreeterSteps
    <3>4. /\ UNCHANGED <<conn, writer, readers, proxy, cancelled>>
          /\ readers' \subseteq Goroutines
      BY <2>1 DEF managerVars, ManagerTyped
    <3> QED BY <2>1, <3>3, <3>4, RequestKeeps DEF RequestPlaces
  <2>2. CASE ErrorHandler(r, "greet") /\ UNCHANGED greeterVars
    BY <2>2, GreeterStays, ErrorHandlerKeeps
  <2> QED BY <1>5, <2>1, <2>2 DEF Invoke
<1>6. CASE Reply(r)
  <2>1. /\ Go(r, "calling", "idle") /\ SayHello(r) /\ r \in Calls
        /\ UNCHANGED <<writer, readers, conn, proxy, cancelled>>
    BY <1>6 DEF Reply, managerVars, Requests
  <2>2. readers' \subseteq Goroutines
    BY <2>1 DEF ManagerTyped
  <2> QED BY <2>1, <2>2, GreeterMoves, RequestKeeps DEF RequestPlaces
<1>7. CASE CallBreaks(r)
  <2>1. ErrorHandler(r, "calling") /\ SeesBroken(r) /\ r \in Calls
    BY <1>7 DEF CallBreaks, Requests
  <2> QED BY <2>1, GreeterMoves, ErrorHandlerKeeps
<1>8. CASE ClientLeaves(r)
  <2>1. ErrorHandler(r, "calling") /\ UNCHANGED greeterVars
    BY <1>8 DEF ClientLeaves
  <2> QED BY <2>1, GreeterStays, ErrorHandlerKeeps
<1>9. CASE CallCut(r)
  <2>1. ErrorHandler(r, "calling") /\ UNCHANGED greeterVars
    BY <1>9 DEF CallCut
  <2> QED BY <2>1, GreeterStays, ErrorHandlerKeeps
<1> QED BY <1>1, <1>2, <1>3, <1>4, <1>5, <1>6, <1>7, <1>8, <1>9 DEF RequestGoesOn

\* The greeter's steps, and those of grpc under the manager's connections.
LEMMA OthersKeep ==
  ASSUME IInv,
         \/ GreeterProcess \/ ConnectionChanges \/ CloseProxy \/ UNCHANGED vars
         \/ \E r \in Requests : Abandoned(r)
  PROVE  IInv'
<1> USE IInvMeans, Distinct
<1>1. ASSUME UNCHANGED gatewayVars, GreeterTypeOK',
             \A q \in Requests : at[q] = "greet" => q \notin inflight' \union broken'
      PROVE  IInv'
  <2>1. UNCHANGED <<conn, writer, readers, proxy, cancelled, at>>
    BY <1>1 DEF gatewayVars, managerVars
  <2>2. ManagerTyped' /\ AtTyped'
    BY <2>1 DEF ManagerTyped, AtTyped
  <2>3. ServesConnected' /\ MainsTurn'
    BY <2>1 DEF ServesConnected, MainsTurn
  <2>4. Uncalled'
    BY <1>1, <2>1 DEF Uncalled
  <2> QED BY <1>1, <2>2, <2>3, <2>4, IInvNext
<1>2. ASSUME UNCHANGED <<writer, readers, cancelled, at, greeterVars>>,
             ManagerTyped', conn # NONE => conn' # NONE,
             conn' = "Shutdown" \/ proxy' = "closed" => cancelled'
      PROVE  IInv'
  <2>1. AtTyped'
    BY <1>2 DEF AtTyped
  <2>2. ServesConnected' /\ MainsTurn'
    BY <1>2 DEF ServesConnected, MainsTurn
  <2>3. GreeterTypeOK' /\ Uncalled'
    BY <1>2, GreeterStays DEF Uncalled
  <2> QED BY <1>2, <2>1, <2>2, <2>3, IInvNext
<1>3. CASE GreeterProcess
  BY <1>1, <1>3, GreeterMoves DEF GreeterProcess
<1>4. ASSUME NEW r \in Requests, Abandoned(r)
      PROVE  IInv'
  BY <1>1, <1>4, GreeterMoves DEF Abandoned, Requests
<1>5. CASE UNCHANGED vars
  BY <1>1, <1>5, GreeterStays DEF vars
<1>6. CASE ConnectionChanges
  <2>1. /\ UNCHANGED <<writer, readers, cancelled, at, greeterVars, proxy>>
        /\ conn # NONE /\ conn' \in ConnectivityState /\ conn' # "Shutdown"
    BY <1>6 DEF ConnectionChanges, mutex, ConnectivityState
  <2>2. ManagerTyped'
    BY <2>1 DEF ManagerTyped
  <2> QED BY <1>2, <2>1, <2>2 DEF ServesConnected
<1>7. CASE CloseProxy
  <2>1. /\ UNCHANGED <<conn, writer, readers, cancelled, at, greeterVars>>
        /\ cancelled /\ proxy' = "closed"
    BY <1>7 DEF CloseProxy, managerVars
  <2>2. ManagerTyped'
    BY <2>1 DEF ManagerTyped
  <2> QED BY <1>2, <2>1, <2>2
<1> QED BY <1>3, <1>4, <1>5, <1>6, <1>7

LEMMA NextKeeps ==
  ASSUME IInv, [Next]_vars
  PROVE  IInv'
BY MainGoesOnKeeps, RequestGoesOnKeeps, OthersKeep DEF Next

LEMMA Initially == Init => IInv
<1> SUFFICES ASSUME Init PROVE IInv
  OBVIOUS
<1> USE Distinct
<1>1. ManagerTyped
  BY DEF Init, ManagerTyped
<1>2. AtTyped
  BY DEF Init, AtTyped, Places, MainPlaces, RequestPlaces
<1>3. GreeterTypeOK /\ Uncalled
  BY DEF Init, GreeterInit, GreeterTypeOK, Uncalled
<1>4. ServesConnected /\ MainsTurn
  <2>1. /\ at[Main] = "connect" /\ \A r \in Requests : at[r] = "idle"
        /\ conn # "Shutdown" /\ proxy # "closed" /\ ~ cancelled
    BY DEF Init, ConnectivityState
  <2> QED BY <2>1 DEF ServesConnected, MainsTurn, ServingPlaces
<1> QED BY <1>1, <1>2, <1>3, <1>4, IInvMeans

LEMMA Invariance == Spec => []IInv
<1> QED BY Initially, NextKeeps, PTL DEF Spec
-----------------------------------------------------------------------------
(***************************************************************************)
(* Theorems.                                                               *)
(***************************************************************************)

\* Every variable has its type, for any requests.
THEOREM GatewayTyped == Spec => []TypeOK
<1>1. IInv => TypeOK
  BY DEF IInv
<1> QED BY <1>1, Invariance, PTL

\* Whoever is served finds the connection main dialled, and finds it closed, like the one the
\* calls use, only when the gateway's context has been cancelled (SetupRoutes,
\* healthHandler and Close of the gateway).
THEOREM GatewayServesConnected == Spec => []ServesConnected
<1>1. IInv => ServesConnected
  BY DEF IInv
<1> QED BY <1>1, Invariance, PTL
=============================================================================
