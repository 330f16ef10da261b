------------------------------ MODULE Sessions ------------------------------
(***************************************************************************)
(* The sessions of the WebRTC server: the table of SessionManager, the     *)
(* PeerSession objects it shares, the SignalStream of each Signal RPC, and *)
(* the tasks they post to the dispatcher.                                  *)
(*                                                                         *)
(* Threads.  An RPC thread reads messages and posts tasks.  The worker     *)
(* runs the tasks, in the order posted.  libdatachannel calls back on a    *)
(* thread of its own, one call at a time for each peer connection: thread  *)
(* o makes those of session o.  A caller is a thread that got a session    *)
(* from getSession and calls its public functions.  The handlers of a      *)
(* session and the sending of a message take no lock: they are one action  *)
(* for each access to the session or the stream, and so are start() and    *)
(* close(), whose assignments such a reader sees one by one.               *)
(*                                                                         *)
(* Session objects are numbered as they are made: one id can have several, *)
(* one after the other.  A shared_ptr keeps an object alive; the table, a  *)
(* thread in a member function and a caller of getSession hold one.        *)
(*                                                                         *)
(* Nothing in the repository calls PeerSession::start, attachSignalStream  *)
(* or getSession for a caller yet: here callers may call all that is       *)
(* public.  Null and dangling pointers end the process, or do not.         *)
(***************************************************************************)
EXTENDS Integers, Sequences, FiniteSets

CONSTANTS
  Ids,           \* the session ids clients use
  Streams,       \* the Signal RPCs
  Callers,       \* the threads that call the public functions of sessions
  NULL,          \* an empty pointer
  SharesStream,  \* does a task's weak pointer to its SignalStream lock?  The class
                 \* inherits enable_shared_from_this privately, so as the code
                 \* stands it never does; where it does not, tasks do nothing.
  Uninitialized, \* what reading state_, which has no initialiser, can give before it
                 \* is written: a state, or NULL for a value that is none
  MaxSessions,   \* bound: session objects made
  MaxMessages,   \* bound: messages read
  MaxEvents      \* bound: calls of libdatachannel, and of callers that report a state

Objects == 1 .. MaxSessions

Worker == 0

Threads == Objects \union {Worker} \union Callers

ConnectionState ==
  {"New", "Connecting", "Connected", "Disconnected", "Failed", "Closed"}

Session ==
  [id : Ids, closed : BOOLEAN, peer : BOOLEAN,
   stream : Streams \union {NULL}, state : ConnectionState \union {NULL}]

ASSUME SessionsAssumption ==
  /\ SharesStream \in BOOLEAN
  /\ Uninitialized # {} /\ Uninitialized \subseteq ConnectionState \union {NULL}
  /\ MaxSessions \in Nat /\ MaxMessages \in Nat /\ MaxEvents \in Nat
  /\ NULL \notin Streams \union Threads \union Session \union ConnectionState
  /\ Callers \intersect (Objects \union {Worker}) = {}

IsValidStateTransition(from, to) ==
  \/ from = "New" /\ to \in {"Connecting", "Closed"}
  \/ from = "Connecting" /\ to \in {"Connected", "Failed"}
  \/ from = "Connected" /\ to \in {"Disconnected", "Closed"}

VARIABLES
  table,      \* sessions_ of SessionManager
  session,    \* the PeerSession objects, NULL before they are made
  manager,    \* who has mutex_ of SessionManager
  mutex,      \* who has mutex_ of each session
  held,       \* objects a caller of getSession holds
  rpc,        \* "reading" or "returned": each Signal RPC
  closed,     \* closed_ of each SignalStream
  queue,      \* the dispatcher's tasks
  at, on, arg,  \* where each thread is, with which session and what argument
  up,         \* the process has not crashed
  messages, events,  \* messages read, calls counted by MaxEvents made
  overtaken,  \* observer: threads whose session's state another thread has written
              \* since they looked at it
  outlived    \* observer: threads whose session another thread has closed since they
              \* found it open

objects == <<table, session>>
locks == <<manager, mutex>>
streams == <<rpc, closed>>
threads == <<at, on, arg>>
bounds == <<messages, events>>
observers == <<overtaken, outlived>>
vars == <<objects, locks, held, streams, queue, threads, up, bounds, observers>>

\* Where a thread is: what it does next.
Places ==
  {"idle",
   "test", "check", "store", "switch", "terminate",  \* handleConnectionStateChange
   "look", "post",             \* handleLocalDescription, handleIceCandidate
   "renew",                    \* start
   "detach", "mark",           \* close
   "send", "load", "write"}    \* a task that sends

\* A state has been reported and not stored yet; the session has been found open.
Reported == {"test", "check", "store"}
Open == {"check", "store", "switch", "terminate"}

Task ==
  [kind : {"create", "remote"}, stream : Streams, id : Ids]
    \union [kind : {"state"}, stream : Streams, id : Ids, state : ConnectionState]
    \union [kind : {"send"}, session : Objects, what : {"data", "state"}]

\* Every variable has its type, and a thread that is somewhere is in a session.
TypeOK ==
  /\ table \in [Ids -> Objects \union {NULL}]
  /\ session \in [Objects -> Session \union {NULL}]
  /\ manager \in Threads \union {NULL}
  /\ mutex \in [Objects -> Threads \union {NULL}]
  /\ held \subseteq Objects
  /\ rpc \in [Streams -> {"reading", "returned"}]
  /\ closed \in [Streams -> BOOLEAN]
  /\ queue \in Seq(Task)
  /\ at \in [Threads -> Places]
  /\ on \in [Threads -> Objects \union {NULL}]
  /\ arg \in [Threads -> ConnectionState \union {"data", "state"} \union Streams \union {NULL}]
  /\ up \in BOOLEAN
  /\ messages \in 0 .. MaxMessages /\ events \in 0 .. MaxEvents
  /\ overtaken \subseteq Threads /\ outlived \subseteq Threads
  /\ \A t \in Threads :
       /\ at[t] # "idle" => on[t] \in Objects /\ session[on[t]] # NULL
       /\ at[t] \in Reported => arg[t] \in ConnectionState
       /\ at[t] = "send" => arg[t] \in {"data", "state"}
       /\ at[t] \in {"load", "write"} => arg[t] \in Streams

Init ==
  /\ table = [i \in Ids |-> NULL]
  /\ session = [o \in Objects |-> NULL]
  /\ manager = NULL
  /\ mutex = [o \in Objects |-> NULL]
  /\ held = {}
  /\ rpc = [s \in Streams |-> "reading"]
  /\ closed = [s \in Streams |-> FALSE]
  /\ queue = <<>>
  /\ at = [t \in Threads |-> "idle"]
  /\ on = [t \in Threads |-> NULL]
  /\ arg = [t \in Threads |-> NULL]
  /\ up = TRUE
  /\ messages = 0 /\ events = 0
  /\ overtaken = {} /\ outlived = {}

Made == {o \in Objects : session[o] # NULL}

\* Somebody holds a shared_ptr to the session.
Alive(o) ==
  /\ o \in Made
  /\ \/ table[session[o].id] = o
     \/ o \in held
     \/ \E t \in Threads : at[t] # "idle" /\ on[t] = o

\* Nobody holds a shared_ptr to the SignalStream: its RPC has returned, and no session
\* has it.
Gone(s) ==
  /\ rpc[s] = "returned"
  /\ \A o \in Made : Alive(o) => session[o].stream # s

Post(task) == queue' = Append(queue, task)

Enter(t, place, o, x) ==
  /\ at' = [at EXCEPT ![t] = place]
  /\ on' = [on EXCEPT ![t] = o]
  /\ arg' = [arg EXCEPT ![t] = x]

Leave(t) == Enter(t, "idle", NULL, NULL)

\* The other threads in the handler of session o that are at one of the places.
Others(t, o, places) == {u \in Threads \ {t} : at[u] \in places /\ on[u] = o}
-----------------------------------------------------------------------------
(***************************************************************************)
(* RPC threads.                                                            *)
(***************************************************************************)
Reading(s) ==
  /\ up /\ rpc[s] = "reading" /\ ~ closed[s]
  /\ messages < MaxMessages /\ messages' = messages + 1
  /\ UNCHANGED <<objects, locks, held, streams, threads, up, events, observers>>

\* A state message: NEW makes a session, any other is a state of the client's end.
HandleStateChange(s) ==
  /\ Reading(s)
  /\ \E i \in Ids :
       \/ /\ Cardinality(Made) + Cardinality({n \in DOMAIN queue : queue[n].kind = "create"})
               < MaxSessions
          /\ Post([kind |-> "create", stream |-> s, id |-> i])
       \/ \E state \in ConnectionState \ {"New"} :
            Post([kind |-> "state", stream |-> s, id |-> i, state |-> state])

\* A description or a candidate of the client's end.
HandleRemote(s) ==
  /\ Reading(s)
  /\ \E i \in Ids : Post([kind |-> "remote", stream |-> s, id |-> i])

\* start() leaves its loop: Read failed, or the stream was closed.  Signal closes
\* the stream and returns, and gRPC takes back the object stream_ points to.
Signal(s) ==
  /\ up /\ rpc[s] = "reading"
  /\ rpc' = [rpc EXCEPT ![s] = "returned"]
  /\ closed' = [closed EXCEPT ![s] = TRUE]
  /\ UNCHANGED <<objects, locks, held, queue, threads, up, bounds, observers>>
-----------------------------------------------------------------------------
(***************************************************************************)
(* The worker.                                                             *)
(***************************************************************************)

\* The worker takes a task of the kind.
Takes(kind) ==
  /\ up /\ at[Worker] = "idle"
  /\ queue # <<>> /\ Head(queue).kind = kind
  /\ queue' = Tail(queue)
  /\ UNCHANGED <<locks, held, streams, bounds, overtaken, outlived>>

\* The weak pointer to the task's SignalStream locks, and the table is free.
Locks(s) == SharesStream /\ ~ Gone(s) /\ manager = NULL

\* It does not lock: the task does nothing.
Skips(s) == ~ SharesStream \/ Gone(s)

NewSession(i) ==
  [id |-> i, closed |-> FALSE, peer |-> FALSE, stream |-> NULL, state |-> NULL]

MakeSession(i) ==
  LET o == Cardinality(Made) + 1 IN
    /\ session' = [session EXCEPT ![o] = NewSession(i)]
    /\ table' = [table EXCEPT ![i] = o]

CreateSession_Replaces(i) == MakeSession(i)  \* mutant: a session of the id is replaced

\* SessionManager::createSession.
CreateSession(i) ==
  \/ table[i] # NULL /\ UNCHANGED objects
  \/ table[i] = NULL /\ MakeSession(i)

RunCreate ==
  /\ Takes("create")
  /\ \/ Locks(Head(queue).stream) /\ CreateSession(Head(queue).id)
     \/ Skips(Head(queue).stream) /\ UNCHANGED objects
  /\ UNCHANGED <<threads, up>>

RunStateChange_NotFound ==  \* mutant: a session that is not in the table is used
  /\ Takes("state")
  /\ LET task == Head(queue)  o == table[task.id] IN
       \/ Locks(task.stream) /\ Enter(Worker, "test", o, task.state)
       \/ Skips(task.stream) /\ UNCHANGED threads
  /\ UNCHANGED <<objects, up>>

\* withSession: the task holds the session it found while it is in it.
RunStateChange ==
  /\ Takes("state")
  /\ LET task == Head(queue)  o == table[task.id] IN
       \/ Locks(task.stream) /\ o # NULL /\ Enter(Worker, "test", o, task.state)
       \/ Locks(task.stream) /\ o = NULL /\ UNCHANGED threads
       \/ Skips(task.stream) /\ UNCHANGED threads
  /\ UNCHANGED <<objects, up>>

\* setRemoteDescription and addIceCandidate take the mutex of the session and tell
\* libdatachannel, or nobody: the session keeps nothing of them and their errors are
\* dropped.
RunRemote ==
  /\ Takes("remote")
  /\ LET task == Head(queue)  o == table[task.id] IN
       \/ Locks(task.stream) /\ (o # NULL => mutex[o] = NULL)
       \/ Skips(task.stream)
  /\ UNCHANGED <<objects, threads, up>>

\* A task a session posted: its weak pointer locks if the session still exists.
RunSend ==
  /\ Takes("send")
  /\ LET task == Head(queue) IN
       \/ ~ Alive(task.session) /\ UNCHANGED threads
       \/ Alive(task.session) /\ Enter(Worker, "send", task.session, task.what)
  /\ UNCHANGED <<objects, up>>

AtStream(place) ==
  /\ up /\ at[Worker] = place
  /\ UNCHANGED <<objects, locks, held, rpc, queue, bounds, observers>>

\* signalStream_ is dereferenced as it is now.
UseStream ==
  /\ AtStream("send")
  /\ LET s == session[on[Worker]].stream IN
       \/ s = NULL /\ up' = FALSE /\ UNCHANGED threads
       \/ s # NULL /\ Enter(Worker, "load", on[Worker], s) /\ UNCHANGED up
  /\ UNCHANGED closed

\* send() loads closed_: of an object that is gone, whatever is there.
LoadClosed ==
  /\ AtStream("load")
  /\ LET s == arg[Worker] IN
       \/ (closed[s] \/ Gone(s)) /\ Leave(Worker) /\ UNCHANGED up
       \/ /\ ~ closed[s] \/ Gone(s)
          /\ Enter(Worker, "write", on[Worker], s) /\ UNCHANGED up
       \/ Gone(s) /\ up' = FALSE /\ UNCHANGED threads
  /\ UNCHANGED closed

\* Write is called and returns: false closes the stream.  On an RPC that has returned,
\* the pointer to gRPC's stream dangles.
EndWrite ==
  /\ AtStream("write")
  /\ LET s == arg[Worker] IN
       \/ Leave(Worker) /\ UNCHANGED <<closed, up>>
       \/ Leave(Worker) /\ closed' = [closed EXCEPT ![s] = TRUE] /\ UNCHANGED up
       \/ rpc[s] = "returned" /\ up' = FALSE /\ UNCHANGED <<threads, closed>>
-----------------------------------------------------------------------------
(***************************************************************************)
(* PeerSession::handleConnectionStateChange, on thread t, without mutex_.  *)
(***************************************************************************)
In(t, place) ==
  /\ up /\ at[t] = place
  /\ UNCHANGED <<table, held, streams, up, bounds>>

TestClosed(t) ==
  /\ In(t, "test")
  /\ IF session[on[t]].closed THEN Leave(t) ELSE Enter(t, "check", on[t], arg[t])
  /\ UNCHANGED <<session, locks, queue, observers>>

\* What reading the state of session o can give.
States(o) == IF session[o].state = NULL THEN Uninitialized ELSE {session[o].state}

CheckState_AnyState(t) ==  \* mutant: the transition is not checked
  /\ In(t, "check")
  /\ Enter(t, "store", on[t], arg[t])
  /\ UNCHANGED <<session, locks, queue, observers>>

CheckState(t) ==
  /\ In(t, "check")
  /\ \E state \in States(on[t]) :
       \/ /\ IsValidStateTransition(state, arg[t])
          /\ Enter(t, "store", on[t], arg[t]) /\ UNCHANGED outlived
       \/ /\ ~ IsValidStateTransition(state, arg[t])
          /\ Leave(t) /\ outlived' = outlived \ {t}
  /\ UNCHANGED <<session, locks, queue, overtaken>>

\* t writes the state of session o: whoever is to store another looked at an older one.
WriteState(t, o, state) ==
  /\ session' = [session EXCEPT ![o].state = state]
  /\ overtaken' = (overtaken \ {t}) \union Others(t, o, {"store"})

StoreState(t) ==
  /\ In(t, "store")
  /\ WriteState(t, on[t], arg[t])
  /\ Enter(t, "switch", on[t], NULL)
  /\ UNCHANGED <<locks, queue, outlived>>

\* The switch reads state_ again.
SwitchState(t) ==
  /\ In(t, "switch")
  /\ LET state == session[on[t]].state IN
       \/ /\ state = "Connected"
          /\ Post([kind |-> "send", session |-> on[t], what |-> "state"])
          /\ Leave(t) /\ outlived' = outlived \ {t}
       \/ /\ state \in {"Failed", "Closed"}
          /\ Enter(t, "terminate", on[t], NULL)
          /\ UNCHANGED <<queue, outlived>>
       \/ /\ state \notin {"Connected", "Failed", "Closed"}
          /\ Leave(t) /\ outlived' = outlived \ {t}
          /\ UNCHANGED queue
  /\ UNCHANGED <<session, locks, overtaken>>
-----------------------------------------------------------------------------
(***************************************************************************)
(* Closing a session, by thread t: PeerSession::close resets the peer,     *)
(* then the stream, and then sets isClosed_.                               *)
(***************************************************************************)

\* t takes the mutex of session o and resets its peer.
BeginClose(t, o) ==
  /\ mutex[o] = NULL /\ mutex' = [mutex EXCEPT ![o] = t]
  /\ session' = [session EXCEPT ![o].peer = FALSE]

Terminate_ErasesOnly(t) ==  \* mutant: the session is erased, not closed
  /\ up /\ at[t] = "terminate" /\ manager = NULL
  /\ table' = [table EXCEPT ![session[on[t]].id] = NULL]
  /\ Leave(t)
  /\ UNCHANGED <<session, locks, held, streams, queue, up, bounds, observers>>

\* onSessionTerminated calls SessionManager::closeSession, which knows the session by
\* its id and keeps the manager's mutex until it has erased it.
Terminate(t) ==
  /\ In(t, "terminate") /\ manager = NULL
  /\ LET o == table[session[on[t]].id] IN
       \/ /\ o = NULL
          /\ Leave(t) /\ outlived' = outlived \ {t}
          /\ UNCHANGED <<session, locks>>
       \/ /\ o # NULL
          /\ BeginClose(t, o) /\ manager' = t
          /\ Enter(t, "detach", on[t], NULL)
          /\ UNCHANGED outlived
  /\ UNCHANGED <<queue, overtaken>>

Detach(t) ==
  /\ In(t, "detach")
  /\ \E o \in Objects :
       /\ mutex[o] = t
       /\ session' = [session EXCEPT ![o].stream = NULL]
  /\ Enter(t, "mark", on[t], NULL)
  /\ UNCHANGED <<locks, queue, observers>>

\* Whoever has found the session open is outlived, and closeSession erases it.
MarkClosed(t) ==
  /\ up /\ at[t] = "mark"
  /\ \E o \in Objects :
       /\ mutex[o] = t /\ mutex' = [mutex EXCEPT ![o] = NULL]
       /\ session' = [session EXCEPT ![o].closed = TRUE]
       /\ outlived' = (outlived \ {t}) \union Others(t, o, Open)
       /\ \/ manager = t /\ manager' = NULL /\ table' = [table EXCEPT ![session[o].id] = NULL]
          \/ manager # t /\ UNCHANGED <<manager, table>>
  /\ Leave(t)
  /\ UNCHANGED <<held, streams, queue, up, bounds, overtaken>>
-----------------------------------------------------------------------------
(***************************************************************************)
(* libdatachannel, on the thread of session o.                             *)
(***************************************************************************)
LibraryCalls(o) ==
  /\ up /\ at[o] = "idle" /\ Alive(o) /\ session[o].peer
  /\ events < MaxEvents /\ events' = events + 1
  /\ UNCHANGED <<objects, locks, held, streams, queue, up, messages, observers>>

\* onStateChange reports any state but the first.
LibraryState(o) ==
  /\ LibraryCalls(o)
  /\ \E state \in ConnectionState \ {"New"} : Enter(o, "test", o, state)

\* handleLocalDescription and handleIceCandidate return if the session is closed.
LibraryLocal(o) ==
  /\ LibraryCalls(o)
  /\ ~ session[o].closed
  /\ Enter(o, "look", o, NULL)

LookAtStream_Unchecked(o) ==  \* mutant: signalStream_ is not looked at
  /\ In(o, "look")
  /\ Enter(o, "post", on[o], NULL)
  /\ UNCHANGED <<session, locks, queue, observers>>

LookAtStream(o) ==
  /\ In(o, "look")
  /\ IF session[on[o]].stream # NULL THEN Enter(o, "post", on[o], NULL) ELSE Leave(o)
  /\ UNCHANGED <<session, locks, queue, observers>>

PostLocal(o) ==
  /\ In(o, "post")
  /\ Post([kind |-> "send", session |-> on[o], what |-> "data"])
  /\ Leave(o)
  /\ UNCHANGED <<session, locks, observers>>
-----------------------------------------------------------------------------
(***************************************************************************)
(* Callers: what is public of a session, for who holds one.                *)
(***************************************************************************)
GetSession(i) ==
  /\ up /\ manager = NULL
  /\ table[i] # NULL /\ held' = held \union {table[i]}
  /\ UNCHANGED <<objects, locks, streams, queue, threads, up, bounds, observers>>

Release(o) ==
  /\ up /\ o \in held /\ held' = held \ {o}
  /\ UNCHANGED <<objects, locks, streams, queue, threads, up, bounds, observers>>

Calls(c, o) ==
  /\ up /\ at[c] = "idle" /\ o \in held
  /\ UNCHANGED <<table, manager, held, streams, queue, up, messages, observers>>

CallStateChange(c, o) ==
  /\ Calls(c, o)
  /\ events < MaxEvents /\ events' = events + 1
  /\ \E state \in ConnectionState \ {"New"} : Enter(c, "test", o, state)
  /\ UNCHANGED <<session, mutex>>

StartPeer_Closed(c, o) ==  \* mutant: isClosed_ is not looked at
  /\ Calls(c, o)
  /\ ~ session[o].peer
  /\ mutex[o] = NULL /\ mutex' = [mutex EXCEPT ![o] = c]
  /\ session' = [session EXCEPT ![o].peer = TRUE]
  /\ Enter(c, "renew", o, NULL)
  /\ UNCHANGED events

\* PeerSession::start, which keeps the mutex while it starts the peer ...
StartPeer(c, o) ==
  /\ Calls(c, o)
  /\ ~ session[o].closed /\ ~ session[o].peer
  /\ mutex[o] = NULL /\ mutex' = [mutex EXCEPT ![o] = c]
  /\ session' = [session EXCEPT ![o].peer = TRUE]
  /\ Enter(c, "renew", o, NULL)
  /\ UNCHANGED events

\* ... and then makes the state New, whatever the peer has reported.
Renew(c) ==
  /\ In(c, "renew")
  /\ WriteState(c, on[c], "New")
  /\ mutex' = [mutex EXCEPT ![on[c]] = NULL]
  /\ Leave(c)
  /\ UNCHANGED <<manager, queue, outlived>>

AttachSignalStream(c, o, s) ==
  /\ Calls(c, o)
  /\ mutex[o] = NULL /\ ~ session[o].closed /\ ~ Gone(s)
  /\ session' = [session EXCEPT ![o].stream = s]
  /\ UNCHANGED <<mutex, threads, events>>

\* PeerSession::close, which leaves the session in the table.
Close(c, o) ==
  /\ Calls(c, o)
  /\ BeginClose(c, o)
  /\ Enter(c, "detach", o, NULL)
  /\ UNCHANGED events
-----------------------------------------------------------------------------
\* Nothing is going on: the server waits for clients.
Waits ==
  /\ queue = <<>> /\ \A t \in Threads : at[t] = "idle"
  /\ UNCHANGED vars

Crashed == ~ up /\ UNCHANGED vars

StateChange(t) ==
  \/ TestClosed(t) \/ CheckState(t) \/ StoreState(t) \/ SwitchState(t)
  \/ Terminate(t) \/ Detach(t) \/ MarkClosed(t)

RunTask ==
  \/ RunCreate \/ RunStateChange \/ RunRemote
  \/ RunSend \/ UseStream \/ LoadClosed \/ EndWrite

Call(c) ==
  \/ \E o \in Objects :
       \/ CallStateChange(c, o) \/ StartPeer(c, o) \/ Close(c, o)
       \/ \E s \in Streams : AttachSignalStream(c, o, s)
  \/ Renew(c)

Next ==
  \/ \E s \in Streams : HandleStateChange(s) \/ HandleRemote(s) \/ Signal(s)
  \/ RunTask
  \/ \E t \in Threads : StateChange(t)
  \/ \E o \in Objects :
       LibraryState(o) \/ LibraryLocal(o) \/ LookAtStream(o) \/ PostLocal(o) \/ Release(o)
  \/ \E i \in Ids : GetSession(i)
  \/ \E c \in Callers : Call(c)
  \/ Waits \/ Crashed

\* No fairness: the worker leaves for good when it finds no task (module Dispatcher),
\* and a thread that resets its own peer, or a mutex, may keep another waiting for ever.
Spec == Init /\ [][Next]_vars
-----------------------------------------------------------------------------
(***************************************************************************)
(* Properties.                                                             *)
(***************************************************************************)

\* close() is for good: whoever got the session before it was closed cannot start a
\* peer in it or attach a stream to it afterwards.
ClosedHoldsNothing ==
  \A o \in Made : session[o].closed => ~ session[o].peer /\ session[o].stream = NULL

\* No session is lost open: one that is not in the table under its own id any more, or
\* was replaced there by another of the same id, has been closed.
NoneLostOpen ==
  \A o \in Made : table[session[o].id] # o => session[o].closed

\* The server crashes in two ways only.  A task finds no stream to send to: then its
\* session was closed, or is being closed, or it reports a state, which goes to a
\* session that no stream may ever have been attached to; a description or candidate
\* is posted for a session that has one.  Or a message is sent on the stream of an RPC
\* that has returned while it was sent.
CrashesExplained ==
  [][up /\ ~ up' =>
       LET o == on[Worker] IN
         \/ /\ at[Worker] = "send"
            /\ \/ session[o].closed
               \/ \E t \in Threads : at[t] = "mark" /\ mutex[o] = t
               \/ arg[Worker] = "state"
         \/ at[Worker] \in {"load", "write"} /\ rpc[arg[Worker]] = "returned"]_vars

\* A thread closes the session it is in and not a later session of the same id, unless
\* another thread closed its session after this one had found it open.
TerminationClosesOwn ==
  [][\A o \in Made : session'[o].closed /\ ~ session[o].closed =>
       \E t \in Threads : mutex[o] = t /\ (on[t] = o \/ t \in outlived)]_vars

\* A session that ends is closed when its thread comes back, also if the table had no
\* session of that id any more, or had another one.
TerminatedIsClosed ==
  [][\A t \in Threads : at[t] \in {"terminate", "mark"} /\ at'[t] = "idle" =>
       session'[on[t]].closed]_vars

\* A session's state follows the table of transitions.  Three exceptions: another thread
\* wrote it between the look and the store of this one; start() makes it New once the
\* peer has been started; and nobody had written it, so that the look found what
\* happened to be in state_.
StatesFollowTable ==
  [][\A o \in Made : session'[o].state # session[o].state =>
       \/ IsValidStateTransition(session[o].state, session'[o].state)
       \/ \E t \in overtaken : at[t] = "store" /\ on[t] = o
       \/ session'[o].state = "New" /\ \E t \in Threads : at[t] = "renew" /\ mutex[o] = t
       \/ session[o].state = NULL]_vars
=============================================================================
