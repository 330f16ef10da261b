--------------------------- MODULE Sessions_proofs ---------------------------
(***************************************************************************)
(* Proofs about Sessions, for any ids, streams, sessions, callers,         *)
(* messages and calls of the library.  What the table says of the sessions *)
(* and what a thread knows of the session it found open need one another:  *)
(* a thread that was not outlived ends an open session, which is the one   *)
(* the table has.                                                          *)
(***************************************************************************)
EXTENDS Sessions, FiniteSetTheorems, SequenceTheorems, TLAPS

\* The creations that wait in a queue.
Creates(q) == {n \in DOMAIN q : q[n].kind = "create"}

\* Sessions are numbered from 1, and a creation that waits has a number left.
Numbered ==
  /\ Made = 1 .. Cardinality(Made)
  /\ Cardinality(Made) + Cardinality(Creates(queue)) <= MaxSessions

\* The table has sessions under their own ids, and callers hold sessions.
EntriesMade ==
  /\ \A i \in Ids : table[i] # NULL => table[i] \in Made /\ session[table[i]].id = i
  /\ held \subseteq Made

\* The places in start() and close().
Locking == {"renew", "detach", "mark"}

\* Who has a session's mutex is in start() or close(), and has one; in closeSession it
\* has the session the table has for the id of its own.
LocksHeld ==
  /\ \A o \in Objects, t \in Threads : mutex[o] = t =>
       /\ o \in Made /\ at[t] \in Locking
       /\ \A p \in Objects : mutex[p] = t => p = o
       /\ at[t] \in {"detach", "mark"} => ~ session[o].peer
       /\ at[t] = "mark" => session[o].stream = NULL
       /\ at[t] = "renew" \/ manager # t => on[t] = o
       /\ manager = t => table[session[on[t]].id] = o /\ (t \notin outlived => on[t] = o)
  /\ \A t \in Threads : manager = t => at[t] \in {"detach", "mark"}
  /\ \A t \in Threads : at[t] = "renew" => mutex[on[t]] = t

\* A thread that was not outlived is in an open session.
FoundOpen ==
  \A t \in Threads : at[t] \in Open /\ t \notin outlived => ~ session[on[t]].closed

\* The state may follow the state of the session.
MayFollow(o, state) ==
  session[o].state = NULL \/ IsValidStateTransition(session[o].state, state)

\* What a thread that was not overtaken has checked still holds.
CheckedHolds ==
  \A t \in Threads : at[t] = "store" /\ t \notin overtaken => MayFollow(on[t], arg[t])

\* The session has a stream, was closed, or has just lost its stream to close().
HasStream(o) ==
  \/ session[o].closed \/ session[o].stream # NULL
  \/ \E t \in Threads : at[t] = "mark" /\ mutex[o] = t

\* The task is not one of a description or a candidate, or finds a stream or a reason.
FindsStream(task) ==
  task.kind = "send" /\ task.what = "data" => task.session \in Made /\ HasStream(task.session)

\* A description or a candidate is on its way for sessions that have a stream.
StreamsFound ==
  /\ \A n \in DOMAIN queue : FindsStream(queue[n])
  /\ \A t \in Threads :
       at[t] = "post" \/ (at[t] = "send" /\ arg[t] = "data") => HasStream(on[t])

IInv ==
  /\ TypeOK /\ Numbered /\ EntriesMade /\ NoneLostOpen /\ ClosedHoldsNothing
  /\ LocksHeld /\ FoundOpen /\ CheckedHolds /\ StreamsFound
-----------------------------------------------------------------------------
(***************************************************************************)
(* The queue.                                                              *)
(***************************************************************************)
LEMMA CreatesFinite ==
  ASSUME NEW q \in Seq(Task)
  PROVE  IsFiniteSet(Creates(q)) /\ Cardinality(Creates(q)) \in Nat
<1>1. Creates(q) \subseteq 1 .. Len(q) /\ Len(q) \in Nat
  BY DEF Creates
<1>2. IsFiniteSet(1 .. Len(q))
  BY <1>1, FS_Interval
<1> QED BY <1>1, <1>2, FS_Subset, FS_CardinalityType

LEMMA CreatesAppend ==
  ASSUME NEW q \in Seq(Task), NEW task \in Task
  PROVE  Cardinality(Creates(Append(q, task))) =
           Cardinality(Creates(q)) + (IF task.kind = "create" THEN 1 ELSE 0)
<1> DEFINE n == Len(q) + 1
<1>1. /\ DOMAIN Append(q, task) = DOMAIN q \union {n} /\ n \notin DOMAIN q
      /\ \A m \in DOMAIN q : Append(q, task)[m] = q[m]
      /\ Append(q, task)[n] = task
  OBVIOUS
<1>2. n \notin Creates(q)
  BY <1>1 DEF Creates
<1> HIDE DEF n
<1>3. CASE task.kind = "create"
  <2>1. Creates(Append(q, task)) = Creates(q) \union {n}
    BY <1>1, <1>3 DEF Creates
  <2> QED BY <1>2, <1>3, <2>1, CreatesFinite, FS_AddElement
<1>4. CASE task.kind # "create"
  <2>1. Creates(Append(q, task)) = Creates(q)
    BY <1>1, <1>4 DEF Creates
  <2> QED BY <1>4, <2>1, CreatesFinite
<1> QED BY <1>3, <1>4

LEMMA CreatesTail ==
  ASSUME NEW q \in Seq(Task), q # <<>>
  PROVE  Cardinality(Creates(q)) =
           Cardinality(Creates(Tail(q))) + (IF Head(q).kind = "create" THEN 1 ELSE 0)
<1> DEFINE S == Creates(q) \ {1}
           T == Creates(Tail(q))
           shift == [n \in S |-> n - 1]
<1>1. /\ Tail(q) \in Seq(Task) /\ Head(q) = q[1] /\ 1 \in DOMAIN q
      /\ DOMAIN q = 1 .. Len(q) /\ DOMAIN Tail(q) = 1 .. Len(q) - 1
      /\ \A n \in DOMAIN Tail(q) : Tail(q)[n] = q[n + 1]
      /\ Len(q) \in Nat
  OBVIOUS
<1>2. IsFiniteSet(S) /\ IsFiniteSet(T)
  BY <1>1, CreatesFinite, FS_RemoveElement
<1>3. shift \in Bijection(S, T)
  <2>1. \A n \in S : n - 1 \in T
    BY <1>1 DEF Creates
  <2>2. \A m \in T : m + 1 \in S /\ shift[m + 1] = m
    BY <1>1 DEF Creates
  <2>3. S \subseteq Int
    BY <1>1 DEF Creates
  <2> HIDE DEF S, T
  <2>4. shift \in [S -> T]
    BY <2>1
  <2>5. \A m, n \in S : shift[m] = shift[n] => m = n
    BY <2>3
  <2>6. \A m \in T : \E n \in S : shift[n] = m
    BY <2>2
  <2> HIDE DEF shift
  <2> QED BY <2>4, <2>5, <2>6 DEF Bijection, Injection, Surjection, IsInjective
<1>4. Cardinality(S) = Cardinality(T)
  BY <1>2, <1>3, FS_Bijection, FS_SameCardinalityBij DEF ExistsBijection
<1>5. Cardinality(T) \in Nat
  BY <1>2, FS_CardinalityType
<1>6. CASE Head(q).kind = "create"
  <2>1. 1 \in Creates(q)
    BY <1>1, <1>6 DEF Creates
  <2>2. Cardinality(S) = Cardinality(Creates(q)) - 1
    BY <2>1, CreatesFinite, FS_RemoveElement
  <2>3. Cardinality(Creates(q)) \in Nat
    BY CreatesFinite
  <2>4. Cardinality(Creates(q)) = Cardinality(T) + 1
    BY <1>4, <2>2, <2>3
  <2> QED BY <1>6, <2>4
<1>7. CASE Head(q).kind # "create"
  <2>1. S = Creates(q)
    BY <1>1, <1>7 DEF Creates
  <2>2. Cardinality(Creates(q)) = Cardinality(T)
    BY <1>4, <2>1, Zenon
  <2> HIDE DEF T
  <2>3. Cardinality(Creates(q)) = Cardinality(T) + 0
    BY <1>5, <2>2
  <2> QED BY <1>7, <2>3 DEF T
<1> QED BY <1>6, <1>7

LEMMA MadeFinite ==
  ASSUME session \in [Objects -> Session \union {NULL}]
  PROVE  IsFiniteSet(Made) /\ Cardinality(Made) \in Nat
<1>1. IsFiniteSet(1 .. MaxSessions)
  BY SessionsAssumption, FS_Interval
<1>2. Made \subseteq 1 .. MaxSessions
  BY DEF Made, Objects
<1> QED BY <1>1, <1>2, FS_Subset, FS_CardinalityType

\* Posting any task but a creation leaves the numbers that are left.
LEMMA PostKeeps ==
  ASSUME TypeOK, Numbered, UNCHANGED Made, NEW task \in Task, Post(task),
         task.kind # "create"
  PROVE  queue' \in Seq(Task) /\ Numbered'
<1>1. queue \in Seq(Task)
  BY DEF TypeOK
<1>2. queue' \in Seq(Task) /\ Cardinality(Creates(queue')) = Cardinality(Creates(queue))
  BY <1>1, CreatesAppend, CreatesFinite DEF Post
<1> QED BY <1>2 DEF Numbered
-----------------------------------------------------------------------------
(***************************************************************************)
(* Threads and sessions.                                                   *)
(***************************************************************************)

\* The part of the type invariant that is about the threads.
ThreadsTyped ==
  /\ at \in [Threads -> Places]
  /\ on \in [Threads -> Objects \union {NULL}]
  /\ arg \in [Threads -> ConnectionState \union {"data", "state"} \union Streams \union {NULL}]
  /\ \A t \in Threads :
       /\ at[t] # "idle" => on[t] \in Objects /\ session[on[t]] # NULL
       /\ at[t] \in Reported => arg[t] \in ConnectionState
       /\ at[t] = "send" => arg[t] \in {"data", "state"}
       /\ at[t] \in {"load", "write"} => arg[t] \in Streams

\* The rest of it.
StoresTyped ==
  /\ table \in [Ids -> Objects \union {NULL}]
  /\ session \in [Objects -> Session \union {NULL}]
  /\ manager \in Threads \union {NULL}
  /\ mutex \in [Objects -> Threads \union {NULL}]
  /\ held \subseteq Objects
  /\ rpc \in [Streams -> {"reading", "returned"}]
  /\ closed \in [Streams -> BOOLEAN]
  /\ queue \in Seq(Task)
  /\ up \in BOOLEAN
  /\ messages \in 0 .. MaxMessages /\ events \in 0 .. MaxEvents
  /\ overtaken \subseteq Threads /\ outlived \subseteq Threads

LEMMA TypeOKParts == TypeOK <=> StoresTyped /\ ThreadsTyped
BY DEF TypeOK, StoresTyped, ThreadsTyped

LEMMA ThreadKinds ==
  /\ Worker \in Threads /\ Objects \subseteq Threads /\ Callers \subseteq Threads
  /\ NULL \notin Threads /\ NULL \notin Objects
BY SessionsAssumption DEF Threads

LEMMA WhereIs ==
  ASSUME ThreadsTyped, NEW t \in Threads, at[t] # "idle"
  PROVE  on[t] \in Made
BY DEF ThreadsTyped, Made

LEMMA MadeIs ==
  ASSUME StoresTyped, NEW o \in Made
  PROVE  o \in Objects /\ session[o] \in Session /\ session[o] # NULL
BY DEF StoresTyped, Made

LEMMA ThreadsStay ==
  ASSUME ThreadsTyped, UNCHANGED threads, Made \subseteq Made'
  PROVE  /\ ThreadsTyped'
         /\ \A u \in Threads : at'[u] = at[u] /\ on'[u] = on[u] /\ arg'[u] = arg[u]
BY DEF ThreadsTyped, threads, Made

\* A thread that enters a session with what the place needs, or leaves.
LEMMA EnterTyped ==
  ASSUME ThreadsTyped, Made \subseteq Made',
         NEW t \in Threads, NEW place \in Places, NEW o, NEW x, Enter(t, place, o, x),
         \/ place = "idle" /\ o = NULL /\ x = NULL
         \/ /\ o \in Made'
            /\ \/ x = NULL /\ place \notin Reported \union {"send", "load", "write"}
               \/ x \in ConnectionState /\ place \in Reported
               \/ x \in {"data", "state"} /\ place = "send"
               \/ x \in Streams /\ place \in {"load", "write"}
  PROVE  /\ ThreadsTyped'
         /\ at'[t] = place /\ on'[t] = o /\ arg'[t] = x
         /\ \A u \in Threads \ {t} : at'[u] = at[u] /\ on'[u] = on[u] /\ arg'[u] = arg[u]
<1>1. /\ at'[t] = place /\ on'[t] = o /\ arg'[t] = x
      /\ \A u \in Threads \ {t} : at'[u] = at[u] /\ on'[u] = on[u] /\ arg'[u] = arg[u]
  BY DEF Enter, ThreadsTyped
<1>2. /\ o \in Objects \union {NULL}
      /\ x \in ConnectionState \union {"data", "state"} \union Streams \union {NULL}
  BY DEF Made
<1>3. at' \in [Threads -> Places]
  BY DEF Enter, ThreadsTyped
<1>4. on' \in [Threads -> Objects \union {NULL}]
  BY <1>2 DEF Enter, ThreadsTyped
<1>5. arg' \in [Threads -> ConnectionState \union {"data", "state"} \union Streams \union {NULL}]
  BY <1>2 DEF Enter, ThreadsTyped
<1>6. ASSUME NEW u \in Threads
      PROVE  /\ at'[u] # "idle" => on'[u] \in Objects /\ session'[on'[u]] # NULL
             /\ at'[u] \in Reported => arg'[u] \in ConnectionState
             /\ at'[u] = "send" => arg'[u] \in {"data", "state"}
             /\ at'[u] \in {"load", "write"} => arg'[u] \in Streams
  <2>1. CASE u = t
    BY <1>1, <2>1 DEF Made, Reported
  <2>2. CASE u # t
    <3>1. at'[u] = at[u] /\ on'[u] = on[u] /\ arg'[u] = arg[u]
      BY <1>1, <2>2
    <3>2. at[u] # "idle" => on[u] \in Made'
      BY WhereIs
    <3> QED BY <3>1, <3>2 DEF ThreadsTyped, Made
  <2> QED BY <2>1, <2>2
<1> QED BY <1>1, <1>3, <1>4, <1>5, <1>6 DEF ThreadsTyped

\* Session o changes to r and keeps its id.
Changes(o, r) ==
  /\ o \in Made /\ r \in Session /\ r.id = session[o].id
  /\ session' = [session EXCEPT ![o] = r]

LEMMA SessionChanges ==
  ASSUME StoresTyped, NEW o, NEW r, Changes(o, r)
  PROVE  /\ session' \in [Objects -> Session \union {NULL}]
         /\ Made' = Made
         /\ session'[o] = r
         /\ \A p \in Objects \ {o} : session'[p] = session[p]
         /\ \A p \in Made : session'[p].id = session[p].id
<1>1. NULL \notin Session
  BY SessionsAssumption
<1> QED BY <1>1, MadeIs DEF StoresTyped, Made, Changes

LEMMA NumberedStays ==
  ASSUME Numbered, Made' = Made, UNCHANGED queue
  PROVE  Numbered'
BY DEF Numbered

\* What the worker takes is a task.
LEMMA Taken ==
  ASSUME StoresTyped, NEW kind, Takes(kind)
  PROVE  /\ Head(queue) \in Task /\ Head(queue).kind = kind
         /\ queue # <<>> /\ queue' = Tail(queue) /\ queue' \in Seq(Task)
         /\ Head(queue) = queue[1] /\ 1 \in DOMAIN queue
         /\ UNCHANGED <<manager, mutex, held, rpc, closed, messages, events, overtaken, outlived>>
         /\ at[Worker] = "idle" /\ up
BY DEF StoresTyped, Takes, locks, streams, bounds

LEMMA TakeNumbered ==
  ASSUME StoresTyped, Numbered, Made' = Made, queue # <<>>, queue' = Tail(queue)
  PROVE  Numbered'
<1>1. queue \in Seq(Task) /\ queue' \in Seq(Task)
  BY DEF StoresTyped
<1>2. Cardinality(Creates(queue')) \in Nat
  BY <1>1, CreatesFinite
<1>3. Cardinality(Creates(queue)) = Cardinality(Creates(queue')) + 0
        \/ Cardinality(Creates(queue)) = Cardinality(Creates(queue')) + 1
  BY <1>1, CreatesTail
<1>4. Cardinality(Made) \in Nat
  BY MadeFinite DEF StoresTyped
<1> QED BY <1>2, <1>3, <1>4, SessionsAssumption DEF Numbered

\* Only threads of T move.
OnlyMove(T) == \A u \in Threads \ T : at'[u] = at[u] /\ on'[u] = on[u] /\ arg'[u] = arg[u]

\* If threads of T go to a stream with a description, there is one.
GoToStreams(T) ==
  \A t \in T : at'[t] = "post" \/ (at'[t] = "send" /\ arg'[t] = "data") =>
                 on'[t] \in Made /\ HasStream(on'[t])

\* The tasks that wait stay good, and so does one more task; the threads that did not
\* move have what they had.
LEMMA StreamsStay ==
  ASSUME StoresTyped, ThreadsTyped, StreamsFound, queue' \in Seq(Task), Made \subseteq Made',
         \A o \in Made : HasStream(o) => HasStream(o)',
         \/ UNCHANGED queue
         \/ queue # <<>> /\ queue' = Tail(queue)
         \/ \E task \in Task : queue' = Append(queue, task) /\ FindsStream(task),
         NEW T, OnlyMove(T), GoToStreams(T)
  PROVE  StreamsFound'
<1>1. ASSUME NEW task \in Task, FindsStream(task)
      PROVE  FindsStream(task)'
  BY <1>1 DEF FindsStream
<1>2. queue \in Seq(Task) /\ \A n \in DOMAIN queue : queue[n] \in Task /\ FindsStream(queue[n])
  BY DEF StoresTyped, StreamsFound
<1>3. ASSUME NEW n \in DOMAIN queue'
      PROVE  FindsStream(queue[n])'
  <2>1. ASSUME NEW task \in Task, FindsStream(task), queue'[n] = task
        PROVE  FindsStream(queue[n])'
    BY <1>1, <2>1 DEF FindsStream
  <2>2. CASE UNCHANGED queue
    BY <1>2, <2>1, <2>2
  <2>3. CASE queue # <<>> /\ queue' = Tail(queue)
    <3>1. n + 1 \in DOMAIN queue /\ queue'[n] = queue[n + 1]
      BY <1>2, <2>3
    <3> QED BY <1>2, <2>1, <3>1
  <2>4. ASSUME NEW task \in Task, queue' = Append(queue, task), FindsStream(task)
        PROVE  FindsStream(queue[n])'
    <3>1. (n \in DOMAIN queue /\ queue'[n] = queue[n]) \/ queue'[n] = task
      BY <1>2, <2>4
    <3> QED BY <1>2, <2>1, <2>4, <3>1
  <2> QED BY <2>2, <2>3, <2>4
<1>4. ASSUME NEW p \in Made, HasStream(p)
      PROVE  HasStream(p)'
  BY <1>4
<1>5. ASSUME NEW u \in Threads, at'[u] = "post" \/ (at'[u] = "send" /\ arg'[u] = "data")
      PROVE  (HasStream(on[u]))'
  <2>1. on'[u] \in Made /\ HasStream(on'[u])
    <3>1. CASE u \in T
      BY <1>5, <3>1 DEF GoToStreams
    <3>2. CASE u \notin T
      <4>1. at'[u] = at[u] /\ on'[u] = on[u] /\ arg'[u] = arg[u]
        BY <3>2 DEF OnlyMove
      <4>2. on[u] \in Made
        BY <1>5, <4>1, WhereIs
      <4> QED BY <1>5, <4>1, <4>2 DEF StreamsFound
    <3> QED BY <3>1, <3>2
  <2>2. PICK p \in Made : p = on'[u] /\ HasStream(p)
    BY <2>1
  <2> QED BY <1>4, <2>2 DEF HasStream
<1> QED BY <1>3, <1>5 DEF StreamsFound

\* A session that has a stream has one, if nobody touches it or its mutex.
LEMMA HasStreamStays ==
  ASSUME NEW o, HasStream(o),
         session'[o].closed \/ session'[o].closed = session[o].closed,
         session'[o].stream = session[o].stream,
         mutex'[o] = mutex[o], \A t \in Threads : at[t] = "mark" => at'[t] = "mark"
  PROVE  HasStream(o)'
BY DEF HasStream
-----------------------------------------------------------------------------
(***************************************************************************)
(* The steps.                                                              *)
(***************************************************************************)
LEMMA IInvParts ==
  ASSUME StoresTyped', ThreadsTyped', Numbered', EntriesMade', NoneLostOpen',
         ClosedHoldsNothing', LocksHeld', FoundOpen', CheckedHolds', StreamsFound'
  PROVE  IInv'
BY TypeOKParts DEF IInv, TypeOK, StoresTyped, ThreadsTyped

\* What IInv says of a state, part by part.
LEMMA IInvMeans ==
  ASSUME IInv
  PROVE  /\ TypeOK /\ StoresTyped /\ ThreadsTyped /\ Numbered /\ EntriesMade
         /\ NoneLostOpen /\ ClosedHoldsNothing /\ LocksHeld /\ FoundOpen /\ CheckedHolds
         /\ StreamsFound /\ held \subseteq Made
BY TypeOKParts DEF IInv, EntriesMade

\* The threads of T had no mutex, and have none.
NoMutex(T) == \A t \in T : at[t] \notin Locking /\ at'[t] \notin Locking

\* Nobody takes or gives a mutex, and who has one goes on to nothing else.
LEMMA LocksStay ==
  ASSUME StoresTyped, ThreadsTyped, LocksHeld, UNCHANGED <<manager, mutex>>,
         UNCHANGED table \/ manager = NULL, NEW T,
         OnlyMove(T), NoMutex(T), outlived \ T \subseteq outlived',
         Made \subseteq Made',
         \A o \in Made : session'[o].id = session[o].id,
         \A o \in Made : mutex[o] # NULL =>
           session'[o].peer = session[o].peer /\ session'[o].stream = session[o].stream
  PROVE  LocksHeld'
<1>1. ASSUME NEW o \in Objects, NEW t \in Threads, mutex'[o] = t
      PROVE  /\ o \in Made' /\ at'[t] \in Locking
             /\ \A p \in Objects : mutex'[p] = t => p = o
             /\ at'[t] \in {"detach", "mark"} => ~ session'[o].peer
             /\ at'[t] = "mark" => session'[o].stream = NULL
             /\ at'[t] = "renew" \/ manager' # t => on'[t] = o
             /\ manager' = t =>
                  table'[session'[on'[t]].id] = o /\ (t \notin outlived' => on'[t] = o)
  <2>1. mutex[o] = t /\ t # NULL
    BY <1>1, ThreadKinds
  <2>2. o \in Made /\ at[t] \in Locking /\ t \notin T
    BY <2>1 DEF LocksHeld, NoMutex
  <2>3. at'[t] = at[t] /\ on'[t] = on[t] /\ on[t] \in Made
    BY <2>2, WhereIs DEF Locking, OnlyMove
  <2>4. t \notin outlived' => t \notin outlived
    BY <2>2
  <2>5. manager = t => UNCHANGED table
    BY ThreadKinds
  <2> QED BY <2>1, <2>2, <2>3, <2>4, <2>5 DEF LocksHeld
<1>2. ASSUME NEW t \in Threads, manager' = t
      PROVE  at'[t] \in {"detach", "mark"}
  BY <1>2 DEF LocksHeld, Locking, NoMutex, OnlyMove
<1>3. ASSUME NEW t \in Threads, at'[t] = "renew"
      PROVE  mutex'[on'[t]] = t
  <2>1. t \notin T
    BY <1>3 DEF Locking, NoMutex
  <2> QED BY <1>3, <2>1 DEF LocksHeld, OnlyMove
<1> QED BY <1>1, <1>2, <1>3 DEF LocksHeld

\* The threads of T move: they had no mutex and have none, and know what they must.
Moves(T) ==
  /\ OnlyMove(T) /\ NoMutex(T) /\ GoToStreams(T)
  /\ outlived \ T \subseteq outlived' /\ overtaken \ T \subseteq overtaken'
  /\ \A t \in T :
       /\ at'[t] \in Open /\ t \notin outlived' => ~ session[on'[t]].closed
       /\ at'[t] = "store" /\ t \notin overtaken' => MayFollow(on'[t], arg'[t])

\* The queue stays, loses its head or gets a task that finds a stream.
QueueMoves ==
  \/ UNCHANGED queue
  \/ queue # <<>> /\ queue' = Tail(queue)
  \/ \E task \in Task : queue' = Append(queue, task) /\ FindsStream(task)

\* Threads move and no session changes: what holds of the threads that move is enough.
LEMMA MoveKeeps ==
  ASSUME IInv, UNCHANGED <<table, session, manager, mutex>>, held' \subseteq Made,
         StoresTyped', ThreadsTyped', Numbered', QueueMoves, NEW T, Moves(T)
  PROVE  IInv'
<1> USE IInvMeans DEF Moves
<1>1. Made' = Made
  BY DEF Made
<1>2. EntriesMade' /\ NoneLostOpen' /\ ClosedHoldsNothing'
  BY <1>1 DEF EntriesMade, NoneLostOpen, ClosedHoldsNothing
<1>3. LocksHeld'
  BY <1>1, LocksStay
<1>4. FoundOpen'
  BY DEF FoundOpen, OnlyMove
<1>5. CheckedHolds'
  <2> SUFFICES ASSUME NEW u \in Threads, at'[u] = "store", u \notin overtaken'
               PROVE  \/ session'[on'[u]].state = NULL
                      \/ IsValidStateTransition(session'[on'[u]].state, arg'[u])
    BY DEF CheckedHolds, MayFollow
  <2>1. CASE u \in T
    BY <2>1 DEF MayFollow
  <2>2. CASE u \notin T
    BY <2>2 DEF CheckedHolds, MayFollow, OnlyMove
  <2> QED BY <2>1, <2>2
<1>6. StreamsFound'
  <2>1. \A o \in Made : HasStream(o) => HasStream(o)'
    <3>1. \A t \in Threads : at[t] = "mark" => at'[t] = "mark"
      BY DEF Locking, NoMutex, OnlyMove
    <3> QED BY <3>1, HasStreamStays
  <2>2. queue' \in Seq(Task)
    BY DEF StoresTyped
  <2> QED BY <1>1, <2>1, <2>2, StreamsStay DEF QueueMoves
<1> QED BY <1>2, <1>3, <1>4, <1>5, <1>6, IInvParts

\* Nobody moves, and no session changes.
LEMMA NoMoveKeeps ==
  ASSUME IInv, UNCHANGED <<table, session, manager, mutex, threads, overtaken, outlived>>,
         held' \subseteq Made, StoresTyped', Numbered', QueueMoves
  PROVE  IInv'
<1> USE IInvMeans
<1>1. Made' = Made
  BY DEF Made
<1>2. /\ ThreadsTyped'
      /\ \A u \in Threads : at'[u] = at[u] /\ on'[u] = on[u] /\ arg'[u] = arg[u]
  BY <1>1, ThreadsStay
<1>3. Moves({})
  BY <1>2 DEF Moves, OnlyMove, NoMutex, GoToStreams
<1> QED BY <1>2, <1>3, MoveKeeps

\* One thread moves.
LEMMA OneMoves ==
  ASSUME IInv, UNCHANGED <<table, session, manager, mutex, held>>,
         StoresTyped', ThreadsTyped', Numbered', QueueMoves, NEW t \in Threads,
         \A u \in Threads \ {t} : at'[u] = at[u] /\ on'[u] = on[u] /\ arg'[u] = arg[u],
         at[t] \notin Locking, at'[t] \notin Locking,
         at'[t] \in Open /\ t \notin outlived' => ~ session[on'[t]].closed,
         at'[t] = "store" /\ t \notin overtaken' => MayFollow(on'[t], arg'[t]),
         at'[t] = "post" \/ (at'[t] = "send" /\ arg'[t] = "data") =>
           on'[t] \in Made /\ HasStream(on'[t]),
         outlived \ {t} \subseteq outlived', overtaken \ {t} \subseteq overtaken'
  PROVE  IInv'
<1>1. Moves({t})
  BY DEF Moves, OnlyMove, NoMutex, GoToStreams
<1> QED BY <1>1, IInvMeans, MoveKeeps

\* One session changes, and perhaps leaves the table.
LEMMA ChangeKeeps ==
  ASSUME IInv, NEW o, NEW r, Changes(o, r),
         session[o].closed => r.closed,
         r.closed => ~ r.peer /\ r.stream = NULL,
         \/ UNCHANGED table
         \/ /\ r.closed /\ table[session[o].id] = o
            /\ table' = [table EXCEPT ![session[o].id] = NULL],
         UNCHANGED <<held, queue>>,
         StoresTyped', ThreadsTyped', LocksHeld', FoundOpen', CheckedHolds', StreamsFound'
  PROVE  IInv'
<1> USE IInvMeans DEF Changes
<1>1. /\ Made' = Made /\ session'[o] = r
      /\ \A p \in Objects \ {o} : session'[p] = session[p]
      /\ \A p \in Made : session'[p].id = session[p].id
  BY SessionChanges
<1>2. \A p \in Made : p \in Objects /\ p # NULL /\ session[p].id \in Ids
  BY MadeIs, ThreadKinds DEF Session
<1>3. Numbered'
  BY <1>1, NumberedStays
<1>4. \A i \in Ids : table'[i] # NULL => table'[i] = table[i]
  BY <1>2 DEF StoresTyped
<1>5. EntriesMade'
  BY <1>1, <1>4 DEF EntriesMade
<1>6. \A p \in Made : session[p].closed => session'[p].closed
  BY <1>1, <1>2
<1>7. NoneLostOpen'
  <2> SUFFICES ASSUME NEW p \in Made, table'[session[p].id] # p
               PROVE  session'[p].closed
    BY <1>1 DEF NoneLostOpen
  <2>1. CASE table[session[p].id] # p
    BY <1>6, <2>1 DEF NoneLostOpen
  <2>2. CASE table[session[p].id] = p
    <3>1. /\ r.closed /\ table[session[o].id] = o
          /\ table' = [table EXCEPT ![session[o].id] = NULL]
      BY <2>2
    <3>2. session[p].id = session[o].id
      BY <1>2, <2>2, <3>1 DEF StoresTyped
    <3>3. p = o
      BY <2>2, <3>1, <3>2
    <3> QED BY <1>1, <3>1, <3>3
  <2> QED BY <2>1, <2>2
<1>8. ClosedHoldsNothing'
  <2> SUFFICES ASSUME NEW p \in Made, session'[p].closed
               PROVE  ~ session'[p].peer /\ session'[p].stream = NULL
    BY <1>1 DEF ClosedHoldsNothing
  <2>1. CASE p = o
    BY <1>1, <2>1
  <2>2. CASE p # o
    BY <1>1, <1>2, <2>2 DEF ClosedHoldsNothing
  <2> QED BY <2>1, <2>2
<1> QED BY <1>3, <1>5, <1>7, <1>8, IInvParts
-----------------------------------------------------------------------------
(***************************************************************************)
(* RPC threads.                                                            *)
(***************************************************************************)
LEMMA StateTask ==
  ASSUME NEW s \in Streams, NEW i \in Ids, NEW state \in ConnectionState
  PROVE  [kind |-> "state", stream |-> s, id |-> i, state |-> state] \in Task
BY DEF Task

LEMMA NamedTask ==
  ASSUME NEW s \in Streams, NEW i \in Ids, NEW kind \in {"create", "remote"}
  PROVE  [kind |-> kind, stream |-> s, id |-> i] \in Task
BY DEF Task

LEMMA SendTask ==
  ASSUME NEW o \in Objects, NEW what \in {"data", "state"}
  PROVE  [kind |-> "send", session |-> o, what |-> what] \in Task
BY DEF Task

\* An RPC thread posts a task.
LEMMA ReadingKeeps ==
  ASSUME IInv, NEW s \in Streams, Reading(s), NEW task \in Task, Post(task),
         task.kind # "send",
         task.kind = "create" =>
           Cardinality(Made) + Cardinality(Creates(queue)) < MaxSessions
  PROVE  IInv'
<1> USE IInvMeans
<1>1. UNCHANGED <<table, session, manager, mutex, held, rpc, closed, threads, up, events,
                  overtaken, outlived>>
  BY DEF Reading, objects, locks, streams, observers
<1>2. Made' = Made
  BY <1>1 DEF Made
<1>3. queue \in Seq(Task) /\ queue' = Append(queue, task) /\ queue' \in Seq(Task)
  BY DEF StoresTyped, Post
<1>4. StoresTyped'
  <2>1. messages' \in 0 .. MaxMessages
    BY SessionsAssumption DEF Reading, StoresTyped
  <2> QED BY <1>1, <1>3, <2>1 DEF StoresTyped
<1>5. Numbered'
  <2>1. Cardinality(Creates(queue)) \in Nat
    BY <1>3, CreatesFinite
  <2>2. Cardinality(Creates(queue')) =
          Cardinality(Creates(queue)) + (IF task.kind = "create" THEN 1 ELSE 0)
    BY <1>3, CreatesAppend
  <2>3. Cardinality(Made) \in Nat
    BY MadeFinite DEF StoresTyped
  <2>4. Cardinality(Made) + Cardinality(Creates(queue')) <= MaxSessions
    BY <2>1, <2>2, <2>3, SessionsAssumption DEF Numbered
  <2> QED BY <1>2, <2>4 DEF Numbered
<1>6. FindsStream(task)
  BY DEF FindsStream
<1> QED BY <1>1, <1>3, <1>4, <1>5, <1>6, NoMoveKeeps DEF QueueMoves

LEMMA HandleStateChangeKeeps ==
  ASSUME IInv, NEW s \in Streams, HandleStateChange(s)
  PROVE  IInv'
<1>1. PICK i \in Ids :
        \/ /\ Cardinality(Made) + Cardinality(Creates(queue)) < MaxSessions
           /\ Post([kind |-> "create", stream |-> s, id |-> i])
        \/ \E state \in ConnectionState \ {"New"} :
             Post([kind |-> "state", stream |-> s, id |-> i, state |-> state])
  BY DEF HandleStateChange, Creates
<1>2. Reading(s)
  BY DEF HandleStateChange
<1>3. CASE /\ Cardinality(Made) + Cardinality(Creates(queue)) < MaxSessions
           /\ Post([kind |-> "create", stream |-> s, id |-> i])
  BY <1>2, <1>3, NamedTask, ReadingKeeps
<1>4. ASSUME NEW state \in ConnectionState,
             Post([kind |-> "state", stream |-> s, id |-> i, state |-> state])
      PROVE  IInv'
  BY <1>2, <1>4, StateTask, ReadingKeeps
<1> QED BY <1>1, <1>3, <1>4

LEMMA HandleRemoteKeeps ==
  ASSUME IInv, NEW s \in Streams, HandleRemote(s)
  PROVE  IInv'
<1>1. PICK i \in Ids : Post([kind |-> "remote", stream |-> s, id |-> i])
  BY DEF HandleRemote
<1>2. Reading(s)
  BY DEF HandleRemote
<1> QED BY <1>1, <1>2, NamedTask, ReadingKeeps

LEMMA SignalKeeps ==
  ASSUME IInv, NEW s \in Streams, Signal(s)
  PROVE  IInv'
<1> USE IInvMeans
<1>1. UNCHANGED <<table, session, manager, mutex, held, queue, threads, up, messages, events,
                  overtaken, outlived>>
  BY DEF Signal, objects, locks, bounds, observers
<1>2. Made' = Made
  BY <1>1 DEF Made
<1>3. StoresTyped'
  BY <1>1 DEF StoresTyped, Signal
<1> QED BY <1>1, <1>2, <1>3, NumberedStays, NoMoveKeeps DEF QueueMoves
-----------------------------------------------------------------------------
(***************************************************************************)
(* The worker.                                                             *)
(***************************************************************************)
LEMMA RunRemoteKeeps ==
  ASSUME IInv, RunRemote
  PROVE  IInv'
<1> USE IInvMeans
<1>1. Takes("remote") /\ UNCHANGED <<table, session, threads, up>>
  BY DEF RunRemote, objects
<1>2. /\ queue # <<>> /\ queue' = Tail(queue) /\ queue' \in Seq(Task)
      /\ UNCHANGED <<manager, mutex, held, rpc, closed, messages, events, overtaken, outlived>>
  BY <1>1, Taken
<1>3. Made' = Made
  BY <1>1 DEF Made
<1>4. StoresTyped'
  BY <1>1, <1>2 DEF StoresTyped
<1> QED BY <1>1, <1>2, <1>3, <1>4, TakeNumbered, NoMoveKeeps DEF QueueMoves

LEMMA RunStateChangeKeeps ==
  ASSUME IInv, RunStateChange
  PROVE  IInv'
<1> USE IInvMeans
<1> DEFINE task == Head(queue)
           o == table[task.id]
<1>1. Takes("state") /\ UNCHANGED <<table, session, up>>
  BY DEF RunStateChange, objects
<1>2. /\ task \in Task /\ task.kind = "state"
      /\ queue # <<>> /\ queue' = Tail(queue) /\ queue' \in Seq(Task)
      /\ UNCHANGED <<manager, mutex, held, rpc, closed, messages, events, overtaken, outlived>>
      /\ at[Worker] = "idle"
  BY <1>1, Taken
<1>3. task.id \in Ids /\ task.state \in ConnectionState
  BY <1>2 DEF Task
<1>4. StoresTyped'
  BY <1>1, <1>2 DEF StoresTyped
<1>5. Made' = Made
  BY <1>1 DEF Made
<1>6. Numbered'
  BY <1>2, <1>5, TakeNumbered
<1>7. CASE o # NULL /\ Enter(Worker, "test", o, task.state)
  <2>1. o \in Made
    BY <1>3, <1>7 DEF EntriesMade
  <2>2. /\ ThreadsTyped' /\ at'[Worker] = "test"
        /\ \A u \in Threads \ {Worker} : at'[u] = at[u] /\ on'[u] = on[u] /\ arg'[u] = arg[u]
    <3> HIDE DEF o, task
    <3> QED BY <1>3, <1>5, <1>7, <2>1, EnterTyped, ThreadKinds DEF Places, Reported
  <2>3. at[Worker] \notin Locking /\ at'[Worker] \notin Locking \union Open \union {"post", "send"}
    BY <1>2, <2>2 DEF Locking, Open
  <2> QED BY <1>1, <1>2, <1>4, <1>6, <2>2, <2>3, OneMoves, ThreadKinds DEF Open, QueueMoves
<1>8. CASE UNCHANGED threads
  BY <1>1, <1>2, <1>4, <1>6, <1>8, NoMoveKeeps DEF QueueMoves
<1> QED BY <1>7, <1>8 DEF RunStateChange

LEMMA RunSendKeeps ==
  ASSUME IInv, RunSend
  PROVE  IInv'
<1> USE IInvMeans
<1> DEFINE task == Head(queue)
           o == task.session
<1>1. Takes("send") /\ UNCHANGED <<table, session, up>>
  BY DEF RunSend, objects
<1>2. /\ task \in Task /\ task.kind = "send" /\ task = queue[1] /\ 1 \in DOMAIN queue
      /\ queue # <<>> /\ queue' = Tail(queue) /\ queue' \in Seq(Task)
      /\ UNCHANGED <<manager, mutex, held, rpc, closed, messages, events, overtaken, outlived>>
      /\ at[Worker] = "idle"
  BY <1>1, Taken
<1>3. StoresTyped'
  BY <1>1, <1>2 DEF StoresTyped
<1>4. Made' = Made
  BY <1>1 DEF Made
<1>5. Numbered'
  BY <1>2, <1>4, TakeNumbered
<1>6. CASE Alive(o) /\ Enter(Worker, "send", o, task.what)
  <2>1. o \in Made /\ task.what \in {"data", "state"}
    BY <1>2, <1>6 DEF Alive, Task
  <2>2. task.what = "data" => HasStream(o)
    BY <1>2 DEF StreamsFound, FindsStream
  <2> HIDE DEF o, task
  <2>3. /\ ThreadsTyped' /\ at'[Worker] = "send" /\ on'[Worker] = o /\ arg'[Worker] = task.what
        /\ \A u \in Threads \ {Worker} : at'[u] = at[u] /\ on'[u] = on[u] /\ arg'[u] = arg[u]
    BY <1>4, <1>6, <2>1, EnterTyped, ThreadKinds DEF Places
  <2>4. at[Worker] \notin Locking /\ at'[Worker] \notin Locking \union Open \union {"post"}
    BY <1>2, <2>3 DEF Locking, Open
  <2>5. at'[Worker] = "post" \/ (at'[Worker] = "send" /\ arg'[Worker] = "data") =>
          on'[Worker] \in Made /\ HasStream(on'[Worker])
    BY <2>1, <2>2, <2>3, <2>4
  <2> QED BY <1>1, <1>2, <1>3, <1>5, <2>3, <2>4, <2>5, OneMoves, ThreadKinds DEF Open, QueueMoves
<1>7. CASE UNCHANGED threads
  BY <1>1, <1>2, <1>3, <1>5, <1>7, NoMoveKeeps DEF QueueMoves
<1> QED BY <1>6, <1>7 DEF RunSend

\* The worker goes on with a stream, or comes back from it.
LEMMA AtStreamKeeps ==
  ASSUME IInv, NEW place \in {"send", "load", "write"}, AtStream(place),
         up' \in BOOLEAN, closed' \in [Streams -> BOOLEAN],
         \/ UNCHANGED threads
         \/ Leave(Worker)
         \/ \E next \in {"load", "write"}, s \in Streams : Enter(Worker, next, on[Worker], s)
  PROVE  IInv'
<1> USE IInvMeans
<1>1. /\ UNCHANGED <<table, session, manager, mutex, held, rpc, queue, messages, events,
                     overtaken, outlived>>
      /\ at[Worker] = place
  BY DEF AtStream, objects, locks, bounds, observers
<1>2. Made' = Made
  BY <1>1 DEF Made
<1>3. StoresTyped'
  BY <1>1 DEF StoresTyped
<1>4. Numbered'
  BY <1>1, <1>2, NumberedStays
<1>5. on[Worker] \in Made
  BY <1>1, WhereIs, ThreadKinds
<1>6. ASSUME NEW next \in {"idle", "load", "write"}, at'[Worker] = next, ThreadsTyped',
             \A u \in Threads \ {Worker} : at'[u] = at[u] /\ on'[u] = on[u] /\ arg'[u] = arg[u]
      PROVE  IInv'
  <2>1. at[Worker] \notin Locking
        /\ at'[Worker] \notin Locking \union Open \union {"post", "send", "store"}
    BY <1>1, <1>6 DEF Locking, Open
  <2> QED BY <1>1, <1>3, <1>4, <1>6, <2>1, OneMoves, ThreadKinds DEF QueueMoves
<1>7. CASE Leave(Worker)
  BY <1>2, <1>6, <1>7, EnterTyped, ThreadKinds DEF Leave, Places
<1>8. ASSUME NEW next \in {"load", "write"}, NEW s \in Streams,
             Enter(Worker, next, on[Worker], s)
      PROVE  IInv'
  BY <1>2, <1>5, <1>6, <1>8, EnterTyped, ThreadKinds DEF Places
<1>9. CASE UNCHANGED threads
  BY <1>1, <1>3, <1>4, <1>9, NoMoveKeeps DEF QueueMoves
<1> QED BY <1>7, <1>8, <1>9

LEMMA UseStreamKeeps ==
  ASSUME IInv, UseStream
  PROVE  IInv'
<1> USE IInvMeans
<1> DEFINE s == session[on[Worker]].stream
<1>1. AtStream("send") /\ closed' \in [Streams -> BOOLEAN] /\ up' \in BOOLEAN
  BY DEF UseStream, StoresTyped
<1>2. s \in Streams \union {NULL}
  <2>1. on[Worker] \in Made
    BY <1>1, WhereIs, ThreadKinds DEF AtStream
  <2> QED BY <2>1, MadeIs DEF Session
<1> HIDE DEF s
<1>3. \/ UNCHANGED threads
      \/ \E next \in {"load", "write"}, x \in Streams : Enter(Worker, next, on[Worker], x)
  BY <1>2 DEF UseStream, s
<1> QED BY <1>1, <1>3, AtStreamKeeps

LEMMA LoadClosedKeeps ==
  ASSUME IInv, LoadClosed
  PROVE  IInv'
<1> USE IInvMeans
<1>1. AtStream("load") /\ closed' \in [Streams -> BOOLEAN] /\ up' \in BOOLEAN
  BY DEF LoadClosed, StoresTyped
<1>2. arg[Worker] \in Streams
  BY <1>1, ThreadKinds DEF AtStream, ThreadsTyped
<1>3. \/ UNCHANGED threads \/ Leave(Worker)
      \/ \E next \in {"load", "write"}, x \in Streams : Enter(Worker, next, on[Worker], x)
  BY <1>2 DEF LoadClosed
<1> QED BY <1>1, <1>3, AtStreamKeeps

LEMMA EndWriteKeeps ==
  ASSUME IInv, EndWrite
  PROVE  IInv'
<1> USE IInvMeans
<1>1. AtStream("write") /\ closed' \in [Streams -> BOOLEAN] /\ up' \in BOOLEAN
  BY DEF EndWrite, StoresTyped
<1>2. UNCHANGED threads \/ Leave(Worker)
  BY DEF EndWrite
<1> QED BY <1>1, <1>2, AtStreamKeeps
-----------------------------------------------------------------------------
(***************************************************************************)
(* The handlers, up to the store, and the callers that change no session.  *)
(***************************************************************************)

\* A thread of a handler goes on, or leaves, and posts at most one task.
LEMMA HandlerMoves ==
  ASSUME IInv, NEW t \in Threads,
         NEW place \in {"test", "check", "switch", "terminate", "look", "post"},
         In(t, place), UNCHANGED <<session, locks, overtaken>>,
         outlived' \in {outlived, outlived \ {t}},
         \/ UNCHANGED queue
         \/ \E task \in Task : task.kind = "send" /\ Post(task) /\ FindsStream(task),
         \/ Leave(t)
         \/ \E next \in {"check", "store", "terminate", "post"} :
              /\ \/ next \in Reported /\ place \in Reported /\ Enter(t, next, on[t], arg[t])
                 \/ next \notin Reported /\ Enter(t, next, on[t], NULL)
              /\ next \in Open /\ t \notin outlived' => ~ session[on[t]].closed
              /\ next = "store" /\ t \notin overtaken => MayFollow(on[t], arg[t])
              /\ next = "post" => HasStream(on[t])
  PROVE  IInv'
<1> USE IInvMeans
<1>1. /\ UNCHANGED <<table, session, manager, mutex, held, rpc, closed, up, messages, events,
                     overtaken>>
      /\ at[t] = place
  BY DEF In, locks, streams, bounds
<1>2. Made' = Made
  BY <1>1 DEF Made
<1>3. on[t] \in Made /\ (place \in Reported => arg[t] \in ConnectionState)
  BY <1>1, WhereIs DEF ThreadsTyped
<1>4. /\ queue' \in Seq(Task) /\ Numbered'
      /\ queue' = queue \/ \E task \in Task : queue' = Append(queue, task) /\ FindsStream(task)
  <2>1. CASE UNCHANGED queue
    BY <1>2, <2>1, NumberedStays DEF StoresTyped
  <2>2. ASSUME NEW task \in Task, task.kind = "send", Post(task), FindsStream(task)
        PROVE  /\ queue' \in Seq(Task) /\ Numbered'
               /\ \E w \in Task : queue' = Append(queue, w) /\ FindsStream(w)
    BY <1>2, <2>2, PostKeeps DEF Post
  <2> QED BY <2>1, <2>2 DEF Post
<1>5. QueueMoves
  BY <1>4 DEF QueueMoves
<1>6. StoresTyped'
  BY <1>1, <1>4 DEF StoresTyped
<1>7. at[t] \notin Locking
  BY <1>1 DEF Locking
<1>8. CASE Leave(t)
  <2>1. /\ ThreadsTyped' /\ at'[t] = "idle"
        /\ \A u \in Threads \ {t} : at'[u] = at[u] /\ on'[u] = on[u] /\ arg'[u] = arg[u]
    BY <1>2, <1>8, EnterTyped DEF Leave, Places
  <2> QED BY <1>1, <1>4, <1>5, <1>6, <1>7, <2>1, OneMoves DEF Open, Locking
<1>9. ASSUME NEW next \in {"check", "store", "terminate", "post"},
             NEW x \in ConnectionState \union {NULL},
             Enter(t, next, on[t], x), next \in Reported => x \in ConnectionState /\ x = arg[t],
             next \notin Reported => x = NULL,
             next \in Open /\ t \notin outlived' => ~ session[on[t]].closed,
             next = "store" /\ t \notin overtaken => MayFollow(on[t], arg[t]),
             next = "post" => HasStream(on[t])
      PROVE  IInv'
  <2>1. /\ ThreadsTyped' /\ at'[t] = next /\ on'[t] = on[t] /\ arg'[t] = x
        /\ \A u \in Threads \ {t} : at'[u] = at[u] /\ on'[u] = on[u] /\ arg'[u] = arg[u]
    BY <1>2, <1>3, <1>9, EnterTyped DEF Places, Reported
  <2>2. next \notin Locking \union {"send"}
    BY DEF Locking
  <2>3. at'[t] = "store" /\ t \notin overtaken' => MayFollow(on'[t], arg'[t])
    BY <1>1, <1>9, <2>1 DEF Reported
  <2> QED BY <1>1, <1>3, <1>4, <1>5, <1>6, <1>7, <1>9, <2>1, <2>2, <2>3, OneMoves
<1> QED BY <1>3, <1>8, <1>9 DEF Reported

LEMMA TestClosedKeeps ==
  ASSUME IInv, NEW t \in Threads, TestClosed(t)
  PROVE  IInv'
<1>1. /\ In(t, "test") /\ UNCHANGED <<session, locks, queue, overtaken, outlived>>
      /\ \/ Leave(t)
         \/ ~ session[on[t]].closed /\ Enter(t, "check", on[t], arg[t])
  BY DEF TestClosed, observers
<1> QED BY <1>1, HandlerMoves DEF Reported

LEMMA CheckStateKeeps ==
  ASSUME IInv, NEW t \in Threads, CheckState(t)
  PROVE  IInv'
<1> USE IInvMeans
<1>1. /\ In(t, "check") /\ UNCHANGED <<session, locks, queue, overtaken>>
      /\ \/ Leave(t) /\ outlived' = outlived \ {t}
         \/ MayFollow(on[t], arg[t]) /\ Enter(t, "store", on[t], arg[t]) /\ UNCHANGED outlived
  <2>1. PICK state \in States(on[t]) :
          \/ /\ IsValidStateTransition(state, arg[t])
             /\ Enter(t, "store", on[t], arg[t]) /\ UNCHANGED outlived
          \/ Leave(t) /\ outlived' = outlived \ {t}
    BY DEF CheckState
  <2>2. IsValidStateTransition(state, arg[t]) => MayFollow(on[t], arg[t])
    BY DEF States, MayFollow
  <2> QED BY <2>1, <2>2 DEF CheckState
<1>2. t \notin outlived => ~ session[on[t]].closed
  BY <1>1 DEF In, FoundOpen, Open
<1> QED BY <1>1, <1>2, HandlerMoves DEF Reported

LEMMA SwitchStateKeeps ==
  ASSUME IInv, NEW t \in Threads, SwitchState(t)
  PROVE  IInv'
<1> USE IInvMeans
<1> DEFINE task == [kind |-> "send", session |-> on[t], what |-> "state"]
<1>1. /\ In(t, "switch") /\ UNCHANGED <<session, locks, overtaken>>
      /\ outlived' \in {outlived, outlived \ {t}}
  BY DEF SwitchState
<1>2. on[t] \in Objects
  BY <1>1, WhereIs DEF In, Made
<1>3. task \in Task /\ task.kind = "send" /\ FindsStream(task)
  BY <1>2, SendTask DEF FindsStream
<1>4. t \notin outlived => ~ session[on[t]].closed
  BY <1>1 DEF In, FoundOpen, Open
<1>5. \/ Leave(t) /\ (UNCHANGED queue \/ Post(task))
      \/ Enter(t, "terminate", on[t], NULL) /\ UNCHANGED <<queue, outlived>>
  BY DEF SwitchState
<1> HIDE DEF task
<1>6. CASE Leave(t) /\ (UNCHANGED queue \/ Post(task))
  BY <1>1, <1>3, <1>6, HandlerMoves
<1>7. CASE Enter(t, "terminate", on[t], NULL) /\ UNCHANGED <<queue, outlived>>
  BY <1>1, <1>4, <1>7, HandlerMoves DEF Reported
<1> QED BY <1>5, <1>6, <1>7

LEMMA LookAtStreamKeeps ==
  ASSUME IInv, NEW o \in Objects, LookAtStream(o)
  PROVE  IInv'
<1>1. /\ In(o, "look") /\ UNCHANGED <<session, locks, queue, overtaken, outlived>>
      /\ \/ Leave(o)
         \/ session[on[o]].stream # NULL /\ Enter(o, "post", on[o], NULL)
  BY DEF LookAtStream, observers
<1>2. session[on[o]].stream # NULL => HasStream(on[o])
  BY DEF HasStream
<1> QED BY <1>1, <1>2, HandlerMoves, ThreadKinds DEF Reported, Open

LEMMA PostLocalKeeps ==
  ASSUME IInv, NEW o \in Objects, PostLocal(o)
  PROVE  IInv'
<1> USE IInvMeans
<1> DEFINE task == [kind |-> "send", session |-> on[o], what |-> "data"]
<1>1. /\ In(o, "post") /\ UNCHANGED <<session, locks, overtaken, outlived>>
      /\ Post(task) /\ Leave(o)
  BY DEF PostLocal, observers
<1>2. on[o] \in Made /\ on[o] \in Objects /\ HasStream(on[o])
  BY <1>1, WhereIs, ThreadKinds DEF In, Made, StreamsFound
<1>3. task \in Task /\ task.kind = "send" /\ FindsStream(task)
  BY <1>2, SendTask DEF FindsStream
<1> HIDE DEF task
<1> QED BY <1>1, <1>3, HandlerMoves, ThreadKinds

\* A thread of a peer connection, or a caller, enters a session and holds no mutex yet.
LEMMA EntersKeeps ==
  ASSUME IInv, NEW t \in Threads, NEW o \in Made, at[t] = "idle",
         UNCHANGED <<table, session, manager, mutex, held, rpc, closed, queue, up, messages,
                     overtaken, outlived>>,
         events' \in 0 .. MaxEvents,
         \/ \E state \in ConnectionState : Enter(t, "test", o, state)
         \/ Enter(t, "look", o, NULL)
  PROVE  IInv'
<1> USE IInvMeans
<1>1. Made' = Made
  BY DEF Made
<1>2. StoresTyped' /\ Numbered' /\ QueueMoves
  BY <1>1, NumberedStays DEF StoresTyped, QueueMoves
<1>3. /\ ThreadsTyped' /\ at'[t] \in {"test", "look"}
      /\ \A u \in Threads \ {t} : at'[u] = at[u] /\ on'[u] = on[u] /\ arg'[u] = arg[u]
  <2>1. ASSUME NEW state \in ConnectionState, Enter(t, "test", o, state)
        PROVE  /\ ThreadsTyped' /\ at'[t] = "test"
               /\ \A u \in Threads \ {t} : at'[u] = at[u] /\ on'[u] = on[u] /\ arg'[u] = arg[u]
    BY <1>1, <2>1, EnterTyped DEF Places, Reported
  <2>2. CASE Enter(t, "look", o, NULL)
    BY <1>1, <2>2, EnterTyped DEF Places, Reported
  <2> QED BY <2>1, <2>2
<1> QED BY <1>2, <1>3, OneMoves DEF Open, Locking

LEMMA LibraryStateKeeps ==
  ASSUME IInv, NEW o \in Objects, LibraryState(o)
  PROVE  IInv'
<1>1. /\ UNCHANGED <<table, session, manager, mutex, held, rpc, closed, queue, up, messages,
                     overtaken, outlived>>
      /\ at[o] = "idle" /\ o \in Made /\ o \in Threads
  BY ThreadKinds DEF LibraryState, LibraryCalls, objects, locks, streams, observers, Alive
<1>2. events' \in 0 .. MaxEvents
  BY IInvMeans, SessionsAssumption DEF LibraryState, LibraryCalls, StoresTyped
<1>3. \E state \in ConnectionState : Enter(o, "test", o, state)
  BY DEF LibraryState
<1> QED BY <1>1, <1>2, <1>3, EntersKeeps

LEMMA LibraryLocalKeeps ==
  ASSUME IInv, NEW o \in Objects, LibraryLocal(o)
  PROVE  IInv'
<1>1. /\ UNCHANGED <<table, session, manager, mutex, held, rpc, closed, queue, up, messages,
                     overtaken, outlived>>
      /\ at[o] = "idle" /\ o \in Made /\ o \in Threads
  BY ThreadKinds DEF LibraryLocal, LibraryCalls, objects, locks, streams, observers, Alive
<1>2. events' \in 0 .. MaxEvents
  BY IInvMeans, SessionsAssumption DEF LibraryLocal, LibraryCalls, StoresTyped
<1> QED BY <1>1, <1>2, EntersKeeps DEF LibraryLocal

LEMMA CallStateChangeKeeps ==
  ASSUME IInv, NEW c \in Callers, NEW o \in Objects, CallStateChange(c, o)
  PROVE  IInv'
<1>1. /\ UNCHANGED <<table, session, manager, mutex, held, rpc, closed, queue, up, messages,
                     overtaken, outlived>>
      /\ at[c] = "idle" /\ o \in Made /\ c \in Threads
  BY IInvMeans, ThreadKinds DEF CallStateChange, Calls, streams, observers
<1>2. events' \in 0 .. MaxEvents
  BY IInvMeans, SessionsAssumption DEF CallStateChange, StoresTyped
<1>3. \E state \in ConnectionState : Enter(c, "test", o, state)
  BY DEF CallStateChange
<1> QED BY <1>1, <1>2, <1>3, EntersKeeps

\* A caller gets a session, or lets it go.
LEMMA HoldingKeeps ==
  ASSUME IInv, held' \subseteq Made,
         UNCHANGED <<table, session, manager, mutex, rpc, closed, queue, threads, up, messages,
                     events, overtaken, outlived>>
  PROVE  IInv'
<1> USE IInvMeans
<1>1. Made' = Made /\ held' \subseteq Objects
  BY DEF Made
<1>2. StoresTyped'
  BY <1>1 DEF StoresTyped
<1> QED BY <1>1, <1>2, NumberedStays, NoMoveKeeps DEF QueueMoves

LEMMA GetSessionKeeps ==
  ASSUME IInv, NEW i \in Ids, GetSession(i)
  PROVE  IInv'
<1>1. held' \subseteq Made
  BY IInvMeans DEF GetSession, EntriesMade
<1> QED BY <1>1, HoldingKeeps DEF GetSession, objects, locks, streams, bounds, observers

LEMMA ReleaseKeeps ==
  ASSUME IInv, NEW o \in Objects, Release(o)
  PROVE  IInv'
<1>1. held' \subseteq Made
  BY IInvMeans DEF Release
<1> QED BY <1>1, HoldingKeeps DEF Release, objects, locks, streams, bounds, observers
-----------------------------------------------------------------------------
(***************************************************************************)
(* The steps that change a session.                                        *)
(***************************************************************************)

\* A task makes a session.
LEMMA MakeSessionKeeps ==
  ASSUME IInv, Takes("create"), Head(queue).id \in Ids, manager = NULL,
         table[Head(queue).id] = NULL, MakeSession(Head(queue).id), UNCHANGED <<threads, up>>
  PROVE  IInv'
<1> USE IInvMeans
<1> DEFINE i == Head(queue).id
           o == Cardinality(Made) + 1
           q == Cardinality(Creates(queue))
<1>1. /\ queue # <<>> /\ queue' = Tail(queue) /\ queue \in Seq(Task) /\ queue' \in Seq(Task)
      /\ Head(queue).kind = "create"
      /\ UNCHANGED <<manager, mutex, held, rpc, closed, up, messages, events, overtaken, outlived>>
  BY Taken DEF StoresTyped
<1>2. /\ Cardinality(Made) \in Nat /\ Made = 1 .. Cardinality(Made) /\ q \in Nat
      /\ q = Cardinality(Creates(queue')) + 1 /\ Cardinality(Creates(queue')) \in Nat
      /\ Cardinality(Made) + q <= MaxSessions
  BY <1>1, MadeFinite, CreatesTail, CreatesFinite DEF StoresTyped, Numbered
<1>3. o \in Objects /\ o \notin Made
  BY <1>2, SessionsAssumption DEF Objects
<1>4. i \in Ids /\ NewSession(i) \in Session
  BY DEF NewSession, Session
<1>5. /\ session' = [session EXCEPT ![o] = NewSession(i)] /\ table' = [table EXCEPT ![i] = o]
  BY DEF MakeSession
<1> HIDE DEF i, o, q
<1>6. /\ session' \in [Objects -> Session \union {NULL}]
      /\ session'[o] = NewSession(i) /\ \A p \in Objects \ {o} : session'[p] = session[p]
      /\ table' \in [Ids -> Objects \union {NULL}]
      /\ table'[i] = o /\ \A j \in Ids \ {i} : table'[j] = table[j]
  BY <1>3, <1>4, <1>5 DEF StoresTyped
<1>7. Made' = Made \union {o}
  BY <1>3, <1>4, <1>6, SessionsAssumption DEF Made
<1>8. \A p \in Made : p \in Objects \ {o} /\ session'[p] = session[p] /\ session[p].id \in Ids
  BY <1>3, <1>6, MadeIs DEF Session
<1>9. StoresTyped'
  BY <1>1, <1>6 DEF StoresTyped
<1>10. /\ ThreadsTyped'
       /\ \A u \in Threads : at'[u] = at[u] /\ on'[u] = on[u] /\ arg'[u] = arg[u]
  BY <1>7, ThreadsStay
<1>11. Numbered'
  <2>1. Cardinality(Made') = o /\ Made' = 1 .. o
    <3>1. Cardinality(Made') = Cardinality(Made) + 1
      BY <1>3, <1>7, MadeFinite, FS_AddElement DEF StoresTyped
    <3> QED BY <1>2, <1>7, <3>1 DEF o
  <2> QED BY <1>2, <2>1 DEF Numbered, o
<1>12. EntriesMade'
  <2>1. held' \subseteq Made'
    BY <1>1, <1>7
  <2>2. ASSUME NEW j \in Ids, table'[j] # NULL
        PROVE  table'[j] \in Made' /\ session'[table'[j]].id = j
    BY <1>6, <1>7, <1>8, <2>2 DEF EntriesMade, NewSession
  <2> QED BY <2>1, <2>2 DEF EntriesMade
<1>13. NoneLostOpen'
  <2> SUFFICES ASSUME NEW p \in Made', table'[session'[p].id] # p
               PROVE  session'[p].closed
    BY DEF NoneLostOpen
  <2>1. p \in Made
    BY <1>6, <1>7 DEF NewSession
  <2>2. table[session[p].id] # p
    BY <1>6, <1>8, <2>1, ThreadKinds DEF i
  <2> QED BY <1>8, <2>1, <2>2 DEF NoneLostOpen
<1>14. ClosedHoldsNothing'
  <2> SUFFICES ASSUME NEW p \in Made', session'[p].closed
               PROVE  ~ session'[p].peer /\ session'[p].stream = NULL
    BY DEF ClosedHoldsNothing
  <2>1. p \in Made
    BY <1>6, <1>7 DEF NewSession
  <2> QED BY <1>8, <2>1 DEF ClosedHoldsNothing
<1>15. LocksHeld'
  <2>1. UNCHANGED <<manager, mutex>> /\ outlived \ {} \subseteq outlived' /\ Made \subseteq Made'
    BY <1>1, <1>7
  <2>2. OnlyMove({}) /\ NoMutex({})
    BY <1>10 DEF OnlyMove, NoMutex
  <2> QED BY <1>8, <2>1, <2>2, LocksStay
<1>16. \A u \in Threads : at[u] # "idle" => session'[on[u]] = session[on[u]]
  BY <1>8, WhereIs
<1>17. FoundOpen'
  BY <1>1, <1>10, <1>16 DEF FoundOpen, Open
<1>18. CheckedHolds'
  <2> SUFFICES ASSUME NEW u \in Threads, at'[u] = "store", u \notin overtaken'
               PROVE  \/ session'[on'[u]].state = NULL
                      \/ IsValidStateTransition(session'[on'[u]].state, arg'[u])
    BY DEF CheckedHolds, MayFollow
  <2> QED BY <1>1, <1>10, <1>16 DEF CheckedHolds, MayFollow
<1>19. StreamsFound'
  <2>1. \A p \in Made : HasStream(p) => HasStream(p)'
    BY <1>1, <1>8, <1>10, HasStreamStays
  <2>2. OnlyMove({}) /\ GoToStreams({})
    BY <1>10 DEF OnlyMove, GoToStreams
  <2>3. Made \subseteq Made'
    BY <1>7
  <2> QED BY <1>1, <2>1, <2>2, <2>3, StreamsStay
<1> QED BY <1>9, <1>10, <1>11, <1>12, <1>13, <1>14, <1>15, <1>17, <1>18, <1>19, IInvParts

LEMMA RunCreateKeeps ==
  ASSUME IInv, RunCreate
  PROVE  IInv'
<1> USE IInvMeans
<1>1. Takes("create") /\ UNCHANGED <<threads, up>>
  BY DEF RunCreate
<1>2. /\ Head(queue) \in Task /\ Head(queue).kind = "create"
      /\ queue # <<>> /\ queue' = Tail(queue) /\ queue' \in Seq(Task)
      /\ UNCHANGED <<manager, mutex, held, rpc, closed, messages, events, overtaken, outlived>>
  BY <1>1, Taken
<1>3. Head(queue).id \in Ids
  BY <1>2 DEF Task
<1>4. \/ UNCHANGED <<table, session>>
      \/ manager = NULL /\ table[Head(queue).id] = NULL /\ MakeSession(Head(queue).id)
  BY DEF RunCreate, CreateSession, Locks, objects
<1>5. CASE UNCHANGED <<table, session>>
  <2>1. StoresTyped'
    BY <1>1, <1>2, <1>5 DEF StoresTyped
  <2>2. Made' = Made
    BY <1>5 DEF Made
  <2> QED BY <1>1, <1>2, <1>5, <2>1, <2>2, TakeNumbered, NoMoveKeeps DEF QueueMoves
<1> QED BY <1>1, <1>3, <1>4, <1>5, MakeSessionKeeps

\* A thread may have found open the session that changes.
LEMMA FoundOpenStays ==
  ASSUME IInv, NEW t \in Threads, NEW o, NEW r, Changes(o, r),
         OnlyMove({t}),
         at'[t] \in Open => at[t] \in Open /\ on'[t] = on[t],
         outlived \ {t} \subseteq outlived', at'[t] \in Open => UNCHANGED outlived,
         \/ r.closed => session[o].closed
         \/ Others(t, o, Open) \subseteq outlived' /\ at'[t] \notin Open
  PROVE  FoundOpen'
<1> USE IInvMeans DEF Changes, OnlyMove
<1> SUFFICES ASSUME NEW u \in Threads, at'[u] \in Open, u \notin outlived'
             PROVE  ~ session'[on'[u]].closed
  BY DEF FoundOpen
<1>1. at[u] \in Open /\ on'[u] = on[u] /\ u \notin outlived
  OBVIOUS
<1>2. on[u] \in Made /\ ~ session[on[u]].closed
  BY <1>1, WhereIs DEF FoundOpen, Open
<1>3. CASE on[u] = o
  <2>1. session'[o] = r
    BY SessionChanges
  <2>2. r.closed => session[o].closed
    <3>1. CASE u = t
      BY <3>1
    <3>2. CASE u # t
      BY <1>1, <1>3, <3>2 DEF Others
    <3> QED BY <3>1, <3>2
  <2> QED BY <1>1, <1>2, <1>3, <2>1, <2>2
<1>4. CASE on[u] # o
  <2>1. session'[on[u]] = session[on[u]]
    BY <1>2, <1>4, MadeIs, SessionChanges
  <2> QED BY <1>1, <1>2, <2>1
<1> QED BY <1>3, <1>4

\* A thread may have checked the state of the session that changes.
LEMMA CheckedStays ==
  ASSUME IInv, NEW t \in Threads, NEW o, NEW r, Changes(o, r),
         OnlyMove({t}),
         at'[t] # "store", overtaken \ {t} \subseteq overtaken',
         r.state = session[o].state \/ Others(t, o, {"store"}) \subseteq overtaken'
  PROVE  CheckedHolds'
<1> USE IInvMeans DEF Changes, OnlyMove
<1> SUFFICES ASSUME NEW u \in Threads, at'[u] = "store", u \notin overtaken'
             PROVE  \/ session'[on'[u]].state = NULL
                    \/ IsValidStateTransition(session'[on'[u]].state, arg'[u])
  BY DEF CheckedHolds, MayFollow
<1>1. u # t /\ at[u] = "store" /\ on'[u] = on[u] /\ arg'[u] = arg[u] /\ u \notin overtaken
  OBVIOUS
<1>2. /\ on[u] \in Made
      /\ session[on[u]].state = NULL \/ IsValidStateTransition(session[on[u]].state, arg[u])
  BY <1>1, WhereIs DEF CheckedHolds, MayFollow
<1>3. session'[on[u]].state = session[on[u]].state
  <2>1. CASE on[u] = o
    <3>1. r.state = session[o].state
      BY <1>1, <2>1 DEF Others
    <3> QED BY <2>1, <3>1, SessionChanges
  <2>2. CASE on[u] # o
    BY <1>2, <2>2, MadeIs, SessionChanges
  <2> QED BY <2>1, <2>2
<1> QED BY <1>1, <1>2, <1>3

\* Of the sessions' mutexes, thread t deals with that of session o only.
OnlyMutex(t, o) == \A p \in Objects \ {o} : mutex[p] # t /\ mutex'[p] = mutex[p]

\* A stream that a description goes to is not taken away.
LEMMA StreamsKept ==
  ASSUME IInv, NEW t \in Threads, NEW o, NEW r, Changes(o, r), UNCHANGED queue,
         OnlyMove({t}),
         at'[t] \notin {"post", "send"}, at[t] = "mark" => r.closed,
         OnlyMutex(t, o),
         session[o].closed => r.closed,
         \/ r.closed
         \/ r.stream # NULL
         \/ r.stream = session[o].stream /\ (mutex[o] \in {NULL, t} \/ mutex'[o] = mutex[o])
         \/ mutex'[o] = t /\ at'[t] = "mark"
  PROVE  StreamsFound'
<1> USE IInvMeans DEF Changes, OnlyMove
<1>1. Made' = Made /\ session'[o] = r /\ \A p \in Objects \ {o} : session'[p] = session[p]
  BY SessionChanges
<1>2. ASSUME NEW p \in Made, HasStream(p)
      PROVE  HasStream(p)'
  <2> USE DEF OnlyMutex
  <2>1. p \in Objects
    BY MadeIs
  <2>2. CASE p = o
    <3>1. CASE r.closed \/ r.stream # NULL
      BY <1>1, <2>2, <3>1 DEF HasStream
    <3>2. CASE mutex'[o] = t /\ at'[t] = "mark"
      BY <2>2, <3>2 DEF HasStream
    <3>3. CASE /\ r.stream = session[o].stream /\ ~ r.closed
               /\ mutex[o] \in {NULL, t} \/ mutex'[o] = mutex[o]
      <4>1. CASE session[o].stream # NULL
        BY <1>1, <2>2, <3>3, <4>1 DEF HasStream
      <4>2. CASE session[o].stream = NULL
        <5>1. PICK u \in Threads : at[u] = "mark" /\ mutex[o] = u
          BY <1>2, <2>2, <3>3, <4>2 DEF HasStream
        <5>2. u # t
          BY <3>3, <5>1
        <5>3. at'[u] = "mark" /\ mutex'[o] = u
          BY <3>3, <5>1, <5>2, ThreadKinds
        <5> QED BY <2>2, <5>3 DEF HasStream
      <4> QED BY <4>1, <4>2
    <3> QED BY <3>1, <3>2, <3>3
  <2>3. CASE p # o
    <3>1. session'[p] = session[p]
      BY <1>1, <2>1, <2>3
    <3>2. ASSUME NEW u \in Threads, at[u] = "mark", mutex[p] = u
          PROVE  at'[u] = "mark" /\ mutex'[p] = u
      BY <2>1, <2>3, <3>2
    <3> QED BY <1>2, <3>1, <3>2 DEF HasStream
  <2> QED BY <2>2, <2>3
<1>3. queue' \in Seq(Task)
  BY DEF StoresTyped
<1>4. OnlyMove({t}) /\ GoToStreams({t})
  BY DEF GoToStreams
<1> HIDE DEF OnlyMove, OnlyMutex
<1> QED BY <1>1, <1>2, <1>3, <1>4, StreamsStay

\* A thread takes, keeps or gives back the mutex of a session, and perhaps the manager's.
LEMMA LocksMove ==
  ASSUME IInv, NEW t \in Threads, NEW o, NEW r, Changes(o, r),
         OnlyMove({t}), OnlyMutex(t, o),
         mutex[o] \in {NULL, t}, mutex'[o] \in {NULL, t},
         \/ UNCHANGED manager
         \/ manager = NULL /\ manager' = t
         \/ manager = t /\ manager' = NULL,
         UNCHANGED table \/ manager = t,
         outlived \ {t} \subseteq outlived',
         mutex'[o] = t =>
           /\ at'[t] \in Locking
           /\ at'[t] \in {"detach", "mark"} => ~ r.peer
           /\ at'[t] = "mark" => r.stream = NULL
           /\ at'[t] = "renew" \/ manager' # t => on'[t] = o
           /\ manager' = t => table'[session'[on'[t]].id] = o /\ (t \notin outlived' => on'[t] = o),
         manager' = t => at'[t] \in {"detach", "mark"},
         at'[t] = "renew" => on'[t] = o /\ mutex'[o] = t
  PROVE  LocksHeld'
<1> USE IInvMeans DEF Changes, OnlyMutex
<1>1. /\ Made' = Made /\ session'[o] = r /\ \A p \in Objects \ {o} : session'[p] = session[p]
      /\ \A p \in Made : session'[p].id = session[p].id
  BY SessionChanges
<1>2. o \in Objects
  BY MadeIs
<1>3. ASSUME NEW p \in Objects, NEW u \in Threads, mutex'[p] = u
      PROVE  /\ p \in Made' /\ at'[u] \in Locking
             /\ \A w \in Objects : mutex'[w] = u => w = p
             /\ at'[u] \in {"detach", "mark"} => ~ session'[p].peer
             /\ at'[u] = "mark" => session'[p].stream = NULL
             /\ at'[u] = "renew" \/ manager' # u => on'[u] = p
             /\ manager' = u =>
                  table'[session'[on'[u]].id] = p /\ (u \notin outlived' => on'[u] = p)
  <2>1. CASE u = t
    <3>1. p = o
      BY <1>3, <2>1
    <3>2. \A w \in Objects : mutex'[w] = u => w = p
      BY <1>2, <2>1, <3>1
    <3> QED BY <1>1, <1>3, <2>1, <3>1, <3>2
  <2>2. CASE u # t
    <3>1. p # o /\ mutex[p] = u
      BY <1>3, <2>2, ThreadKinds
    <3>2. at'[u] = at[u] /\ on'[u] = on[u] /\ at[u] \in Locking /\ on[u] \in Made /\ p \in Made
      BY <2>2, <3>1, WhereIs DEF OnlyMove, LocksHeld, Locking
    <3>3. \A w \in Objects : mutex'[w] = u => w = p
      BY <2>2, <3>1, ThreadKinds DEF LocksHeld
    <3>4. manager' = u <=> manager = u
      BY <2>2, ThreadKinds
    <3>5. manager = u => UNCHANGED table
      BY <2>2
    <3>6. session'[on'[u]].id = session[on[u]].id /\ session'[p] = session[p]
      BY <1>1, <3>1, <3>2
    <3>7. u \notin outlived' => u \notin outlived
      BY <2>2
    <3> QED BY <1>1, <3>1, <3>2, <3>3, <3>4, <3>5, <3>6, <3>7 DEF LocksHeld
  <2> QED BY <2>1, <2>2
<1>4. ASSUME NEW u \in Threads, manager' = u
      PROVE  at'[u] \in {"detach", "mark"}
  <2>1. CASE u = t
    BY <1>4, <2>1
  <2>2. CASE u # t
    BY <1>4, <2>2, ThreadKinds DEF OnlyMove, LocksHeld
  <2> QED BY <2>1, <2>2
<1>5. ASSUME NEW u \in Threads, at'[u] = "renew"
      PROVE  mutex'[on'[u]] = u
  <2>1. CASE u = t
    BY <1>5, <2>1
  <2>2. CASE u # t
    <3>1. at[u] = "renew" /\ on'[u] = on[u] /\ mutex[on[u]] = u /\ on[u] \in Objects
      BY <1>5, <2>2, WhereIs, MadeIs DEF OnlyMove, LocksHeld
    <3>2. on[u] # o
      BY <2>2, <3>1, ThreadKinds
    <3> QED BY <3>1, <3>2
  <2> QED BY <2>1, <2>2
<1> QED BY <1>3, <1>4, <1>5 DEF LocksHeld

\* A thread that is not in start() or close() has no mutex.
LEMMA NoMutexHeld ==
  ASSUME IInv, NEW t \in Threads, at[t] \notin Locking
  PROVE  manager # t /\ \A p \in Objects : mutex[p] # t
BY IInvMeans DEF LocksHeld, Locking

LEMMA StoreStateKeeps ==
  ASSUME IInv, NEW t \in Threads, StoreState(t)
  PROVE  IInv'
<1> USE IInvMeans
<1> DEFINE o == on[t]
           r == [session[o] EXCEPT !.state = arg[t]]
<1>1. /\ at[t] = "store" /\ Enter(t, "switch", o, NULL)
      /\ UNCHANGED <<table, manager, mutex, held, rpc, closed, queue, up, messages, events, outlived>>
      /\ session' = [session EXCEPT ![o].state = arg[t]]
      /\ overtaken' = (overtaken \ {t}) \union Others(t, o, {"store"})
  BY DEF StoreState, In, WriteState, locks, streams, bounds
<1>2. /\ o \in Made /\ o \in Objects /\ session[o] \in Session /\ arg[t] \in ConnectionState
  BY <1>1, WhereIs, MadeIs DEF ThreadsTyped, Reported
<1>3. /\ r \in Session /\ r.id = session[o].id /\ r.closed = session[o].closed
      /\ r.peer = session[o].peer /\ r.stream = session[o].stream
      /\ Changes(o, r)
  BY <1>1, <1>2 DEF Session, Changes
<1> HIDE DEF o, r
<1>4. /\ Made' = Made /\ session' \in [Objects -> Session \union {NULL}]
      /\ session'[o] = r /\ \A p \in Objects \ {o} : session'[p] = session[p]
      /\ \A p \in Made : session'[p].id = session[p].id
  BY <1>2, <1>3, SessionChanges
<1>5. /\ ThreadsTyped' /\ at'[t] = "switch" /\ on'[t] = o
      /\ OnlyMove({t})
  BY <1>1, <1>2, <1>4, EnterTyped DEF Places, Reported, OnlyMove
<1>6. StoresTyped'
  <2>1. overtaken' \subseteq Threads
    BY <1>1 DEF StoresTyped, Others
  <2> QED BY <1>1, <1>4, <2>1 DEF StoresTyped
<1>7. at[t] \notin Locking /\ OnlyMutex(t, o)
  BY <1>1, NoMutexHeld DEF Locking, OnlyMutex
<1>8. NoMutex({t})
  BY <1>5, <1>7 DEF NoMutex, Locking
<1>9. LocksHeld'
  <2>1. \A p \in Made : mutex[p] # NULL =>
          session'[p].peer = session[p].peer /\ session'[p].stream = session[p].stream
    BY <1>3, <1>4, MadeIs
  <2>2. UNCHANGED <<manager, mutex>> /\ Made \subseteq Made' /\ outlived \ {t} \subseteq outlived'
    BY <1>1, <1>4
  <2> QED BY <1>1, <1>4, <1>5, <1>8, <2>1, <2>2, LocksStay
<1>10. FoundOpen'
  BY <1>1, <1>2, <1>3, <1>5, FoundOpenStays DEF Open, o
<1>11. CheckedHolds'
  BY <1>1, <1>2, <1>3, <1>5, CheckedStays
<1>12. StreamsFound'
  <2>1. ClosedHoldsNothing
    OBVIOUS
  <2> QED BY <1>1, <1>2, <1>3, <1>5, <1>7, StreamsKept
<1> QED BY <1>1, <1>2, <1>3, <1>5, <1>6, <1>9, <1>10, <1>11, <1>12, ChangeKeeps
        DEF ClosedHoldsNothing

LEMMA AttachSignalStreamKeeps ==
  ASSUME IInv, NEW c \in Callers, NEW o \in Objects, NEW s \in Streams, AttachSignalStream(c, o, s)
  PROVE  IInv'
<1> USE IInvMeans
<1> DEFINE r == [session[o] EXCEPT !.stream = s]
<1>1. /\ UNCHANGED <<table, manager, mutex, held, rpc, closed, queue, threads, up, messages,
                     events, overtaken, outlived>>
      /\ session' = [session EXCEPT ![o].stream = s]
      /\ mutex[o] = NULL /\ ~ session[o].closed /\ o \in Made /\ at[c] = "idle"
  BY DEF AttachSignalStream, Calls, streams, observers
<1>2. session[o] \in Session /\ s # NULL /\ c \in Threads
  BY <1>1, MadeIs, SessionsAssumption, ThreadKinds
<1>3. /\ r \in Session /\ r.id = session[o].id /\ r.closed = session[o].closed
      /\ r.peer = session[o].peer /\ r.state = session[o].state /\ r.stream = s
      /\ Changes(o, r)
  BY <1>1, <1>2 DEF Session, Changes
<1> HIDE DEF r
<1>4. /\ Made' = Made /\ session' \in [Objects -> Session \union {NULL}]
      /\ session'[o] = r /\ \A p \in Objects \ {o} : session'[p] = session[p]
      /\ \A p \in Made : session'[p].id = session[p].id
  BY <1>1, <1>3, SessionChanges
<1>5. /\ ThreadsTyped'
      /\ \A u \in Threads : at'[u] = at[u] /\ on'[u] = on[u] /\ arg'[u] = arg[u]
  BY <1>1, <1>4, ThreadsStay
<1>6. StoresTyped'
  BY <1>1, <1>4 DEF StoresTyped
<1>7. at[c] \notin Locking /\ OnlyMutex(c, o)
  BY <1>1, <1>2, NoMutexHeld DEF Locking, OnlyMutex
<1>8. OnlyMove({c}) /\ NoMutex({c}) /\ at'[c] = "idle"
  BY <1>1, <1>2, <1>5, <1>7 DEF OnlyMove, NoMutex
<1>9. LocksHeld'
  <2>1. \A p \in Made : mutex[p] # NULL =>
          session'[p].peer = session[p].peer /\ session'[p].stream = session[p].stream
    BY <1>1, <1>4, MadeIs
  <2>2. UNCHANGED <<manager, mutex>> /\ Made \subseteq Made' /\ outlived \ {c} \subseteq outlived'
    BY <1>1, <1>4
  <2> QED BY <1>1, <1>4, <1>8, <2>1, <2>2, LocksStay
<1>10. FoundOpen'
  BY <1>1, <1>2, <1>3, <1>8, FoundOpenStays DEF Open
<1>11. CheckedHolds'
  BY <1>1, <1>2, <1>3, <1>8, CheckedStays
<1>12. StreamsFound'
  BY <1>1, <1>2, <1>3, <1>7, <1>8, StreamsKept
<1> QED BY <1>1, <1>3, <1>5, <1>6, <1>9, <1>10, <1>11, <1>12, ChangeKeeps

LEMMA StartPeerKeeps ==
  ASSUME IInv, NEW c \in Callers, NEW o \in Objects, StartPeer(c, o)
  PROVE  IInv'
<1> USE IInvMeans
<1> DEFINE r == [session[o] EXCEPT !.peer = TRUE]
<1>1. /\ UNCHANGED <<table, manager, held, rpc, closed, queue, up, messages,
                     events, overtaken, outlived>>
      /\ session' = [session EXCEPT ![o].peer = TRUE]
      /\ mutex[o] = NULL /\ mutex' = [mutex EXCEPT ![o] = c]
      /\ ~ session[o].closed /\ o \in Made /\ at[c] = "idle" /\ Enter(c, "renew", o, NULL)
  BY DEF StartPeer, Calls, streams, observers
<1>2. session[o] \in Session /\ c \in Threads
  BY <1>1, MadeIs, ThreadKinds
<1>3. /\ r \in Session /\ r.id = session[o].id /\ r.closed = session[o].closed
      /\ r.state = session[o].state /\ r.stream = session[o].stream
      /\ Changes(o, r)
  BY <1>1, <1>2 DEF Session, Changes
<1> HIDE DEF r
<1>4. Made' = Made /\ session' \in [Objects -> Session \union {NULL}]
  BY <1>1, <1>3, SessionChanges
<1>5. /\ ThreadsTyped' /\ at'[c] = "renew" /\ on'[c] = o
      /\ OnlyMove({c})
  BY <1>1, <1>2, <1>4, EnterTyped DEF Places, Reported, OnlyMove
<1>6. /\ mutex' \in [Objects -> Threads \union {NULL}]
      /\ mutex'[o] = c /\ \A p \in Objects \ {o} : mutex'[p] = mutex[p]
  BY <1>1, <1>2 DEF StoresTyped
<1>7. StoresTyped'
  BY <1>1, <1>4, <1>6 DEF StoresTyped
<1>8. manager # c /\ OnlyMutex(c, o)
  BY <1>1, <1>2, <1>6, NoMutexHeld DEF Locking, OnlyMutex
<1>9. LocksHeld'
  <2>2. at'[c] \in Locking /\ at'[c] \notin {"detach", "mark"} /\ manager' # c
    BY <1>1, <1>5, <1>8 DEF Locking
  <2> QED BY <1>1, <1>2, <1>3, <1>5, <1>6, <1>8, <2>2, LocksMove
<1>10. FoundOpen'
  BY <1>1, <1>2, <1>3, <1>5, FoundOpenStays DEF Open
<1>11. CheckedHolds'
  BY <1>1, <1>2, <1>3, <1>5, CheckedStays
<1>12. StreamsFound'
  BY <1>1, <1>2, <1>3, <1>5, <1>6, <1>8, StreamsKept
<1> QED BY <1>1, <1>3, <1>5, <1>7, <1>9, <1>10, <1>11, <1>12, ChangeKeeps

LEMMA RenewKeeps ==
  ASSUME IInv, NEW c \in Callers, Renew(c)
  PROVE  IInv'
<1> USE IInvMeans
<1> DEFINE o == on[c]
           r == [session[o] EXCEPT !.state = "New"]
<1>1. /\ UNCHANGED <<table, manager, held, rpc, closed, queue, up, messages, events, outlived>>
      /\ at[c] = "renew" /\ Leave(c) /\ mutex' = [mutex EXCEPT ![o] = NULL]
      /\ session' = [session EXCEPT ![o].state = "New"]
      /\ overtaken' = (overtaken \ {c}) \union Others(c, o, {"store"})
  BY DEF Renew, In, WriteState, streams, bounds
<1>2. o \in Made /\ o \in Objects /\ session[o] \in Session /\ c \in Threads /\ mutex[o] = c
  BY <1>1, WhereIs, MadeIs, ThreadKinds DEF LocksHeld
<1>3. /\ r \in Session /\ r.id = session[o].id /\ r.closed = session[o].closed
      /\ r.peer = session[o].peer /\ r.stream = session[o].stream
      /\ Changes(o, r)
  BY <1>1, <1>2 DEF Session, Changes, ConnectionState
<1> HIDE DEF o, r
<1>4. Made' = Made /\ session' \in [Objects -> Session \union {NULL}]
  BY <1>2, <1>3, SessionChanges
<1>5. /\ ThreadsTyped' /\ at'[c] = "idle"
      /\ OnlyMove({c})
  BY <1>1, <1>2, <1>4, EnterTyped DEF Leave, Places, OnlyMove
<1>6. /\ mutex' \in [Objects -> Threads \union {NULL}]
      /\ mutex'[o] = NULL /\ \A p \in Objects \ {o} : mutex'[p] = mutex[p]
  BY <1>1, <1>2 DEF StoresTyped
<1>7. StoresTyped'
  <2>1. overtaken' \subseteq Threads
    BY <1>1 DEF StoresTyped, Others
  <2> QED BY <1>1, <1>4, <1>6, <2>1 DEF StoresTyped
<1>8. manager # c /\ OnlyMutex(c, o)
  BY <1>1, <1>2, <1>6 DEF LocksHeld, OnlyMutex
<1>9. LocksHeld'
  <2>2. mutex'[o] # c
    BY <1>2, <1>6, ThreadKinds
  <2>3. mutex'[o] \in {NULL, c} /\ mutex[o] \in {NULL, c} /\ manager' # c /\ at'[c] # "renew"
        /\ outlived \ {c} \subseteq outlived'
    BY <1>1, <1>2, <1>5, <1>6, <1>8
  <2> QED BY <1>1, <1>2, <1>3, <1>6, <1>5, <1>8, <2>2, <2>3, LocksMove
<1>10. FoundOpen'
  BY <1>1, <1>2, <1>3, <1>5, FoundOpenStays DEF Open
<1>11. CheckedHolds'
  BY <1>1, <1>2, <1>3, <1>5, CheckedStays
<1>12. StreamsFound'
  BY <1>1, <1>2, <1>3, <1>5, <1>6, <1>8, StreamsKept
<1> QED BY <1>1, <1>2, <1>3, <1>5, <1>7, <1>9, <1>10, <1>11, <1>12, ChangeKeeps
        DEF ClosedHoldsNothing

\* A thread begins to close session o, from close() or for the session it is in.
LEMMA BeginCloseKeeps ==
  ASSUME IInv, NEW t \in Threads, at[t] \notin Locking, NEW o \in Made, NEW p \in Made,
         BeginClose(t, o), Enter(t, "detach", p, NULL),
         \/ UNCHANGED manager /\ p = o
         \/ manager = NULL /\ manager' = t /\ p = on[t] /\ table[session[p].id] = o
            /\ at[t] \in Open,
         UNCHANGED <<table, held, rpc, closed, queue, up, messages, events, overtaken, outlived>>
  PROVE  IInv'
<1> USE IInvMeans
<1> DEFINE r == [session[o] EXCEPT !.peer = FALSE]
<1>1. /\ session' = [session EXCEPT ![o].peer = FALSE]
      /\ mutex[o] = NULL /\ mutex' = [mutex EXCEPT ![o] = t]
  BY DEF BeginClose
<1>2. session[o] \in Session /\ o \in Objects
  BY MadeIs
<1>3. /\ r \in Session /\ r.id = session[o].id /\ r.closed = session[o].closed
      /\ r.state = session[o].state /\ r.stream = session[o].stream /\ ~ r.peer
      /\ Changes(o, r)
  BY <1>1, <1>2 DEF Session, Changes
<1> HIDE DEF r
<1>4. /\ Made' = Made /\ session' \in [Objects -> Session \union {NULL}]
      /\ \A w \in Made : session'[w].id = session[w].id
  BY <1>3, SessionChanges
<1>5. /\ ThreadsTyped' /\ at'[t] = "detach" /\ on'[t] = p
      /\ OnlyMove({t})
  BY <1>4, EnterTyped DEF Places, Reported, OnlyMove
<1>6. /\ mutex' \in [Objects -> Threads \union {NULL}]
      /\ mutex'[o] = t /\ \A w \in Objects \ {o} : mutex'[w] = mutex[w]
  BY <1>1, <1>2 DEF StoresTyped
<1>7. StoresTyped'
  BY <1>4, <1>6 DEF StoresTyped
<1>8. manager # t /\ OnlyMutex(t, o)
  BY <1>6, NoMutexHeld DEF OnlyMutex
<1>9. LocksHeld'
  <2>2. at'[t] \in Locking /\ at'[t] \in {"detach", "mark"} /\ at'[t] \notin {"mark", "renew"}
    BY <1>5 DEF Locking
  <2>3. manager' = t => table'[session'[on'[t]].id] = o /\ (t \notin outlived' => on'[t] = o)
    <3> SUFFICES ASSUME manager' = t
                 PROVE  table'[session'[on'[t]].id] = o /\ (t \notin outlived' => on'[t] = o)
      OBVIOUS
    <3>1. table[session[p].id] = o /\ at[t] \in Open /\ p = on[t]
      BY <1>8
    <3>2. t \notin outlived' => p = o
      BY <3>1 DEF FoundOpen, NoneLostOpen
    <3> QED BY <1>4, <1>5, <3>1, <3>2
  <2>4. manager' # t => on'[t] = o
    BY <1>5
  <2>5. \/ UNCHANGED manager
        \/ manager = NULL /\ manager' = t
    OBVIOUS
  <2>6. UNCHANGED table /\ outlived \ {t} \subseteq outlived'
    OBVIOUS
  <2>7. mutex[o] \in {NULL, t} /\ mutex'[o] \in {NULL, t}
    BY <1>1, <1>6
  <2> QED BY <1>3, <1>5, <1>8, <2>2, <2>3, <2>4, <2>5, <2>6, <2>7, LocksMove
<1>10. FoundOpen'
  BY <1>3, <1>5, FoundOpenStays DEF Open
<1>11. CheckedHolds'
  BY <1>3, <1>5, CheckedStays
<1>12. StreamsFound'
  <2>1. at[t] # "mark"
    BY DEF Locking
  <2> QED BY <1>1, <1>3, <1>5, <1>8, <2>1, StreamsKept
<1> QED BY <1>3, <1>5, <1>7, <1>9, <1>10, <1>11, <1>12, ChangeKeeps DEF ClosedHoldsNothing

LEMMA CloseKeeps ==
  ASSUME IInv, NEW c \in Callers, NEW o \in Objects, Close(c, o)
  PROVE  IInv'
<1>1. /\ BeginClose(c, o) /\ Enter(c, "detach", o, NULL) /\ at[c] \notin Locking
      /\ o \in Made /\ c \in Threads
      /\ UNCHANGED <<table, manager, held, rpc, closed, queue, up, messages, events, overtaken,
                     outlived>>
  BY IInvMeans, ThreadKinds DEF Close, Calls, streams, observers, Locking
<1> QED BY <1>1, BeginCloseKeeps

LEMMA TerminateKeeps ==
  ASSUME IInv, NEW t \in Threads, Terminate(t)
  PROVE  IInv'
<1> USE IInvMeans
<1> DEFINE o == table[session[on[t]].id]
<1>1. /\ In(t, "terminate") /\ at[t] = "terminate" /\ manager = NULL
      /\ UNCHANGED <<queue, overtaken>>
      /\ UNCHANGED <<table, held, rpc, closed, up, messages, events>>
  BY DEF Terminate, In, streams, bounds
<1>2. on[t] \in Made /\ session[on[t]].id \in Ids
  BY <1>1, WhereIs, MadeIs DEF Session
<1>3. CASE Leave(t) /\ outlived' = outlived \ {t} /\ UNCHANGED <<session, locks>>
  BY <1>1, <1>3, HandlerMoves
<1>4. CASE /\ o # NULL /\ BeginClose(t, o) /\ manager' = t
           /\ Enter(t, "detach", on[t], NULL) /\ UNCHANGED outlived
  <2>1. o \in Made
    BY <1>2, <1>4 DEF EntriesMade
  <2>2. at[t] \notin Locking /\ at[t] \in Open
    BY <1>1 DEF Locking, Open
  <2> QED BY <1>1, <1>2, <1>4, <2>1, <2>2, BeginCloseKeeps
<1> QED BY <1>3, <1>4 DEF Terminate

LEMMA DetachKeeps ==
  ASSUME IInv, NEW t \in Threads, Detach(t)
  PROVE  IInv'
<1> USE IInvMeans
<1>1. PICK o \in Objects : mutex[o] = t /\ session' = [session EXCEPT ![o].stream = NULL]
  BY DEF Detach
<1> DEFINE r == [session[o] EXCEPT !.stream = NULL]
<1>2. /\ UNCHANGED <<table, manager, mutex, held, rpc, closed, queue, up, messages, events,
                     overtaken, outlived>>
      /\ at[t] = "detach" /\ Enter(t, "mark", on[t], NULL)
  BY DEF Detach, In, locks, streams, bounds, observers
<1>3. o \in Made /\ session[o] \in Session /\ on[t] \in Made
  BY <1>1, <1>2, WhereIs, MadeIs DEF LocksHeld
<1>4. /\ r \in Session /\ r.id = session[o].id /\ r.closed = session[o].closed
      /\ r.state = session[o].state /\ r.peer = session[o].peer /\ r.stream = NULL
      /\ Changes(o, r)
  BY <1>1, <1>3 DEF Session, Changes
<1> HIDE DEF r
<1>5. /\ Made' = Made /\ session' \in [Objects -> Session \union {NULL}]
      /\ \A w \in Made : session'[w].id = session[w].id
  BY <1>3, <1>4, SessionChanges
<1>6. /\ ThreadsTyped' /\ at'[t] = "mark" /\ on'[t] = on[t]
      /\ OnlyMove({t})
  BY <1>2, <1>3, <1>5, EnterTyped DEF Places, Reported, OnlyMove
<1>7. StoresTyped'
  BY <1>2, <1>5 DEF StoresTyped
<1>8. OnlyMutex(t, o)
  BY <1>1, <1>2 DEF LocksHeld, OnlyMutex
<1>9. LocksHeld'
  <2>1. at'[t] \in Locking /\ at'[t] # "renew"
    BY <1>6 DEF Locking
  <2>2. ~ r.peer
    BY <1>1, <1>2, <1>4 DEF LocksHeld
  <2>3. manager' # t => on'[t] = o
    BY <1>1, <1>2, <1>6 DEF LocksHeld
  <2>4. manager' = t => table'[session'[on'[t]].id] = o /\ (t \notin outlived' => on'[t] = o)
    BY <1>1, <1>2, <1>3, <1>5, <1>6 DEF LocksHeld
  <2>5. /\ mutex[o] \in {NULL, t} /\ mutex'[o] \in {NULL, t}
        /\ UNCHANGED manager /\ UNCHANGED table /\ outlived \ {t} \subseteq outlived'
    BY <1>1, <1>2
  <2> QED BY <1>3, <1>4, <1>6, <1>8, <2>1, <2>2, <2>3, <2>4, <2>5, LocksMove
<1>10. FoundOpen'
  BY <1>2, <1>3, <1>4, <1>6, FoundOpenStays DEF Open
<1>11. CheckedHolds'
  BY <1>2, <1>3, <1>4, <1>6, CheckedStays
<1>12. StreamsFound'
  BY <1>1, <1>2, <1>3, <1>4, <1>6, <1>8, StreamsKept
<1>13. r.closed => ~ r.peer
  BY <1>1, <1>3, <1>4 DEF ClosedHoldsNothing
<1> QED BY <1>2, <1>3, <1>4, <1>6, <1>7, <1>9, <1>10, <1>11, <1>12, <1>13, ChangeKeeps

LEMMA MarkClosedKeeps ==
  ASSUME IInv, NEW t \in Threads, MarkClosed(t)
  PROVE  IInv'
<1> USE IInvMeans
<1>1. PICK o \in Objects :
        /\ mutex[o] = t /\ mutex' = [mutex EXCEPT ![o] = NULL]
        /\ session' = [session EXCEPT ![o].closed = TRUE]
        /\ outlived' = (outlived \ {t}) \union Others(t, o, Open)
        /\ \/ manager = t /\ manager' = NULL /\ table' = [table EXCEPT ![session[o].id] = NULL]
           \/ manager # t /\ UNCHANGED <<manager, table>>
  BY DEF MarkClosed
<1> DEFINE r == [session[o] EXCEPT !.closed = TRUE]
<1>2. /\ UNCHANGED <<held, rpc, closed, queue, up, messages, events, overtaken>>
      /\ at[t] = "mark" /\ Leave(t)
  BY DEF MarkClosed, streams, bounds
<1>3. o \in Made /\ session[o] \in Session /\ on[t] \in Made /\ session[o].id \in Ids
  BY <1>1, <1>2, WhereIs, MadeIs DEF LocksHeld, Session
<1>4. /\ r \in Session /\ r.id = session[o].id /\ r.closed
      /\ r.state = session[o].state /\ r.peer = session[o].peer /\ r.stream = session[o].stream
      /\ Changes(o, r)
  BY <1>1, <1>3 DEF Session, Changes
<1> HIDE DEF r
<1>5. /\ Made' = Made /\ session' \in [Objects -> Session \union {NULL}]
      /\ \A w \in Made : session'[w].id = session[w].id
  BY <1>3, <1>4, SessionChanges
<1>6. /\ ThreadsTyped' /\ at'[t] = "idle"
      /\ OnlyMove({t})
  BY <1>2, <1>5, EnterTyped DEF Leave, Places, OnlyMove
<1>7. /\ mutex' \in [Objects -> Threads \union {NULL}]
      /\ mutex'[o] = NULL /\ \A p \in Objects \ {o} : mutex'[p] = mutex[p]
  BY <1>1 DEF StoresTyped
<1>8. StoresTyped'
  <2>1. outlived' \subseteq Threads
    BY <1>1 DEF StoresTyped, Others
  <2>2. manager' \in Threads \union {NULL} /\ table' \in [Ids -> Objects \union {NULL}]
    BY <1>1 DEF StoresTyped
  <2> QED BY <1>2, <1>5, <1>7, <2>1, <2>2 DEF StoresTyped
<1>9. OnlyMutex(t, o)
  BY <1>1, <1>7 DEF LocksHeld, OnlyMutex
<1>10. ~ r.peer /\ r.stream = NULL
  BY <1>1, <1>2, <1>4 DEF LocksHeld
<1>11. manager = t => table[session[o].id] = o
  <2> SUFFICES ASSUME manager = t PROVE table[session[o].id] = o
    OBVIOUS
  <2>1. table[session[on[t]].id] = o /\ session[on[t]].id \in Ids
    BY <1>1, <1>3, MadeIs DEF LocksHeld, Session
  <2>2. o # NULL
    BY <1>3, MadeIs, ThreadKinds
  <2>3. session[o].id = session[on[t]].id
    BY <2>1, <2>2 DEF EntriesMade
  <2> QED BY <2>1, <2>3
<1>12. LocksHeld'
  <2>1. at'[t] # "renew"
    BY <1>6
  <2>2. mutex'[o] # t /\ manager' # t
    BY <1>1, <1>7, ThreadKinds
  <2>3. /\ mutex[o] \in {NULL, t} /\ mutex'[o] \in {NULL, t}
        /\ UNCHANGED manager \/ (manager = t /\ manager' = NULL)
        /\ UNCHANGED table \/ manager = t
        /\ outlived \ {t} \subseteq outlived'
    BY <1>1, <1>7
  <2> QED BY <1>3, <1>4, <1>6, <1>9, <2>1, <2>2, <2>3, LocksMove
<1>13. FoundOpen'
  BY <1>1, <1>3, <1>4, <1>6, FoundOpenStays DEF Open
<1>14. CheckedHolds'
  BY <1>2, <1>3, <1>4, <1>6, CheckedStays
<1>15. StreamsFound'
  BY <1>2, <1>3, <1>4, <1>6, <1>9, StreamsKept
<1>16. \/ UNCHANGED table
       \/ /\ table[session[o].id] = o /\ table' = [table EXCEPT ![session[o].id] = NULL]
  BY <1>1, <1>11
<1> QED BY <1>2, <1>3, <1>4, <1>6, <1>8, <1>10, <1>12, <1>13, <1>14, <1>15, <1>16, ChangeKeeps
-----------------------------------------------------------------------------
(***************************************************************************)
(* The invariant.                                                          *)
(***************************************************************************)
LEMMA StutterKeeps ==
  ASSUME IInv, UNCHANGED vars
  PROVE  IInv'
<1> USE IInvMeans
<1>1. /\ UNCHANGED <<table, session, manager, mutex, held, rpc, closed, queue, threads, up,
                     messages, events, overtaken, outlived>>
      /\ Made' = Made
  BY DEF vars, objects, locks, streams, bounds, observers, Made
<1>2. StoresTyped'
  BY <1>1 DEF StoresTyped
<1> QED BY <1>1, <1>2, NumberedStays, NoMoveKeeps DEF QueueMoves

LEMMA NextKeeps ==
  ASSUME IInv, [Next]_vars
  PROVE  IInv'
<1>1. ASSUME NEW s \in Streams, HandleStateChange(s) \/ HandleRemote(s) \/ Signal(s)
      PROVE  IInv'
  BY <1>1, HandleStateChangeKeeps, HandleRemoteKeeps, SignalKeeps
<1>2. CASE RunTask
  BY <1>2, RunCreateKeeps, RunStateChangeKeeps, RunRemoteKeeps, RunSendKeeps,
     UseStreamKeeps, LoadClosedKeeps, EndWriteKeeps DEF RunTask
<1>3. ASSUME NEW t \in Threads, StateChange(t)
      PROVE  IInv'
  BY <1>3, TestClosedKeeps, CheckStateKeeps, StoreStateKeeps, SwitchStateKeeps, TerminateKeeps,
     DetachKeeps, MarkClosedKeeps DEF StateChange
<1>4. ASSUME NEW o \in Objects, LibraryState(o) \/ LibraryLocal(o) \/ LookAtStream(o) \/ PostLocal(o)
      PROVE  IInv'
  BY <1>4, LibraryStateKeeps, LibraryLocalKeeps, LookAtStreamKeeps, PostLocalKeeps
<1>5. ASSUME NEW o \in Objects, Release(o)
      PROVE  IInv'
  BY <1>5, ReleaseKeeps
<1>6. ASSUME NEW i \in Ids, GetSession(i)
      PROVE  IInv'
  BY <1>6, GetSessionKeeps
<1>7. ASSUME NEW c \in Callers, Call(c)
      PROVE  IInv'
  BY <1>7, CallStateChangeKeeps, StartPeerKeeps, CloseKeeps, AttachSignalStreamKeeps, RenewKeeps
     DEF Call
<1>8. CASE Waits \/ Crashed \/ UNCHANGED vars
  BY <1>8, StutterKeeps DEF Waits, Crashed
<1> QED BY <1>1, <1>2, <1>3, <1>4, <1>5, <1>6, <1>7, <1>8 DEF Next

LEMMA Initially == Init => IInv
<1> SUFFICES ASSUME Init PROVE IInv
  OBVIOUS
<1>1. Made = {}
  BY DEF Init, Made
<1>2. StoresTyped /\ ThreadsTyped
  BY SessionsAssumption, EmptySeq DEF Init, StoresTyped, ThreadsTyped, Places, Reported
<1>3. Numbered
  <2>1. Creates(queue) = {}
    <3>1. queue = <<>>
      BY DEF Init
    <3>2. DOMAIN queue = {}
      BY <3>1, EmptySeq
    <3> QED BY <3>2 DEF Creates
  <2>2. Cardinality(Made) = 0 /\ Cardinality(Creates(queue)) = 0
    BY <1>1, <2>1, FS_EmptySet
  <2>3. Made = 1 .. 0
    BY <1>1
  <2> QED BY <2>2, <2>3, SessionsAssumption DEF Numbered
<1>4. EntriesMade /\ NoneLostOpen /\ ClosedHoldsNothing
  BY <1>1 DEF Init, EntriesMade, NoneLostOpen, ClosedHoldsNothing
<1>5. LocksHeld
  BY ThreadKinds DEF Init, LocksHeld
<1>6. FoundOpen /\ CheckedHolds /\ StreamsFound
  BY EmptySeq DEF Init, FoundOpen, CheckedHolds, StreamsFound, Open
<1> QED BY <1>2, <1>3, <1>4, <1>5, <1>6, TypeOKParts DEF IInv

LEMMA Invariance == Spec => []IInv
<1> QED BY Initially, NextKeeps, PTL DEF Spec
-----------------------------------------------------------------------------
(***************************************************************************)
(* What kinds of steps there are.                                          *)
(***************************************************************************)

\* The steps that may end the process.
CrashKinds == UNCHANGED up \/ UseStream \/ LoadClosed \/ EndWrite

\* The steps that bring a thread back from ending its session.
BackKinds ==
  \A t \in Threads : at[t] \in {"terminate", "mark"} /\ at'[t] = "idle" =>
    Terminate(t) \/ MarkClosed(t)

\* What a step does to the state, and to whether it is closed, of a session.
StepOn(o) ==
  \/ session'[o].closed = session[o].closed /\ session'[o].state = session[o].state
  \/ /\ session'[o].state = session[o].state
     /\ \E t \in Threads : MarkClosed(t) /\ mutex[o] = t
  \/ \E t \in Threads :
       /\ at[t] = "store" /\ on[t] = o
       /\ session'[o].closed = session[o].closed /\ session'[o].state = arg[t]
  \/ \E t \in Threads :
       /\ at[t] = "renew" /\ mutex[o] = t
       /\ session'[o].closed = session[o].closed /\ session'[o].state = "New"

StepKinds == CrashKinds /\ BackKinds /\ \A o \in Made : StepOn(o)

LEMMA SameSessions ==
  ASSUME UNCHANGED session
  PROVE  \A o \in Made : StepOn(o)
BY DEF StepOn

\* A thread that enters a place from one where it does not end its session.
LEMMA BackElsewhere ==
  ASSUME ThreadsTyped, NEW u \in Threads, at[u] \notin {"terminate", "mark"},
         NEW place, NEW o, NEW x, Enter(u, place, o, x)
  PROVE  BackKinds
BY DEF Enter, ThreadsTyped, BackKinds

LEMMA BackNobody ==
  ASSUME UNCHANGED threads
  PROVE  BackKinds
BY DEF threads, BackKinds

\* A session changes in what StepOn does not tell apart.
LEMMA StepOnOther ==
  ASSUME StoresTyped, NEW p \in Objects,
         \/ session' = [session EXCEPT ![p].peer = FALSE]
         \/ session' = [session EXCEPT ![p].peer = TRUE]
         \/ \E s : session' = [session EXCEPT ![p].stream = s]
  PROVE  \A o \in Made : StepOn(o)
<1> SUFFICES ASSUME NEW o \in Made PROVE StepOn(o)
  OBVIOUS
<1>1. o \in Objects /\ session[o] \in Session
  BY MadeIs
<1>2. session'[o].closed = session[o].closed /\ session'[o].state = session[o].state
  BY <1>1 DEF StoresTyped, Session
<1> QED BY <1>2 DEF StepOn

LEMMA RpcKinds ==
  ASSUME NEW s \in Streams, HandleStateChange(s) \/ HandleRemote(s) \/ Signal(s)
  PROVE  StepKinds
<1>1. UNCHANGED threads /\ UNCHANGED session /\ UNCHANGED up
  BY DEF HandleStateChange, HandleRemote, Signal, Reading, objects
<1> QED BY <1>1, SameSessions, BackNobody DEF StepKinds, CrashKinds

LEMMA TaskKinds ==
  ASSUME IInv, RunTask
  PROVE  StepKinds
<1> USE IInvMeans, ThreadKinds
<1>1. CrashKinds
  BY DEF RunTask, RunCreate, RunStateChange, RunRemote, RunSend, CrashKinds
<1>2. BackKinds
  <2>1. at[Worker] \notin {"terminate", "mark"}
    BY DEF RunTask, RunCreate, RunStateChange, RunRemote, RunSend, Takes, AtStream,
           UseStream, LoadClosed, EndWrite
  <2>2. UNCHANGED threads \/ \E place, o, x : Enter(Worker, place, o, x)
    <3>1. CASE RunCreate \/ RunRemote
      BY <3>1 DEF RunCreate, RunRemote
    <3>2. CASE RunStateChange
      BY <3>2 DEF RunStateChange
    <3>3. CASE RunSend
      BY <3>3 DEF RunSend
    <3>4. CASE UseStream \/ LoadClosed
      BY <3>4 DEF UseStream, LoadClosed, Leave
    <3>5. CASE EndWrite
      BY <3>5 DEF EndWrite, Leave
    <3> QED BY <3>1, <3>2, <3>3, <3>4, <3>5 DEF RunTask
  <2> QED BY <2>1, <2>2, BackElsewhere, BackNobody
<1>3. \A o \in Made : StepOn(o)
  <2>1. CASE RunCreate
    <3>1. \/ UNCHANGED session
          \/ \E r : session' = [session EXCEPT ![Cardinality(Made) + 1] = r]
      BY <2>1 DEF RunCreate, CreateSession, MakeSession, objects
    <3>2. \A o \in Made : o # Cardinality(Made) + 1
      BY MadeFinite DEF Numbered, StoresTyped
    <3>3. \A o \in Made : session'[o] = session[o]
      BY <3>1, <3>2, MadeIs DEF StoresTyped
    <3> QED BY <3>3 DEF StepOn
  <2>2. CASE ~ RunCreate
    BY <2>2, SameSessions
       DEF RunTask, RunStateChange, RunRemote, RunSend, AtStream, UseStream, LoadClosed,
           EndWrite, objects
  <2> QED BY <2>1, <2>2
<1> QED BY <1>1, <1>2, <1>3 DEF StepKinds

LEMMA HandlerKinds ==
  ASSUME IInv, NEW t \in Threads, StateChange(t)
  PROVE  StepKinds
<1> USE IInvMeans
<1>1. UNCHANGED up
  BY DEF StateChange, TestClosed, CheckState, StoreState, SwitchState, Terminate, Detach,
         MarkClosed, In
<1>2. CASE TestClosed(t) \/ CheckState(t) \/ SwitchState(t)
  <2>1. at[t] \notin {"terminate", "mark"} /\ UNCHANGED session
    BY <1>2 DEF TestClosed, CheckState, SwitchState, In
  <2>2. \E place, o, x : Enter(t, place, o, x)
    BY <1>2 DEF TestClosed, CheckState, SwitchState, Leave
  <2> QED BY <1>1, <2>1, <2>2, SameSessions, BackElsewhere DEF StepKinds, CrashKinds
<1>3. CASE StoreState(t)
  <2>1. /\ at[t] = "store" /\ Enter(t, "switch", on[t], NULL)
        /\ session' = [session EXCEPT ![on[t]].state = arg[t]]
    BY <1>3 DEF StoreState, In, WriteState
  <2>2. ASSUME NEW o \in Made
        PROVE  StepOn(o)
    <3>1. o \in Objects /\ session[o] \in Session
      BY MadeIs
    <3>2. CASE on[t] = o
      <4>1. session'[o].state = arg[t] /\ session'[o].closed = session[o].closed
        BY <2>1, <3>1, <3>2 DEF StoresTyped, Session
      <4> QED BY <2>1, <3>2, <4>1 DEF StepOn
    <3>3. CASE on[t] # o
      <4>1. session'[o] = session[o]
        BY <2>1, <3>1, <3>3 DEF StoresTyped
      <4> QED BY <4>1 DEF StepOn
    <3> QED BY <3>2, <3>3
  <2>3. BackKinds
    BY <2>1, BackElsewhere
  <2> QED BY <1>1, <2>2, <2>3 DEF StepKinds, CrashKinds
<1>4. CASE Terminate(t)
  <2>1. BackKinds
    BY <1>4 DEF Terminate, Leave, Enter, ThreadsTyped, BackKinds
  <2>2. CASE UNCHANGED session
    BY <1>1, <2>1, <2>2, SameSessions DEF StepKinds, CrashKinds
  <2>3. CASE session # session'
    <3>1. PICK p : p \in Ids /\ session' = [session EXCEPT ![table[p]].peer = FALSE] /\ table[p] # NULL
      <4>1. session[on[t]].id \in Ids
        BY <1>4, WhereIs, MadeIs DEF Terminate, In, Session
      <4> QED BY <1>4, <2>3, <4>1 DEF Terminate, BeginClose
    <3>2. table[p] \in Objects
      BY <3>1 DEF StoresTyped
    <3> QED BY <1>1, <2>1, <3>1, <3>2, StepOnOther DEF StepKinds, CrashKinds
  <2> QED BY <2>2, <2>3
<1>5. CASE Detach(t)
  <2>1. PICK p \in Objects : session' = [session EXCEPT ![p].stream = NULL]
    BY <1>5 DEF Detach
  <2>2. BackKinds
    BY <1>5, BackElsewhere DEF Detach, In
  <2> QED BY <1>1, <2>1, <2>2, StepOnOther DEF StepKinds, CrashKinds
<1>6. CASE MarkClosed(t)
  <2>1. PICK p \in Objects : mutex[p] = t /\ session' = [session EXCEPT ![p].closed = TRUE]
    BY <1>6 DEF MarkClosed
  <2>2. BackKinds
    BY <1>6 DEF MarkClosed, Leave, Enter, ThreadsTyped, BackKinds
  <2>3. ASSUME NEW o \in Made
        PROVE  StepOn(o)
    <3>1. o \in Objects /\ session[o] \in Session
      BY MadeIs
    <3>2. CASE p = o
      <4>1. session'[o].state = session[o].state
        BY <2>1, <3>1, <3>2 DEF StoresTyped, Session
      <4> QED BY <1>6, <2>1, <3>2, <4>1 DEF StepOn
    <3>3. CASE p # o
      <4>1. session'[o] = session[o]
        BY <2>1, <3>1, <3>3 DEF StoresTyped
      <4> QED BY <4>1 DEF StepOn
    <3> QED BY <3>2, <3>3
  <2> QED BY <1>1, <2>2, <2>3 DEF StepKinds, CrashKinds
<1> QED BY <1>2, <1>3, <1>4, <1>5, <1>6 DEF StateChange

LEMMA LibraryKinds ==
  ASSUME IInv, NEW o \in Objects,
         \/ LibraryState(o) \/ LibraryLocal(o) \/ LookAtStream(o) \/ PostLocal(o)
         \/ Release(o)
  PROVE  StepKinds
<1> USE IInvMeans, ThreadKinds
<1>1. UNCHANGED up /\ UNCHANGED session
  BY DEF LibraryState, LibraryLocal, LookAtStream, PostLocal, LibraryCalls, In, Release, objects
<1>2. \/ UNCHANGED threads
      \/ at[o] \notin {"terminate", "mark"} /\ \E place, p, x : Enter(o, place, p, x)
  <2>1. CASE LibraryState(o) \/ LibraryLocal(o)
    BY <2>1 DEF LibraryState, LibraryLocal, LibraryCalls
  <2>2. CASE LookAtStream(o) \/ PostLocal(o)
    BY <2>2 DEF LookAtStream, PostLocal, In, Leave
  <2>3. CASE Release(o)
    BY <2>3 DEF Release
  <2> QED BY <2>1, <2>2, <2>3
<1> QED BY <1>1, <1>2, SameSessions, BackNobody, BackElsewhere DEF StepKinds, CrashKinds

LEMMA CallKinds ==
  ASSUME IInv, NEW c \in Callers, Call(c)
  PROVE  StepKinds
<1> USE IInvMeans, ThreadKinds
<1>1. CrashKinds
  BY DEF Call, CallStateChange, StartPeer, Close, AttachSignalStream, Calls, Renew, In, CrashKinds
<1>2. ASSUME NEW o \in Objects, CallStateChange(c, o)
      PROVE  StepKinds
  <2>1. at[c] = "idle" /\ UNCHANGED session /\ \E state : Enter(c, "test", o, state)
    BY <1>2 DEF CallStateChange, Calls
  <2> QED BY <1>1, <2>1, SameSessions, BackElsewhere DEF StepKinds
<1>3. ASSUME NEW o \in Objects, StartPeer(c, o) \/ Close(c, o)
      PROVE  StepKinds
  <2>1. /\ at[c] = "idle"
        /\ \/ session' = [session EXCEPT ![o].peer = FALSE]
           \/ session' = [session EXCEPT ![o].peer = TRUE]
        /\ \E place : Enter(c, place, o, NULL)
    BY <1>3 DEF StartPeer, Close, Calls, BeginClose
  <2> QED BY <1>1, <2>1, StepOnOther, BackElsewhere DEF StepKinds
<1>4. ASSUME NEW o \in Objects, NEW s \in Streams, AttachSignalStream(c, o, s)
      PROVE  StepKinds
  BY <1>1, <1>4, StepOnOther, BackNobody DEF StepKinds, AttachSignalStream
<1>5. CASE Renew(c)
  <2>1. /\ at[c] = "renew" /\ Leave(c) /\ session' = [session EXCEPT ![on[c]].state = "New"]
        /\ mutex[on[c]] = c
    BY <1>5 DEF Renew, In, WriteState, LocksHeld
  <2>2. ASSUME NEW o \in Made
        PROVE  StepOn(o)
    <3>1. o \in Objects /\ session[o] \in Session
      BY MadeIs
    <3>2. CASE on[c] = o
      <4>1. session'[o].state = "New" /\ session'[o].closed = session[o].closed
        BY <2>1, <3>1, <3>2 DEF StoresTyped, Session
      <4> QED BY <2>1, <3>2, <4>1 DEF StepOn
    <3>3. CASE on[c] # o
      <4>1. session'[o] = session[o]
        BY <2>1, <3>1, <3>3 DEF StoresTyped
      <4> QED BY <4>1 DEF StepOn
    <3> QED BY <3>2, <3>3
  <2>3. BackKinds
    BY <2>1, BackElsewhere DEF Leave
  <2> QED BY <1>1, <2>2, <2>3 DEF StepKinds
<1> QED BY <1>2, <1>3, <1>4, <1>5 DEF Call

LEMMA Kinds ==
  ASSUME IInv, [Next]_vars
  PROVE  StepKinds
<1>1. ASSUME NEW i \in Ids, GetSession(i)
      PROVE  StepKinds
  BY <1>1, SameSessions, BackNobody DEF GetSession, objects, StepKinds, CrashKinds
<1>2. CASE Waits \/ Crashed \/ UNCHANGED vars
  BY <1>2, SameSessions, BackNobody DEF Waits, Crashed, vars, objects, StepKinds, CrashKinds
<1> QED BY <1>1, <1>2, RpcKinds, TaskKinds, HandlerKinds, LibraryKinds, CallKinds DEF Next
-----------------------------------------------------------------------------
(***************************************************************************)
(* Theorems.                                                               *)
(***************************************************************************)

\* Every variable has its type: the numbers of the sessions do not run out, and no
\* thread is in a session that was never made.
THEOREM SessionsTyped == Spec => []TypeOK
<1>1. IInv => TypeOK
  BY DEF IInv
<1> QED BY <1>1, Invariance, PTL

\* A session that was closed holds no peer and no stream, ever (PeerSession::close).
THEOREM SessionsClosedHoldsNothing == Spec => []ClosedHoldsNothing
<1>1. IInv => ClosedHoldsNothing
  BY DEF IInv
<1> QED BY <1>1, Invariance, PTL

\* A session leaves the table only closed (SessionManager::createSession, closeSession).
THEOREM SessionsNoneLostOpen == Spec => []NoneLostOpen
<1>1. IInv => NoneLostOpen
  BY DEF IInv
<1> QED BY <1>1, Invariance, PTL

\* The process ends in the ways CrashesExplained names and in no other (the uses of
\* signalStream_ in PeerSession, and of the stream in SignalStream::send).
THEOREM SessionsCrashesExplained == Spec => CrashesExplained
<1> DEFINE Explained ==
             LET o == on[Worker] IN
               \/ /\ at[Worker] = "send"
                  /\ \/ session[o].closed
                     \/ \E t \in Threads : at[t] = "mark" /\ mutex[o] = t
                     \/ arg[Worker] = "state"
               \/ at[Worker] \in {"load", "write"} /\ rpc[arg[Worker]] = "returned"
<1>1. ASSUME IInv, [Next]_vars, up, ~ up'
      PROVE  Explained
  <2> USE IInvMeans, ThreadKinds
  <2>1. CASE EndWrite
    BY <1>1, <2>1 DEF EndWrite, AtStream
  <2>2. CASE LoadClosed
    BY <1>1, <2>2 DEF LoadClosed, AtStream, Gone
  <2>3. CASE UseStream
    <3>1. at[Worker] = "send" /\ session[on[Worker]].stream = NULL
      BY <1>1, <2>3 DEF UseStream, AtStream
    <3>2. arg[Worker] \in {"data", "state"}
      BY <1>1, <3>1 DEF ThreadsTyped
    <3>3. arg[Worker] = "data" => HasStream(on[Worker])
      BY <1>1, <3>1 DEF StreamsFound
    <3> QED BY <3>1, <3>2, <3>3 DEF HasStream
  <2> QED BY <1>1, <2>1, <2>2, <2>3, Kinds DEF StepKinds, CrashKinds
<1>2. ASSUME IInv, [Next]_vars
      PROVE  [up /\ ~ up' => Explained]_vars
  BY <1>1, <1>2
<1> QED BY <1>2, Invariance, PTL DEF Spec, CrashesExplained

\* A thread that was not outlived closes the session it is in and no other.
THEOREM SessionsTerminationClosesOwn == Spec => TerminationClosesOwn
<1>1. ASSUME IInv, [Next]_vars, NEW o \in Made, session'[o].closed, ~ session[o].closed
      PROVE  \E t \in Threads : mutex[o] = t /\ (on[t] = o \/ t \in outlived)
  <2> USE IInvMeans
  <2>1. PICK t \in Threads : MarkClosed(t) /\ mutex[o] = t
    <3>1. session'[o].closed # session[o].closed
      BY <1>1, Zenon
    <3>2. StepOn(o)
      BY <1>1, Kinds DEF StepKinds
    <3>3. \E t \in Threads : MarkClosed(t) /\ mutex[o] = t
      BY <3>1, <3>2, Zenon DEF StepOn
    <3> QED BY <3>3
  <2>2. o \in Objects /\ at[t] = "mark"
    BY <1>1, <2>1, MadeIs DEF MarkClosed
  <2>3. on[t] = o \/ t \in outlived
    BY <1>1, <2>1, <2>2 DEF LocksHeld
  <2> QED BY <2>1, <2>3
<1>2. ASSUME IInv, [Next]_vars
      PROVE  [\A o \in Made : session'[o].closed /\ ~ session[o].closed =>
                \E t \in Threads : mutex[o] = t /\ (on[t] = o \/ t \in outlived)]_vars
  BY <1>1, <1>2
<1> QED BY <1>2, Invariance, PTL DEF Spec, TerminationClosesOwn

\* When a thread has ended its session, that session is closed.
THEOREM SessionsTerminatedIsClosed == Spec => TerminatedIsClosed
<1>1. ASSUME IInv, [Next]_vars, NEW t \in Threads,
             at[t] \in {"terminate", "mark"}, at'[t] = "idle"
      PROVE  session'[on[t]].closed
  <2> USE IInvMeans
  <2>1. /\ on[t] \in Made /\ on[t] \in Objects /\ session[on[t]] \in Session
        /\ session[on[t]].id \in Ids /\ on[t] # NULL
    BY <1>1, WhereIs, MadeIs, ThreadKinds DEF Session
  <2>2. CASE Terminate(t)
    <3>1. table[session[on[t]].id] = NULL /\ UNCHANGED session
      <4>1. at'[t] # "detach"
        BY <1>1
      <4> QED BY <1>1, <2>2, <4>1 DEF Terminate, Enter, ThreadsTyped
    <3> QED BY <1>1, <2>1, <3>1 DEF NoneLostOpen
  <2>3. CASE MarkClosed(t)
    <3>1. PICK o \in Objects : mutex[o] = t /\ session' = [session EXCEPT ![o].closed = TRUE]
      BY <2>3 DEF MarkClosed
    <3>2. o \in Made /\ session[o] \in Session
      BY <1>1, <3>1, MadeIs DEF LocksHeld
    <3>3. CASE o = on[t]
      BY <1>1, <3>1, <3>2, <3>3 DEF StoresTyped, Session
    <3>4. CASE o # on[t]
      <4>1. table[session[on[t]].id] # on[t]
        BY <1>1, <2>3, <3>1, <3>4 DEF LocksHeld, MarkClosed
      <4>2. session[on[t]].closed
        BY <1>1, <2>1, <4>1 DEF NoneLostOpen
      <4> QED BY <1>1, <2>1, <3>1, <3>4, <4>2 DEF StoresTyped
    <3> QED BY <3>3, <3>4
  <2> QED BY <1>1, <2>2, <2>3, Kinds DEF StepKinds, BackKinds
<1>2. ASSUME IInv, [Next]_vars
      PROVE  [\A t \in Threads : at[t] \in {"terminate", "mark"} /\ at'[t] = "idle" =>
                session'[on[t]].closed]_vars
  BY <1>1, <1>2
<1> QED BY <1>2, Invariance, PTL DEF Spec, TerminatedIsClosed

\* A session's state follows the table of transitions, with the three exceptions that
\* StatesFollowTable names.
THEOREM SessionsStatesFollowTable == Spec => StatesFollowTable
<1>1. ASSUME IInv, [Next]_vars, NEW o \in Made, session'[o].state # session[o].state
      PROVE  \/ IsValidStateTransition(session[o].state, session'[o].state)
             \/ \E t \in overtaken : at[t] = "store" /\ on[t] = o
             \/ session'[o].state = "New" /\ \E t \in Threads : at[t] = "renew" /\ mutex[o] = t
             \/ session[o].state = NULL
  <2> USE IInvMeans
  <2>1. ASSUME NEW t \in Threads, at[t] = "store", on[t] = o, session'[o].state = arg[t]
        PROVE  \/ IsValidStateTransition(session[o].state, session'[o].state)
               \/ \E u \in overtaken : at[u] = "store" /\ on[u] = o
               \/ session[o].state = NULL
    BY <1>1, <2>1 DEF CheckedHolds, MayFollow
  <2> QED BY <1>1, <2>1, Kinds DEF StepKinds, StepOn
<1>2. ASSUME IInv, [Next]_vars
      PROVE  [\A o \in Made : session'[o].state # session[o].state =>
                \/ IsValidStateTransition(session[o].state, session'[o].state)
                \/ \E t \in overtaken : at[t] = "store" /\ on[t] = o
                \/ session'[o].state = "New" /\ \E t \in Threads : at[t] = "renew" /\ mutex[o] = t
                \/ session[o].state = NULL]_vars
  BY <1>1, <1>2
<1> QED BY <1>2, Invariance, PTL DEF Spec, StatesFollowTable
=============================================================================
