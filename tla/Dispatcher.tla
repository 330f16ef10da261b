----------------------------- MODULE Dispatcher -----------------------------
(***************************************************************************)
(* The dispatcher of the WebRTC server: a queue of tasks under a mutex,    *)
(* threads that post to it, and one worker thread that runs the tasks.     *)
(* The gRPC and libdatachannel threads post; a task that runs may post as  *)
(* well.  main starts the dispatcher before anything can post, and         *)
(* destroys it when nothing posts any more.                                *)
(*                                                                         *)
(* The worker reads taskQueue_.empty() without the mutex.  While a poster  *)
(* is pushing, that is a data race: the read may tell either answer.       *)
(*                                                                         *)
(* The condition variable's wait is its predicate: a worker that waits is  *)
(* one whose step is not enabled.  Nothing is lost by leaving out the      *)
(* sleep and the notifications (which the destructor sends without the     *)
(* mutex): by TakesOnlyTasks the predicate holds whenever the worker gets  *)
(* the mutex, so it never sleeps.                                          *)
(***************************************************************************)
EXTENDS Integers, Sequences, FiniteSets

CONSTANTS
  Posters,   \* the threads that post
  Nobody,    \* the owner of a free mutex
  MaxPosts   \* bound: tasks posted

ASSUME DispatcherAssumption == MaxPosts \in Nat /\ Nobody \notin Posters

VARIABLES
  running,    \* running_
  worker,     \* where the worker thread is
  task,       \* the task it has taken
  queue,      \* taskQueue_
  mutex,      \* who holds mutex_
  destructor, \* "alive", "joining" or "destroyed"
  posted, ran \* observers: the tasks posted and run, in order

vars == <<running, worker, task, queue, mutex, destructor, posted, ran>>

\* The worker is not created yet, at the loop's test, about to lock, running a
\* task, or has left its loop.
WorkerStates == {"none", "test", "lock", "run", "done"}

Tasks == 1 .. MaxPosts

\* Every variable has its type.
TypeOK ==
  /\ running \in BOOLEAN
  /\ worker \in WorkerStates
  /\ task \in Tasks \union {0}
  /\ queue \in Seq(Tasks)
  /\ mutex \in Posters \union {Nobody}
  /\ destructor \in {"alive", "joining", "destroyed"}
  /\ posted \in Seq(Tasks) /\ ran \in Seq(Tasks)

Init ==
  /\ running = FALSE /\ worker = "none" /\ task = 0
  /\ queue = <<>> /\ mutex = Nobody
  /\ destructor = "alive"
  /\ posted = <<>> /\ ran = <<>>

\* main calls start(): only the first call makes a thread.
Start ==
  /\ destructor = "alive" /\ ~ running
  /\ running' = TRUE
  /\ worker' = "test"
  /\ UNCHANGED <<task, queue, mutex, destructor, posted, ran>>

\* A poster gets the mutex; its push is in progress until it lets go.
PostLock(p) ==
  /\ destructor = "alive" /\ worker # "none"
  /\ Len(posted) < MaxPosts
  /\ mutex = Nobody
  /\ mutex' = p
  /\ UNCHANGED <<running, worker, task, queue, destructor, posted, ran>>

Enqueue_Front ==  \* mutant: the newest task first
  /\ queue' = <<Len(posted) + 1>> \o queue
  /\ posted' = Append(posted, Len(posted) + 1)

\* Tasks are numbered as they are posted.
Enqueue ==
  /\ queue' = Append(queue, Len(posted) + 1)
  /\ posted' = Append(posted, Len(posted) + 1)

PostPush(p) ==
  /\ mutex = p
  /\ Enqueue
  /\ mutex' = Nobody
  /\ UNCHANGED <<running, worker, task, destructor, ran>>

\* What the unlocked empty() can say.
SeesTask == IF mutex = Nobody THEN {queue # <<>>} ELSE {queue # <<>>, TRUE}

WorkerTest_Or ==  \* mutant: || for &&
  /\ worker = "test"
  /\ \E sees \in SeesTask :
       worker' = IF running \/ sees THEN "lock" ELSE "done"
  /\ UNCHANGED <<running, task, queue, mutex, destructor, posted, ran>>

WorkerTest_Polls ==  \* mutant: test again while there is no task
  /\ worker = "test"
  /\ \E sees \in SeesTask : worker' = IF sees THEN "lock" ELSE "test"
  /\ UNCHANGED <<running, task, queue, mutex, destructor, posted, ran>>

\* The loop's test: a worker that sees an empty queue leaves for good.
WorkerTest ==
  /\ worker = "test"
  /\ \E sees \in SeesTask :
       worker' = IF running /\ sees THEN "lock" ELSE "done"
  /\ UNCHANGED <<running, task, queue, mutex, destructor, posted, ran>>

MayTake_And == queue # <<>> /\ ~ running  \* mutant: && for ||

\* The predicate the worker waits for.
MayTake == queue # <<>> \/ ~ running

WorkerTake_NotKept ==  \* mutant: pop without keeping the front task
  /\ worker = "lock"
  /\ mutex = Nobody /\ MayTake
  /\ queue' = Tail(queue)
  /\ worker' = "run"
  /\ UNCHANGED <<running, task, mutex, destructor, posted, ran>>

\* Lock, wait for the predicate, take the front task, unlock.
WorkerTake ==
  /\ worker = "lock"
  /\ mutex = Nobody /\ MayTake
  /\ task' = Head(queue)
  /\ queue' = Tail(queue)
  /\ worker' = "run"
  /\ UNCHANGED <<running, mutex, destructor, posted, ran>>

\* The running task posts another one.
TaskPosts ==
  /\ worker = "run" /\ Len(posted) < MaxPosts
  /\ mutex = Nobody
  /\ Enqueue
  /\ UNCHANGED <<running, worker, task, mutex, destructor, ran>>

TaskEnds ==
  /\ worker = "run"
  /\ ran' = Append(ran, task)
  /\ task' = 0
  /\ worker' = "test"
  /\ UNCHANGED <<running, queue, mutex, destructor, posted>>

\* The destructor, once nobody can post any more.
Stop ==
  /\ destructor = "alive" /\ running /\ mutex = Nobody
  /\ running' = FALSE
  /\ destructor' = "joining"
  /\ UNCHANGED <<worker, task, queue, mutex, posted, ran>>

Join ==
  /\ destructor = "joining" /\ worker = "done"
  /\ destructor' = "destroyed"
  /\ UNCHANGED <<running, worker, task, queue, mutex, posted, ran>>

Over == destructor = "destroyed" /\ UNCHANGED vars

Worker == WorkerTest \/ WorkerTake \/ TaskEnds

Next ==
  \/ Start \/ Worker \/ TaskPosts \/ Stop \/ Join \/ Over
  \/ \E p \in Posters : PostLock(p) \/ PostPush(p)

\* Threads that can run do; tasks end; the destructor's join returns when it can.
\* Whether anything is posted, and whether main ever returns, is left open.
Spec ==
  /\ Init /\ [][Next]_vars
  /\ WF_vars(Worker) /\ WF_vars(Join)
  /\ \A p \in Posters : WF_vars(PostPush(p))
-----------------------------------------------------------------------------
InHand == IF worker = "run" THEN <<task>> ELSE <<>>

\* No task is lost, doubled or overtaken on its way through the queue: those run,
\* the one in hand and those waiting are together the tasks posted, in that order.
TasksInOrder == posted = (ran \o InHand) \o queue

\* The worker, which tests for a task without the mutex and takes one with it, never
\* takes from an empty queue: nobody else takes.
TakesOnlyTasks == worker = "lock" => queue # <<>> \/ mutex # Nobody

\* The destructor's join returns, whatever is left in the queue.
JoinReturns == destructor = "joining" ~> destructor = "destroyed"

\* A worker that found the queue non-empty runs the task in front.
FoundTaskRuns == worker = "lock" ~> worker = "run"

\* SignalStream.hpp:13 has the functions of SignalStream "called via Dispatcher": a task
\* posted is run, unless the dispatcher is stopped first.
PostedTasksRun ==
  \A n \in Tasks : Len(posted) >= n ~> Len(ran) >= n \/ ~ running
=============================================================================
