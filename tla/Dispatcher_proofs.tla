-------------------------- MODULE Dispatcher_proofs --------------------------
(***************************************************************************)
(* Proofs about Dispatcher, for any set of posters and any number of tasks.*)
(* The invariants need one another: the worker's pop is of a task only if  *)
(* it never takes from an empty queue, and a push is of a numbered task    *)
(* only if the poster that holds the mutex still may post.                 *)
(***************************************************************************)
EXTENDS Dispatcher, SequenceTheorems, TLAPS

\* The poster that holds the mutex has a task to post.
HolderMayPost == mutex # Nobody => Len(posted) < MaxPosts

\* A worker that runs has a task to run.
HasTask == worker = "run" => task \in Tasks

\* Before start() there is no worker.
NotStarted == destructor = "alive" /\ ~ running => worker = "none"

IInv == TypeOK /\ NotStarted /\ HasTask /\ HolderMayPost /\ TakesOnlyTasks /\ TasksInOrder
-----------------------------------------------------------------------------
\* A pop takes the task in front.
LEMMA PopKeepsOrder ==
  ASSUME NEW T, NEW r \in Seq(T), NEW q \in Seq(T), q # <<>>
  PROVE  /\ Head(q) \in T /\ Tail(q) \in Seq(T)
         /\ (r \o <<Head(q)>>) \o Tail(q) = r \o q
OBVIOUS

\* The worker's hand is a sequence of tasks.
LEMMA InHandTyped ==
  ASSUME TypeOK, HasTask
  PROVE  /\ InHand \in Seq(Tasks)
         /\ ran \o InHand \in Seq(Tasks)
         /\ worker # "run" => ran \o InHand = ran
         /\ worker = "run" => ran \o InHand = Append(ran, task)
<1>1. CASE worker = "run"
  <2>1. InHand = <<task>> /\ task \in Tasks
    BY <1>1 DEF InHand, HasTask
  <2> QED BY <1>1, <2>1 DEF TypeOK
<1>2. CASE worker # "run"
  <2>1. InHand = <<>>
    BY <1>2 DEF InHand
  <2> QED BY <1>2, <2>1, EmptySeq, ConcatEmptySeq DEF TypeOK
<1> QED BY <1>1, <1>2

LEMMA Initially == Init => IInv
<1> SUFFICES ASSUME Init PROVE IInv
  OBVIOUS
<1>1. TypeOK /\ HasTask
  BY EmptySeq DEF Init, TypeOK, HasTask, WorkerStates
<1>2. NotStarted /\ HolderMayPost /\ TakesOnlyTasks
  BY DEF Init, NotStarted, HolderMayPost, TakesOnlyTasks
<1>3. TasksInOrder
  <2>1. ran \o InHand = <<>>
    BY <1>1, InHandTyped DEF Init
  <2> QED BY <2>1, EmptySeq, ConcatEmptySeq DEF Init, TasksInOrder
<1> QED BY <1>1, <1>2, <1>3 DEF IInv

\* A post, whoever makes it.
LEMMA EnqueueKeeps ==
  ASSUME IInv, Len(posted) < MaxPosts, Enqueue, UNCHANGED <<worker, task, ran>>
  PROVE  /\ queue' \in Seq(Tasks) /\ posted' \in Seq(Tasks)
         /\ queue' # <<>>
         /\ TasksInOrder'
<1> DEFINE n == Len(posted) + 1
<1>1. n \in Tasks
  BY DispatcherAssumption DEF IInv, TypeOK, Tasks
<1>2. queue' = Append(queue, n) /\ posted' = Append(posted, n)
  BY DEF Enqueue
<1>3. /\ queue' \in Seq(Tasks) /\ posted' \in Seq(Tasks)
      /\ queue' # <<>>
  <2>1. /\ Append(queue, n) \in Seq(Tasks) /\ Append(posted, n) \in Seq(Tasks)
        /\ Append(queue, n) # <<>>
    BY <1>1, AppendProperties DEF IInv, TypeOK
  <2> QED BY <1>2, <2>1
<1>4. TasksInOrder'
  <2>1. InHand' = InHand
    BY DEF InHand
  <2>2. ran \o InHand \in Seq(Tasks)
    BY InHandTyped DEF IInv
  <2>3. Append((ran \o InHand) \o queue, n) = (ran \o InHand) \o Append(queue, n)
    <3> DEFINE r == ran \o InHand
    <3>1. queue \in Seq(Tasks) /\ r \in Seq(Tasks)
      BY <2>2 DEF IInv, TypeOK
    <3> HIDE DEF n, r
    <3>2. Append(r \o queue, n) = r \o Append(queue, n)
      BY <1>1, <3>1
    <3> QED BY <3>2 DEF r
  <2>4. posted = (ran \o InHand) \o queue
    BY DEF IInv, TasksInOrder
  <2>5. posted' = (ran \o InHand) \o queue'
    BY <1>2, <2>3, <2>4
  <2> QED BY <2>1, <2>5 DEF TasksInOrder
<1> QED BY <1>3, <1>4

LEMMA PostPushKeeps ==
  ASSUME IInv, NEW p \in Posters, PostPush(p) PROVE IInv'
<1>1. Len(posted) < MaxPosts
  BY DispatcherAssumption DEF IInv, HolderMayPost, PostPush
<1>2. /\ queue' \in Seq(Tasks) /\ posted' \in Seq(Tasks)
      /\ queue' # <<>>
      /\ TasksInOrder'
  BY <1>1, EnqueueKeeps DEF PostPush
<1> QED BY <1>2 DEF IInv, TypeOK, NotStarted, HasTask, HolderMayPost, TakesOnlyTasks, PostPush

LEMMA TaskPostsKeeps ==
  ASSUME IInv, TaskPosts PROVE IInv'
<1>1. /\ queue' \in Seq(Tasks) /\ posted' \in Seq(Tasks)
      /\ queue' # <<>>
      /\ TasksInOrder'
  BY EnqueueKeeps DEF TaskPosts
<1> QED BY <1>1 DEF IInv, TypeOK, NotStarted, HasTask, HolderMayPost, TakesOnlyTasks, TaskPosts

LEMMA WorkerTakeKeeps ==
  ASSUME IInv, WorkerTake PROVE IInv'
<1>1. queue # <<>> /\ worker # "run"
  BY DEF IInv, TakesOnlyTasks, WorkerTake, MayTake
<1>2. /\ task' \in Tasks /\ queue' \in Seq(Tasks)
      /\ Append(ran, task') = ran \o <<Head(queue)>>
      /\ (ran \o <<Head(queue)>>) \o queue' = ran \o queue
  BY <1>1, PopKeepsOrder DEF IInv, TypeOK, WorkerTake, MayTake
<1>3. TypeOK' /\ HasTask'
  BY <1>2 DEF IInv, TypeOK, HasTask, WorkerTake, MayTake, WorkerStates
<1>4. TasksInOrder'
  <2>1. posted = ran \o queue
    BY <1>1, InHandTyped DEF IInv, TasksInOrder
  <2>2. (ran \o InHand)' = ran \o <<Head(queue)>>
    BY DEF InHand, WorkerTake, MayTake
  <2> QED BY <1>2, <2>1, <2>2 DEF TasksInOrder, WorkerTake, MayTake
<1> QED BY <1>3, <1>4 DEF IInv, NotStarted, HolderMayPost, TakesOnlyTasks, WorkerTake, MayTake

LEMMA TaskEndsKeeps ==
  ASSUME IInv, TaskEnds PROVE IInv'
<1>1. ran \o InHand = Append(ran, task) /\ task \in Tasks
  BY InHandTyped DEF IInv, HasTask, TaskEnds
<1>2. TypeOK' /\ HasTask'
  BY <1>1, AppendProperties DEF IInv, TypeOK, HasTask, TaskEnds, WorkerStates
<1>3. TasksInOrder'
  <2>1. InHand' = <<>> /\ ran' = ran \o InHand
    BY <1>1 DEF InHand, TaskEnds
  <2>2. ran' \o InHand' = ran'
    BY <1>2, <2>1, ConcatEmptySeq DEF TypeOK
  <2> QED BY <2>1, <2>2 DEF IInv, TasksInOrder, TaskEnds
<1> QED BY <1>2, <1>3 DEF IInv, NotStarted, HolderMayPost, TakesOnlyTasks, TaskEnds

LEMMA Inductive == IInv /\ [Next]_vars => IInv'
<1> SUFFICES ASSUME IInv, [Next]_vars PROVE IInv'
  OBVIOUS
<1> USE DEF IInv, TypeOK, NotStarted, HasTask, HolderMayPost, TakesOnlyTasks, TasksInOrder, InHand
<1>1. CASE Start
  BY <1>1 DEF Start, WorkerStates
<1>2. CASE \E p \in Posters : PostLock(p)
  <2>1. PICK p \in Posters : PostLock(p)
    BY <1>2
  <2>2. p # Nobody
    BY DispatcherAssumption
  <2> QED BY <2>1, <2>2 DEF PostLock
<1>3. CASE \E p \in Posters : PostPush(p)
  BY <1>3, PostPushKeeps
<1>4. CASE WorkerTest
  BY <1>4 DEF WorkerTest, SeesTask, WorkerStates
<1>5. CASE WorkerTake
  BY <1>5, WorkerTakeKeeps
<1>6. CASE TaskPosts
  BY <1>6, TaskPostsKeeps
<1>7. CASE TaskEnds
  BY <1>7, TaskEndsKeeps
<1>8. CASE Stop
  BY <1>8 DEF Stop
<1>9. CASE Join
  BY <1>9 DEF Join
<1>10. CASE UNCHANGED vars
  BY <1>10 DEF vars
<1> QED
  BY <1>1, <1>2, <1>3, <1>4, <1>5, <1>6, <1>7, <1>8, <1>9, <1>10
  DEF Next, Worker, Over

LEMMA Invariance == Spec => []IInv
BY Initially, Inductive, PTL DEF Spec
-----------------------------------------------------------------------------
\* Every variable of the dispatcher keeps its type.
THEOREM DispatcherTyped == Spec => []TypeOK
<1>1. IInv => TypeOK
  BY DEF IInv
<1> QED BY <1>1, Invariance, PTL

\* No task is lost, doubled or overtaken in the queue, however posts interleave with the
\* worker's unlocked test and its locked pop.
THEOREM DispatcherOrder == Spec => []TasksInOrder
<1>1. IInv => TasksInOrder
  BY DEF IInv
<1> QED BY <1>1, Invariance, PTL

\* The worker never takes from an empty queue, although it tests without the mutex.
THEOREM DispatcherTakesTasks == Spec => []TakesOnlyTasks
<1>1. IInv => TakesOnlyTasks
  BY DEF IInv
<1> QED BY <1>1, Invariance, PTL
=============================================================================
