--------------------------- MODULE ThreadPoolProofs ---------------------------
(***************************************************************************)
(* Theorems about ThreadPool, for any finite set of workers, any set of    *)
(* tasks, any queue bound and any number of failed pthread_create calls.   *)
(***************************************************************************)
EXTENDS ThreadPool, FiniteSetTheorems, TLAPS

\* A worker's local task is set exactly from PopTask to the end of ProcessOn,
\* and PushTask has a task from its call to its return.
TasksHeld ==
    /\ \A w \in Worker : task[w] # NoTask <=> pc[w] \in {"unlock", "process"}
    /\ main # "idle" <=> mainTask # NoTask

\* The inductive invariant.  PopTask stays inside the types only because the
\* queue is not empty, which is so because the popping worker owns the mutex.
PoolInv == PoolTypeOK /\ LockDiscipline /\ TasksHeld /\ NeverPopsEmpty

-----------------------------------------------------------------------------
LEMMA PoolInvInit == PoolInit => PoolInv
<1> SUFFICES ASSUME PoolInit
             PROVE  PoolInv
  OBVIOUS
<1> USE PoolAssumption DEF PoolInit
<1>1. task_queue \in Seq(Task)
  OBVIOUS
<1>2. PoolTypeOK
  BY <1>1 DEF PoolTypeOK, WorkerPc, MainPc
<1>3. LockDiscipline
  BY DEF LockDiscipline
<1>4. TasksHeld
  BY DEF TasksHeld
<1>5. NeverPopsEmpty
  BY DEF NeverPopsEmpty
<1> QED
  BY <1>2, <1>3, <1>4, <1>5 DEF PoolInv

LEMMA PoolInvStep == PoolInv /\ [PoolNext]_poolVars => PoolInv'
<1> SUFFICES ASSUME PoolInv, [PoolNext]_poolVars
             PROVE  PoolInv'
  OBVIOUS
<1> USE PoolAssumption DEF PoolInv, PoolTypeOK, LockDiscipline, TasksHeld,
                           NeverPopsEmpty, WorkerPc, MainPc
<1>1. ASSUME NEW t \in Task, CallPushTask(t)
      PROVE  PoolInv'
  BY <1>1 DEF CallPushTask
<1>2. CASE GetInstance
  BY <1>2 DEF GetInstance
<1>3. ASSUME NEW w \in Worker, CreateThread(w)
      PROVE  PoolInv'
  BY <1>3 DEF CreateThread
<1>4. CASE InitThreadPoolReturn
  BY <1>4 DEF InitThreadPoolReturn
<1>5. CASE PushLock
  BY <1>5 DEF PushLock
<1>6. CASE Push
  <2>1. mainTask \in Task
    BY <1>6 DEF Push
  <2>2. task_queue' \in Seq(Task) /\ task_queue' # <<>>
    BY <1>6, <2>1 DEF Push
  <2> QED
    BY <1>6, <2>2 DEF Push
<1>7. CASE PushUnLock
  BY <1>7 DEF PushUnLock
<1>8. CASE ThreadWakeup
  BY <1>8 DEF ThreadWakeup, Waiting
<1>9. ASSUME NEW w \in Worker, Lock(w) \/ WaitReturn(w)
      PROVE  PoolInv'
  BY <1>9 DEF Lock, WaitReturn, workerUnchanged
<1>10. ASSUME NEW w \in Worker, LeaveLoop(w)
       PROVE  PoolInv'
  BY <1>10 DEF LeaveLoop, TaskQueueIsEmpty, workerUnchanged
<1>11. ASSUME NEW w \in Worker, ThreadWait(w) \/ UnLock(w)
       PROVE  PoolInv'
  BY <1>11 DEF ThreadWait, UnLock, workerUnchanged
<1>12. ASSUME NEW w \in Worker, SpuriousWakeup(w) \/ ProcessOn(w)
       PROVE  PoolInv'
  BY <1>12 DEF SpuriousWakeup, ProcessOn, workerUnchanged
<1>13. ASSUME NEW w \in Worker, PopTask(w)
       PROVE  PoolInv'
  <2>1. task_queue # <<>> /\ lock = w
    BY <1>13 DEF PopTask
  <2>2. Head(task_queue) \in Task /\ task_queue' \in Seq(Task)
    BY <1>13, <2>1 DEF PopTask
  <2>3. \A v \in Worker : pc'[v] # "pop"
    BY <1>13, <2>1 DEF PopTask
  <2>4. PoolTypeOK'
    BY <1>13, <2>2 DEF PopTask, workerUnchanged
  <2>5. LockDiscipline'
    BY <1>13 DEF PopTask, workerUnchanged
  <2>6. TasksHeld'
    BY <1>13, <2>2 DEF PopTask, workerUnchanged
  <2>7. NeverPopsEmpty'
    BY <2>3
  <2> QED
    BY <2>4, <2>5, <2>6, <2>7
<1>14. CASE UNCHANGED poolVars
  BY <1>14 DEF poolVars
<1> QED
  BY <1>1, <1>2, <1>3, <1>4, <1>5, <1>6, <1>7, <1>8, <1>9, <1>10, <1>11,
     <1>12, <1>13, <1>14
     DEF PoolNext, MainStep, RoutineStep

\* The conjunction is an invariant of every behaviour of the pool.
THEOREM PoolInvariant == PoolSpec => []PoolInv
BY PoolInvInit, PoolInvStep, PTL DEF PoolSpec

\* The pool's variables keep their types; in particular only tasks that Loop
\* pushed are ever in the queue or with a worker, never a default Task.
THEOREM PoolTypeCorrect == PoolSpec => []PoolTypeOK
BY PoolInvariant, PTL DEF PoolInv

\* The mutex is owned by exactly the thread inside the critical section.
THEOREM PoolMutualExclusion == PoolSpec => []LockDiscipline
BY PoolInvariant, PTL DEF PoolInv

\* front() and pop() are never called on an empty queue.
THEOREM PoolNeverPopsEmpty == PoolSpec => []NeverPopsEmpty
BY PoolInvariant, PTL DEF PoolInv

\* A pool without a thread stays without one, and keeps all it is given: what
\* steps are left to it are those of the producer, and GetInstance does not
\* go back to InitThreadPool.
LEMMA StrandedStep ==
    PoolInv /\ Stranded /\ [PoolNext]_poolVars =>
        Stranded' /\ SubSeq(task_queue', 1, Len(task_queue)) = task_queue
<1> SUFFICES ASSUME PoolInv, Stranded, [PoolNext]_poolVars
             PROVE  Stranded' /\ SubSeq(task_queue', 1, Len(task_queue)) = task_queue
  OBVIOUS
<1> USE DEF PoolInv, PoolTypeOK, Stranded, Created
<1>1. \A w \in Worker : pc[w] = "unborn"
  OBVIOUS
<1>2. SubSeq(task_queue, 1, Len(task_queue)) = task_queue
  OBVIOUS
<1>3. ASSUME NEW t \in Task, CallPushTask(t)
      PROVE  Stranded' /\ task_queue' = task_queue
  BY <1>3 DEF CallPushTask
<1>4. CASE GetInstance \/ PushLock \/ PushUnLock \/ ThreadWakeup
  <2>1. Stranded' /\ task_queue' = task_queue
    BY <1>1, <1>4 DEF GetInstance, PushLock, PushUnLock, ThreadWakeup, Waiting
  <2> QED
    BY <1>2, <2>1
<1>5. CASE Push
  <2>1. Stranded' /\ task_queue' = Append(task_queue, mainTask)
    BY <1>5 DEF Push
  <2> QED
    BY <2>1
<1>6. CASE UNCHANGED poolVars
  BY <1>2, <1>6 DEF poolVars
<1>7. ~ \E w \in Worker : RoutineStep(w) \/ SpuriousWakeup(w) \/ ProcessOn(w)
  BY <1>1 DEF RoutineStep, Lock, LeaveLoop, ThreadWait, WaitReturn, PopTask,
              UnLock, SpuriousWakeup, ProcessOn
<1>8. ~ (InitThreadPoolReturn \/ \E w \in Worker : CreateThread(w))
  BY DEF InitThreadPoolReturn, CreateThread
<1> QED
  BY <1>2, <1>3, <1>4, <1>5, <1>6, <1>7, <1>8 DEF PoolNext, MainStep

THEOREM PoolStrandedForEver == PoolSpec => StrandedForEver
<1>1. PoolInv /\ [PoolNext]_poolVars =>
        [Stranded => /\ Stranded'
                     /\ SubSeq(task_queue', 1, Len(task_queue)) = task_queue]_poolVars
  BY StrandedStep
<1> QED
  BY <1>1, PoolInvariant, PTL DEF PoolSpec, StrandedForEver

-----------------------------------------------------------------------------
(* No lost wakeup *)

\* A worker that starts to head for the queue adds one to the count.
LEMMA HeadingGains ==
    ASSUME PoolTypeOK, NEW w \in Worker, w \notin Heading, Heading' = Heading \cup {w}
    PROVE  /\ Cardinality(Heading) \in Nat
           /\ Cardinality(Heading') = Cardinality(Heading) + 1
<1>1. IsFiniteSet(Heading)
  BY PoolAssumption, FS_Subset DEF Heading
<1> QED
  BY <1>1, FS_CardinalityType, FS_AddElement

\* A worker that stops heading for the queue takes one from the count.
LEMMA HeadingLoses ==
    ASSUME PoolTypeOK, NEW w \in Heading, Heading' = Heading \ {w}
    PROVE  /\ Cardinality(Heading) \in Nat
           /\ Cardinality(Heading') = Cardinality(Heading) - 1
<1>1. IsFiniteSet(Heading)
  BY PoolAssumption, FS_Subset DEF Heading
<1> QED
  BY <1>1, FS_CardinalityType, FS_RemoveElement

\* Steps that leave the queue, the owed signal and both sets of workers alone
\* keep the promise.
LEMMA ConservingUnchanged ==
    ASSUME WorkConserving, UNCHANGED task_queue, UNCHANGED OwedSignal,
           UNCHANGED Heading, UNCHANGED Waiting
    PROVE  WorkConserving'
BY DEF WorkConserving

LEMMA WorkConservingInit == PoolInit => WorkConserving
BY DEF PoolInit, WorkConserving, Waiting

LEMMA WorkConservingStep ==
    PoolInv /\ WorkConserving /\ [PoolNext]_poolVars => WorkConserving'
<1> SUFFICES ASSUME PoolInv, WorkConserving, [PoolNext]_poolVars
             PROVE  WorkConserving'
  OBVIOUS
<1>0. PoolTypeOK /\ LockDiscipline /\ NeverPopsEmpty
  BY DEF PoolInv
<1>f. Cardinality(Heading) \in Nat /\ Len(task_queue) \in Nat
  <2>1. IsFiniteSet(Heading)
    BY PoolAssumption, FS_Subset DEF Heading
  <2> QED
    BY <2>1, <1>0, FS_CardinalityType DEF PoolTypeOK
<1>1. ASSUME NEW t \in Task, CallPushTask(t)
      PROVE  WorkConserving'
  BY <1>1, ConservingUnchanged DEF CallPushTask, OwedSignal, Heading, Waiting
<1>2. CASE GetInstance
  BY <1>2, ConservingUnchanged DEF GetInstance, OwedSignal, Heading, Waiting
<1>3. ASSUME NEW w \in Worker, CreateThread(w)
      PROVE  WorkConserving'
  <2>1. w \notin Heading /\ Heading' = Heading \cup {w}
    BY <1>3, <1>0 DEF CreateThread, Heading, PoolTypeOK
  <2>2. Waiting' = Waiting /\ task_queue' = task_queue /\ OwedSignal' = OwedSignal
    BY <1>3, <1>0 DEF CreateThread, Waiting, OwedSignal, PoolTypeOK
  <2>3. OwedSignal \in Nat
    BY DEF OwedSignal
  <2>4. Cardinality(Heading') = Cardinality(Heading) + 1
    BY <2>1, <1>0, HeadingGains
  <2> QED
    BY <2>2, <2>3, <2>4, <1>f DEF WorkConserving
<1>4. CASE InitThreadPoolReturn
  BY <1>4, ConservingUnchanged DEF InitThreadPoolReturn, OwedSignal, Heading, Waiting
<1>5. CASE PushLock
  BY <1>5, ConservingUnchanged DEF PushLock, OwedSignal, Heading, Waiting
<1>6. CASE Push
  <2>1. Len(task_queue') = Len(task_queue) + 1
    BY <1>6, <1>0 DEF Push, PoolTypeOK
  <2>2. OwedSignal = 0 /\ OwedSignal' = 1 /\ Heading' = Heading /\ Waiting' = Waiting
    BY <1>6 DEF Push, OwedSignal, Heading, Waiting
  <2> QED
    BY <2>1, <2>2, <1>f DEF WorkConserving
<1>7. CASE PushUnLock
  BY <1>7, ConservingUnchanged DEF PushUnLock, OwedSignal, Heading, Waiting
<1>8. CASE ThreadWakeup
  <2>1. OwedSignal = 1 /\ OwedSignal' = 0 /\ task_queue' = task_queue
    BY <1>8 DEF ThreadWakeup, OwedSignal
  <2>2. CASE Waiting = {}
    <3>1. Waiting' = {}
      BY <1>8, <2>2 DEF ThreadWakeup, Waiting
    <3> QED
      BY <3>1 DEF WorkConserving
  <2>3. CASE Waiting # {}
    <3>1. PICK w \in Waiting : pc' = [pc EXCEPT ![w] = "relock"]
      BY <1>8, <2>3 DEF ThreadWakeup
    <3>2. w \in Worker /\ w \notin Heading /\ Heading' = Heading \cup {w}
      BY <3>1, <1>0 DEF Heading, Waiting, PoolTypeOK
    <3>3. Cardinality(Heading') = Cardinality(Heading) + 1
      BY <3>2, <1>0, HeadingGains
    <3> QED
      BY <2>1, <2>3, <3>3, <1>f DEF WorkConserving
  <2> QED
    BY <2>2, <2>3
<1>9. ASSUME NEW w \in Worker, Lock(w) \/ WaitReturn(w) \/ LeaveLoop(w) \/ UnLock(w)
      PROVE  WorkConserving'
  <2>1. Heading' = Heading /\ Waiting' = Waiting
    BY <1>9, <1>0 DEF Lock, WaitReturn, LeaveLoop, UnLock, Heading, Waiting, PoolTypeOK
  <2>2. task_queue' = task_queue /\ OwedSignal' = OwedSignal
    BY <1>9 DEF Lock, WaitReturn, LeaveLoop, UnLock, OwedSignal, workerUnchanged
  <2> QED
    BY <2>1, <2>2, ConservingUnchanged
<1>10. ASSUME NEW w \in Worker, ThreadWait(w)
       PROVE  WorkConserving'
  <2>1. Len(task_queue') = 0
    BY <1>10 DEF ThreadWait, TaskQueueIsEmpty
  <2>2. Cardinality(Heading') \in Nat /\ OwedSignal' \in Nat
    <3>1. IsFiniteSet(Heading')
      BY PoolAssumption, FS_Subset DEF Heading
    <3> QED
      BY <3>1, FS_CardinalityType DEF OwedSignal
  <2> QED
    BY <2>1, <2>2 DEF WorkConserving
<1>11. ASSUME NEW w \in Worker, SpuriousWakeup(w) \/ ProcessOn(w)
       PROVE  WorkConserving'
  <2>1. w \notin Heading /\ Heading' = Heading \cup {w} /\ Waiting' \subseteq Waiting
    BY <1>11, <1>0 DEF SpuriousWakeup, ProcessOn, Heading, Waiting, PoolTypeOK
  <2>2. task_queue' = task_queue /\ OwedSignal' = OwedSignal /\ OwedSignal \in Nat
    BY <1>11 DEF SpuriousWakeup, ProcessOn, OwedSignal, workerUnchanged
  <2>3. Cardinality(Heading') = Cardinality(Heading) + 1
    BY <2>1, <1>0, HeadingGains
  <2> QED
    BY <2>1, <2>2, <2>3, <1>f DEF WorkConserving
<1>12. ASSUME NEW w \in Worker, PopTask(w)
       PROVE  WorkConserving'
  <2>1. w \in Heading /\ Heading' = Heading \ {w} /\ Waiting' = Waiting
    BY <1>12, <1>0 DEF PopTask, Heading, Waiting, PoolTypeOK
  <2>2. Len(task_queue') = Len(task_queue) - 1
    BY <1>12, <1>0 DEF PopTask, PoolTypeOK, NeverPopsEmpty
  <2>3. OwedSignal' = OwedSignal /\ OwedSignal \in Nat
    BY <1>12 DEF PopTask, OwedSignal, workerUnchanged
  <2>4. Cardinality(Heading') = Cardinality(Heading) - 1
    BY <2>1, <1>0, HeadingLoses
  <2> QED
    BY <2>1, <2>2, <2>3, <2>4, <1>f DEF WorkConserving
<1>13. CASE UNCHANGED poolVars
  BY <1>13, ConservingUnchanged DEF poolVars, OwedSignal, Heading, Waiting
<1> QED
  BY <1>1, <1>2, <1>3, <1>4, <1>5, <1>6, <1>7, <1>8, <1>9, <1>10, <1>11,
     <1>12, <1>13
     DEF PoolNext, MainStep, RoutineStep

\* While a worker sleeps, every queued task has a worker on its way to it or
\* a signal still to come: PushTask may signal after it released the mutex.
THEOREM PoolWorkConserving == PoolSpec => []WorkConserving
BY PoolInvariant, WorkConservingInit, WorkConservingStep, PTL DEF PoolSpec

-----------------------------------------------------------------------------
(* Refinement of TaskQueue *)

LEMMA QueueInitRefined == PoolInit => Queue!QueueInit
BY DEF PoolInit, Queue!QueueInit

LEMMA QueueStepRefined ==
    PoolInv /\ [PoolNext]_poolVars => [Queue!QueueNext]_Queue!queueVars
<1> SUFFICES ASSUME PoolInv, [PoolNext]_poolVars
             PROVE  Queue!QueueNext \/ UNCHANGED Queue!queueVars
  OBVIOUS
<1>0. PoolTypeOK /\ TasksHeld /\ NeverPopsEmpty
  BY DEF PoolInv
<1>1. CASE Push
  <2>1. mainTask \in Task
    BY <1>1, <1>0 DEF Push, TasksHeld, PoolTypeOK
  <2>2. Queue!Submit(mainTask)
    BY <1>1 DEF Push, Queue!Submit
  <2> QED
    BY <2>1, <2>2 DEF Queue!QueueNext
<1>2. ASSUME NEW w \in Worker, PopTask(w)
      PROVE  Queue!QueueNext
  <2>1. Queue!Take(w)
    BY <1>2, <1>0 DEF PopTask, Queue!Take, TasksHeld, NeverPopsEmpty
  <2> QED
    BY <2>1 DEF Queue!QueueNext
<1>3. ASSUME NEW w \in Worker, ProcessOn(w)
      PROVE  Queue!QueueNext
  <2>1. Queue!Finish(w)
    BY <1>3, <1>0 DEF ProcessOn, Queue!Finish, TasksHeld
  <2> QED
    BY <2>1 DEF Queue!QueueNext
<1>4. ASSUME NEW w \in Worker, \/ SpuriousWakeup(w) \/ Lock(w) \/ LeaveLoop(w)
                               \/ ThreadWait(w) \/ WaitReturn(w) \/ UnLock(w)
      PROVE  UNCHANGED Queue!queueVars
  BY <1>4 DEF SpuriousWakeup, Lock, LeaveLoop, ThreadWait, WaitReturn, UnLock,
              Queue!queueVars
<1>5. ASSUME \/ \E t \in Task : CallPushTask(t)
             \/ GetInstance \/ \E w \in Worker : CreateThread(w)
             \/ InitThreadPoolReturn \/ PushLock \/ PushUnLock \/ ThreadWakeup
             \/ UNCHANGED poolVars
      PROVE  UNCHANGED Queue!queueVars
  BY <1>5 DEF CallPushTask, GetInstance, CreateThread, InitThreadPoolReturn,
              PushLock, PushUnLock, ThreadWakeup, poolVars, Queue!queueVars
<1> QED
  BY <1>1, <1>2, <1>3, <1>4, <1>5 DEF PoolNext, MainStep, RoutineStep

\* Every task pushed is taken by one worker, in order, one at a time.
THEOREM PoolImplementsTaskQueue == PoolSpec => ImplementsTaskQueue
BY PoolInvariant, QueueInitRefined, QueueStepRefined, PTL
   DEF PoolSpec, ImplementsTaskQueue, Queue!QueueSpec

=============================================================================
