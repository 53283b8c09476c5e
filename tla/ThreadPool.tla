------------------------------ MODULE ThreadPool ------------------------------
(***************************************************************************)
(* Class ThreadPool of MinHttp/ThreadPool.hpp: one mutex, one condition    *)
(* variable, a queue of tasks, one producer (the thread that runs          *)
(* HttpServer::Loop) and the worker threads that run ThreadRoutine.        *)
(*                                                                         *)
(* The mutex and the condition variable are POSIX's: pthread_cond_wait     *)
(* releases the mutex and blocks in one step and re-acquires it before it  *)
(* returns; pthread_cond_signal wakes one blocked thread, if there is any, *)
(* and is not remembered otherwise; a wait may return without a signal.    *)
(***************************************************************************)
EXTENDS Naturals, Sequences, FiniteSets

CONSTANTS Worker,      \* the threads InitThreadPool tries to create (NUM)
          Task,        \* the values a Task can have
          NoTask,      \* a worker's local task outside its critical section
          Main,        \* the thread of HttpServer::Loop
          Nobody,      \* "owner" of the mutex when it is free
          MinWorkers,  \* how many pthread_create calls are sure to succeed
          MaxQueue     \* bound of the model on the length of task_queue

ASSUME PoolAssumption ==
    /\ IsFiniteSet(Worker)
    /\ NoTask \notin Task
    /\ Main \notin Worker /\ Nobody \notin Worker /\ Main # Nobody
    /\ MinWorkers \in Nat
    /\ MaxQueue \in Nat

VARIABLES
    single_instance,  \* is ThreadPool::single_instance set?
    task_queue,       \* ThreadPool::task_queue
    lock,             \* the owner of ThreadPool::_lock
    pc,               \* where each worker is in ThreadRoutine
    task,             \* each worker's local variable task
    main,             \* where the producer is in GetInstance and PushTask
    mainTask          \* the argument of the producer's PushTask

poolVars == <<single_instance, task_queue, lock, pc, task, main, mainTask>>

\* A thread that pthread_create has not (or never) started is "unborn"; one
\* inside pthread_cond_wait is blocked ("wait") or woken and in need of the
\* mutex ("relock").
WorkerPc == {"unborn", "lock", "test", "wait", "relock", "pop", "unlock", "process"}
MainPc   == {"idle", "instance", "create", "lock", "push", "unlock", "signal"}

Created == {w \in Worker : pc[w] # "unborn"}
Waiting == {w \in Worker : pc[w] = "wait"}

PoolInit ==
    /\ single_instance = FALSE
    /\ task_queue = <<>>
    /\ lock = Nobody
    /\ pc = [w \in Worker |-> "unborn"]
    /\ task = [w \in Worker |-> NoTask]
    /\ main = "idle"
    /\ mainTask = NoTask

-----------------------------------------------------------------------------
(* The producer: ThreadPool::GetInstance()->PushTask(task) *)

\* bool TaskQueueIsEmpty()
TaskQueueIsEmpty == task_queue = <<>>

\* The call of Loop.  MaxQueue bounds the model; std::queue has no bound.
CallPushTask(t) ==
    /\ main = "idle"
    /\ Len(task_queue) < MaxQueue
    /\ mainTask' = t
    /\ main' = "instance"
    /\ UNCHANGED <<single_instance, task_queue, lock, pc, task>>

\* Mutant: without a single thread, the next call tries again to create some.
GetInstance_Retries ==
    /\ main = "instance"
    /\ main' = IF single_instance /\ Created # {} THEN "lock" ELSE "create"
    /\ single_instance' = TRUE
    /\ UNCHANGED <<task_queue, lock, pc, task, mainTask>>

\* static ThreadPool *GetInstance(): the first call constructs the pool and
\* starts InitThreadPool.
GetInstance ==
    /\ main = "instance"
    /\ main' = IF single_instance THEN "lock" ELSE "create"
    /\ single_instance' = TRUE
    /\ UNCHANGED <<task_queue, lock, pc, task, mainTask>>

\* One successful pthread_create of the loop in InitThreadPool.
CreateThread(w) ==
    /\ main = "create"
    /\ pc[w] = "unborn"
    /\ pc' = [pc EXCEPT ![w] = "lock"]
    /\ UNCHANGED <<single_instance, task_queue, lock, task, main, mainTask>>

\* InitThreadPool returns: all threads created, or the first failure of
\* pthread_create.  GetInstance ignores which and returns the pool.
InitThreadPoolReturn ==
    /\ main = "create"
    /\ Created = Worker \/ Cardinality(Created) >= MinWorkers
    /\ main' = "lock"
    /\ UNCHANGED <<single_instance, task_queue, lock, pc, task, mainTask>>

\* PushTask: Lock()
PushLock ==
    /\ main = "lock"
    /\ lock = Nobody
    /\ lock' = Main
    /\ main' = "push"
    /\ UNCHANGED <<single_instance, task_queue, pc, task, mainTask>>

\* Mutant: a default-constructed Task, whose _sock nobody set, is pushed.
Push_DefaultTask ==
    /\ main = "push"
    /\ task_queue' = Append(task_queue, NoTask)
    /\ main' = "unlock"
    /\ UNCHANGED <<single_instance, lock, pc, task, mainTask>>

\* PushTask: task_queue.push(task)
Push ==
    /\ main = "push"
    /\ task_queue' = Append(task_queue, mainTask)
    /\ main' = "unlock"
    /\ UNCHANGED <<single_instance, lock, pc, task, mainTask>>

\* PushTask: UnLock()
PushUnLock ==
    /\ main = "unlock"
    /\ lock' = Nobody
    /\ main' = "signal"
    /\ UNCHANGED <<single_instance, task_queue, pc, task, mainTask>>

\* Mutant: signal only on the transition from an empty queue to one task.
ThreadWakeup_IfWasEmpty ==
    /\ main = "signal"
    /\ IF Waiting # {} /\ Len(task_queue) = 1
       THEN \E w \in Waiting : pc' = [pc EXCEPT ![w] = "relock"]
       ELSE UNCHANGED pc
    /\ main' = "idle"
    /\ mainTask' = NoTask
    /\ UNCHANGED <<single_instance, task_queue, lock, task>>

\* Mutant: PushTask without its call of ThreadWakeup.
ThreadWakeup_Missing ==
    /\ main = "signal"
    /\ main' = "idle"
    /\ mainTask' = NoTask
    /\ UNCHANGED <<single_instance, task_queue, lock, pc, task>>

\* PushTask: ThreadWakeup(), the signal, sent after the mutex is released;
\* then PushTask returns to Loop.
ThreadWakeup ==
    /\ main = "signal"
    /\ IF Waiting # {}
       THEN \E w \in Waiting : pc' = [pc EXCEPT ![w] = "relock"]
       ELSE UNCHANGED pc
    /\ main' = "idle"
    /\ mainTask' = NoTask
    /\ UNCHANGED <<single_instance, task_queue, lock, task>>

-----------------------------------------------------------------------------
(* The workers: ThreadPool::ThreadRoutine *)

workerUnchanged == UNCHANGED <<single_instance, main, mainTask>>

\* tp->Lock()
Lock(w) ==
    /\ pc[w] = "lock"
    /\ lock = Nobody
    /\ lock' = w
    /\ pc' = [pc EXCEPT ![w] = "test"]
    /\ UNCHANGED <<task_queue, task>> /\ workerUnchanged

\* while (tp->TaskQueueIsEmpty()) tp->ThreadWait(): the loop's condition is
\* false and the loop is left, ...
LeaveLoop(w) ==
    /\ pc[w] = "test"
    /\ ~TaskQueueIsEmpty
    /\ pc' = [pc EXCEPT ![w] = "pop"]
    /\ UNCHANGED <<task_queue, lock, task>> /\ workerUnchanged

\* ... or it is true and pthread_cond_wait releases the mutex and blocks.
ThreadWait(w) ==
    /\ pc[w] = "test"
    /\ TaskQueueIsEmpty
    /\ lock' = Nobody
    /\ pc' = [pc EXCEPT ![w] = "wait"]
    /\ UNCHANGED <<task_queue, task>> /\ workerUnchanged

\* pthread_cond_wait may return although nobody signalled.
SpuriousWakeup(w) ==
    /\ pc[w] = "wait"
    /\ pc' = [pc EXCEPT ![w] = "relock"]
    /\ UNCHANGED <<task_queue, lock, task>> /\ workerUnchanged

\* Mutant: the commented-out `if (tp->TaskQueueIsEmpty())' of line 57: a
\* thread that was woken does not test the queue again.
WaitReturn_If(w) ==
    /\ pc[w] = "relock"
    /\ lock = Nobody
    /\ lock' = w
    /\ pc' = [pc EXCEPT ![w] = "pop"]
    /\ UNCHANGED <<task_queue, task>> /\ workerUnchanged

\* Mutant: the woken thread goes on without owning the mutex again.
WaitReturn_NoMutex(w) ==
    /\ pc[w] = "relock"
    /\ pc' = [pc EXCEPT ![w] = "test"]
    /\ UNCHANGED <<task_queue, lock, task>> /\ workerUnchanged

\* pthread_cond_wait re-acquires the mutex and returns into the while loop.
WaitReturn(w) ==
    /\ pc[w] = "relock"
    /\ lock = Nobody
    /\ lock' = w
    /\ pc' = [pc EXCEPT ![w] = "test"]
    /\ UNCHANGED <<task_queue, task>> /\ workerUnchanged

\* Mutant: the task is copied from the queue and left in it.
PopTask_FrontOnly(w) ==
    /\ pc[w] = "pop"
    /\ task' = [task EXCEPT ![w] = Head(task_queue)]
    /\ pc' = [pc EXCEPT ![w] = "unlock"]
    /\ UNCHANGED <<task_queue, lock>> /\ workerUnchanged

\* tp->PopTask(task)
PopTask(w) ==
    /\ pc[w] = "pop"
    /\ task' = [task EXCEPT ![w] = Head(task_queue)]
    /\ task_queue' = Tail(task_queue)
    /\ pc' = [pc EXCEPT ![w] = "unlock"]
    /\ UNCHANGED lock /\ workerUnchanged

\* tp->UnLock()
UnLock(w) ==
    /\ pc[w] = "unlock"
    /\ lock' = Nobody
    /\ pc' = [pc EXCEPT ![w] = "process"]
    /\ UNCHANGED <<task_queue, task>> /\ workerUnchanged

\* task.ProcessOn() returns; the local task dies with the loop's iteration.
ProcessOn(w) ==
    /\ pc[w] = "process"
    /\ task' = [task EXCEPT ![w] = NoTask]
    /\ pc' = [pc EXCEPT ![w] = "lock"]
    /\ UNCHANGED <<task_queue, lock>> /\ workerUnchanged

-----------------------------------------------------------------------------
\* The steps PushTask takes by itself once it is called, ...
MainStep ==
    \/ GetInstance
    \/ \E w \in Worker : CreateThread(w)
    \/ InitThreadPoolReturn
    \/ PushLock \/ Push \/ PushUnLock \/ ThreadWakeup

\* ... and those of ThreadRoutine except the handler of the task.
RoutineStep(w) ==
    \/ Lock(w) \/ LeaveLoop(w) \/ ThreadWait(w) \/ WaitReturn(w)
    \/ PopTask(w) \/ UnLock(w)

PoolNext ==
    \/ \E t \in Task : CallPushTask(t)
    \/ MainStep
    \/ \E w \in Worker : RoutineStep(w) \/ SpuriousWakeup(w) \/ ProcessOn(w)

PoolSpec == PoolInit /\ [][PoolNext]_poolVars

(***************************************************************************)
(* Fairness.  Every thread inside the pool's own code keeps running.  A    *)
(* thread that wants the mutex gets it if the mutex is free again and      *)
(* again (the futex queue of the C library starves nobody for ever).       *)
(* ProcessOn waits for a client or a CGI program, so it is only assumed to *)
(* return in the workers of the set R.  Loop need not call PushTask, and   *)
(* spurious wakeups need not happen.                                       *)
(***************************************************************************)
PoolFairness(R) ==
    /\ WF_poolVars(MainStep) /\ SF_poolVars(PushLock)
    /\ \A w \in Worker : /\ WF_poolVars(RoutineStep(w))
                         /\ SF_poolVars(Lock(w)) /\ SF_poolVars(WaitReturn(w))
    /\ \A w \in R : WF_poolVars(ProcessOn(w))

-----------------------------------------------------------------------------
(* Properties *)

PoolTypeOK ==
    /\ single_instance \in BOOLEAN
    /\ task_queue \in Seq(Task)
    /\ lock \in Worker \cup {Main, Nobody}
    /\ pc \in [Worker -> WorkerPc]
    /\ task \in [Worker -> Task \cup {NoTask}]
    /\ main \in MainPc
    /\ mainTask \in Task \cup {NoTask}

\* The mutex is owned exactly by the thread that is between Lock (or the
\* return of pthread_cond_wait) and UnLock, so the std::queue, which is not
\* thread-safe, is touched by one thread at a time.
LockDiscipline ==
    /\ \A w \in Worker : pc[w] \in {"test", "pop", "unlock"} <=> lock = w
    /\ main \in {"push", "unlock"} <=> lock = Main

\* No thread calls front() and pop() on an empty queue (undefined behaviour),
\* whatever other workers took between the signal and the return of the wait.
\* This is what the while loop of ThreadRoutine is for.
NeverPopsEmpty ==
    \A w \in Worker : pc[w] = "pop" => task_queue # <<>>

\* The workers that will look at the queue before they block or take up a
\* handler, and the signal PushTask still owes.
Heading == {w \in Worker : pc[w] \in {"lock", "test", "relock", "pop"}}
OwedSignal == IF main \in {"unlock", "signal"} THEN 1 ELSE 0

\* No lost wakeup: while any worker sleeps in ThreadWait, every queued task
\* has a worker on its way to it or a signal still to be sent for it.  So no
\* task waits behind busy workers while an idle one sleeps, although the
\* signal is sent outside the mutex and a woken worker may find its task gone.
WorkConserving ==
    Waiting # {} => Len(task_queue) <= Cardinality(Heading) + OwedSignal

\* If InitThreadPool could not create a single thread, GetInstance's test of
\* single_instance makes that final: no later call creates one, PushTask goes
\* on as if nothing was wrong, and no task ever leaves the queue.
Stranded == single_instance /\ main # "create" /\ Created = {}
StrandedForEver ==
    [][Stranded => /\ Stranded'
                   /\ SubSeq(task_queue', 1, Len(task_queue)) = task_queue]_poolVars

\* Refinement: every task pushed is taken by exactly one worker, in the order
\* of the pushes, and by a worker that has no other task (TaskQueue).
Queue == INSTANCE TaskQueue WITH queue <- task_queue, holding <- task
ImplementsTaskQueue == Queue!QueueSpec

\* A queued task is eventually taken by a worker, even if the handlers of all
\* workers but one (a worker of R that could be created) never return.
EveryTaskTaken(R) ==
    \A t \in Task :
        (\E i \in DOMAIN task_queue : task_queue[i] = t) /\ Created \cap R # {}
            ~> (\E w \in Worker : task[w] = t)

=============================================================================
