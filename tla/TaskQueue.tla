------------------------------ MODULE TaskQueue ------------------------------
(***************************************************************************)
(* What class ThreadPool (MinHttp/ThreadPool.hpp) promises to HttpServer:  *)
(* a first-in first-out queue of tasks, each handed to exactly one worker, *)
(* a worker holding one task at a time.  No locks, no condition variable,  *)
(* no thread creation: those are how ThreadPool.tla keeps the promise.     *)
(***************************************************************************)
EXTENDS Sequences

CONSTANTS Worker,   \* the threads that may take tasks
          Task,     \* the values of type Task (a connected socket each)
          NoTask    \* what a worker holds between two tasks, not in Task

VARIABLES queue,    \* tasks submitted and not yet taken, oldest first
          holding   \* the task each worker is working on

queueVars == <<queue, holding>>

QueueInit ==
    /\ queue = <<>>
    /\ holding = [w \in Worker |-> NoTask]

\* HttpServer::Loop hands over a task; it goes to the back of the queue.
Submit(t) ==
    /\ queue' = Append(queue, t)
    /\ UNCHANGED holding

\* An unoccupied worker takes the oldest task.
Take(w) ==
    /\ queue # <<>>
    /\ holding[w] = NoTask
    /\ holding' = [holding EXCEPT ![w] = Head(queue)]
    /\ queue' = Tail(queue)

\* A worker is done with its task, and only then free for another one.
Finish(w) ==
    /\ holding[w] # NoTask
    /\ holding' = [holding EXCEPT ![w] = NoTask]
    /\ UNCHANGED queue

QueueNext ==
    \/ \E t \in Task : Submit(t)
    \/ \E w \in Worker : Take(w) \/ Finish(w)

QueueSpec == QueueInit /\ [][QueueNext]_queueVars

=============================================================================
