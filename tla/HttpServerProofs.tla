---------------------------- MODULE HttpServerProofs ----------------------------
(***************************************************************************)
(* Theorems about HttpServer, for any connections, workers and             *)
(* descriptors, any backlog, and any number of failures.                   *)
(***************************************************************************)
EXTENDS HttpServer, ThreadPoolProofs, LeastNumbers

\* The number f is still to be handled: Loop's call has it, or it is in the
\* queue, or with a worker.
HasTask == main \in {"instance", "create", "lock", "push"}
IsPending(f) ==
    \/ HasTask /\ mainTask = f
    \/ \E i \in DOMAIN task_queue : task_queue[i] = f
    \/ \E w \in Worker : task[w] = f

\* It is in one of these places only, and there once.
Once(f) ==
    /\ HasTask /\ mainTask = f =>
          /\ \A i \in DOMAIN task_queue : task_queue[i] # f
          /\ \A w \in Worker : task[w] # f
    /\ \A i \in DOMAIN task_queue :
          task_queue[i] = f => \A w \in Worker : task[w] # f
    /\ \A i, j \in DOMAIN task_queue :
          task_queue[i] = f /\ task_queue[j] = f => i = j
    /\ \A v, w \in Worker : task[v] = f /\ task[w] = f => v = w

\* The numbers that wait to be handled are those of connections.
Numbers == \A f \in Fd : Once(f) /\ (IsPending(f) <=> table[f] \in Conn)

\* Each accepted connection has one number, and no other has any.
Sockets ==
    /\ \A f \in Fd : table[f] \in Conn => conn[table[f]] = "accepted"
    /\ \A f, g \in Fd : table[f] \in Conn /\ table[f] = table[g] => f = g
    /\ \A c \in Conn : conn[c] = "accepted" => \E f \in Fd : table[f] = c

\* No connection is accepted twice.
BacklogOnce ==
    /\ \A i \in DOMAIN backlog : conn[backlog[i]] = "backlog"
    /\ \A i, j \in DOMAIN backlog : backlog[i] = backlog[j] => i = j

\* The inductive invariant.  That the kernel gives no number to two owners is
\* Numbers (what is free is not pending) together with DescriptorsAccounted.
HttpInv ==
    /\ PoolInv /\ HttpTypeOK
    /\ Numbers /\ Sockets /\ BacklogOnce
    /\ DescriptorsAccounted

-----------------------------------------------------------------------------
(* The kernel's choice of numbers *)

\* If n numbers are lower than all others, and there is another, n + 1 are.
Lower(S, n) == /\ S \in SUBSET FreeFds /\ Cardinality(S) = n
               /\ \A f \in S, g \in FreeFds \ S : f < g

LEMMA OneMoreLower ==
    ASSUME NEW n \in Nat, NEW S, Lower(S, n), n < Cardinality(FreeFds)
    PROVE  \E T : Lower(T, n + 1)
<1>1. IsFiniteSet(FreeFds) /\ FreeFds \in SUBSET Nat
  BY HttpServerAssumption, FS_Subset DEF FreeFds
<1>2. FreeFds \ S # {}
  BY DEF Lower
<1>3. PICK m \in FreeFds \ S : \A g \in FreeFds \ S : m <= g
  BY <1>1, <1>2, LeastNumber
<1>4. IsFiniteSet(S)
  BY <1>1, FS_Subset DEF Lower
<1>5. Cardinality(S \cup {m}) = n + 1
  BY <1>3, <1>4, FS_AddElement DEF Lower
<1>6. \A f \in S \cup {m}, g \in FreeFds \ (S \cup {m}) : f < g
  BY <1>1, <1>3 DEF Lower
<1>7. Lower(S \cup {m}, n + 1)
  BY <1>3, <1>5, <1>6 DEF Lower
<1> QED
  BY <1>7

\* What Lowest chooses exists: as many free numbers as were asked for.
LEMMA LowestFree ==
    ASSUME NEW n \in {1, 2}, n <= Cardinality(FreeFds)
    PROVE  Lowest(n) \in SUBSET FreeFds /\ Cardinality(Lowest(n)) = n
<1>1. IsFiniteSet(FreeFds) /\ Cardinality(FreeFds) \in Nat
  BY HttpServerAssumption, FS_Subset, FS_CardinalityType DEF FreeFds
<1>2. Lower({}, 0)
  BY FS_EmptySet DEF Lower
<1>3. \E S : Lower(S, 1)
  BY <1>1, <1>2, OneMoreLower
<1>4. n > 1 => \E S : Lower(S, 2)
  BY <1>1, <1>3, OneMoreLower
<1>5. \E S : Lower(S, n)
  BY <1>3, <1>4
<1>6. \E S \in SUBSET FreeFds :
          Cardinality(S) = n /\ \A f \in S, g \in FreeFds \ S : f < g
  BY <1>5 DEF Lower
<1> QED
  BY <1>6 DEF Lowest

LEMMA LowestOne ==
    ASSUME FreeFds # {}
    PROVE  \E f \in FreeFds : Lowest(1) = {f}
<1>1. IsFiniteSet(FreeFds) /\ Cardinality(FreeFds) \in Nat /\ Cardinality(FreeFds) # 0
  BY HttpServerAssumption, FS_Subset, FS_CardinalityType, FS_EmptySet DEF FreeFds
<1>2. Lowest(1) \in SUBSET FreeFds /\ Cardinality(Lowest(1)) = 1
  BY <1>1, LowestFree
<1>3. IsFiniteSet(Lowest(1))
  BY <1>1, <1>2, FS_Subset
<1>4. \E x : Lowest(1) = {x}
  BY <1>2, <1>3, FS_Singleton
<1> QED
  BY <1>2, <1>4

-----------------------------------------------------------------------------
(* The server is a user of the pool *)

\* Every step of the server is one the pool expects, or none of the pool's.
LEMMA HttpStepIsPoolStep == [HttpNext]_allVars => [PoolNext]_poolVars
<1> SUFFICES ASSUME [HttpNext]_allVars
             PROVE  [PoolNext]_poolVars
  OBVIOUS
<1>1. CASE Start \/ (\E c \in Conn : Connect(c)) \/ UNCHANGED allVars
  BY <1>1 DEF Start, StartStep, Connect, allVars
<1>2. CASE Accept
  <2>1. PICK f \in Lowest(1) : CallPushTask(f)
    BY <1>2 DEF Accept
  <2>2. FreeFds # {}
    BY <1>2 DEF Accept
  <2>3. f \in Task
    BY <2>1, <2>2, LowestOne, HttpServerAssumption DEF FreeFds
  <2> QED
    BY <2>1, <2>3 DEF PoolNext
<1>3. CASE AcceptFails
  BY <1>3, HttpServerAssumption DEF AcceptFails, PoolNext
<1>4. CASE PushTaskStep
  BY <1>4 DEF PushTaskStep, PoolNext
<1>5. ASSUME NEW w \in Worker, PoolStep(w)
      PROVE  PoolNext
  BY <1>5 DEF PoolStep, PoolNext
<1>6. ASSUME NEW w \in Worker, HandlerWorks(w)
      PROVE  UNCHANGED poolVars
  BY <1>6 DEF HandlerWorks, OpenFile, PipeInput, CallStep, PipeOutput, Fork, CgiFails,
              CloseChildEnds, Release, handlerUnchanged
<1>7. ASSUME NEW w \in Worker, HandlerReturns(w)
      PROVE  PoolNext
  BY <1>7 DEF HandlerReturns, PoolNext
<1> QED
  BY <1>1, <1>2, <1>3, <1>4, <1>5, <1>6, <1>7 DEF HttpNext

\* So all that is proved of the pool holds of it inside the server.
THEOREM HttpImplementsPool == HttpSpec => PoolSpec
BY HttpStepIsPoolStep, PTL DEF HttpSpec, HttpInit, PoolSpec

\* PushTask hands its number on to the queue, ...
LEMMA PushKeepsPlaces ==
    ASSUME PoolInv, Push, NEW f \in Fd
    PROVE  /\ IsPending(f)' <=> IsPending(f)
           /\ Once(f) => Once(f)'
<1> USE DEF PoolInv, PoolTypeOK
<1>1. HasTask /\ ~HasTask' /\ UNCHANGED <<task, mainTask>>
  BY DEF Push, HasTask
<1>2. /\ Len(task_queue) \in Nat /\ Len(task_queue') = Len(task_queue) + 1
      /\ DOMAIN task_queue = 1..Len(task_queue) /\ DOMAIN task_queue' = 1..Len(task_queue')
      /\ \A i \in DOMAIN task_queue : task_queue'[i] = task_queue[i]
      /\ task_queue'[Len(task_queue')] = mainTask
  <2>1. mainTask \in Task
    BY DEF Push, TasksHeld
  <2> QED
    BY <2>1 DEF Push
<1>3. IsPending(f)' <=> IsPending(f)
  BY <1>1, <1>2 DEF IsPending
<1>4. ASSUME Once(f)
      PROVE  Once(f)'
  BY <1>1, <1>2, <1>4 DEF Once
<1> QED
  BY <1>3, <1>4

\* ... and PopTask from the queue to a worker that had none.
LEMMA PopKeepsPlaces ==
    ASSUME PoolInv, NEW w \in Worker, PopTask(w), NEW f \in Fd
    PROVE  /\ IsPending(f)' <=> IsPending(f)
           /\ Once(f) => Once(f)'
<1> USE DEF PoolInv, PoolTypeOK
<1>1. UNCHANGED <<HasTask, mainTask>>
  BY DEF PopTask, workerUnchanged, HasTask
<1>2. /\ Len(task_queue) \in Nat /\ Len(task_queue') = Len(task_queue) - 1
      /\ DOMAIN task_queue = 1..Len(task_queue) /\ DOMAIN task_queue' = 1..Len(task_queue')
      /\ Len(task_queue) > 0
      /\ \A i \in DOMAIN task_queue' : task_queue'[i] = task_queue[i + 1]
  BY DEF PopTask, NeverPopsEmpty
<1>3. /\ task[w] = NoTask /\ task'[w] = task_queue[1]
      /\ \A v \in Worker : v # w => task'[v] = task[v]
  BY <1>2 DEF PopTask, TasksHeld
<1>4. f # NoTask
  BY PoolAssumption, HttpServerAssumption
<1>5. \A i \in DOMAIN task_queue : i = 1 \/ i - 1 \in DOMAIN task_queue'
  BY <1>2
<1>6. \A i \in DOMAIN task_queue : i # 1 => task_queue'[i - 1] = task_queue[i]
  BY <1>2
<1>7. IsPending(f)' <=> IsPending(f)
  <2>1. IsPending(f) => IsPending(f)'
    BY <1>1, <1>3, <1>4, <1>5, <1>6 DEF IsPending
  <2>2. IsPending(f)' => IsPending(f)
    BY <1>1, <1>2, <1>3, <1>4 DEF IsPending
  <2> QED
    BY <2>1, <2>2
<1>8. ASSUME Once(f)
      PROVE  Once(f)'
  BY <1>1, <1>2, <1>3, <1>4, <1>8 DEF Once
<1> QED
  BY <1>7, <1>8

\* All other steps of the pool leave every number where it is.
LEMMA OthersKeepPlaces ==
    ASSUME PoolInv, NEW f \in Fd,
           \/ MainStep /\ ~Push
           \/ \E w \in Worker : (RoutineStep(w) /\ ~PopTask(w)) \/ SpuriousWakeup(w)
    PROVE  /\ IsPending(f)' <=> IsPending(f)
           /\ Once(f) => Once(f)'
<1>1. UNCHANGED <<task_queue, task>>
  BY DEF MainStep, GetInstance, CreateThread, InitThreadPoolReturn, PushLock, PushUnLock,
         ThreadWakeup, RoutineStep, Lock, LeaveLoop, ThreadWait, WaitReturn, UnLock,
         SpuriousWakeup
<1>2. HasTask' <=> HasTask
  BY DEF HasTask, MainStep, GetInstance, CreateThread, InitThreadPoolReturn, PushLock,
         PushUnLock, ThreadWakeup, RoutineStep, Lock, LeaveLoop, ThreadWait, WaitReturn,
         UnLock, SpuriousWakeup, workerUnchanged
<1>3. HasTask => mainTask' = mainTask
  BY DEF HasTask, MainStep, GetInstance, CreateThread, InitThreadPoolReturn, PushLock,
         PushUnLock, ThreadWakeup, RoutineStep, Lock, LeaveLoop, ThreadWait, WaitReturn,
         UnLock, SpuriousWakeup, workerUnchanged
<1> QED
  BY <1>1, <1>2, <1>3 DEF IsPending, Once

LEMMA PoolKeepsPlaces ==
    ASSUME PoolInv, NEW f \in Fd,
           MainStep \/ \E w \in Worker : RoutineStep(w) \/ SpuriousWakeup(w)
    PROVE  /\ IsPending(f)' <=> IsPending(f)
           /\ Once(f) => Once(f)'
  BY PushKeepsPlaces, PopKeepsPlaces, OthersKeepPlaces

-----------------------------------------------------------------------------
(* The invariant *)

USE DEF callVars

LEMMA HttpInvInit == HttpInit => HttpInv
<1> SUFFICES ASSUME HttpInit
             PROVE  HttpInv
  OBVIOUS
<1> USE HttpServerAssumption DEF HttpInit
<1>1. PoolInv
  BY PoolInvInit
<1>2. HttpTypeOK
  <2>1. backlog \in Seq(Conn) /\ Len(backlog) <= Backlog
    OBVIOUS
  <2> QED
    BY <1>1, <2>1 DEF HttpTypeOK, PoolInv
<1>3. Numbers
  BY PoolAssumption DEF PoolInit, Numbers, Once, IsPending, HasTask
<1>4. Sockets /\ BacklogOnce
  BY DEF Sockets, BacklogOnce
<1>5. DescriptorsAccounted
  BY DEF DescriptorsAccounted, Leaked
<1> QED
  BY <1>1, <1>2, <1>3, <1>4, <1>5 DEF HttpInv

\* What the server itself opens, closes or leaks is nobody's connection.
LEMMA SetKeepsSockets ==
    ASSUME HttpInv, NEW S \in SUBSET Fd, \A f \in S : table[f] \notin Conn,
           NEW what \in {"free", "file", "leaked"}, table' = Set(S, what),
           UNCHANGED <<poolVars, conn, backlog>>
    PROVE  Numbers' /\ Sockets' /\ BacklogOnce'
<1> USE DEF HttpInv
<1>1. /\ \A f \in Fd : table'[f] \in Conn <=> table[f] \in Conn
      /\ \A f \in Fd : table'[f] \in Conn => table'[f] = table[f]
  BY HttpServerAssumption DEF Set
<1>2. Numbers'
  BY <1>1 DEF Numbers, Once, IsPending, HasTask, poolVars
<1>3. Sockets'
  BY <1>1 DEF Sockets
<1>4. BacklogOnce'
  BY DEF BacklogOnce
<1> QED
  BY <1>2, <1>3, <1>4

\* A number a worker has to close is a connection's.
LEMMA HandlerHasSocket ==
    ASSUME HttpInv, NEW w \in Worker, pc[w] = "process", task[w] # BadSock
    PROVE  task[w] \in Fd /\ table[task[w]] \in Conn
<1>1. task[w] # NoTask /\ task[w] \in Task \cup {NoTask}
  BY DEF HttpInv, PoolInv, PoolTypeOK, TasksHeld
<1>2. task[w] \in Fd
  BY <1>1, HttpServerAssumption
<1>3. IsPending(task[w])
  BY DEF IsPending
<1> QED
  BY <1>2, <1>3 DEF HttpInv, Numbers

LEMMA StartKeepsInv ==
    ASSUME HttpInv, Start \/ UNCHANGED allVars
    PROVE  HttpInv'
<1>1. PoolInv'
  BY PoolInvStep DEF HttpInv, Start, StartStep, allVars
<1>2. UNCHANGED <<poolVars, backlog, conn, table, callVars, failures>>
  BY DEF Start, StartStep, allVars, httpVars
<1>3. HttpTypeOK'
  BY <1>1, <1>2 DEF HttpInv, HttpTypeOK, PoolInv, Start, StartStep, allVars, httpVars
<1> QED
  BY <1>1, <1>2, <1>3 DEF HttpInv, Numbers, Once, IsPending, HasTask, Sockets, BacklogOnce,
                          DescriptorsAccounted, Leaked, poolVars

LEMMA ConnectKeepsInv ==
    ASSUME HttpInv, NEW c \in Conn, Connect(c)
    PROVE  HttpInv'
<1> USE DEF HttpInv, Connect
<1>1. PoolInv'
  BY PoolInvStep
<1>2. /\ backlog' \in Seq(Conn) /\ Len(backlog') <= Backlog
      /\ conn' \in [Conn -> {"new", "backlog", "accepted", "closed"}]
  BY HttpServerAssumption DEF HttpTypeOK
<1>3. HttpTypeOK'
  BY <1>1, <1>2 DEF HttpTypeOK, PoolInv
<1>4. Numbers' /\ DescriptorsAccounted'
  BY DEF Numbers, Once, IsPending, HasTask, DescriptorsAccounted, Leaked, poolVars
<1>5. Sockets'
  BY DEF Sockets, HttpTypeOK
<1>6. BacklogOnce'
  <2>1. /\ DOMAIN backlog = 1..Len(backlog) /\ DOMAIN backlog' = 1..(Len(backlog) + 1)
        /\ Len(backlog) \in Nat
        /\ \A i \in DOMAIN backlog : backlog'[i] = backlog[i] /\ backlog[i] \in Conn
        /\ backlog'[Len(backlog) + 1] = c
    BY DEF HttpTypeOK
  <2>2. \A i \in DOMAIN backlog : backlog[i] # c
    BY DEF BacklogOnce
  <2>3. \A i \in DOMAIN backlog' : i \in DOMAIN backlog \/ i = Len(backlog) + 1
    BY <2>1
  <2>4. conn'[c] = "backlog" /\ \A d \in Conn : d # c => conn'[d] = conn[d]
    BY DEF HttpTypeOK
  <2> QED
    BY <2>1, <2>2, <2>3, <2>4 DEF BacklogOnce
<1> QED
  BY <1>1, <1>3, <1>4, <1>5, <1>6

\* accept: the lowest number was free, so nobody has it yet, and the first
\* connection of the backlog has no number yet.
LEMMA AcceptKeepsInv ==
    ASSUME HttpInv, Accept
    PROVE  HttpInv'
<1> USE DEF HttpInv
<1> DEFINE c == Head(backlog)
<1>1. PICK f \in FreeFds : Lowest(1) = {f}
  BY LowestOne DEF Accept
<1>2. /\ CallPushTask(f)
      /\ f \in Fd /\ table[f] = "free"
      /\ table' = [table EXCEPT ![f] = c]
  BY <1>1 DEF Accept, FreeFds, Set, HttpTypeOK
<1>3. /\ c \in Conn /\ conn[c] = "backlog" /\ conn' = [conn EXCEPT ![c] = "accepted"]
      /\ c \notin {"free", "file", "leaked"}
  <2>1. 1 \in DOMAIN backlog /\ c = backlog[1] /\ c \in Conn
    BY DEF Accept, HttpTypeOK
  <2> QED
    BY <2>1, HttpServerAssumption DEF BacklogOnce, Accept
<1> HIDE DEF c
<1>4. PoolInv'
  BY <1>2, PoolInvStep, HttpServerAssumption DEF PoolNext
<1>5. /\ DOMAIN backlog = 1..Len(backlog) /\ DOMAIN backlog' = 1..Len(backlog')
      /\ Len(backlog) \in Nat /\ Len(backlog') = Len(backlog) - 1
      /\ backlog' \in Seq(Conn)
      /\ \A i \in DOMAIN backlog' : backlog'[i] = backlog[i + 1]
      /\ c = backlog[1] /\ 1 \in DOMAIN backlog
  BY DEF Accept, HttpTypeOK, c
<1>6. HttpTypeOK'
  <2>1. UNCHANGED <<server, exit_code, callVars, failures>>
    BY DEF Accept
  <2>2. /\ conn' \in [Conn -> {"new", "backlog", "accepted", "closed"}]
        /\ table' \in [Fd -> Conn \cup {"free", "file", "leaked"}]
    BY <1>2, <1>3 DEF HttpTypeOK
  <2>3. Len(backlog') <= Backlog
    BY <1>5, HttpServerAssumption DEF HttpTypeOK
  <2> QED
    BY <1>4, <1>5, <2>1, <2>2, <2>3 DEF HttpTypeOK, PoolInv
<1>7. \A g \in Fd : table'[g] = IF g = f THEN c ELSE table[g]
  BY <1>2 DEF HttpTypeOK
<1>8. \A d \in Conn : conn'[d] = IF d = c THEN "accepted" ELSE conn[d]
  BY <1>3 DEF HttpTypeOK
<1>9. Numbers'
  <2>1. ~IsPending(f)
    BY <1>2, HttpServerAssumption DEF Numbers
  <2>2. ~HasTask /\ HasTask' /\ mainTask' = f /\ UNCHANGED <<task_queue, task>>
    BY <1>2 DEF CallPushTask, HasTask
  <2>3. \A g \in Fd : Once(g)'
    BY <2>1, <2>2 DEF Numbers, Once, IsPending
  <2>4. \A g \in Fd : IsPending(g)' <=> (IsPending(g) \/ g = f)
    BY <2>2 DEF IsPending
  <2> QED
    BY <1>3, <1>7, <2>3, <2>4 DEF Numbers
<1>10. Sockets'
  BY <1>2, <1>3, <1>7, <1>8, HttpServerAssumption DEF Sockets, HttpTypeOK
<1>11. BacklogOnce'
  <2>1. \A i \in DOMAIN backlog' : i + 1 \in DOMAIN backlog /\ i + 1 # 1
    BY <1>5
  <2>2. \A i \in DOMAIN backlog : backlog[i] \in Conn
    BY DEF HttpTypeOK
  <2>3. \A i \in DOMAIN backlog' : conn'[backlog'[i]] = "backlog"
    BY <1>5, <1>8, <2>1, <2>2 DEF BacklogOnce
  <2>4. ASSUME NEW i \in DOMAIN backlog', NEW j \in DOMAIN backlog', backlog'[i] = backlog'[j]
        PROVE  i = j
    <3>1. i + 1 = j + 1
      BY <1>5, <2>1, <2>4 DEF BacklogOnce
    <3> QED
      BY <1>5, <3>1
  <2> QED
    BY <2>3, <2>4 DEF BacklogOnce
<1>12. DescriptorsAccounted'
  BY <1>2, <1>3, <1>7 DEF DescriptorsAccounted, Leaked, Accept
<1> QED
  BY <1>4, <1>6, <1>9, <1>10, <1>11, <1>12

\* A task of -1 is no number of a connection, however many there are.
LEMMA AcceptFailsKeepsInv ==
    ASSUME HttpInv, AcceptFails
    PROVE  HttpInv'
<1> USE DEF HttpInv, AcceptFails
<1>1. PoolInv'
  BY PoolInvStep, HttpServerAssumption DEF PoolNext
<1>2. HttpTypeOK'
  BY <1>1, HttpServerAssumption DEF HttpTypeOK, PoolInv
<1>3. ~HasTask /\ HasTask' /\ mainTask' = BadSock /\ UNCHANGED <<task_queue, task>>
  BY DEF CallPushTask, HasTask
<1>4. Numbers'
  BY <1>3, HttpServerAssumption DEF Numbers, Once, IsPending
<1>5. Sockets' /\ BacklogOnce' /\ DescriptorsAccounted'
  BY DEF Sockets, BacklogOnce, DescriptorsAccounted, Leaked
<1> QED
  BY <1>1, <1>2, <1>4, <1>5

LEMMA PoolStepKeepsInv ==
    ASSUME HttpInv, PushTaskStep \/ \E w \in Worker : PoolStep(w)
    PROVE  HttpInv'
<1> USE DEF HttpInv
<1>1. /\ UNCHANGED httpVars
      /\ MainStep \/ \E w \in Worker : RoutineStep(w) \/ SpuriousWakeup(w)
  BY DEF PushTaskStep, PoolStep
<1>2. PoolInv'
  BY <1>1, PoolInvStep DEF PoolNext
<1>3. HttpTypeOK'
  BY <1>1, <1>2 DEF HttpTypeOK, PoolInv, httpVars
<1>4. Numbers'
  <2>1. ASSUME NEW f \in Fd
        PROVE  Once(f)' /\ (IsPending(f)' <=> table'[f] \in Conn)
    <3>1. (IsPending(f)' <=> IsPending(f)) /\ (Once(f) => Once(f)')
      BY <1>1, PoolKeepsPlaces
    <3> QED
      BY <1>1, <3>1 DEF Numbers, httpVars
  <2> QED
    BY <2>1 DEF Numbers
<1>5. Sockets' /\ BacklogOnce' /\ DescriptorsAccounted'
  BY <1>1 DEF Sockets, BacklogOnce, DescriptorsAccounted, Leaked, httpVars
<1> QED
  BY <1>2, <1>3, <1>4, <1>5

\* What all steps of a handler but its return have in common.
LEMMA HandlerKeepsInv ==
    ASSUME HttpInv, handlerUnchanged,
           NEW S \in SUBSET Fd, \A f \in S : table[f] \notin Conn,
           NEW what \in {"free", "file", "leaked"}, table' = Set(S, what),
           own' \in [Worker -> SUBSET Fd], input' \in [Worker -> SUBSET Fd],
           did' \in [Worker -> {"nothing", "input", "output", "cgi", "file"}],
           inherited' \in [Worker -> SUBSET Conn],
           failures' \in 0..MaxFailures,
           DescriptorsAccounted'
    PROVE  HttpInv'
<1> USE DEF HttpInv, handlerUnchanged
<1>1. PoolInv'
  BY PoolInvStep
<1>2. table' \in [Fd -> Conn \cup {"free", "file", "leaked"}]
  BY DEF Set, HttpTypeOK
<1>3. HttpTypeOK'
  BY <1>1, <1>2 DEF HttpTypeOK, PoolInv
<1>4. Numbers' /\ Sockets' /\ BacklogOnce'
  BY SetKeepsSockets
<1> QED
  BY <1>1, <1>3, <1>4

\* Descriptors taken from the free ones are new to every handler.
LEMMA OpensKeepsAccounts ==
    ASSUME HttpInv, NEW w \in Worker,
           NEW S \in SUBSET FreeFds, table' = Set(S, "file"),
           own' = [own EXCEPT ![w] = @ \cup S]
    PROVE  DescriptorsAccounted'
<1> USE DEF HttpInv, HttpTypeOK
<1>1. \A f \in Fd : table'[f] = IF f \in S THEN "file" ELSE table[f]
  BY DEF Set
<1>2. \A v \in Worker : own'[v] = IF v = w THEN own[v] \cup S ELSE own[v]
  OBVIOUS
<1>3. \A f \in S : f \in Fd /\ table[f] = "free"
  BY DEF FreeFds
<1>4. \A f \in Fd : table'[f] = "file" <=> \E v \in Worker : f \in own'[v]
  BY <1>1, <1>2, <1>3 DEF DescriptorsAccounted
<1>5. \A u, v \in Worker : u # v => own'[u] \cap own'[v] = {}
  <2>1. \A v \in Worker : S \cap own[v] = {}
    BY <1>3 DEF DescriptorsAccounted
  <2>2. \A u, v \in Worker : u # v => own[u] \cap own[v] = {}
    BY DEF DescriptorsAccounted
  <2>3. ASSUME NEW u \in Worker, NEW v \in Worker, u # v
        PROVE  own'[u] \cap own'[v] = {}
    <3>1. own'[u] \subseteq own[u] \cup (IF u = w THEN S ELSE {})
      BY <1>2
    <3>2. own'[v] \subseteq own[v] \cup (IF v = w THEN S ELSE {})
      BY <1>2
    <3> HIDE DEF HttpInv, HttpTypeOK
    <3> QED
      BY <2>1, <2>2, <2>3, <3>1, <3>2
  <2> QED
    BY <2>3
<1>6. Leaked' \subseteq Leaked
  BY <1>1 DEF Leaked
<1>7. Leaked' # Fd
  BY <1>6 DEF DescriptorsAccounted, Leaked
<1> QED
  BY <1>4, <1>5, <1>7 DEF DescriptorsAccounted

\* Descriptors a handler closes were its own.
LEMMA ClosesKeepsAccounts ==
    ASSUME HttpInv, NEW w \in Worker, NEW S \in SUBSET own[w],
           table' = Set(S, "free"), own' = [own EXCEPT ![w] = @ \ S]
    PROVE  DescriptorsAccounted'
<1> USE DEF HttpInv, HttpTypeOK
<1>1. \A f \in Fd : table'[f] = IF f \in S THEN "free" ELSE table[f]
  BY DEF Set
<1>2. \A v \in Worker : own'[v] = IF v = w THEN own[v] \ S ELSE own[v]
  OBVIOUS
<1>3. \A f \in S : \A v \in Worker : v # w => f \notin own[v]
  BY DEF DescriptorsAccounted
<1>4. \A f \in Fd : table'[f] = "file" <=> \E v \in Worker : f \in own'[v]
  BY <1>1, <1>2, <1>3 DEF DescriptorsAccounted
<1>5. \A u, v \in Worker : u # v => own'[u] \cap own'[v] = {}
  BY <1>2 DEF DescriptorsAccounted
<1>6. Leaked' \subseteq Leaked
  BY <1>1 DEF Leaked
<1>7. Leaked' # Fd
  BY <1>6 DEF DescriptorsAccounted, Leaked
<1> QED
  BY <1>4, <1>5, <1>7 DEF DescriptorsAccounted

\* What the kernel gives to open and pipe.
LEMMA OpensFree ==
    ASSUME HttpInv, NEW w \in Worker, NEW n \in {1, 2}, Opens(w, n)
    PROVE  /\ Lowest(n) \in SUBSET Fd /\ \A f \in Lowest(n) : table[f] \notin Conn
           /\ DescriptorsAccounted'
           /\ own' \in [Worker -> SUBSET Fd]
<1>1. Lowest(n) \in SUBSET FreeFds
  <2>1. Cardinality(FreeFds) \in Nat
    BY HttpServerAssumption, FS_Subset, FS_CardinalityType DEF FreeFds
  <2> QED
    BY <2>1, LowestFree DEF Opens
<1>2. Lowest(n) \in SUBSET Fd /\ \A f \in Lowest(n) : table[f] \notin Conn
  BY <1>1, HttpServerAssumption DEF FreeFds
<1>3. DescriptorsAccounted'
  BY <1>1, OpensKeepsAccounts DEF Opens
<1> QED
  BY <1>2, <1>3 DEF Opens, HttpInv, HttpTypeOK

LEMMA OpenFileKeepsInv ==
    ASSUME HttpInv, NEW w \in Worker, OpenFile(w)
    PROVE  HttpInv'
<1>1. Opens(w, 1) /\ UNCHANGED <<input, inherited, failures>> /\ handlerUnchanged
  BY DEF OpenFile
<1>2. did' \in [Worker -> {"nothing", "input", "output", "cgi", "file"}]
  BY DEF OpenFile, Stage, HttpInv, HttpTypeOK
<1>3. table' = Set(Lowest(1), "file")
  BY <1>1 DEF Opens
<1>4. /\ input' \in [Worker -> SUBSET Fd] /\ inherited' \in [Worker -> SUBSET Conn]
      /\ failures' \in 0..MaxFailures
  BY <1>1 DEF HttpInv, HttpTypeOK
<1> QED
  BY <1>1, <1>2, <1>3, <1>4, OpensFree, HandlerKeepsInv

\* The pipes, one at a time.
LEMMA PipesKeepInv ==
    ASSUME HttpInv, NEW w \in Worker, PipeInput(w) \/ PipeOutput(w)
    PROVE  HttpInv'
<1>1. Opens(w, 2) /\ UNCHANGED <<inherited, failures>> /\ handlerUnchanged
  BY DEF PipeInput, PipeOutput
<1>2. did' \in [Worker -> {"nothing", "input", "output", "cgi", "file"}]
  BY DEF PipeInput, PipeOutput, Stage, HttpInv, HttpTypeOK
<1>3. table' = Set(Lowest(2), "file")
  BY <1>1 DEF Opens
<1>4. /\ Lowest(2) \in SUBSET Fd /\ \A f \in Lowest(2) : table[f] \notin Conn
      /\ DescriptorsAccounted' /\ own' \in [Worker -> SUBSET Fd]
  BY <1>1, OpensFree
<1>5. /\ input' \in [Worker -> SUBSET Fd] /\ inherited' \in [Worker -> SUBSET Conn]
      /\ failures' \in 0..MaxFailures
  BY <1>1, <1>4 DEF PipeInput, PipeOutput, HttpInv, HttpTypeOK
<1> QED
  BY <1>1, <1>2, <1>3, <1>4, <1>5, HandlerKeepsInv

\* A fork opens nothing in the server.
LEMMA ForkKeepsInv ==
    ASSUME HttpInv, NEW w \in Worker, Fork(w)
    PROVE  HttpInv'
<1> USE DEF HttpInv, HttpTypeOK
<1>1. UNCHANGED <<table, own, input, failures>> /\ handlerUnchanged
  BY DEF Fork
<1>2. table' = Set({}, "free")
  BY <1>1 DEF Set
<1>3. DescriptorsAccounted'
  BY <1>1 DEF DescriptorsAccounted, Leaked
<1>4. did' \in [Worker -> {"nothing", "input", "output", "cgi", "file"}]
  BY DEF Fork, Stage
<1>5. inherited' \in [Worker -> SUBSET Conn]
  BY DEF Fork, Accepted
<1>6. own' \in [Worker -> SUBSET Fd] /\ input' \in [Worker -> SUBSET Fd]
      /\ failures' \in 0..MaxFailures
  BY <1>1
<1> QED
  BY <1>1, <1>2, <1>3, <1>4, <1>5, <1>6, HandlerKeepsInv

\* What is leaked was the call's, and the handler's own connection was not.
LEMMA CgiFailsKeepsInv ==
    ASSUME HttpInv, NEW w \in Worker, CgiFails(w)
    PROVE  HttpInv'
<1> USE DEF HttpInv, HttpTypeOK
<1>1. /\ table' = Set(own[w], "leaked") /\ own' = [own EXCEPT ![w] = {}]
      /\ input' = [input EXCEPT ![w] = {}]
      /\ inherited' = inherited /\ handlerUnchanged
  BY DEF CgiFails
<1>2. \A f \in own[w] : f \in Fd /\ table[f] = "file" /\ table[f] \notin Conn
  BY HttpServerAssumption DEF DescriptorsAccounted
<1>3. \A f \in Fd : table'[f] = IF f \in own[w] THEN "leaked" ELSE table[f]
  BY <1>1 DEF Set
<1>4. task[w] \in Fd /\ table[task[w]] \in Conn
  BY HandlerHasSocket DEF CgiFails, Stage, Handling
<1>5. task[w] \notin Leaked'
  BY <1>2, <1>3, <1>4, HttpServerAssumption DEF Leaked
<1>6. \A v \in Worker : own'[v] = IF v = w THEN {} ELSE own[v]
  BY <1>1
<1>7. \A f \in Fd : table'[f] = "file" <=> \E v \in Worker : f \in own'[v]
  BY <1>3, <1>6 DEF DescriptorsAccounted
<1>8. DescriptorsAccounted'
  BY <1>4, <1>5, <1>6, <1>7 DEF DescriptorsAccounted
<1>9. did' \in [Worker -> {"nothing", "input", "output", "cgi", "file"}]
  BY DEF CgiFails, Stage
<1>10. failures' \in 0..MaxFailures
  BY HttpServerAssumption DEF CgiFails
<1>11. /\ own' \in [Worker -> SUBSET Fd] /\ input' \in [Worker -> SUBSET Fd]
       /\ inherited' \in [Worker -> SUBSET Conn]
  BY <1>1
<1> QED
  BY <1>1, <1>2, <1>8, <1>9, <1>10, <1>11, HandlerKeepsInv

\* A handler closes only files and pipes of its own, never a connection.
LEMMA ClosesKeepsInv ==
    ASSUME HttpInv, NEW w \in Worker, CloseChildEnds(w) \/ Release(w)
    PROVE  HttpInv'
<1> USE DEF HttpInv, HttpTypeOK
<1>1. PICK S \in SUBSET own[w] :
          table' = Set(S, "free") /\ own' = [own EXCEPT ![w] = @ \ S]
  <2>1. ASSUME CloseChildEnds(w)
        PROVE  \E S \in SUBSET own[w] :
                   table' = Set(S, "free") /\ own' = [own EXCEPT ![w] = @ \ S]
    <3>1. table' = Set(ChildEnds(w), "free") /\ own' = [own EXCEPT ![w] = @ \ ChildEnds(w)]
      BY <2>1 DEF CloseChildEnds
    <3>2. ChildEnds(w) \in SUBSET own[w]
      BY DEF ChildEnds
    <3> QED
      BY <3>1, <3>2
  <2>2. ASSUME Release(w)
        PROVE  table' = Set(own[w], "free") /\ own' = [own EXCEPT ![w] = @ \ own[w]]
    BY <2>2 DEF Release
  <2> QED
    BY <2>1, <2>2
<1>2. \A f \in S : f \in Fd /\ table[f] = "file" /\ table[f] \notin Conn
  BY <1>1, HttpServerAssumption DEF DescriptorsAccounted
<1>3. DescriptorsAccounted'
  BY <1>1, ClosesKeepsAccounts
<1>4. handlerUnchanged /\ did' = did /\ failures' = failures
  BY DEF CloseChildEnds, Release
<1>5. /\ own' \in [Worker -> SUBSET Fd] /\ input' \in [Worker -> SUBSET Fd]
      /\ inherited' \in [Worker -> SUBSET Conn]
  BY <1>1 DEF CloseChildEnds, Release
<1> QED
  BY <1>1, <1>2, <1>3, <1>4, <1>5, HandlerKeepsInv

\* The last close: the number goes back to the kernel with nobody to use it.
LEMMA HandlerReturnsKeepsInv ==
    ASSUME HttpInv, NEW w \in Worker, HandlerReturns(w)
    PROVE  HttpInv'
<1> USE DEF HttpInv
<1>1. PoolInv'
  BY PoolInvStep DEF PoolNext, HandlerReturns
<1>2. /\ own[w] = {} /\ pc[w] = "process"
      /\ task' = [task EXCEPT ![w] = NoTask]
      /\ UNCHANGED <<task_queue, main, mainTask>>
      /\ did' = [did EXCEPT ![w] = "nothing"]
      /\ UNCHANGED <<server, exit_code, backlog, own, input, inherited, failures>>
  BY DEF HandlerReturns, ProcessOn, workerUnchanged
<1>3. \A v \in Worker : task'[v] = IF v = w THEN NoTask ELSE task[v]
  BY <1>2 DEF PoolInv, PoolTypeOK
<1>4. /\ NoTask \notin Fd
      /\ \A g \in Fd : table[g] \in Conn => table[g] \notin {"free", "file", "leaked"}
  BY PoolAssumption, HttpServerAssumption
<1>5. CASE task[w] = BadSock
  <2>1. UNCHANGED <<conn, table>>
    BY <1>5 DEF HandlerReturns
  <2>2. HttpTypeOK'
    BY <1>1, <1>2, <2>1 DEF HttpTypeOK, PoolInv
  <2>3. \A g \in Fd : IsPending(g)' <=> IsPending(g)
    BY <1>2, <1>3, <1>4, <1>5, HttpServerAssumption DEF IsPending, HasTask
  <2>4. \A g \in Fd : Once(g)'
    BY <1>2, <1>3, <1>4 DEF Numbers, Once, HasTask
  <2>5. Numbers'
    BY <2>1, <2>3, <2>4 DEF Numbers
  <2>6. Sockets' /\ BacklogOnce' /\ DescriptorsAccounted'
    BY <1>2, <2>1 DEF Sockets, BacklogOnce, DescriptorsAccounted, Leaked
  <2> QED
    BY <1>1, <2>2, <2>5, <2>6
<1>6. CASE task[w] # BadSock
  <2>1. PICK f \in Fd, c \in Conn : f = task[w] /\ c = table[f]
    BY <1>2, <1>6, HandlerHasSocket
  <2>2. /\ table' = Set({f}, "free")
        /\ conn' = [d \in Conn |-> IF c = d THEN "closed" ELSE conn[d]]
    BY <1>6, <2>1 DEF HandlerReturns
  <2>3. /\ \A g \in Fd : table'[g] = IF g = f THEN "free" ELSE table[g]
        /\ \A d \in Conn : conn'[d] = IF d = c THEN "closed" ELSE conn[d]
    BY <2>2 DEF Set
  <2>4. HttpTypeOK'
    <3>1. /\ table' \in [Fd -> Conn \cup {"free", "file", "leaked"}]
          /\ conn' \in [Conn -> {"new", "backlog", "accepted", "closed"}]
      BY <2>2 DEF HttpTypeOK, Set
    <3> QED
      BY <1>1, <1>2, <3>1 DEF HttpTypeOK, PoolInv
  <2>5. ~IsPending(f)'
    <3>1. Once(f)
      BY DEF Numbers
    <3> QED
      BY <1>2, <1>3, <1>4, <2>1, <3>1 DEF IsPending, Once, HasTask
  <2>6. \A g \in Fd : g # f => (IsPending(g)' <=> IsPending(g))
    BY <1>2, <1>3, <1>4, <2>1 DEF IsPending, HasTask
  <2>7. \A g \in Fd : Once(g)'
    BY <1>2, <1>3, <1>4 DEF Numbers, Once, HasTask
  <2>8. Numbers'
    BY <1>4, <2>3, <2>5, <2>6, <2>7, HttpServerAssumption DEF Numbers
  <2>9. Sockets'
    <3>1. \A g \in Fd : table'[g] \in Conn => g # f /\ table'[g] = table[g]
      BY <2>3, HttpServerAssumption
    <3>2. \A g \in Fd : g # f => table[g] # c
      BY <2>1 DEF Sockets
    <3>3. \A g \in Fd : table'[g] \in Conn => conn'[table'[g]] = "accepted"
      BY <2>3, <3>1, <3>2 DEF Sockets
    <3>4. ASSUME NEW d \in Conn, conn'[d] = "accepted"
          PROVE  \E g \in Fd : table'[g] = d
      <4>1. d # c /\ conn[d] = "accepted"
        BY <2>3, <3>4
      <4>2. PICK g \in Fd : table[g] = d
        BY <4>1 DEF Sockets
      <4> QED
        BY <2>1, <2>3, <4>1, <4>2
    <3> QED
      BY <3>1, <3>3, <3>4 DEF Sockets
  <2>10. BacklogOnce'
    <3>1. conn[c] = "accepted"
      BY <2>1 DEF Sockets
    <3>2. \A i \in DOMAIN backlog : backlog[i] \in Conn /\ backlog[i] # c
      BY <3>1 DEF HttpTypeOK, BacklogOnce
    <3> QED
      BY <1>2, <2>3, <3>2 DEF BacklogOnce
  <2>11. DescriptorsAccounted'
    <3>1. \A g \in Fd : table'[g] = "file" <=> table[g] = "file"
      BY <1>4, <2>1, <2>3
    <3>2. Leaked' \subseteq Leaked
      BY <2>3 DEF Leaked
    <3>3. Leaked' # Fd
      BY <3>2 DEF DescriptorsAccounted, Leaked
    <3> QED
      BY <1>2, <3>1, <3>3 DEF DescriptorsAccounted
  <2> QED
    BY <1>1, <2>4, <2>8, <2>9, <2>10, <2>11
<1> QED
  BY <1>5, <1>6

LEMMA HttpInvStep == HttpInv /\ [HttpNext]_allVars => HttpInv'
<1> SUFFICES ASSUME HttpInv, [HttpNext]_allVars
             PROVE  HttpInv'
  OBVIOUS
<1>1. CASE Start \/ UNCHANGED allVars
  BY <1>1, StartKeepsInv
<1>2. CASE Accept
  BY <1>2, AcceptKeepsInv
<1>3. CASE AcceptFails
  BY <1>3, AcceptFailsKeepsInv
<1>4. CASE PushTaskStep
  BY <1>4, PoolStepKeepsInv
<1>5. ASSUME NEW c \in Conn, Connect(c)
      PROVE  HttpInv'
  BY <1>5, ConnectKeepsInv
<1>6. ASSUME NEW w \in Worker, PoolStep(w)
      PROVE  HttpInv'
  BY <1>6, PoolStepKeepsInv
<1>7. ASSUME NEW w \in Worker, HandlerWorks(w)
      PROVE  HttpInv'
  BY <1>7, OpenFileKeepsInv, PipesKeepInv, ForkKeepsInv, CgiFailsKeepsInv, ClosesKeepsInv
     DEF HandlerWorks, CallStep
<1>8. ASSUME NEW w \in Worker, HandlerReturns(w)
      PROVE  HttpInv'
  BY <1>8, HandlerReturnsKeepsInv
<1> QED
  BY <1>1, <1>2, <1>3, <1>4, <1>5, <1>6, <1>7, <1>8 DEF HttpNext

\* The invariant holds: of numbers and their owners, of connections not yet
\* accepted, and of the pool inside the server.
THEOREM HttpInvariant == HttpSpec => []HttpInv
BY HttpInvInit, HttpInvStep, PTL DEF HttpSpec

-----------------------------------------------------------------------------
(* What follows *)

\* The server's variables keep their types; a full table, failed calls and
\* tasks of -1 included.
THEOREM HttpTypeCorrect == HttpSpec => []HttpTypeOK
BY HttpInvariant, PTL DEF HttpInv

\* A number that is pending once has one place.
LEMMA OnePlace ==
    ASSUME NEW f \in Fd, Once(f), IsPending(f), PoolTypeOK
    PROVE  \E p : Pending(f) = {p}
<1> DEFINE atMain == {<<"main", 0>> : x \in {y \in {mainTask} : y = f /\ main \in {"instance", "create", "lock", "push"}}}
           inQueue == {<<"queue", i>> : i \in {j \in DOMAIN task_queue : task_queue[j] = f}}
           atWorker == {<<"worker", w>> : w \in {v \in Worker : task[v] = f}}
<1>1. Pending(f) = atMain \cup inQueue \cup atWorker
  BY DEF Pending
<1>2. ~(HasTask /\ mainTask = f) => atMain = {}
  BY DEF HasTask
<1>3. (\A i \in DOMAIN task_queue : task_queue[i] # f) => inQueue = {}
  OBVIOUS
<1>4. (\A w \in Worker : task[w] # f) => atWorker = {}
  OBVIOUS
<1>5. CASE HasTask /\ mainTask = f
  <2>1. atMain = {<<"main", 0>>}
    BY <1>5 DEF HasTask
  <2> QED
    BY <1>1, <1>3, <1>4, <1>5, <2>1 DEF Once
<1>6. ASSUME NEW i \in DOMAIN task_queue, task_queue[i] = f
      PROVE  \E p : Pending(f) = {p}
  <2>1. inQueue = {<<"queue", i>>}
    BY <1>6 DEF Once
  <2>2. ~(HasTask /\ mainTask = f) /\ \A w \in Worker : task[w] # f
    BY <1>6 DEF Once
  <2> QED
    BY <1>1, <1>2, <1>4, <2>1, <2>2
<1>7. ASSUME NEW w \in Worker, task[w] = f
      PROVE  \E p : Pending(f) = {p}
  <2>1. atWorker = {<<"worker", w>>}
    BY <1>7 DEF Once
  <2>2. ~(HasTask /\ mainTask = f) /\ \A i \in DOMAIN task_queue : task_queue[i] # f
    BY <1>7 DEF Once
  <2> QED
    BY <1>1, <1>2, <1>3, <2>1, <2>2
<1> QED
  BY <1>5, <1>6, <1>7 DEF IsPending

LEMMA InvGivesOneHandler == HttpInv => OneHandlerPerConnection
<1> SUFFICES ASSUME HttpInv
             PROVE  OneHandlerPerConnection
  OBVIOUS
<1> USE DEF HttpInv
<1>1. ASSUME NEW f \in Fd, table[f] \in Conn
      PROVE  Cardinality(Pending(f)) = 1
  <2>1. PICK p : Pending(f) = {p}
    BY <1>1, OnePlace DEF Numbers, HttpTypeOK
  <2> QED
    BY <2>1, FS_Singleton
<1>2. ASSUME NEW f \in Fd, Pending(f) # {}
      PROVE  table[f] \in Accepted
  <2>1. IsPending(f)
    BY <1>2 DEF Pending, IsPending, HasTask
  <2> QED
    BY <2>1 DEF Numbers, Sockets, Accepted
<1>3. ASSUME NEW c \in Accepted
      PROVE  Cardinality({f \in Fd : table[f] = c}) = 1
  <2>1. PICK g \in Fd : table[g] = c
    BY DEF Sockets, Accepted
  <2>2. {f \in Fd : table[f] = c} = {g}
    BY <2>1 DEF Sockets, Accepted
  <2> QED
    BY <2>2, FS_Singleton
<1> QED
  BY <1>1, <1>2, <1>3 DEF OneHandlerPerConnection

\* Every connection accepted has one descriptor, which stands for nothing
\* else, and one handler: two closes never meet on one number.
THEOREM HttpOneHandlerPerConnection == HttpSpec => []OneHandlerPerConnection
BY HttpInvariant, InvGivesOneHandler, PTL

\* Every descriptor is accounted for, and failed CGI calls never leak all.
THEOREM HttpDescriptorsAccounted == HttpSpec => []DescriptorsAccounted
BY HttpInvariant, PTL DEF HttpInv

\* Inside the server, too, the tasks of the queue keep the workers going.
THEOREM HttpWorkConserving == HttpSpec => []WorkConserving
BY HttpImplementsPool, PoolWorkConserving, PTL

=============================================================================
