------------------------------ MODULE HttpServer ------------------------------
(***************************************************************************)
(* The whole process: main.cpp, class TcpServer (TcpServer.hpp) and the    *)
(* accept loop of class HttpServer (HttpServer.hpp) over the ThreadPool,   *)
(* with the table of descriptors that the main thread and the handlers     *)
(* share and that every forked child inherits.                             *)
(*                                                                         *)
(* A Task is the number accept returned.  The handler of a task            *)
(* (EndPoint.tla, CgiPipe.tla) is seen here by the descriptors it opens,   *)
(* closes and leaks, and by the child it may have.                         *)
(***************************************************************************)
EXTENDS ThreadPool

CONSTANTS
    Conn,         \* the connections clients make
    Fd,           \* the descriptors free after start-up; there is one, or no
                  \* connection is ever accepted
    BadSock,      \* the -1 of a failed accept
    Backlog,      \* listen's BACKLOG
    MaxFailures   \* bound of the model: failures that are not EMFILE

ASSUME HttpServerAssumption ==
    /\ Fd \subseteq Nat /\ IsFiniteSet(Fd) /\ Fd # {}
    /\ BadSock \notin Fd
    /\ Task = Fd \cup {BadSock}
    /\ {"free", "file", "leaked"} \cap Conn = {}
    /\ Backlog \in Nat /\ MaxFailures \in Nat

VARIABLES
    server,     \* where the main thread is before it accepts
    exit_code,  \* of the process
    backlog,    \* connections that wait for accept
    conn,       \* what became of each connection
    table,      \* what each descriptor of Fd stands for
    own,        \* descriptors the handler of each worker has to close
    input,      \* those of them that are the ends of its call's first pipe
    did,        \* what the handler of each worker has already tried
    inherited,  \* connections the CGI child of each worker has open
    failures    \* how often accept, pipe or fork failed of themselves

callVars == <<own, input, did, inherited>>
httpVars == <<server, exit_code, backlog, conn, table, callVars, failures>>
allVars == <<poolVars, httpVars>>

FreeFds == {f \in Fd : table[f] = "free"}
Lowest(n) == CHOOSE S \in SUBSET FreeFds :
    Cardinality(S) = n /\ \A f \in S, g \in FreeFds \ S : f < g
Leaked == {f \in Fd : table[f] = "leaked"}
Accepted == {c \in Conn : conn[c] = "accepted"}
Set(fds, what) == [f \in Fd |-> IF f \in fds THEN what ELSE table[f]]

HttpInit ==
    /\ PoolInit
    /\ server = "main" /\ exit_code = 0
    /\ backlog = <<>> /\ conn = [c \in Conn |-> "new"]
    /\ table = [f \in Fd |-> "free"]
    /\ own = [w \in Worker |-> {}] /\ input = [w \in Worker |-> {}]
    /\ did = [w \in Worker |-> "nothing"] /\ inherited = [w \in Worker |-> {}]
    /\ failures = 0

-----------------------------------------------------------------------------
(* Start-up: each step goes on, or ends the process with its own code. *)

StartStep(from, to, code) ==
    /\ server = from
    /\ \/ server' = to /\ UNCHANGED exit_code
       \/ server' = "exited" /\ exit_code' = code
    /\ UNCHANGED <<poolVars, backlog, conn, table, callVars, failures>>

\* main: argc, then Loop and TcpServer::GetInstance, which runs InitServer.
Start ==
    \/ StartStep("main", "Socket", 4)
    \/ StartStep("Socket", "Bind", 1)
    \/ StartStep("Bind", "Listen", 2)
    \/ StartStep("Listen", "Loop", 3)

\* A client's connection is established by the kernel.
Connect(c) ==
    /\ server = "Loop"
    /\ conn[c] = "new"
    /\ Len(backlog) < Backlog
    /\ backlog' = Append(backlog, c)
    /\ conn' = [conn EXCEPT ![c] = "backlog"]
    /\ UNCHANGED <<poolVars, server, exit_code, table, callVars, failures>>

-----------------------------------------------------------------------------
(* HttpServer::Loop *)

\* accept takes the lowest free number for the first connection that waits.
Accept ==
    /\ server = "Loop"
    /\ backlog # <<>> /\ FreeFds # {}
    /\ LET fds == Lowest(1)
       IN  /\ \E f \in fds : CallPushTask(f)
           /\ table' = Set(fds, Head(backlog))
    /\ conn' = [conn EXCEPT ![Head(backlog)] = "accepted"]
    /\ backlog' = Tail(backlog)
    /\ UNCHANGED <<server, exit_code, callVars, failures>>

\* Mutant: the loop ends when accept fails.
AcceptFails_EndsLoop ==
    /\ server = "Loop" /\ main = "idle"
    /\ \/ FreeFds = {} /\ UNCHANGED failures
       \/ failures < MaxFailures /\ failures' = failures + 1
    /\ server' = "exited"
    /\ UNCHANGED <<poolVars, exit_code, backlog, conn, table, callVars>>

\* accept fails, at once if there is no descriptor.  Nothing is done about
\* it, and a task with _sock = -1 is pushed like any other.
AcceptFails ==
    /\ server = "Loop"
    /\ \/ FreeFds = {} /\ UNCHANGED failures
       \/ failures < MaxFailures /\ failures' = failures + 1
    /\ CallPushTask(BadSock)
    /\ UNCHANGED <<server, exit_code, backlog, conn, table, callVars>>

-----------------------------------------------------------------------------
(* The handlers *)

\* A handler makes at most one CGI call, of the stages input (it has the first
\* pipe), output (it has both) and cgi (it has forked, or failed), and opens at
\* most one file, in that order (the error page after the call).
Handling(w) == pc[w] = "process" /\ task[w] # BadSock
Stage(w, from, to) ==
    /\ Handling(w)
    /\ did[w] \in from /\ did' = [did EXCEPT ![w] = to]

handlerUnchanged == UNCHANGED <<poolVars, server, exit_code, backlog, conn>>

\* open and pipe: the handler gets the lowest n numbers, if there are as many.
Opens(w, n) ==
    /\ Cardinality(FreeFds) >= n
    /\ own' = [own EXCEPT ![w] = @ \cup Lowest(n)]
    /\ table' = Set(Lowest(n), "file")

\* The requested file or 404.html is opened; if that fails the handler goes
\* on without.
OpenFile(w) ==
    /\ own[w] = {} /\ Stage(w, {"nothing", "cgi"}, "file")
    /\ Opens(w, 1)
    /\ UNCHANGED <<input, inherited, failures>> /\ handlerUnchanged

\* ProcessCIG: pipe(input), which if it fails leaves nothing behind, ...
PipeInput(w) ==
    /\ Stage(w, {"nothing"}, "input")
    /\ Opens(w, 2)
    /\ input' = [input EXCEPT ![w] = Lowest(2)]
    /\ UNCHANGED <<inherited, failures>> /\ handlerUnchanged

\* ... pipe(output), ...
PipeOutput(w) ==
    /\ Stage(w, {"input"}, "output")
    /\ Opens(w, 2)
    /\ UNCHANGED <<input, inherited, failures>> /\ handlerUnchanged

\* ... and a child, which inherits every open socket.
Fork(w) ==
    /\ Stage(w, {"output"}, "cgi")
    /\ inherited' = [inherited EXCEPT ![w] = Accepted]
    /\ UNCHANGED <<table, own, input, failures>> /\ handlerUnchanged

\* ProcessCIG returns early: there are no descriptors for pipe(output), or it
\* or fork fails of itself.  What was opened stays open, and nobody knows the
\* numbers any more.
CgiFails(w) ==
    /\ Stage(w, {"input", "output"}, "cgi")
    /\ \/ did[w] = "input" /\ Cardinality(FreeFds) < 2 /\ UNCHANGED failures
       \/ failures < MaxFailures /\ failures' = failures + 1
    /\ table' = Set(own[w], "leaked")
    /\ own' = [own EXCEPT ![w] = {}]
    /\ input' = [input EXCEPT ![w] = {}]
    /\ UNCHANGED inherited /\ handlerUnchanged

\* The parent closes input[1] and output[0]; of either pipe [0] has the lower
\* number.
ChildEnds(w) ==
    {f \in own[w] : IF f \in input[w] THEN \E g \in input[w] : g < f
                    ELSE \E g \in own[w] \ input[w] : f < g}
CloseChildEnds(w) ==
    /\ did[w] = "cgi" /\ input[w] # {}
    /\ table' = Set(ChildEnds(w), "free")
    /\ own' = [own EXCEPT ![w] = @ \ ChildEnds(w)]
    /\ input' = [input EXCEPT ![w] = {}]
    /\ UNCHANGED <<did, inherited, failures>> /\ handlerUnchanged

\* Mutant: SendHttpResquese closes the socket as well as HandlerRequest does.
Release_ClosesSock(w) ==
    /\ own[w] # {} /\ input[w] = {}
    /\ table' = Set(own[w] \cup {task[w]}, "free")
    /\ own' = [own EXCEPT ![w] = {}]
    /\ inherited' = [inherited EXCEPT ![w] = {}]
    /\ UNCHANGED <<input, did, failures>> /\ handlerUnchanged

\* Mutant: only input[0] is closed after the CGI program, not output[1].
Release_OneEnd(w) ==
    /\ own[w] # {} /\ input[w] = {}
    /\ \E f \in own[w] : /\ \A g \in own[w] : f <= g
                        /\ table' = Set({f}, "free")
    /\ own' = [own EXCEPT ![w] = {}]
    /\ inherited' = [inherited EXCEPT ![w] = {}]
    /\ UNCHANGED <<input, did, failures>> /\ handlerUnchanged

\* The file is closed, or the child was waited for and the pipes are closed.
Release(w) ==
    /\ own[w] # {} /\ input[w] = {}
    /\ table' = Set(own[w], "free")
    /\ own' = [own EXCEPT ![w] = {}]
    /\ inherited' = [inherited EXCEPT ![w] = {}]
    /\ UNCHANGED <<input, did, failures>> /\ handlerUnchanged

\* HandlerRequest ends with close(sock), which fails for -1, and the worker
\* goes on.
HandlerReturns(w) ==
    /\ own[w] = {}
    /\ ProcessOn(w)
    /\ did' = [did EXCEPT ![w] = "nothing"]
    /\ IF task[w] = BadSock
       THEN UNCHANGED <<conn, table>>
       ELSE /\ table' = Set({task[w]}, "free")
            /\ conn' = [c \in Conn |-> IF table[task[w]] = c THEN "closed" ELSE conn[c]]
    /\ UNCHANGED <<server, exit_code, backlog, own, input, inherited, failures>>

-----------------------------------------------------------------------------
\* What the pool does between Loop's calls and around the handlers.
PoolStep(w) == (RoutineStep(w) \/ SpuriousWakeup(w)) /\ UNCHANGED httpVars
PushTaskStep == MainStep /\ UNCHANGED httpVars

CallStep(w) == PipeOutput(w) \/ Fork(w) \/ CgiFails(w)
HandlerWorks(w) ==
    \/ OpenFile(w) \/ PipeInput(w) \/ CallStep(w)
    \/ CloseChildEnds(w) \/ Release(w)

HttpNext ==
    \/ Start \/ Accept \/ AcceptFails \/ PushTaskStep
    \/ \E c \in Conn : Connect(c)
    \/ \E w \in Worker : PoolStep(w) \/ HandlerWorks(w) \/ HandlerReturns(w)

HttpSpec == HttpInit /\ [][HttpNext]_allVars

\* As PoolFairness, with all handlers returning (EndPoint's HandlerEnds, for
\* clients that do their part).  accept is called whenever Loop is there, and
\* fails of itself only MaxFailures times.
HttpFairness ==
    /\ WF_allVars(Start) /\ WF_allVars(PushTaskStep)
    /\ WF_allVars(Accept) /\ SF_allVars(PushLock /\ UNCHANGED httpVars)
    /\ \A w \in Worker :
          /\ WF_allVars(RoutineStep(w) /\ UNCHANGED httpVars)
          /\ SF_allVars(Lock(w) /\ UNCHANGED httpVars)
          /\ SF_allVars(WaitReturn(w) /\ UNCHANGED httpVars)
          /\ WF_allVars(CallStep(w) \/ CloseChildEnds(w) \/ Release(w) \/ HandlerReturns(w))

FairHttpSpec == HttpSpec /\ HttpFairness

-----------------------------------------------------------------------------
(* Properties *)

HttpTypeOK ==
    /\ PoolTypeOK
    /\ server \in {"main", "Socket", "Bind", "Listen", "Loop", "exited"}
    /\ exit_code \in 0..4
    /\ backlog \in Seq(Conn) /\ Len(backlog) <= Backlog
    /\ conn \in [Conn -> {"new", "backlog", "accepted", "closed"}]
    /\ table \in [Fd -> Conn \cup {"free", "file", "leaked"}]
    /\ own \in [Worker -> SUBSET Fd] /\ input \in [Worker -> SUBSET Fd]
    /\ did \in [Worker -> {"nothing", "input", "output", "cgi", "file"}]
    /\ inherited \in [Worker -> SUBSET Conn]
    /\ failures \in 0..MaxFailures

\* Where the number f is: with Loop's call, in the queue, with a worker.
Pending(f) ==
    {<<"main", 0>> : x \in {y \in {mainTask} : y = f /\ main \in {"instance", "create", "lock", "push"}}}
        \cup {<<"queue", i>> : i \in {j \in DOMAIN task_queue : task_queue[j] = f}}
        \cup {<<"worker", w>> : w \in {v \in Worker : task[v] = f}}

\* A descriptor that is handed on as a number stands for the accepted
\* connection and nothing else until its one handler has closed it; no other
\* close, of the main thread or of any handler, frees the number before that.
\* So every connection accepted is handled once and none is lost.
OneHandlerPerConnection ==
    /\ \A f \in Fd : table[f] \in Conn => Cardinality(Pending(f)) = 1
    /\ \A f \in Fd : Pending(f) # {} => table[f] \in Accepted
    /\ \A c \in Accepted : Cardinality({f \in Fd : table[f] = c}) = 1

\* Every open descriptor is a connection's, one handler's to close, or leaked
\* by a CGI call that failed; and since such a call holds its own connection
\* the leaks, which last until the process ends, never take the last one.
DescriptorsAccounted ==
    /\ \A f \in Fd : table[f] = "file" <=> \E w \in Worker : f \in own[w]
    /\ \A v, w \in Worker : v # w => own[v] \cap own[w] = {}
    /\ Leaked # Fd

\* The client sees the end of its connection only when no process has it open.
Disconnected(c) == conn[c] = "closed" /\ \A w \in Worker : c \notin inherited[w]

\* A connection that reached the backlog is accepted, handled, closed and
\* disconnected, whatever fails: neither a full table, nor what failed CGI
\* calls leave of it, nor the tasks of -1 that Loop pushes meanwhile stop the
\* server for good.
EveryConnectionServed ==
    \A c \in Conn : conn[c] = "backlog" ~> Disconnected(c)

\* The documents: once the server has handled the request it disconnects
\* (short connection).  It closes its descriptor, but a child forked for
\* another request meanwhile has inherited it.
ShortConnection == \A c \in Conn : conn[c] = "closed" => Disconnected(c)

=============================================================================
