# Verification of MinHttp

TLA+ specifications of the web server in `src/MinHttp` (C++, one process, a
pool of worker threads, CGI programs as child processes), TLC configurations
that check them on small instances, and proofs for TLAPS. The
reference is the code; documents under `src/旧版多线程HttpServer` describe an
older, thread-per-connection version and are quoted only where they still speak
about this code.

## The system

| Component | Source | State it keeps | Operations |
|---|---|---|---|
| TCP server | `TcpServer.hpp` | singleton pointer, listening socket | `GetInstance`, `Socket`, `Bind`, `Listen` (each exits the process on failure), `GetSock` |
| Accept loop | `HttpServer.hpp`, `main.cpp` | none that changes (`_stop` is never set) | ignore SIGPIPE, `accept`, push a `Task` |
| Thread pool | `ThreadPool.hpp`, `Task.hpp` | singleton pointer, `std::queue<Task>`, mutex, condition variable, worker threads | `GetInstance`, `InitThreadPool`, `PushTask`, `ThreadRoutine` |
| Line reader | `Util.hpp` | the bytes in the socket, the line so far | `ReadInLine` (recv byte by byte, `MSG_PEEK` after CR), `CutString` |
| Connection handler | `Protocol.hpp` | `EndPoint`: `request`, `response`, `stop`, the socket and a file descriptor | `RecvHttpRequest`, `BuildHttpResponse`, `SendHttpResquese`, `HandlerRequest` |
| CGI call | `Protocol.hpp` (`ProcessCIG`) | two pipes, a child process | `pipe`, `fork`, write the body, read the output, `waitpid`; in the child `dup2`, `execl` |
| CGI programs | `cgi/` | a MySQL table (`mysql_connect.cc`) | `GetQueryString`, compute or insert, print a page |
| Logging | `Log.hpp` | none | `printf` |

How they interact: `main` calls `HttpServer::Loop`, which creates the TCP
server and then accepts for ever. Every accepted descriptor goes into the pool's
queue through `PushTask`; one of up to `NUM` = 6 workers pops it and runs
`EndPoint` on it, which reads lines with `ReadInLine`, looks at files under
`wwwroot`, maybe runs a program through two pipes, sends the answer and closes
the socket. Workers share the queue (under the mutex) and, through `fork`, all
open descriptors of the process: a child that one worker forks inherits the
pipes and sockets of all the others, because nothing is marked close-on-exec.

What is hard here: the condition variable (signal after unlock, spurious
wakeups, several workers for one task, threads that could not be created);
clients that stop in the middle, vanish or never read; files that change between
`stat`, `stat` and `open`; two processes that write and read two bounded pipes;
failures of `pipe`, `fork` and `exec` halfway; descriptors that are inherited or
leaked. There is no timeout anywhere and nothing is persisted by the server.

What makes each component correct:

* thread pool: tasks are taken once, in order, by a free worker; the queue is
  never touched without the mutex nor popped when empty; no wakeup is lost;
* line reader: whatever the style of line ends and the timing of bytes, the
  lines are those of the stream;
* handler: nothing is answered (except 400 for an unparsed request) unless the
  whole declared request was received, and not one byte more is read; an error
  answer carries the error page only; a body agrees with its Content-Length and
  its type with the name; all descriptors are closed; the handler returns from
  every client that did its part, and such a client reads its whole answer;
* CGI call: the program gets the body, the response gets all of the program's
  output and nothing else, the status agrees with the child's end, no zombie and
  no descriptor stays, and the call returns;
* CGI programs: the numbers are those of the query, a row is what was asked for,
  a page and a row go together unless the database or a signal comes between.

`PROJECT.json` lists the hazards line by line with the properties that cover
them, and for those that none covers the reason. See also "Not covered" below.

## Modules

| Module | Models | Depends on |
|---|---|---|
| `TaskQueue` | what the pool promises: a FIFO queue, one holder per task, one task per holder | |
| `ThreadPool` | `ThreadPool.hpp`: producer and workers, one action per call | `TaskQueue` (refinement) |
| `ThreadPoolProofs` | theorems about `ThreadPool` | `ThreadPool`, TLAPS |
| `MCThreadPool` | fairness and constants for TLC | `ThreadPool` |
| `LineReader` | `Util::ReadInLine`, byte by byte, with a reference splitter | |
| `LineReaderProofs` | theorems about `LineReader` | `LineReader`, `LeastNumbers` |
| `CgiOutcome` | the status codes, and which of them `ProcessCIG` returns with which body | |
| `Exchange` | what a handler promises its connection: listen, answer once, hang up | `CgiOutcome` |
| `EndPoint` | one connection from `EndPoint`'s construction to `close(sock)` | `CgiOutcome`, `Exchange` (refinement) |
| `MCEndPoint` | requests and files for TLC | `EndPoint` |
| `EndPointTypeProofs` | lemmas about the operators of `EndPoint`, and its types | `EndPoint`, `LeastNumbers` |
| `EndPointProofs` | the other theorems about `EndPoint` | `EndPointTypeProofs` |
| `CgiCall` | what a CGI call promises the handler: one child, all its output, its code | `CgiOutcome` |
| `CgiPipe` | the inside of `ProcessCIG`: parent, child and a foreign child | `CgiOutcome`, `CgiCall` (refinement) |
| `CgiPipeProofs` | theorems about `CgiPipe` | `CgiPipe`, TLAPS |
| `CgiPrograms` | `cgi.cc` and `mysql_connect.cc` with `comm.hpp`, a database and a user | |
| `MCCgiPrograms` | query strings for TLC | `CgiPrograms` |
| `CgiProgramsProofs` | theorems about `CgiPrograms` | `CgiPrograms`, `LeastNumbers` |
| `HttpServer` | the process: start-up, accept loop, pool, and the descriptor table all threads share | `ThreadPool` (extended) |
| `MCHttpServer` | descriptor numbers for TLC | `HttpServer` |
| `HttpServerProofs` | theorems about `HttpServer` | `HttpServer`, `ThreadPoolProofs`, `LeastNumbers` |
| `LeastNumbers` | two lemmas: sets of numbers have a smallest element, and a largest if bounded | TLAPS |

### ThreadPool

`lock` is the owner of `_lock`; `pc[w]` is a worker's place in `ThreadRoutine`
("wait" and "relock" are both inside `pthread_cond_wait`), `main` is the
producer's place in `GetInstance`/`PushTask`. One action is one call of the
code: `PushLock`, `Push`, `PushUnLock`, `ThreadWakeup`; `Lock`, `LeaveLoop`,
`ThreadWait`, `WaitReturn`, `PopTask`, `UnLock`, `ProcessOn`. `ThreadWait`
releases the mutex and blocks in one step, as POSIX promises; `ThreadWakeup`
wakes any one sleeping worker, if there is one; `SpuriousWakeup` wakes one
without a signal. `InitThreadPoolReturn` stops creating threads after any number
of at least `MinWorkers`, because `GetInstance` ignores a failure. The local
mutex of `GetInstance` protects nothing (each call has its own) but there is one
caller only, the thread of `Loop`, so it is left out. `ProcessOn` is one step
here; `EndPoint` models it.

### LineReader

`pc` is the next recv: the ordinary one, the `MSG_PEEK` one or the one that takes
the LF away. A failing peek leaves CR in `ch`, which the code turns into LF: the
action says so. `Split` is the reference: a function of the stream alone, which
knows nothing of peeks, of what has arrived yet or of how the stream ends.

### EndPoint

The stream of a request is a sequence of items (request line, header line, blank
line, body byte); a line item is there when `ReadInLine` can return it. Other
lines than these cannot come, since `ReadInLine` makes lines of all bytes up to
the blank one. `peer` is "open", "shut" (no more to read, it still reads) or
"gone"; a client that closes without a reset is "shut" first and "gone" from the
first send that fails. `GetRequestLine` chooses its result, because the C++
function has no return statement. Headers matter by Content-Length only; one in
another spelling, which `head_kv.find` does not find, is a header without a
length. A URI is a sequence of "/", "?", "." and words, which `Path` cuts and
`Suffix` takes the type from. `fs` is what is at the path, at
`index.html` below it and at `404.html`; `FsChange` may replace the first two at
any moment, `404.html` stays. A descriptor that was opened keeps the contents it
had then. `stat`, the second `stat`, `open` and the CGI call are steps of their
own, so a change can come between any two; local computations are folded into
the next of them. `ProcessCIG` is one step with every outcome in `CodesWith`, which `CgiPipe` is
shown to have no others of (`OutcomeExpected`). `request.size` is an int: `ToInt`
cuts `st_size`; between the two `stat` calls it is the size of the directory, which
stays if the second one fails. `Sent` is what one `sendfile` can move: nothing of
a negative count (as a `size_t` it is too large, `EINVAL`), else no more than
`MaxSend`, on Linux a page less than the largest int. `SendFile` moves any part of that, because `sendfile` may be
interrupted or fail; the code calls it once and looks at no result. `short` says
that this happened.
`SendCgi` is one round of the send loop of line 485, with `total` growing by 1.
`unread` is the flow control: with `Window` segments not read yet, send blocks.
`Reset` is the kernel's answer to a `close` with bytes of the request still in the
socket, or to bytes that arrive later: the client may lose what it has not read.

`Exchange` sees of all this how much was heard, the status and the body.
`EndPoint` implements it with the mapping at `Connection`: it listens until the
head of the response was sent, so `ClientGone` in that send is an answer of status
0, and a handler that stops hangs up without an answer.

### CgiPipe

`holders` says which processes have which pipe end open: this is what end of
file and write errors depend on. The parent is a sequence of steps, one per
system call (reads and writes move one byte per step); the child closes, executes
or exits, and then behaves like one of four kinds of program. "comm" is
`cgi/comm.hpp` (read the declared body byte by byte without looking at read's
result, then write), "script" are the two `.sh` files; "filter" and "eof" stand
for programs that others may install under `wwwroot`. `OtherFork` is another
worker's `fork` at any moment of the call. A child closes its descriptors before
`waitpid` can see its end ("exiting", then "ended"). `Flush`: after a failed
`execl` the child calls `exit(1)`, which writes what its copy of the server's
stdout buffer held at the `fork` (log lines, when stdout is not a terminal) to
descriptor 1, the pipe; so `Resp_body` is not empty although no program ran.

`CgiCall` has a child that is started, writes and ends, and a call that returns
its output and the code of its end, or fails before there is a child. The mapping
(`Call` in `CgiPipe`) forgets pipes, ends, other children and the parent's
progress.

### CgiPrograms

One request for the calculator or the registration. The query is any string over
a small alphabet; `CutString` cuts it as `comm.hpp` does, `atoi` and the
arithmetic are those of ints up to `IntMax` (two's complement, as the build
without optimisation has them; the division traps). `buffer` is what `cout` has
not flushed and `page` what reached the pipe: `endl` flushes the calculator's
first lines, a signal loses the buffer. The database is external: an insert that
was sent is executed or rejected at some later time, whatever became of the
connection (`LoseConnection`) and of the program (`Killed`).

The values go into the statement as they are (`mysql_connect.cc:48`). If they are
`Plain`, without a character in `Special`, an executed insert adds the row of these
values. What SQL makes of others is not this program's: `Added` then lets the
statement add any of `Strays`, no row, another row or several.

`Resubmit` is a user who did not see the page and asks again: the program was
killed, or (`lost` counts these) the handler's answer did not reach him, or he did not
wait for it. In the last case the first program may still be running: what is
left for it to do is to send its insert (`LateQuery`), before or after those of
later calls. How the query travels is `CgiPipe`'s subject.

### HttpServer

The composition. A `Task` is the number `accept` returned, a member of `Fd` or
-1 (`BadSock`). `table` is what each number stands for: "free", a connection, a
"file" (any file or pipe end some handler will close) or "leaked". The kernel
hands out the lowest free numbers, so numbers are reused at once. `Accept` and
`AcceptFails` are `Loop`'s body up to the call of `PushTask`; the pool's steps
are those of `ThreadPool`. A handler is seen by its descriptors only: `own[w]`
is what it has to close, `did[w]` keeps it to one CGI call and then one file.
`PipeInput`, `PipeOutput` and `Fork` are steps of their own, so that other threads'
`accept`, `open` and `pipe` come between them, and two calls can each take a first
pipe and leave none for the other's second; `input[w]` remembers the numbers of the
first one, of which `CloseChildEnds` closes the higher, and the lower of the second.
`inherited[w]` are the connections the child of w got a copy of at `fork`.
`CgiFails` are the two early returns of `ProcessCIG` that forget their pipes. The
closes of two numbers in a row (`CloseChildEnds`, `Release`) are one step: what
another thread opens between them could only get another number.
`exit_code` follows main (4), `Socket` (1), `Bind` (2) and `Listen` (3).
A listening socket with descriptor -1 cannot happen, because `Socket` exits.

## Runs

| Run | Shows |
|---|---|
| `thread_pool` | the properties of the pool with 3 workers, 2 tasks, a queue of up to 3, any number of creation failures, and workers of which only one is known to return from its handlers |
| `line_reader` | every stream of up to 6 bytes over {CR, LF, other}: the lines are those of `Split`; nothing waits longer than it has to |
| `endpoint_read` | 3 kinds of request line, up to 2 headers with Content-Length in {-1, 0, 1, 2} or none, up to 3 body bytes: who is answered, that the handler ends, and that a client which sends exactly its request reads its whole answer |
| `endpoint_build` | every kind of file at the path and at index.html, of sizes that one `sendfile` moves, that fit an int, or do not, a `sendfile` interrupted anywhere, one change of the file system at any moment, all CGI outcomes with up to 3 bytes: framing, types, what an error carries, descriptors, and the refinement of `Exchange` |
| `cgi_pipe` | all kinds of program, bodies of up to 4 bytes, output of 3, pipes of 1, a log of up to 1: delivery, codes, leaks, waits, and the refinement of `CgiCall` |
| `cgi_programs` | 2 programs, some 700 queries, 2 tries to register, inserts executed, rejected or in doubt, answers lost, one special character: results, rows, pages, and that programs end |
| `http_server` | 2 connections, 2 workers of which one may fail to be created, 6 descriptors, one accept, pipe or fork that fails of itself: numbers and owners agree, every connection is served |
| `line_styles`, `endpoint_unparsed`, `endpoint_no_target`, `endpoint_oversend`, `http_short` | violations, see Findings |

Why the bounds are enough: three workers give a waker, a woken one and one that
overtakes it; a third queued task gives a queue longer than the workers asleep.
Six bytes hold two CRLF lines or every adjacent pair of line ends. Two
headers decide "the first wins"; lengths -1, 0, 1, 2 with up to three bytes give
negative, empty, short, exact and surplus bodies. A CGI body of three bytes
makes the resent tails differ in length. Pipes of one byte with four bytes of
body and three of output make every pipe full and empty in every phase; what can
block depends only on the comparison with the capacity, which the `Compatible`
predicate states. In `EndPoint` `IntMax` = 3 and `MaxSend` = 2: of the file sizes 0 and 2 are sent
whole, 3 is an int but more than one `sendfile` moves, 4 becomes negative and 9
becomes 1. In `CgiPrograms` `IntMax` = 1 gives an int four values; the queries hold every string of up to three characters
and pairs of halves with and without names, signs, numbers and surplus
separators, so that quotients are exact, rounded, too large and by zero; `'` stands for all
special characters. Two tries are what it takes for a first insert to take effect
after the second was sent. Six descriptors hold one CGI call and two connections exactly:
a second call finds too few for its second pipe (and leaks two), or each of two
calls takes a first pipe and both fail (and leak four), a failed `fork` leaks four,
and with a connection open the table is then full or nearly so, which makes `accept`
and `open` fail. `MaxQueue` = 2 keeps `Loop` from queueing tasks of -1 for ever while
the table is full, which the code would do: this growth is not checked.

Fairness. Threads and processes run (weak fairness of each one's steps). A
thread that asks for the mutex gets it if it is free again and again (strong
fairness of `Lock`, `WaitReturn`, `PushLock`). A handler need return only in the
workers of `Reliable`. Clients owe nothing but to read what is sent to them, or to
vanish (`ClientRead`); they need not send or close. In `CgiPipe` other workers'
children end. In `CgiPrograms` programs run and the database gets round to every
insert it was sent; it need not execute it. What a user did not wait for need never
be sent. An interrupted `sendfile` counts as one that ran. In `HttpServer` all handlers return, and `accept` fails of itself at
most `MaxFailures` times in all with `pipe` and `fork`; want of descriptors may last as long as it does.
Nothing is assumed of spurious wakeups, failures or signals.

## Findings

* `Util.hpp:40`: after a CR the reader waits for one more byte. A request whose
  last line ends with a lone CR gets no answer while the client waits for one
  (`line_styles`), although line 21 promises every style of line end.
* `Protocol.hpp:515`: `GetRequestLine` flows off its end. Which branch
  `RecvHttpRequest` takes is undefined; a request that was read without an error
  may be answered with 400 without having been parsed (`endpoint_unparsed`).
* `Protocol.hpp:416`: a directory without `index.html` is handed to `ProcessCIG`,
  because the second stat's failure is not noticed and the directory's x bits
  count; the answer is 400, not 404 (`endpoint_no_target`).
* `Protocol.hpp:485`: the precedence of `>` over `=` makes a CGI body of n bytes
  go out as n(n+1)/2 bytes (`endpoint_oversend`). `CgiReaderGetsOutput` shows that
  a client that stops at Content-Length still gets the right bytes.
* `Protocol.hpp:741`: `close(sock)` does not disconnect the client while a CGI
  child that another worker forked meanwhile is running: it inherited the socket
  (`http_short`). The development record promises a short connection.

Shown, and contradicting no statement of the repository: `pipe(output)` or `fork`
failing leaks two or four descriptors (`LeakOnlyAfterFailure` says exactly when; `DescriptorsAccounted` that such leaks never take the last one),
and a program that reads its input to the end, or writes much before it read a
long body, blocks its worker for ever (`MutualWaitOnlyIf`). The registration
shows its page, which says it succeeded, whenever it is not killed, also when the
database refused the connection, rejected the insert or did not answer
(`PageTruth` lists the cases); a query without the separators stores a row with
empty fields (`RowsAsAsked`); and a user who asks again because he saw no page may
be registered twice (`DuplicateOnlyIfUntold` bounds how often). A pool that could not create one thread accepts
tasks for ever (`StrandedForEver`). A file larger than an int gets a wrong
Content-Length, and one larger than what a single `sendfile` moves is never sent
whole; other files are, if they do not change and no `sendfile` is interrupted
(`StaticFramed`). A POST whose
Content-Length is spelled otherwise is run with an empty body, and the close then
resets the connection, which is why `AnswerArrives` speaks of declared lengths.

## Proofs

`ThreadPoolProofs` proves for every finite set of workers, every set of tasks,
every queue bound and every `MinWorkers`, from `PoolAssumption` alone:

* `PoolInvariant`: `PoolSpec => []PoolInv`, where `PoolInv` is `PoolTypeOK`,
  `LockDiscipline`, `NeverPopsEmpty` and `TasksHeld` together. None of them is
  inductive alone: `PopTask` keeps the types only if the queue is not empty; that
  it is not, between the test and the pop, depends on the mutex; and `Push`
  appends a task, and not `NoTask`, because of `TasksHeld`.
* `PoolTypeCorrect`, `PoolMutualExclusion`, `PoolNeverPopsEmpty`: its parts.
* `PoolWorkConserving`: no lost wakeup. `WorkConserving` is inductive given
  `PoolInv`; the proof counts the workers that head for the queue, one step per
  action, with the library's facts about cardinality of finite sets.
* `PoolImplementsTaskQueue`: `Push`, `PopTask` and `ProcessOn` are `Submit`,
  `Take` and `Finish` of `TaskQueue`; every other step stutters.

`CgiPipeProofs` proves all properties of `CgiPipe` but liveness, for every
capacity of the pipes, every length of body, output and log, and any mixture of
program kinds, from `CgiPipeAssumption` alone:

* `CallInvariant`: `Spec => []CallInv`. `NothingLost` says that what the child
  wrote is what the parent has read followed by what is in the pipe. It does not
  keep itself after the parent stopped reading: `Progress` adds that until its
  end the child itself holds the write end, so the parent cannot have seen the
  end of the output before. `ExecFails` (a target that cannot be executed ends
  by `exit(1)`) is what `OutcomeExpected` needs.
* `CallReapsItsChild`, `CallOutcomesExpected`: from `CallInv` at the return.
* `CallImplementsCgiCall`: `Fork`, the child's writes, its end and the two kinds
  of return are the steps of `CgiCall`; all else stutters.
* `CallTypeCorrect`: given `CallInv`, one step per conjunct that a step can move.
* `CallLeaksOnlyAfterFailure`: `ParentEnds` names the ends the parent holds at
  each of its places; other processes change only their own entries.
* `CallDeliversBody`: what the child has read followed by what is in its pipe is
  what the parent wrote (`BodyInOrder`). A read at the end of the input would
  break it; `NotAtEof` shows from `ParentEnds` that no program that still runs
  ever meets it.
* `CallMutualWaitOnlyIf`: `Turns` adds that nothing is read before all is
  written; what is in the pipes then follows from the lengths.

`HttpServerProofs` proves all of `HttpServer` but liveness, for any connections,
workers, backlog, number of failures and set of descriptor numbers that is not
empty (a process with none could not have started; with none "the leaks never
take the last number" would be false):

* `HttpImplementsPool`: every step of the server is one of the pool's or leaves
  its variables alone, so `PoolInvariant` and `PoolWorkConserving` hold inside the
  server (`HttpWorkConserving`).
* `HttpInvariant`: `Numbers` says that a number is pending (with `Loop`, in the
  queue or with a worker) in one place only and exactly if it stands for a
  connection, `Sockets` that an accepted connection has exactly one number, open
  until its handler has closed it, `BacklogOnce` that the backlog has no
  connection twice or that was accepted. They keep each other: `Accept` may take a
  number only because no free one is pending, which is what a close leaves.
* `HttpOneHandlerPerConnection`, `HttpDescriptorsAccounted`, `HttpTypeCorrect`:
  from it. That leaks never take the last number is inductive because a call that
  fails holds its own connection.

`EndPointTypeProofs` and `EndPointProofs` prove all of `EndPoint` but liveness, for
requests of any length, files and programs of any size, any width of int, any
limit of `sendfile`, any window and number of changes of the file system. The invariant has layers, each
proved with the ones before it, because none is inductive alone:

* `EndTypes`: the types of all variables, `TypeOK` among them. Sequences that are
  cut from others (paths, bodies, prefixes of files) need lemmas of their own.
* `Control`: which descriptors are open where, and where `stop` can be set. From
  it `EndClosesAll`.
* `Prepared`: what was built, by which of three routes: a program's output, a
  file, or an error. Between `GetRequestHead` and the build nothing of the
  response is there (`Untouched`).
* `Wired`: what is on the wire is a part of what was prepared. For a program's
  output: after the first round of the send loop the whole output, and then
  tails of it. From the four layers follow `EndErrorNeverLeaks`,
  `EndCgiReaderGetsOutput` and `EndStaticFramed`; for the latter `Wired` says that no
  more was sent than one `sendfile` moves of the file that was opened, and as much
  unless it was interrupted.
* `Suffixed`: the suffix is that of the full path as it is now, also after
  index.html was appended. `EndTypeFitsName` then follows from lemmas about the
  last dot and the last slash of a path.
* `ReadSoFar`: the items taken are a request line, heads, a blank line and bytes
  of the body in that order, the heads read are those of the stream, and the
  declared length is that of the first that has one. From it
  `EndAnswersCompleteOnly`. The lemmas count bytes in prefixes of the stream.
* `EndImplementsExchange`: `ReadStep` is `Hear` or a stutter, `SendHead` is
  `Answer`, a round of sending is `Say`, `Close` is `HangUp`; that only error pages
  are sent with an error status is `Wired` again.

`LineReaderProofs` proves `LineReader` but for liveness, for every alphabet and
streams of any length. `Split` is a recursive function: that it exists
(`SplitsExist`), that a prefix of the stream has the lines it had (`SplitsPrefix`),
and so what one byte more does to them (`SplitChar`, `SplitLineFeed`,
`SplitLineEnd`), is shown with least counterexamples from `LeastNumber`, the
library's induction not being available. The invariant `LineInv` says, besides
types, what was returned between two bytes (`Between`), while the reader looks
behind a CR (`BehindCR`, `AtLF`: the lines before the CR), and at the end (`Over`).
`Between` alone is not inductive: it needs `CRDone`, that after a CR whose line was
returned no LF can be taken, because the reader has seen another byte or because
recv fails. From it `LineReadsTheLines` and `LineReadsToTheEnd`.

`CgiProgramsProofs` proves `CgiPrograms` but for liveness, for queries of any form
and length, every width of int, any special characters, whatever statements with
these add, and any number of tries:

* lemmas: `CutString` cuts at the first separator, a part of a part is a part,
  and so the fields of a query are what `Said` says (`ValuesAsAsked`); `atoi` is an
  int (`Number` exists and is one, by least counterexample again); the division is
  the quotient that is rounded towards zero (`DivideIsQuotient`), and there is none
  that is an int if the processor traps (`TrapsOnlyWithoutQuotient`).
* `ProgramsInvariant`: `Stage` ties place, status, buffer and page together;
  `Counted` that every call but the last was killed or lost; `Inserted` that no call
  has sent an insert before it queried or was abandoned, and that there is one row
  for each executed insert, if the values are plain; `Rows`,
  `Known` and `Computed` what rows, success and results are based on. None of
  `TypeOK` (whose `page` needs `Stage`, whose `kills` needs `Counted`) and the
  properties is inductive without these.
* `ProgramsTypeCorrect`, `ProgramsRowsAsAsked`, `ProgramsResultsRight`,
  `ProgramsPageTruth` and `ProgramsDuplicateOnlyIfUntold` follow.

The invariants of these modules were checked by TLC on the instances of the runs
before they were proved.

From which assumptions: those named `...Assumption` in each module. They say that
bounds are numbers, that distinguished values differ from ordinary ones, that
requests and queries are sequences of what they are made of, and, for `HttpServer`,
that there is a descriptor. TLC evaluates all of them.

Only model-checked: liveness (`TaskTakenByReliable`, `EachLineIsRead`,
`HandlerEnds`, `AnswerArrives`, `Returns`, `EveryConnectionServed`,
`EveryCallEnds`), which needs fairness and ENABLED and is out of this prover's
reach. What `Number` computes beyond being a number (that it is the decimal value
of its digits) is its definition and has no second one to be compared with. The
five properties that are violated are counterexamples, found by TLC.

## Not covered

These are modelled, but no property says that they do not happen, because they do:

* `Protocol.hpp:602`: a client that neither completes nor ends its request holds its
  worker; there is no timeout, and six of them stop the server. `HandlerEnds`
  speaks of other clients only, and `TaskTakenByReliable` needs one worker whose
  handlers return.
* `Protocol.hpp:492`: an interrupted `sendfile` is not continued.
* `mysql_connect.cc:15`, 20: the page says that the registration succeeded also after a
  refusal. `PageTruth` accepts what the code does and excludes other cases.
* `HttpServer.hpp:57`: tasks of -1 are queued without a bound (see the bounds above).
* `mysql_connect.cc:48`: values with special characters store something else; the
  properties exclude them.

## Not modelled

Log output (but for what `exit` flushes), build scripts and the web pages; the
text of headers and status lines. Names of files are replaced by what is at them.
URL decoding does not exist in the code. The environment of a program is the query
it carries; the text of an SQL statement is its two values, and what SQL does with
special characters in them is left open (`Strays`). `TcpServer`'s and `HttpServer`'s
`_stop`, and `IsStop` of the pool, are never used. The `#if 0` parts are not code.

Of the source lines of the repository more than nine in ten are not this program:
the headers under `cgi/include` belong to the MySQL client library (of which
`mysql_connect.cc` uses five functions, modelled as an external database), and
`wwwroot` holds a site template with its vendored scripts. What is left, the
1300 lines of `src/MinHttp`, is modelled by the modules above.

## Plan

Done: the pool with its abstract queue, the line reader, the handler and the CGI
call with their abstract specifications, the CGI programs, the process that
composes the pool with the accept loop, and the proofs of every safety property
that a run checks, the refinements included. Left:

1. `HttpServer`: an abstract specification of the whole server (connections are
   accepted, handled once and closed) that it implements.
2. `EndPoint` and `CgiPipe`: that the outcomes `ProcessCIG` has as one step of
   `EndPoint` are exactly those of `CgiCall`, as a theorem over both modules.
3. The steps of the liveness arguments that need no ENABLED: that each helpful
   action leads to the next stage, as action properties.
