-------------------------------- MODULE CgiPipe --------------------------------
(***************************************************************************)
(* EndPoint::ProcessCIG of MinHttp/Protocol.hpp: the worker (the parent)   *)
(* makes two pipes, forks, gives the body to the child's standard input,   *)
(* reads its standard output to the end and waits for it; the child is a   *)
(* CGI program, those under MinHttp/cgi or any other.  A child another     *)
(* worker forks meanwhile inherits every end the parent has open.          *)
(*                                                                         *)
(* The pipes are POSIX's, of limited capacity: read waits for a byte and   *)
(* reports the end once no process has the write end, write waits for room *)
(* and fails (SIGPIPE is ignored, also across exec) once none has the read *)
(* end.  Processes move one byte per step; the byte's value is its place.  *)
(***************************************************************************)
EXTENDS Integers, Sequences, FiniteSets, CgiOutcome

CONSTANTS
    Programs,   \* kinds of CGI program, of ProgramKinds
    MaxLength,  \* bound of the model: Content-Length of a POST
    Output,     \* bytes a program writes, if it does not copy its input
    Capacity,   \* of a pipe, in bytes
    MaxLog,     \* of stdio's output buffer, in bytes; smaller than a pipe
    NoResult    \* "result" of a call that has not returned

\* "comm": the programs that use cgi/comm.hpp, which read the declared body
\* and then write.  "script": shell_cgi.sh and python_cgi.sh, which only
\* write.  Programs that others may install: "filter" writes each byte of the
\* body as soon as it has read it, "eof" reads its input to the end first.
ProgramKinds == {"comm", "script", "filter", "eof"}

ASSUME CgiPipeAssumption ==
    /\ Programs \subseteq ProgramKinds
    /\ MaxLength \in Nat /\ Output \in Nat
    /\ Capacity \in Nat \ {0}
    /\ MaxLog \in 0..Capacity

VARIABLES
    method,          \* of the request
    content_length,  \* of the request, all of whose body was received
    program,         \* the kind of the target
    executable,      \* is there such a program?
    input,           \* what is in the pipe child => parent
    output,          \* what is in the pipe parent => child
    holders,         \* the processes that have each end of a pipe open
    pc,              \* where the parent is
    total,           \* bytes of the body it has written
    response_body,   \* what it has read
    code,            \* what ProcessCIG returns
    child,           \* where the child is
    query_string,    \* what the program has read
    written,         \* what the child has written
    status,          \* how the child ended
    other            \* a child of another worker: unborn, alive or dead

vars == <<method, content_length, program, executable, input, output, holders, pc, total,
          response_body, code, child, query_string, written, status, other>>
requestVars == <<method, content_length, program, executable>>
parentVars == <<pc, total, response_body, code>>
childVars == <<child, query_string, written, status>>

Ends == {"input[0]", "input[1]", "output[0]", "output[1]"}
Processes == {"parent", "child", "other"}

Open(p, ends) == holders' = [e \in Ends |->
    IF e \in ends THEN holders[e] \cup {p} ELSE holders[e]]
Shut(p, ends) == holders' = [e \in Ends |->
    IF e \in ends THEN holders[e] \ {p} ELSE holders[e]]
Held(p) == {e \in Ends : p \in holders[e]}

Init ==
    /\ method \in {"GET", "POST"}
    /\ content_length \in 0..(IF method = "POST" THEN MaxLength ELSE 0)
    /\ program \in Programs /\ executable \in BOOLEAN
    /\ input = <<>> /\ output = <<>>
    /\ holders = [e \in Ends |-> {}]
    /\ pc = "pipe(input)" /\ total = 0 /\ response_body = <<>> /\ code = OK
    /\ child = "unborn" /\ query_string = <<>> /\ written = <<>>
    /\ status = "none"
    /\ other = "unborn"

-----------------------------------------------------------------------------
(* The parent *)

Return(c) == pc' = "done" /\ code' = c

\* pipe(input)
PipeInput ==
    /\ pc = "pipe(input)"
    /\ \/ pc' = "pipe(output)" /\ Open("parent", {"input[0]", "input[1]"}) /\ UNCHANGED code
       \/ Return(SERVER_ERROR) /\ UNCHANGED holders
    /\ UNCHANGED <<requestVars, input, output, total, response_body, childVars, other>>

\* pipe(output); if it fails nobody closes the first pipe.
PipeOutput ==
    /\ pc = "pipe(output)"
    /\ \/ pc' = "fork" /\ Open("parent", {"output[0]", "output[1]"}) /\ UNCHANGED code
       \/ Return(SERVER_ERROR) /\ UNCHANGED holders
    /\ UNCHANGED <<requestVars, input, output, total, response_body, childVars, other>>

\* fork; if it fails nobody closes the pipes, and 404 is returned.
Fork ==
    /\ pc = "fork"
    /\ \/ /\ pc' = "close(output[0])"
          /\ child' = "setup"
          /\ Open("child", Ends)
          /\ UNCHANGED code
       \/ Return(NOT_FOUND) /\ UNCHANGED <<holders, child>>
    /\ UNCHANGED <<requestVars, input, output, total, response_body,
                   query_string, written, status, other>>

\* One close of the parent's.
ParentClose(end, from, to) ==
    /\ pc = from
    /\ Shut("parent", {end})
    /\ pc' = to
    /\ UNCHANGED <<requestVars, input, output, total, response_body, code,
                   childVars, other>>

\* Mutant: the parent keeps the write end of the pipe it reads.
CloseUnused_KeepsInput ==
    ParentClose("output[0]", "close(output[0])", "write")

\* Mutant: the response is read before the body is written.
CloseUnused_ReadsFirst ==
    \/ ParentClose("output[0]", "close(output[0])", "close(input[1])")
    \/ ParentClose("input[1]", "close(input[1])", "read")

\* close(output[0]); close(input[1]);
CloseUnused ==
    \/ ParentClose("output[0]", "close(output[0])", "close(input[1])")
    \/ ParentClose("input[1]", "close(input[1])", "write")

\* Mutant: total <= content_length writes the terminating NUL as well.
Write_OneMore ==
    /\ pc = "write"
    /\ IF method = "POST" /\ total <= content_length /\ holders["output[0]"] # {}
       THEN /\ Len(output) < Capacity
            /\ output' = Append(output, total + 1)
            /\ total' = total + 1
            /\ UNCHANGED pc
       ELSE pc' = "read" /\ UNCHANGED <<output, total>>
    /\ UNCHANGED <<requestVars, input, holders, response_body, code, childVars, other>>

\* Mutant: every write starts at the beginning of the body.
Write_FromStart ==
    /\ pc = "write"
    /\ IF method = "POST" /\ total < content_length /\ holders["output[0]"] # {}
       THEN /\ Len(output) < Capacity
            /\ output' = Append(output, 1)
            /\ total' = total + 1
            /\ UNCHANGED pc
       ELSE pc' = "read" /\ UNCHANGED <<output, total>>
    /\ UNCHANGED <<requestVars, input, holders, response_body, code, childVars, other>>

\* The loop that writes the body: done at the end or if write fails.
Write ==
    /\ pc = "write"
    /\ IF method = "POST" /\ total < content_length /\ holders["output[0]"] # {}
       THEN /\ Len(output) < Capacity
            /\ output' = Append(output, total + 1)
            /\ total' = total + 1
            /\ UNCHANGED pc
       ELSE pc' = "read" /\ UNCHANGED <<output, total>>
    /\ UNCHANGED <<requestVars, input, holders, response_body, code, childVars, other>>

\* Mutant: an empty pipe is taken for the end of the output.
Read_UntilEmpty ==
    /\ pc = "read"
    /\ IF input # <<>>
       THEN /\ response_body' = Append(response_body, Head(input))
            /\ input' = Tail(input)
            /\ UNCHANGED pc
       ELSE pc' = "waitpid" /\ UNCHANGED <<input, response_body>>
    /\ UNCHANGED <<requestVars, output, holders, total, code, childVars, other>>

\* while (read(input[0], &ch, 1) > 0) response_body.push_back(ch);
Read ==
    /\ pc = "read"
    /\ \/ /\ input # <<>>
          /\ response_body' = Append(response_body, Head(input))
          /\ input' = Tail(input)
          /\ UNCHANGED pc
       \/ /\ input = <<>> /\ holders["input[1]"] = {}
          /\ pc' = "waitpid"
          /\ UNCHANGED <<input, response_body>>
    /\ UNCHANGED <<requestVars, output, holders, total, code, childVars, other>>

\* Mutant: waitpid with WNOHANG finds no child that ended, and code stays OK.
WaitPid_NoHang ==
    /\ pc = "waitpid"
    /\ code' = IF child = "ended" THEN CodeOf(status) ELSE OK
    /\ child' = IF child = "ended" THEN "reaped" ELSE child
    /\ pc' = "close(input[0])"
    /\ UNCHANGED <<requestVars, input, output, holders, total, response_body,
                   query_string, written, status, other>>

\* waitpid(pid, &status, 0), and what its status is turned into.
WaitPid ==
    /\ pc = "waitpid"
    /\ child = "ended"
    /\ code' = CodeOf(status)
    /\ child' = "reaped"
    /\ pc' = "close(input[0])"
    /\ UNCHANGED <<requestVars, input, output, holders, total, response_body,
                   query_string, written, status, other>>

\* Mutant: the write end is not closed after the call.
CloseUsed_KeepsOutput == ParentClose("input[0]", "close(input[0])", "done")

\* close(input[0]); close(output[1]);
CloseUsed ==
    \/ ParentClose("input[0]", "close(input[0])", "close(output[1])")
    \/ ParentClose("output[1]", "close(output[1])", "done")

-----------------------------------------------------------------------------
(* The child *)

\* A process that ends first closes all it has open; only later can waitpid
\* report it.
End(how) ==
    /\ child' = "exiting"
    /\ status' = how
    /\ Shut("child", Ends)

childUnchanged == UNCHANGED <<requestVars, parentVars, other>>

\* close(output[1]); close(input[0]); the environment; dup2.  The originals
\* of the duplicated ends stay open too, until the child ends.
ChildSetup ==
    /\ child = "setup"
    /\ Shut("child", {"output[1]", "input[0]"})
    /\ child' = "exec"
    /\ UNCHANGED <<input, output, query_string, written, status>> /\ childUnchanged

\* execl starts the program, or it fails and the child calls exit(1).
Exec ==
    /\ child = "exec"
    /\ child' \in IF executable THEN {"run", "exit(1)"} ELSE {"exit(1)"}
    /\ UNCHANGED <<input, output, holders, query_string, written, status>>
    /\ childUnchanged

\* exit flushes stdout.  The child's is a copy of the server's, with the log
\* lines that were in its buffer at fork (0 here); descriptor 1 is the pipe.
Flush ==
    /\ child = "exit(1)"
    /\ \/ /\ Len(written) < MaxLog
          /\ Len(input) < Capacity
          /\ input' = Append(input, 0) /\ written' = Append(written, 0)
          /\ UNCHANGED <<holders, child, status>>
       \/ End("nonzero") /\ UNCHANGED <<input, written>>
    /\ UNCHANGED <<output, query_string>> /\ childUnchanged

\* Has the program read all it wants to read?  comm.hpp's GetQueryString
\* reads CONTENT_LENGTH times one byte, and nothing for a GET.
AtEof == output = <<>> /\ holders["output[1]"] = {}
ReadAll ==
    CASE program = "script" -> TRUE
      [] program = "eof"    -> AtEof
      [] OTHER              -> Len(query_string) = content_length

\* What it will have written in the end, as far as it is known by now.
ToWrite ==
    CASE program = "filter"              -> query_string
      [] program # "filter" /\ ReadAll  -> [i \in 1..Output |-> i]
      [] program # "filter" /\ ~ReadAll -> <<>>

\* A read of the program: a byte, or at the end, since GetQueryString does
\* not look at read's result, its variable c once more (as 0 here).
ProgramRead ==
    /\ child = "run"
    /\ ~ReadAll /\ Len(written) = Len(ToWrite)
    /\ \/ /\ output # <<>>
          /\ query_string' = Append(query_string, Head(output))
          /\ output' = Tail(output)
       \/ /\ AtEof
          /\ query_string' = Append(query_string, 0)
          /\ UNCHANGED output
    /\ UNCHANGED <<input, holders, child, written, status>> /\ childUnchanged

ProgramWrite ==
    /\ child = "run"
    /\ Len(written) < Len(ToWrite)
    /\ Len(input) < Capacity
    /\ LET byte == ToWrite[Len(written) + 1]
       IN  input' = Append(input, byte) /\ written' = Append(written, byte)
    /\ UNCHANGED <<output, holders, child, query_string, status>> /\ childUnchanged

\* The program ends by itself, ...
ProgramExit ==
    /\ child = "run"
    /\ ReadAll /\ Len(written) = Len(ToWrite)
    /\ \E how \in {"zero", "nonzero"} : End(how)
    /\ UNCHANGED <<input, output, query_string, written>> /\ childUnchanged

\* ... or by a signal, wherever it is (cgi.cc divides by what it is given).
ProgramKilled ==
    /\ child = "run"
    /\ End("signal")
    /\ UNCHANGED <<input, output, query_string, written>> /\ childUnchanged

\* The child has become a zombie.
ChildEnded ==
    /\ child = "exiting"
    /\ child' = "ended"
    /\ UNCHANGED <<input, output, holders, query_string, written, status>>
    /\ childUnchanged

-----------------------------------------------------------------------------
(* A child that another worker forks has its own copies of all ends the    *)
(* server's process has open: nothing marks them close-on-exec.            *)

OtherFork ==
    /\ other = "unborn" /\ pc # "done"
    /\ Open("other", Held("parent"))
    /\ other' = "alive"
    /\ UNCHANGED <<requestVars, input, output, parentVars, childVars>>

OtherEnds ==
    /\ other = "alive"
    /\ Shut("other", Ends)
    /\ other' = "dead"
    /\ UNCHANGED <<requestVars, input, output, parentVars, childVars>>

-----------------------------------------------------------------------------
ParentStep ==
    \/ PipeInput \/ PipeOutput \/ Fork \/ CloseUnused \/ Write \/ Read
    \/ WaitPid \/ CloseUsed

ChildStep == ChildSetup \/ Exec \/ Flush \/ ProgramRead \/ ProgramWrite
             \/ ProgramExit \/ ChildEnded

Next == ParentStep \/ ChildStep \/ ProgramKilled \/ OtherFork \/ OtherEnds

Spec == Init /\ [][Next]_vars

\* Both processes run, and a child of another worker ends too.
FairSpec ==
    Spec /\ WF_vars(ParentStep) /\ WF_vars(ChildStep) /\ WF_vars(OtherEnds)

-----------------------------------------------------------------------------
(* Properties *)

TypeOK ==
    /\ method \in {"GET", "POST"}
    /\ content_length \in 0..MaxLength
    /\ program \in Programs /\ executable \in BOOLEAN
    /\ Len(input) <= Capacity /\ Len(output) <= Capacity
    /\ holders \in [Ends -> SUBSET Processes]
    /\ total \in 0..content_length
    /\ code \in Codes
    /\ child \in {"unborn", "setup", "exec", "exit(1)", "run",
                  "exiting", "ended", "reaped"}
    /\ status \in {"none", "zero", "nonzero", "signal"}
    /\ other \in {"unborn", "alive", "dead"}

Finished == pc = "done" /\ child # "unborn"

\* What a program reads is the body, byte by byte: not checking the result of
\* read (comm.hpp) is harmless, whatever Content-Length says and whoever ends.
BodyDelivered == query_string = [i \in DOMAIN query_string |-> i]

\* Refinement (CgiCall): whatever fails and whatever other children hold the
\* ends of its pipes, the call returns all that its one child wrote, with the
\* code of that child's end.
Call == INSTANCE CgiCall WITH
    phase  <- IF pc = "done" THEN "returned"
              ELSE IF child = "unborn" THEN "called"
              ELSE IF status = "none" THEN "running" ELSE "ended",
    ending <- status,
    result <- IF pc = "done" THEN [code |-> code, body |-> response_body]
                             ELSE NoResult
ImplementsCgiCall == Call!CallSpec

\* ProcessCIG leaves no zombie behind, and it returns OK only for a program
\* that exited with 0, 500 exactly for one that was killed.
CodeOfReapedChild ==
    Finished =>
        /\ child = "reaped"
        /\ code = OK <=> status = "zero"
        /\ code = SERVER_ERROR <=> status = "signal"

\* EndPoint's ProcessCIG is this call in one step: the call has only outcomes
\* that EndPoint reckons with.
OutcomeExpected ==
    pc = "done" => code \in CodesWith(Len(response_body), executable)

\* The parent closes every end of both pipes, unless pipe or fork failed: the
\* early returns leave open exactly what was opened before them.
LeakOnlyAfterFailure ==
    pc = "done" =>
        /\ child # "unborn" => Held("parent") = {}
        /\ child = "unborn" /\ code = NOT_FOUND => Held("parent") = Ends
        /\ child = "unborn" /\ code # NOT_FOUND =>
              Held("parent") \in {{}, {"input[0]", "input[1]"}}

\* Parent and child wait for each other.
ParentBlocked ==
    \/ pc = "write" /\ total < content_length /\ Len(output) = Capacity
       /\ holders["output[0]"] # {}
    \/ pc = "read" /\ input = <<>> /\ holders["input[1]"] # {}
ChildBlocked ==
    /\ child = "run"
    /\ IF Len(written) < Len(ToWrite)
       THEN Len(input) = Capacity
       ELSE ~ReadAll /\ output = <<>> /\ ~AtEof
MutualWait == ParentBlocked /\ ChildBlocked

\* The parent writes the whole body before it reads, and closes the child's
\* standard input only after it read everything.  A program can live with
\* that if it reads the body before it writes, or if what is written while
\* nobody reads fits the pipes; never if it reads to the end of its input.
Compatible ==
    CASE program = "comm"   -> TRUE
      [] program = "script" -> content_length <= Capacity \/ Output <= Capacity
      [] program = "filter" -> content_length <= 2 * Capacity + 1
      [] program = "eof"    -> FALSE

\* Only with other programs can the worker and its child wait for each other
\* for ever; those under cgi/ that read their input never do.
MutualWaitOnlyIf == MutualWait => ~Compatible

\* With a compatible program the call returns, whatever fails meanwhile and
\* whatever children of other workers inherited.
Returns == Compatible ~> pc = "done"

=============================================================================
