----------------------------- MODULE CgiPipeProofs -----------------------------
(***************************************************************************)
(* Theorems about CgiPipe, for pipes of any capacity, bodies, outputs and  *)
(* logs of any length, and any kinds of program.                           *)
(***************************************************************************)
EXTENDS CgiPipe, TLAPS

Alive == {"setup", "exec", "exit(1)", "run"}
Before == {"pipe(input)", "pipe(output)", "fork"}
After == {"close(input[0])", "close(output[1])"}

Types ==
    /\ pc \in Before \cup After \cup
              {"close(output[0])", "close(input[1])", "write", "read", "waitpid", "done"}
    /\ child \in Alive \cup {"unborn", "exiting", "ended", "reaped"}
    /\ status \in {"none", "zero", "nonzero", "signal"}
    /\ total \in Nat
    /\ input \in Seq(Nat) /\ output \in Seq(Nat)
    /\ response_body \in Seq(Nat) /\ written \in Seq(Nat) /\ query_string \in Seq(Nat)
    /\ holders \in [Ends -> SUBSET Processes]

\* What the child wrote is what the parent has read and what is in the pipe.
NothingLost == written = response_body \o input

\* How far the two processes can be from each other.
Progress ==
    /\ pc \in Before => child = "unborn"
    /\ child = "unborn" =>
          /\ pc \in Before \cup {"done"}
          /\ response_body = <<>> /\ input = <<>>
          /\ pc = "done" => code \in {NOT_FOUND, SERVER_ERROR}
    /\ status = "none" <=> child \in Alive \cup {"unborn"}
    /\ child \in Alive => "child" \in holders["input[1]"]
    /\ pc \in After \cup {"waitpid"} => input = <<>> /\ child \notin Alive
    /\ pc \in After \/ (pc = "done" /\ child # "unborn") <=> child = "reaped"
    /\ child = "reaped" => input = <<>> /\ code = CodeOf(status)

\* A target that cannot be executed never runs, and ends by exit(1).
ExecFails ==
    ~executable => child # "run" /\ status \in {"none", "nonzero"}

\* The inductive invariant.  That nothing is written after the parent saw the
\* end of the output rests on the child's own end of the pipe in holders.
CallInv == Types /\ NothingLost /\ Progress /\ ExecFails

-----------------------------------------------------------------------------
(* Lemmas about sequences, and about the program's output *)

\* A byte written: it is last in the pipe, and last of all.
LEMMA AppendBehind ==
    ASSUME NEW s \in Seq(Nat), NEW t \in Seq(Nat), NEW b \in Nat
    PROVE  /\ Append(t, b) \in Seq(Nat)
           /\ Append(s \o t, b) = s \o Append(t, b)
  OBVIOUS

\* A byte read: it moves from the front of the pipe to the end of the body.
LEMMA MoveHead ==
    ASSUME NEW s \in Seq(Nat), NEW t \in Seq(Nat), t # <<>>
    PROVE  /\ Head(t) \in Nat /\ Tail(t) \in Seq(Nat)
           /\ Append(s, Head(t)) \in Seq(Nat)
           /\ Append(s, Head(t)) \o Tail(t) = s \o t
<1>1. Head(t) \in Nat /\ Tail(t) \in Seq(Nat) /\ Append(s, Head(t)) \in Seq(Nat)
  OBVIOUS
<1>2. Len(Append(s, Head(t)) \o Tail(t)) = Len(s \o t)
  OBVIOUS
<1>3. \A i \in 1..Len(s \o t) : (Append(s, Head(t)) \o Tail(t))[i] = (s \o t)[i]
  OBVIOUS
<1>4. Append(s, Head(t)) \o Tail(t) = s \o t
  BY <1>1, <1>2, <1>3
<1> QED
  BY <1>1, <1>4

\* Whatever the program will write next is a byte.
LEMMA NextByte ==
    ASSUME Types, Len(written) < Len(ToWrite)
    PROVE  ToWrite[Len(written) + 1] \in Nat
<1>1. Output \in Nat
  BY CgiPipeAssumption
<1>2. [i \in 1..Output |-> i] \in Seq(Nat) /\ <<>> \in Seq(Nat)
  BY <1>1
<1>3. ToWrite \in Seq(Nat)
  <2>1. CASE program = "filter"
    BY <2>1 DEF ToWrite, Types
  <2>2. CASE program # "filter" /\ ReadAll
    BY <1>2, <2>2 DEF ToWrite
  <2>3. CASE program # "filter" /\ ~ReadAll
    BY <1>2, <2>3 DEF ToWrite
  <2> QED
    BY <2>1, <2>2, <2>3
<1> QED
  BY <1>3 DEF Types

LEMMA CodeOfEach ==
    /\ CodeOf("zero") = OK
    /\ CodeOf("nonzero") = BAD_REQUSET
    /\ CodeOf("signal") = SERVER_ERROR
  BY DEF CodeOf

-----------------------------------------------------------------------------
(* The invariant *)

LEMMA CallInvInit == Init => CallInv
<1> SUFFICES ASSUME Init
             PROVE  CallInv
  OBVIOUS
<1> USE DEF Init
<1>1. Types
  BY DEF Types, Before
<1>2. NothingLost
  BY DEF NothingLost
<1>3. Progress
  BY DEF Progress, Before, After, Alive
<1>4. ExecFails
  BY DEF ExecFails
<1> QED
  BY <1>1, <1>2, <1>3, <1>4 DEF CallInv

\* The steps of the parent ...
LEMMA ParentKeepsCallInv == CallInv /\ ParentStep => CallInv'
<1> SUFFICES ASSUME CallInv, ParentStep
             PROVE  CallInv'
  OBVIOUS
<1> USE DEF CallInv, Types, Progress, ExecFails, Before, After, Alive,
            requestVars, childVars
<1>1. CASE PipeInput \/ PipeOutput
  <2>1. Types' /\ ExecFails'
    BY <1>1 DEF PipeInput, PipeOutput, Return, Open, Ends, Processes
  <2>2. NothingLost'
    BY <1>1 DEF NothingLost, PipeInput, PipeOutput
  <2>3. Progress'
    BY <1>1 DEF PipeInput, PipeOutput, Return
  <2> QED
    BY <2>1, <2>2, <2>3
<1>2. CASE Fork
  <2>1. Types' /\ ExecFails'
    BY <1>2 DEF Fork, Return, Open, Ends, Processes
  <2>2. NothingLost'
    BY <1>2 DEF NothingLost, Fork
  <2>3. Progress'
    BY <1>2 DEF Fork, Return, Open, Ends
  <2> QED
    BY <2>1, <2>2, <2>3
<1>3. ASSUME NEW end \in Ends, NEW from, NEW to, ParentClose(end, from, to),
             <<from, to>> \in {<<"close(output[0])", "close(input[1])">>,
                               <<"close(input[1])", "write">>,
                               <<"close(input[0])", "close(output[1])">>,
                               <<"close(output[1])", "done">>}
      PROVE  CallInv'
  <2>1. holders' \in [Ends -> SUBSET Processes]
    BY <1>3 DEF ParentClose, Shut
  <2>2. "child" \in holders["input[1]"] => "child" \in holders'["input[1]"]
    BY <1>3 DEF ParentClose, Shut, Ends
  <2>3. Types' /\ ExecFails'
    BY <1>3, <2>1 DEF ParentClose
  <2>4. NothingLost'
    BY <1>3 DEF NothingLost, ParentClose
  <2>5. Progress'
    BY <1>3, <2>2 DEF ParentClose
  <2> QED
    BY <2>3, <2>4, <2>5
<1>4. CASE CloseUnused \/ CloseUsed
  BY <1>3, <1>4 DEF CloseUnused, CloseUsed, Ends
<1>5. CASE Write
  <2>1. Types' /\ ExecFails'
    <3>1. total + 1 \in Nat /\ Append(output, total + 1) \in Seq(Nat)
      OBVIOUS
    <3>2. output' \in Seq(Nat) /\ total' \in Nat
      BY <1>5, <3>1 DEF Write
    <3> QED
      BY <1>5, <3>2 DEF Write
  <2>2. NothingLost'
    BY <1>5 DEF NothingLost, Write
  <2>3. Progress'
    BY <1>5 DEF Write
  <2> QED
    BY <2>1, <2>2, <2>3
<1>6. CASE Read
  <2>1. CASE input # <<>> /\ response_body' = Append(response_body, Head(input))
             /\ input' = Tail(input) /\ UNCHANGED pc
    BY <1>6, <2>1, MoveHead DEF NothingLost, Read
  <2>2. CASE input = <<>> /\ holders["input[1]"] = {} /\ pc' = "waitpid"
             /\ UNCHANGED <<input, response_body>>
    BY <1>6, <2>2 DEF NothingLost, Read
  <2> QED
    BY <1>6, <2>1, <2>2 DEF Read
<1>7. CASE WaitPid
  <2>1. Types' /\ ExecFails'
    BY <1>7 DEF WaitPid
  <2>2. NothingLost'
    BY <1>7 DEF NothingLost, WaitPid
  <2>3. Progress'
    BY <1>7 DEF WaitPid
  <2> QED
    BY <2>1, <2>2, <2>3
<1> QED
  BY <1>1, <1>2, <1>4, <1>5, <1>6, <1>7 DEF ParentStep

\* ... those of the child ...
LEMMA ChildKeepsCallInv == CallInv /\ (ChildStep \/ ProgramKilled) => CallInv'
<1> SUFFICES ASSUME CallInv, ChildStep \/ ProgramKilled
             PROVE  CallInv'
  OBVIOUS
<1> USE DEF CallInv, Types, Progress, ExecFails, Before, After, Alive,
            requestVars, parentVars, childUnchanged
<1>1. CASE ChildSetup
  <2>1. holders' \in [Ends -> SUBSET Processes]
    BY <1>1 DEF ChildSetup, Shut
  <2>2. "child" \in holders'["input[1]"]
    BY <1>1 DEF ChildSetup, Shut, Ends
  <2> QED
    BY <1>1, <2>1, <2>2 DEF ChildSetup, NothingLost
<1>2. CASE Exec \/ ChildEnded
  BY <1>2 DEF Exec, ChildEnded, NothingLost
<1>3. ASSUME NEW b \in Nat, child \in Alive,
             input' = Append(input, b), written' = Append(written, b),
             UNCHANGED <<requestVars, parentVars, output, holders, child, query_string, status>>
      PROVE  CallInv'
  BY <1>3, AppendBehind DEF NothingLost
<1>4. ASSUME NEW how \in {"zero", "nonzero", "signal"}, End(how), child \in Alive,
             ~executable => how = "nonzero",
             UNCHANGED <<requestVars, parentVars, input, output, query_string, written>>
      PROVE  CallInv'
  <2>1. holders' \in [Ends -> SUBSET Processes]
    BY <1>4 DEF End, Shut
  <2> QED
    BY <1>4, <2>1 DEF End, NothingLost
<1>5. CASE Flush
  BY <1>3, <1>4, <1>5 DEF Flush
<1>6. CASE ProgramRead
  <2>1. query_string' \in Seq(Nat) /\ output' \in Seq(Nat)
    <3>1. Append(query_string, 0) \in Seq(Nat)
      OBVIOUS
    <3>2. output # <<>> => /\ Append(query_string, Head(output)) \in Seq(Nat)
                           /\ Tail(output) \in Seq(Nat)
      BY MoveHead
    <3> QED
      BY <1>6, <3>1, <3>2 DEF ProgramRead
  <2> QED
    BY <1>6, <2>1 DEF ProgramRead, NothingLost
<1>7. CASE ProgramWrite
  BY <1>3, <1>7, NextByte DEF ProgramWrite
<1>8. CASE ProgramExit \/ ProgramKilled
  BY <1>4, <1>8 DEF ProgramExit, ProgramKilled
<1> QED
  BY <1>1, <1>2, <1>5, <1>6, <1>7, <1>8 DEF ChildStep

\* ... and those of a child of another worker.
LEMMA OtherKeepsCallInv == CallInv /\ (OtherFork \/ OtherEnds) => CallInv'
<1> SUFFICES ASSUME CallInv, OtherFork \/ OtherEnds
             PROVE  CallInv'
  OBVIOUS
<1> USE DEF CallInv, Types, Progress, ExecFails, requestVars, parentVars, childVars
<1>1. holders' \in [Ends -> SUBSET Processes]
  BY DEF OtherFork, OtherEnds, Open, Shut, Processes
<1>2. "child" \in holders["input[1]"] => "child" \in holders'["input[1]"]
  BY DEF OtherFork, OtherEnds, Open, Shut, Ends
<1> QED
  BY <1>1, <1>2 DEF OtherFork, OtherEnds, NothingLost

LEMMA CallInvStep == CallInv /\ [Next]_vars => CallInv'
<1>1. CallInv /\ UNCHANGED vars => CallInv'
  BY DEF CallInv, Types, NothingLost, Progress, ExecFails, vars
<1> QED
  BY <1>1, ParentKeepsCallInv, ChildKeepsCallInv, OtherKeepsCallInv DEF Next

THEOREM CallInvariant == Spec => []CallInv
BY CallInvInit, CallInvStep, PTL DEF Spec

-----------------------------------------------------------------------------
(* Type correctness *)

\* The parts of TypeOK that Types does not have: bounds, and the request.
LEMMA StepKeepsTypes == CallInv /\ TypeOK /\ [Next]_vars => TypeOK'
<1> SUFFICES ASSUME CallInv, TypeOK, [Next]_vars
             PROVE  TypeOK'
  OBVIOUS
<1>1. CallInv'
  BY CallInvStep
<1>2. UNCHANGED requestVars
  BY DEF Next, ParentStep, PipeInput, PipeOutput, Fork, CloseUnused, ParentClose, Write, Read,
         WaitPid, CloseUsed, ChildStep, ChildSetup, Exec, Flush, ProgramRead, ProgramWrite,
         ProgramExit, ProgramKilled, ChildEnded, childUnchanged, OtherFork, OtherEnds,
         requestVars, vars
<1>3. holders' \in [Ends -> SUBSET Processes] /\ status' \in {"none", "zero", "nonzero", "signal"}
  BY <1>1 DEF CallInv, Types
<1>4. child' \in {"unborn", "setup", "exec", "exit(1)", "run", "exiting", "ended", "reaped"}
  BY <1>1 DEF CallInv, Types, Alive
<1>5. Len(input') <= Capacity /\ Len(output') <= Capacity
  <2> USE CgiPipeAssumption DEF CallInv, Types, TypeOK
  <2>1. CASE ParentStep
    <3>1. CASE Write
      <4>1. UNCHANGED <<input, output>> \/
            (Len(output) < Capacity /\ output' = Append(output, total + 1) /\ input' = input)
        BY <3>1 DEF Write
      <4>2. total + 1 \in Nat
        OBVIOUS
      <4> QED
        BY <4>1, <4>2
    <3>2. CASE Read
      <4>1. output' = output /\ (input' = input \/ (input # <<>> /\ input' = Tail(input)))
        BY <3>2 DEF Read
      <4> QED
        BY <4>1
    <3>3. CASE ~Write /\ ~Read
      BY <2>1, <3>3 DEF ParentStep, PipeInput, PipeOutput, Fork, CloseUnused, ParentClose,
                        WaitPid, CloseUsed
    <3> QED
      BY <3>1, <3>2, <3>3
  <2>2. CASE ChildStep \/ ProgramKilled
    <3>1. CASE Flush
      BY <3>1 DEF Flush
    <3>2. CASE ProgramWrite
      BY <3>2, NextByte DEF ProgramWrite
    <3>3. CASE ProgramRead
      <4>1. input' = input /\ (output' = output \/ (output # <<>> /\ output' = Tail(output)))
        BY <3>3 DEF ProgramRead
      <4> QED
        BY <4>1
    <3>4. CASE ChildSetup \/ Exec \/ ProgramExit \/ ProgramKilled \/ ChildEnded
      BY <3>4 DEF ChildSetup, Exec, ProgramExit, ProgramKilled, ChildEnded
    <3> QED
      BY <2>2, <3>1, <3>2, <3>3, <3>4 DEF ChildStep
  <2>3. CASE OtherFork \/ OtherEnds \/ UNCHANGED vars
    BY <2>3 DEF OtherFork, OtherEnds, vars
  <2> QED
    BY <2>1, <2>2, <2>3 DEF Next
<1>6. total' \in 0..content_length
  <2>1. content_length \in Nat /\ total \in 0..content_length
    BY CgiPipeAssumption DEF TypeOK
  <2>2. total' = total \/ (total' = total + 1 /\ total < content_length)
    <3>1. CASE Write
      BY <3>1 DEF Write
    <3>2. CASE ~Write
      BY <3>2 DEF Next, ParentStep, PipeInput, PipeOutput, Fork, CloseUnused, ParentClose, Read,
         WaitPid, CloseUsed, ChildStep, ChildSetup, Exec, Flush, ProgramRead, ProgramWrite,
         ProgramExit, ProgramKilled, ChildEnded, childUnchanged, OtherFork, OtherEnds,
         parentVars, vars
    <3> QED
      BY <3>1, <3>2
  <2> QED
    BY <2>1, <2>2
<1>7. code' \in Codes
  <2>1. CASE WaitPid
    <3>1. code' = CodeOf(status) /\ status \in {"zero", "nonzero", "signal"}
      BY <2>1 DEF WaitPid, CallInv, Types, Progress, Alive
    <3> QED
      BY <3>1, CodeOfEach DEF Codes
  <2>2. CASE ~WaitPid
    <3>1. code' = code \/ code' \in {NOT_FOUND, SERVER_ERROR}
      BY <2>2 DEF Next, ParentStep, PipeInput, PipeOutput, Fork, CloseUnused, ParentClose, Write,
         Read, CloseUsed, ChildStep, ChildSetup, Exec, Flush, ProgramRead, ProgramWrite,
         ProgramExit, ProgramKilled, ChildEnded, childUnchanged, OtherFork, OtherEnds,
         Return, parentVars, vars
    <3> QED
      BY <3>1 DEF TypeOK, Codes
  <2> QED
    BY <2>1, <2>2
<1>8. other' \in {"unborn", "alive", "dead"}
  BY DEF TypeOK, Next, ParentStep, PipeInput, PipeOutput, Fork, CloseUnused, ParentClose, Write,
         Read, WaitPid, CloseUsed, ChildStep, ChildSetup, Exec, Flush, ProgramRead, ProgramWrite,
         ProgramExit, ProgramKilled, ChildEnded, childUnchanged, OtherFork, OtherEnds, vars
<1> QED
  BY <1>2, <1>3, <1>4, <1>5, <1>6, <1>7, <1>8 DEF TypeOK, requestVars

\* No pipe holds more than it can, and no more than the body is written.
THEOREM CallTypeCorrect == Spec => []TypeOK
<1>1. Init => TypeOK
  <2> SUFFICES ASSUME Init
               PROVE  TypeOK
    OBVIOUS
  <2>1. content_length \in 0..MaxLength
    BY CgiPipeAssumption DEF Init
  <2>2. Len(<<>>) <= Capacity /\ 0 \in 0..content_length
    BY CgiPipeAssumption, <2>1
  <2> QED
    BY <2>1, <2>2 DEF Init, TypeOK, Codes
<1> QED
  BY <1>1, StepKeepsTypes, CallInvariant, PTL DEF Spec

-----------------------------------------------------------------------------
(* What the call returns *)

\* The code is that of the child's end, and the child is no zombie.
THEOREM CallReapsItsChild == Spec => []CodeOfReapedChild
<1>1. CallInv => CodeOfReapedChild
  <2> SUFFICES ASSUME CallInv, Finished
               PROVE  /\ child = "reaped"
                      /\ code = OK <=> status = "zero"
                      /\ code = SERVER_ERROR <=> status = "signal"
    BY DEF CodeOfReapedChild
  <2>1. child = "reaped" /\ code = CodeOf(status)
    BY DEF Finished, CallInv, Types, Progress, After
  <2>2. status \in {"zero", "nonzero", "signal"}
    BY <2>1 DEF CallInv, Types, Progress, Alive
  <2> QED
    BY <2>1, <2>2, CodeOfEach DEF OK, BAD_REQUSET, SERVER_ERROR
<1> QED
  BY <1>1, CallInvariant, PTL

\* The call has only outcomes that its one-step model in EndPoint has.
THEOREM CallOutcomesExpected == Spec => []OutcomeExpected
<1>1. CallInv => OutcomeExpected
  <2> SUFFICES ASSUME CallInv, pc = "done"
               PROVE  code \in CodesWith(Len(response_body), executable)
    BY DEF OutcomeExpected
  <2>1. CASE child = "unborn"
    <3>1. Len(response_body) = 0 /\ code \in {NOT_FOUND, SERVER_ERROR}
      BY <2>1 DEF CallInv, Types, Progress
    <3> QED
      BY <3>1 DEF CodesWith
  <2>2. CASE child # "unborn"
    <3>1. child = "reaped" /\ code = CodeOf(status)
      BY <2>2 DEF CallInv, Types, Progress, After
    <3>2. status \in {"zero", "nonzero", "signal"} /\ (~executable => status = "nonzero")
      BY <3>1 DEF CallInv, Types, Progress, ExecFails, Alive
    <3>3. code = BAD_REQUSET \/ (executable /\ code \in {OK, SERVER_ERROR})
      BY <3>1, <3>2, CodeOfEach
    <3> QED
      BY <3>3 DEF CodesWith
  <2> QED
    BY <2>1, <2>2
<1> QED
  BY <1>1, CallInvariant, PTL

-----------------------------------------------------------------------------
(* The ends the parent has open *)

\* At each place exactly the ends opened and not closed before it.
ParentEnds ==
    /\ pc = "pipe(input)" => Held("parent") = {}
    /\ pc = "pipe(output)" => Held("parent") = {"input[0]", "input[1]"}
    /\ pc \in {"fork", "close(output[0])"} => Held("parent") = Ends
    /\ pc = "close(input[1])" => Held("parent") = Ends \ {"output[0]"}
    /\ pc \in {"write", "read", "waitpid", "close(input[0])"} =>
          Held("parent") = {"input[0]", "output[1]"}
    /\ pc = "close(output[1])" => Held("parent") = {"output[1]"}

EndsInv == ParentEnds /\ LeakOnlyAfterFailure

LEMMA OpenAdds ==
    ASSUME Types, NEW ends \in SUBSET Ends, Open("parent", ends)
    PROVE  Held("parent")' = Held("parent") \cup ends
  BY DEF Types, Open, Held

LEMMA ShutRemoves ==
    ASSUME Types, NEW ends \in SUBSET Ends, Shut("parent", ends)
    PROVE  Held("parent")' = Held("parent") \ ends
  BY DEF Types, Shut, Held

\* What other processes open and close is not the parent's.
LEMMA OthersEnds ==
    ASSUME Types, NEW p \in {"child", "other"}, NEW ends \in SUBSET Ends,
           Open(p, ends) \/ Shut(p, ends)
    PROVE  Held("parent")' = Held("parent")
<1>1. p # "parent"
  OBVIOUS
<1>2. \A e \in Ends : "parent" \in holders'[e] <=> "parent" \in holders[e]
  <2>1. CASE Open(p, ends)
    BY <1>1, <2>1 DEF Open
  <2>2. CASE Shut(p, ends)
    BY <1>1, <2>2 DEF Shut
  <2> QED
    BY <2>1, <2>2
<1> QED
  BY <1>2 DEF Held

LEMMA ParentKeepsEnds == CallInv /\ EndsInv /\ ParentStep => EndsInv'
<1> SUFFICES ASSUME CallInv, EndsInv, ParentStep
             PROVE  EndsInv'
  OBVIOUS
<1> USE DEF CallInv, EndsInv, ParentEnds, LeakOnlyAfterFailure
<1>1. CASE PipeInput
  <2>1. pc' = "pipe(output)" => Held("parent")' = {"input[0]", "input[1]"}
    BY <1>1, OpenAdds DEF PipeInput, Ends, Return
  <2>2. pc' # "pipe(output)" => Held("parent")' = {}
    BY <1>1 DEF PipeInput, Held
  <2> QED
    BY <1>1, <2>1, <2>2 DEF PipeInput, Return, childVars, Types, Progress, Before,
                            NOT_FOUND, SERVER_ERROR
<1>2. CASE PipeOutput
  <2>1. pc' = "fork" => Held("parent")' = Ends
    BY <1>2, OpenAdds DEF PipeOutput, Ends, Return
  <2>2. pc' # "fork" => Held("parent")' = {"input[0]", "input[1]"}
    BY <1>2 DEF PipeOutput, Held
  <2> QED
    BY <1>2, <2>1, <2>2 DEF PipeOutput, Return, childVars, Types, Progress, Before,
                            NOT_FOUND, SERVER_ERROR
<1>3. CASE Fork
  <2>1. Held("parent")' = Ends
    BY <1>3, OthersEnds DEF Fork, Held
  <2> QED
    BY <1>3, <2>1 DEF Fork, Return, Progress, Before
<1>4. CASE CloseUnused
  <2>1. pc = "close(output[0])" /\ pc' = "close(input[1])" =>
            Held("parent")' = Ends \ {"output[0]"}
    BY <1>4, ShutRemoves DEF CloseUnused, ParentClose, Ends
  <2>2. pc = "close(input[1])" /\ pc' = "write" =>
            Held("parent")' = {"input[0]", "output[1]"}
    BY <1>4, ShutRemoves DEF CloseUnused, ParentClose, Ends
  <2> QED
    BY <1>4, <2>1, <2>2 DEF CloseUnused, ParentClose
<1>5. CASE Write \/ Read \/ WaitPid
  <2>1. Held("parent")' = Held("parent")
    BY <1>5 DEF Write, Read, WaitPid, Held
  <2> QED
    BY <1>5, <2>1 DEF Write, Read, WaitPid
<1>6. CASE CloseUsed
  <2>1. pc = "close(input[0])" /\ pc' = "close(output[1])" =>
            Held("parent")' = {"output[1]"}
    BY <1>6, ShutRemoves DEF CloseUsed, ParentClose, Ends
  <2>2. pc = "close(output[1])" /\ pc' = "done" => Held("parent")' = {}
    BY <1>6, ShutRemoves DEF CloseUsed, ParentClose, Ends
  <2>3. child' = child /\ child = "reaped"
    BY <1>6 DEF CloseUsed, ParentClose, childVars, Progress, After
  <2> QED
    BY <1>6, <2>1, <2>2, <2>3 DEF CloseUsed, ParentClose
<1> QED
  BY <1>1, <1>2, <1>3, <1>4, <1>5, <1>6 DEF ParentStep

LEMMA OthersKeepEnds == CallInv /\ EndsInv /\ [Next]_vars /\ ~ParentStep => EndsInv'
<1> SUFFICES ASSUME CallInv, EndsInv, [Next]_vars, ~ParentStep
             PROVE  EndsInv'
  OBVIOUS
<1>1. /\ Held("parent")' = Held("parent")
      /\ UNCHANGED <<pc, code>>
      /\ child = "unborn" <=> child' = "unborn"
  <2>1. CASE ChildStep \/ ProgramKilled
    <3>1. UNCHANGED <<pc, code>> /\ child # "unborn" /\ child' # "unborn"
      BY <2>1 DEF ChildStep, ChildSetup, Exec, Flush, ProgramRead, ProgramWrite,
                  ProgramExit, ProgramKilled, ChildEnded, End, childUnchanged, parentVars
    <3>2. UNCHANGED holders \/ \E ends \in SUBSET Ends : Shut("child", ends)
      <4>1. {"output[1]", "input[0]"} \in SUBSET Ends
        BY DEF Ends
      <4>2. CASE ChildSetup
        BY <4>1, <4>2 DEF ChildSetup
      <4>3. CASE Exec \/ ProgramRead \/ ProgramWrite \/ ChildEnded
        BY <4>3 DEF Exec, ProgramRead, ProgramWrite, ChildEnded
      <4>4. CASE Flush \/ ProgramExit \/ ProgramKilled
        BY <4>4 DEF Flush, ProgramExit, ProgramKilled, End
      <4> QED
        BY <2>1, <4>2, <4>3, <4>4 DEF ChildStep
    <3> QED
      BY <3>1, <3>2, OthersEnds DEF CallInv, Held
  <2>2. CASE OtherFork \/ OtherEnds
    <3>1. Held("parent") \in SUBSET Ends
      BY DEF Held
    <3> QED
      BY <2>2, <3>1, OthersEnds DEF CallInv, OtherFork, OtherEnds, parentVars, childVars
  <2>3. CASE UNCHANGED vars
    BY <2>3 DEF vars, parentVars, childVars, Held
  <2> QED
    BY <2>1, <2>2, <2>3 DEF Next
<1> QED
  BY <1>1 DEF EndsInv, ParentEnds, LeakOnlyAfterFailure

LEMMA CallEndsInvariant == Spec => []EndsInv
<1>1. Init => EndsInv
  BY DEF Init, EndsInv, ParentEnds, LeakOnlyAfterFailure, Held
<1>2. CallInv /\ EndsInv /\ [Next]_vars => EndsInv'
  BY ParentKeepsEnds, OthersKeepEnds
<1> QED
  BY <1>1, <1>2, CallInvariant, PTL DEF Spec

\* A call that had a child leaves no end of its pipes open; one that had none
\* leaves exactly those open that were opened before pipe or fork failed.
THEOREM CallLeaksOnlyAfterFailure == Spec => []LeakOnlyAfterFailure
<1>1. EndsInv => LeakOnlyAfterFailure
  BY DEF EndsInv
<1> QED
  BY <1>1, CallEndsInvariant, PTL

-----------------------------------------------------------------------------
(* The body on its way to the child *)

Body(n) == [i \in 1..n |-> i]

\* What the child has read and what is in its pipe is what the parent wrote.
BodyInOrder == query_string \o output = Body(total)

LEMMA BodyGrows ==
    ASSUME NEW n \in Nat
    PROVE  Append(Body(n), n + 1) = Body(n + 1)
<1>1. Body(n) \in Seq(Nat) /\ Len(Body(n)) = n
  BY DEF Body
<1>2. Append(Body(n), n + 1) \in Seq(Nat) /\ Len(Append(Body(n), n + 1)) = n + 1
  BY <1>1
<1>3. Body(n + 1) \in Seq(Nat) /\ Len(Body(n + 1)) = n + 1
  BY DEF Body
<1>4. \A i \in 1..(n + 1) : Append(Body(n), n + 1)[i] = Body(n + 1)[i]
  BY <1>1 DEF Body
<1> QED
  BY <1>2, <1>3, <1>4

\* While a program runs the parent has the write end of its standard input.
LEMMA NotAtEof == CallInv /\ EndsInv /\ child = "run" => ~AtEof
<1> SUFFICES ASSUME CallInv, EndsInv, child = "run"
             PROVE  ~AtEof
  OBVIOUS
<1>1. pc \in {"close(output[0])", "close(input[1])", "write", "read"}
  BY DEF CallInv, Types, Progress, Alive, Before, After
<1>2. "output[1]" \in Held("parent")
  BY <1>1 DEF EndsInv, ParentEnds, Ends
<1> QED
  BY <1>2 DEF AtEof, Held

LEMMA StepKeepsBody ==
    CallInv /\ EndsInv /\ BodyInOrder /\ [Next]_vars => BodyInOrder'
<1> SUFFICES ASSUME CallInv, EndsInv, BodyInOrder, [Next]_vars
             PROVE  BodyInOrder'
  OBVIOUS
<1> USE DEF BodyInOrder
<1>1. CASE Write
  <2>1. CASE output' = Append(output, total + 1) /\ total' = total + 1
    <3>1. total + 1 \in Nat /\ query_string \in Seq(Nat) /\ output \in Seq(Nat)
      BY DEF CallInv, Types
    <3>2. Append(query_string \o output, total + 1) = query_string \o output'
      BY <2>1, <3>1, AppendBehind
    <3>3. Append(Body(total), total + 1) = Body(total')
      BY <2>1, BodyGrows DEF CallInv, Types
    <3> QED
      BY <1>1, <3>2, <3>3 DEF Write, childVars
  <2>2. CASE UNCHANGED <<output, total>>
    BY <1>1, <2>2 DEF Write, childVars
  <2> QED
    BY <1>1, <2>1, <2>2 DEF Write
<1>2. CASE ProgramRead
  <2>1. /\ output # <<>>
        /\ query_string' = Append(query_string, Head(output))
        /\ output' = Tail(output)
        /\ total' = total
    BY <1>2, NotAtEof DEF ProgramRead, childUnchanged, parentVars
  <2>2. query_string' \o output' = query_string \o output
    BY <2>1, MoveHead DEF CallInv, Types
  <2> QED
    BY <2>1, <2>2
<1>3. CASE ~Write /\ ~ProgramRead
  <2>1. UNCHANGED <<query_string, output, total>>
    <3>1. CASE ParentStep
      BY <1>3, <3>1 DEF ParentStep, PipeInput, PipeOutput, Fork, CloseUnused, ParentClose,
                        Read, WaitPid, CloseUsed, childVars
    <3>2. CASE ChildStep \/ ProgramKilled
      BY <1>3, <3>2 DEF ChildStep, ChildSetup, Exec, Flush, ProgramWrite, ProgramExit,
                        ProgramKilled, ChildEnded, childUnchanged, parentVars
    <3>3. CASE OtherFork \/ OtherEnds \/ UNCHANGED vars
      BY <3>3 DEF OtherFork, OtherEnds, vars, parentVars, childVars
    <3> QED
      BY <3>1, <3>2, <3>3 DEF Next
  <2> QED
    BY <2>1
<1> QED
  BY <1>1, <1>2, <1>3

LEMMA CallBodyInOrder == Spec => []BodyInOrder
<1>1. Init => BodyInOrder
  <2>1. Init => query_string = <<>> /\ output = <<>> /\ total = 0
    BY DEF Init
  <2>2. Body(0) = <<>> /\ <<>> \o <<>> = <<>>
    BY DEF Body
  <2> QED
    BY <2>1, <2>2 DEF BodyInOrder
<1> QED
  BY <1>1, CallEndsInvariant, CallInvariant, StepKeepsBody, PTL DEF Spec

\* What a program has read is a prefix of the body, byte by byte, although
\* neither side checks how read and write end.
THEOREM CallDeliversBody == Spec => []BodyDelivered
<1>1. CallInv /\ BodyInOrder => BodyDelivered
  <2> SUFFICES ASSUME CallInv, BodyInOrder
               PROVE  query_string = [i \in DOMAIN query_string |-> i]
    BY DEF BodyDelivered
  <2>1. query_string \in Seq(Nat) /\ output \in Seq(Nat) /\ total \in Nat
    BY DEF CallInv, Types
  <2>2. Len(query_string) <= Len(query_string \o output) /\ Len(Body(total)) = total
    BY <2>1 DEF Body
  <2>3. \A i \in 1..Len(query_string) : query_string[i] = (query_string \o output)[i]
    BY <2>1
  <2>4. DOMAIN query_string = 1..Len(query_string)
    BY <2>1
  <2>5. Len(query_string) \in Nat /\ Len(query_string) <= total
    BY <2>1, <2>2 DEF BodyInOrder
  <2>6. \A i \in 1..total : Body(total)[i] = i
    BY DEF Body
  <2>7. ASSUME NEW i \in 1..Len(query_string)
        PROVE  query_string[i] = i
    <3>1. i \in 1..total
      BY <2>1, <2>5
    <3> QED
      BY <2>3, <2>6, <3>1 DEF BodyInOrder
  <2>8. query_string = [i \in 1..Len(query_string) |-> query_string[i]]
    BY <2>1
  <2> QED
    BY <2>4, <2>7, <2>8
<1> QED
  BY <1>1, CallInvariant, CallBodyInOrder, PTL

-----------------------------------------------------------------------------
(* Parent and child waiting for each other *)

\* Nothing is read before the body is written, all of it unless the child ended.
Turns ==
    /\ pc \in Before \cup {"close(output[0])", "close(input[1])", "write"} =>
          response_body = <<>>
    /\ program = "script" => query_string = <<>>
    /\ child \in Alive => "child" \in holders["output[0]"]
    /\ method # "POST" => content_length = 0
    /\ pc = "read" /\ child \in Alive => total = content_length

LEMMA ParentKeepsTurns == CallInv /\ TypeOK /\ Turns /\ ParentStep => Turns'
<1> SUFFICES ASSUME CallInv, TypeOK, Turns, ParentStep
             PROVE  Turns'
  OBVIOUS
<1> USE DEF Turns, CallInv, Types, Progress, Before, Alive, requestVars, childVars
<1>1. CASE PipeInput \/ PipeOutput
  BY <1>1 DEF PipeInput, PipeOutput, Return
<1>2. CASE Fork
  BY <1>2 DEF Fork, Return, Open, Ends
<1>3. CASE CloseUnused \/ CloseUsed
  <2>1. "child" \in holders["output[0]"] => "child" \in holders'["output[0]"]
    BY <1>3 DEF CloseUnused, CloseUsed, ParentClose, Shut, Ends
  <2> QED
    BY <1>3, <2>1 DEF CloseUnused, CloseUsed, ParentClose
<1>4. CASE Write
  <2>1. content_length \in Nat /\ total \in 0..content_length
    BY CgiPipeAssumption DEF TypeOK
  <2>2. pc' = "read" /\ child \in Alive => total = content_length
    BY <1>4, <2>1 DEF Write
  <2> QED
    BY <1>4, <2>2 DEF Write
<1>5. CASE Read \/ WaitPid
  BY <1>5 DEF Read, WaitPid
<1> QED
  BY <1>1, <1>2, <1>3, <1>4, <1>5 DEF ParentStep

LEMMA StepKeepsTurns == CallInv /\ TypeOK /\ Turns /\ [Next]_vars => Turns'
<1> SUFFICES ASSUME CallInv, TypeOK, Turns, [Next]_vars
             PROVE  Turns'
  OBVIOUS
<1> USE DEF Turns, CallInv, Types, Alive, requestVars, parentVars, childVars, childUnchanged
<1>1. CASE ChildSetup
  <2>1. "child" \in holders'["output[0]"]
    BY <1>1 DEF ChildSetup, Shut, Ends
  <2> QED
    BY <1>1, <2>1 DEF ChildSetup
<1>2. CASE Exec \/ ProgramWrite \/ ChildEnded
  BY <1>2 DEF Exec, ProgramWrite, ChildEnded
<1>3. CASE ProgramRead
  <2>1. program # "script"
    BY <1>3 DEF ProgramRead, ReadAll
  <2> QED
    BY <1>3, <2>1 DEF ProgramRead
<1>4. CASE Flush \/ ProgramExit \/ ProgramKilled
  BY <1>4 DEF Flush, ProgramExit, ProgramKilled, End
<1>5. CASE OtherFork \/ OtherEnds
  <2>1. "child" \in holders["output[0]"] => "child" \in holders'["output[0]"]
    BY <1>5 DEF OtherFork, OtherEnds, Open, Shut, Ends
  <2> QED
    BY <1>5, <2>1 DEF OtherFork, OtherEnds
<1>6. CASE UNCHANGED vars
  BY <1>6 DEF vars
<1> QED
  BY <1>1, <1>2, <1>3, <1>4, <1>5, <1>6, ParentKeepsTurns DEF Next, ChildStep

\* Parent and child wait for each other only if the program writes before it
\* has read, and body and output do not fit the pipes, or if it reads to the
\* end of its input: for pipes, bodies and outputs of any length.
THEOREM CallMutualWaitOnlyIf == Spec => []MutualWaitOnlyIf
<1>1. Init => Turns
  <2>1. Init => (method # "POST" => content_length = 0)
    BY DEF Init
  <2> QED
    BY <2>1 DEF Init, Turns, Alive
<1>2. CallInv /\ EndsInv /\ TypeOK /\ BodyInOrder /\ Turns => MutualWaitOnlyIf
  <2> SUFFICES ASSUME CallInv, EndsInv, TypeOK, BodyInOrder, Turns, MutualWait
               PROVE  ~Compatible
    BY DEF MutualWaitOnlyIf
  <2>1. /\ Capacity \in Nat \ {0} /\ Output \in Nat
        /\ total \in Nat /\ content_length \in Nat
        /\ input \in Seq(Nat) /\ output \in Seq(Nat)
        /\ query_string \in Seq(Nat) /\ written \in Seq(Nat)
    BY CgiPipeAssumption DEF CallInv, Types, TypeOK
  <2>2. Len(query_string) + Len(output) = total
    BY <2>1 DEF BodyInOrder, Body
  <2>3. child = "run" /\ ~AtEof /\ program \in ProgramKinds
    BY NotAtEof, CgiPipeAssumption DEF MutualWait, ChildBlocked, TypeOK
  <2>4. CASE pc = "write" /\ total < content_length /\ Len(output) = Capacity
    <3>1. response_body = <<>> /\ written = input
      BY <2>1, <2>4 DEF Turns, CallInv, NothingLost
    <3>2. Len(written) < Len(ToWrite) /\ Len(input) = Capacity
      BY <2>1, <2>4 DEF MutualWait, ChildBlocked
    <3>3. CASE program = "comm"
      <4>1. ~ReadAll
        BY <2>1, <2>2, <2>4, <3>3 DEF ReadAll
      <4>2. ToWrite = <<>>
        BY <3>3, <4>1 DEF ToWrite
      <4> QED
        BY <2>1, <3>2, <4>2
    <3>4. CASE program = "script"
      <4>1. Len(ToWrite) = Output
        BY <2>1, <3>4 DEF ToWrite, ReadAll
      <4>2. Len(query_string) = 0
        BY <3>4 DEF Turns
      <4> QED
        BY <2>1, <2>2, <2>4, <3>1, <3>2, <3>4, <4>1, <4>2 DEF Compatible
    <3>5. CASE program = "filter"
      <4>1. ToWrite = query_string
        BY <3>5 DEF ToWrite
      <4> QED
        BY <2>1, <2>2, <2>4, <3>1, <3>2, <3>5, <4>1 DEF Compatible
    <3>6. CASE program = "eof"
      BY <3>6 DEF Compatible
    <3> QED
      BY <2>3, <3>3, <3>4, <3>5, <3>6 DEF ProgramKinds
  <2>5. CASE pc = "read" /\ input = <<>>
    <3>1. ~ReadAll /\ output = <<>>
      BY <2>1, <2>5 DEF MutualWait, ChildBlocked
    <3>2. Len(query_string) = content_length
      BY <2>1, <2>2, <2>3, <2>5, <3>1 DEF Turns, Alive
    <3>3. program = "eof"
      BY <2>3, <3>1, <3>2 DEF ReadAll, ProgramKinds
    <3> QED
      BY <3>3 DEF Compatible
  <2> QED
    BY <2>4, <2>5 DEF MutualWait, ParentBlocked
<1> QED
  BY <1>1, <1>2, StepKeepsTurns, CallInvariant, CallEndsInvariant, CallTypeCorrect,
     CallBodyInOrder, PTL DEF Spec

-----------------------------------------------------------------------------
(* The refinement of CgiCall *)

\* While nobody starts, feeds or ends the child, and the call does not return,
\* the abstract call stutters.
LEMMA CallStutters ==
    ASSUME pc # "done", pc' # "done", UNCHANGED <<written, status>>,
           child = "unborn" <=> child' = "unborn"
    PROVE  UNCHANGED Call!callVars
  BY DEF Call!callVars

LEMMA CallRefinesInit == Init => Call!CallInit
  BY DEF Init, Call!CallInit

LEMMA ParentRefinesCall ==
    CallInv /\ ParentStep => Call!CallNext \/ UNCHANGED Call!callVars
<1> SUFFICES ASSUME CallInv, ParentStep
             PROVE  Call!CallNext \/ UNCHANGED Call!callVars
  OBVIOUS
<1> USE DEF CallInv, Types, Progress, Before, After, Alive, requestVars, childVars
<1>1. CASE PipeInput \/ PipeOutput
  <2>1. CASE pc' # "done"
    BY <1>1, <2>1, CallStutters DEF PipeInput, PipeOutput
  <2>2. CASE pc' = "done"
    <3>1. code' = SERVER_ERROR /\ response_body' = <<>> /\ child = "unborn" /\ pc # "done"
      BY <1>1, <2>2 DEF PipeInput, PipeOutput, Return
    <3>2. Call!ReturnFailure
      BY <1>1, <2>2, <3>1 DEF PipeInput, PipeOutput, Call!ReturnFailure, Call!SERVER_ERROR, SERVER_ERROR
    <3> QED
      BY <3>2 DEF Call!CallNext
  <2> QED
    BY <2>1, <2>2
<1>2. CASE Fork
  <2>1. CASE pc' # "done"
    <3>1. Call!Start
      BY <1>2, <2>1 DEF Fork, Return, Call!Start
    <3> QED
      BY <3>1 DEF Call!CallNext
  <2>2. CASE pc' = "done"
    <3>1. Call!ReturnFailure
      BY <1>2, <2>2 DEF Fork, Return, Call!ReturnFailure, Call!NOT_FOUND, NOT_FOUND
    <3> QED
      BY <3>1 DEF Call!CallNext
  <2> QED
    BY <2>1, <2>2
<1>3. CASE CloseUnused \/ Write \/ Read \/ WaitPid
  BY <1>3, CallStutters DEF CloseUnused, ParentClose, Write, Read, WaitPid
<1>4. CASE CloseUsed
  <2>1. CASE pc' # "done"
    BY <1>4, <2>1, CallStutters DEF CloseUsed, ParentClose
  <2>2. CASE pc' = "done"
    <3>1. /\ pc = "close(output[1])" /\ child = "reaped" /\ child' = "reaped"
          /\ UNCHANGED <<written, status, code, response_body>>
      BY <1>4, <2>2 DEF CloseUsed, ParentClose
    <3>2. code = CodeOf(status) /\ status # "none" /\ response_body = written
      BY <3>1 DEF NothingLost
    <3>3. code = Call!CodeOf(status)
      BY <3>2 DEF CodeOf, Call!CodeOf, OK, BAD_REQUSET, SERVER_ERROR,
                  Call!OK, Call!BAD_REQUSET, Call!SERVER_ERROR
    <3>4. Call!ReturnAnswer
      BY <2>2, <3>1, <3>2, <3>3 DEF Call!ReturnAnswer
    <3> QED
      BY <3>4 DEF Call!CallNext
  <2> QED
    BY <2>1, <2>2
<1> QED
  BY <1>1, <1>2, <1>3, <1>4 DEF ParentStep

LEMMA ChildRefinesCall ==
    CallInv /\ (ChildStep \/ ProgramKilled) => Call!CallNext \/ UNCHANGED Call!callVars
<1> SUFFICES ASSUME CallInv, ChildStep \/ ProgramKilled
             PROVE  Call!CallNext \/ UNCHANGED Call!callVars
  OBVIOUS
<1> USE DEF CallInv, Types, Progress, Before, After, Alive,
            requestVars, parentVars, childUnchanged
<1>1. CASE ChildSetup \/ Exec \/ ProgramRead \/ ChildEnded
  <2>1. pc # "done" /\ UNCHANGED <<pc, written, status>> /\ child # "unborn" /\ child' # "unborn"
    BY <1>1 DEF ChildSetup, Exec, ProgramRead, ChildEnded
  <2> QED
    BY <2>1, CallStutters
<1>2. ASSUME NEW b \in Nat, child \in Alive, written' = Append(written, b),
             UNCHANGED <<pc, code, response_body, child, status>>
      PROVE  Call!CallNext
  <2>1. Len(written') = Len(written) + 1 /\ written' = Append(written, written'[Len(written) + 1])
    BY <1>2
  <2>2. Call!WriteByte
    BY <1>2, <2>1 DEF Call!WriteByte
  <2> QED
    BY <2>2 DEF Call!CallNext
<1>3. ASSUME NEW how \in {"zero", "nonzero", "signal"}, End(how), child \in Alive,
             UNCHANGED <<pc, code, response_body, written>>
      PROVE  Call!CallNext
  <2>1. Call!EndChild
    BY <1>3 DEF End, Call!EndChild
  <2> QED
    BY <2>1 DEF Call!CallNext
<1>4. CASE Flush
  BY <1>2, <1>3, <1>4 DEF Flush
<1>5. CASE ProgramWrite
  BY <1>2, <1>5, NextByte DEF ProgramWrite
<1>6. CASE ProgramExit \/ ProgramKilled
  BY <1>3, <1>6 DEF ProgramExit, ProgramKilled
<1> QED
  BY <1>1, <1>4, <1>5, <1>6 DEF ChildStep

LEMMA CallRefinesNext ==
    CallInv /\ [Next]_vars => [Call!CallNext]_Call!callVars
<1>1. OtherFork \/ OtherEnds \/ UNCHANGED vars => UNCHANGED Call!callVars
  BY DEF OtherFork, OtherEnds, vars, parentVars, childVars, Call!callVars
<1> QED
  BY <1>1, ParentRefinesCall, ChildRefinesCall DEF Next

\* A CGI call returns exactly what its one child wrote, with the code of its
\* end, or nothing with the code of a failure: it implements CgiCall.
THEOREM CallImplementsCgiCall == Spec => ImplementsCgiCall
BY CallRefinesInit, CallRefinesNext, CallInvariant, PTL
   DEF Spec, ImplementsCgiCall, Call!CallSpec

=============================================================================
