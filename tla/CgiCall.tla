-------------------------------- MODULE CgiCall --------------------------------
(***************************************************************************)
(* What a CGI call promises the handler: at most one child runs; what it   *)
(* writes before its end, and nothing else, is the body; the code tells    *)
(* how it ended; and a call that could not start one says so, without a    *)
(* body.  CgiPipe implements this.                                         *)
(***************************************************************************)
EXTENDS Sequences, CgiOutcome

CONSTANT NoResult   \* of a call that has not returned

VARIABLES
    phase,    \* "called", "running", "ended" (the child), "returned"
    written,  \* what the child has written
    ending,   \* how the child ended
    result    \* code and body

callVars == <<phase, written, ending, result>>

CallInit ==
    /\ phase = "called" /\ written = <<>>
    /\ ending = "none" /\ result = NoResult

\* A child is forked.
Start ==
    /\ phase = "called"
    /\ phase' = "running"
    /\ UNCHANGED <<written, ending, result>>

\* It writes a byte.
WriteByte ==
    /\ phase = "running"
    /\ Len(written') = Len(written) + 1
    /\ written' = Append(written, written'[Len(written) + 1])
    /\ UNCHANGED <<phase, ending, result>>

\* It ends.
EndChild ==
    /\ phase = "running"
    /\ phase' = "ended"
    /\ ending' \in {"zero", "nonzero", "signal"}
    /\ UNCHANGED <<written, result>>

\* The call returns what the child wrote.
ReturnAnswer ==
    /\ phase = "ended"
    /\ phase' = "returned"
    /\ result' = [code |-> CodeOf(ending), body |-> written]
    /\ UNCHANGED <<written, ending>>

\* The call returns without having had a child.
ReturnFailure ==
    /\ phase = "called"
    /\ phase' = "returned"
    /\ \E code \in {NOT_FOUND, SERVER_ERROR} :
          result' = [code |-> code, body |-> <<>>]
    /\ UNCHANGED <<written, ending>>

CallNext == Start \/ WriteByte \/ EndChild \/ ReturnAnswer \/ ReturnFailure

CallSpec == CallInit /\ [][CallNext]_callVars

=============================================================================
