------------------------------ MODULE CgiOutcome ------------------------------
(***************************************************************************)
(* What EndPoint::ProcessCIG returns: the status codes of Protocol.hpp and *)
(* the pairs of code and body its caller has to reckon with.               *)
(***************************************************************************)
EXTENDS Naturals

OK == 200
BAD_REQUSET == 400
NOT_FOUND == 404
SERVER_ERROR == 500
Codes == {OK, BAD_REQUSET, NOT_FOUND, SERVER_ERROR}

\* What waitpid's status is turned into.
CodeOf(status) ==
    CASE status = "zero"    -> OK
      [] status = "nonzero" -> BAD_REQUSET
      [] status = "signal"  -> SERVER_ERROR

\* The codes that can come with a body of n bytes, from a target that can be
\* executed or not.  A program may have written something however it ended;
\* without one, a failed execl may (see CgiPipe's Flush); a call that never
\* forked has no body.
CodesWith(n, executable) ==
    {BAD_REQUSET}
        \cup (IF executable THEN {OK, SERVER_ERROR} ELSE {})
        \cup (IF n = 0 THEN {NOT_FOUND, SERVER_ERROR} ELSE {})

=============================================================================
