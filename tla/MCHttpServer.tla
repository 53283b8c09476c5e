----------------------------- MODULE MCHttpServer -----------------------------
(* Instances of HttpServer for TLC. *)
EXTENDS HttpServer, Integers

\* One CGI call and one or two connections fit the table, two calls do not.
SomeFds == 3..8
MinusOne == -1
SockTasks == SomeFds \cup {MinusOne}

=============================================================================
