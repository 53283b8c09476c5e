------------------------------- MODULE Exchange -------------------------------
(***************************************************************************)
(* What a handler promises the connection: it listens, answers at most     *)
(* once and with one status, does not listen any more once it answers,     *)
(* says only what belongs to that status, and falls silent when it closes. *)
(* One that gives up while it listens says nothing.  EndPoint implements   *)
(* this.                                                                   *)
(***************************************************************************)
EXTENDS Sequences, CgiOutcome

VARIABLES
    phase,   \* "listening", "answering", "closed"
    heard,   \* how much of the request was taken from the socket
    status,  \* of the answer, 0 if the client could not get one
    said     \* the body so far, each byte with its origin

exchangeVars == <<phase, heard, status, said>>

ExchangeInit ==
    /\ phase = "listening" /\ heard = 0
    /\ status = 0 /\ said = <<>>

Hear ==
    /\ phase = "listening"
    /\ heard' = heard + 1
    /\ UNCHANGED <<phase, status, said>>

Answer ==
    /\ phase = "listening"
    /\ heard > 0
    /\ phase' = "answering"
    /\ status' \in Codes \cup {0}
    /\ UNCHANGED <<heard, said>>

\* More of the body: of the error page exactly if the status is an error's.
Say ==
    /\ phase = "answering" /\ status # 0
    /\ Len(said') > Len(said) /\ SubSeq(said', 1, Len(said)) = said
    /\ \A i \in Len(said) + 1 .. Len(said') : said'[i][1] = "error" <=> status # OK
    /\ UNCHANGED <<phase, heard, status>>

HangUp ==
    /\ phase # "closed"
    /\ phase' = "closed"
    /\ UNCHANGED <<heard, status, said>>

ExchangeNext == Hear \/ Answer \/ Say \/ HangUp

ExchangeSpec == ExchangeInit /\ [][ExchangeNext]_exchangeVars

=============================================================================
