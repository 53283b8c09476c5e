------------------------------ MODULE LineReader ------------------------------
(***************************************************************************)
(* Util::ReadInLine of MinHttp/Util.hpp, called again and again as         *)
(* GetRequestLine and GetRequestHead do, on a socket the client is still   *)
(* writing to.  A line ends with LF, CR or CRLF; after a CR the next byte  *)
(* is looked at with MSG_PEEK.                                             *)
(***************************************************************************)
EXTENDS Naturals, Sequences

CONSTANTS
    Char,      \* bytes other than CR and LF
    CR, LF,
    MaxBytes   \* bound of the model: bytes a client sends

ASSUME LineReaderAssumption ==
    /\ CR \notin Char /\ LF \notin Char /\ CR # LF
    /\ MaxBytes \in Nat

VARIABLES
    stream,  \* the bytes sent so far
    peer,    \* "open", "shut": no more will come, "reset": recv fails
    taken,   \* how many bytes recv took out of the socket
    pc,      \* where ReadInLine is: "recv", "peek", "swallow", "over"
    ch,      \* its variable ch
    out,     \* its argument out
    lines    \* what the calls that succeeded put into out

vars == <<stream, peer, taken, pc, ch, out, lines>>

Init ==
    /\ stream = <<>> /\ peer = "open"
    /\ taken = 0 /\ pc = "recv" /\ ch = LF /\ out = <<>> /\ lines = <<>>

-----------------------------------------------------------------------------
readerUnchanged == UNCHANGED <<taken, pc, ch, out, lines>>

ClientSend(c) ==
    /\ peer = "open" /\ Len(stream) < MaxBytes
    /\ stream' = Append(stream, c)
    /\ UNCHANGED peer /\ readerUnchanged

ClientEnds ==
    /\ peer = "open"
    /\ peer' \in {"shut", "reset"}
    /\ UNCHANGED stream /\ readerUnchanged

\* recv has a byte, or it returns 0 or -1.
Available == taken < Len(stream) /\ peer # "reset"
Ended == peer = "reset" \/ (peer = "shut" /\ taken = Len(stream))
NextByte == stream[taken + 1]

\* out.push_back(c), and the call returns if that is the end of a line.
PushBack(c) ==
    IF c = LF
    THEN /\ lines' = Append(lines, Append(out, c))
         /\ out' = <<>>
         /\ pc' = "recv"
    ELSE /\ out' = Append(out, c)
         /\ pc' = "recv"
         /\ UNCHANGED lines

\* Mutant: only LF ends a line, CR is a byte like any other.
Recv_KeepsCR ==
    /\ pc = "recv"
    /\ Available
    /\ taken' = taken + 1
    /\ ch' = NextByte
    /\ PushBack(NextByte)
    /\ UNCHANGED <<stream, peer>>

\* recv(sock, &ch, 1, 0): a CR has to be looked into, ...
Recv ==
    /\ pc = "recv"
    /\ Available
    /\ taken' = taken + 1
    /\ ch' = NextByte
    /\ IF NextByte = CR
       THEN pc' = "peek" /\ UNCHANGED <<out, lines>>
       ELSE PushBack(NextByte)
    /\ UNCHANGED <<stream, peer>>

\* ... and at the end, or after an error, the call returns 0 or -1, and its
\* callers stop.
RecvEnded ==
    /\ pc = "recv"
    /\ Ended
    /\ pc' = "over"
    /\ UNCHANGED <<stream, peer, taken, ch, out, lines>>

\* Mutant: recv instead of a peek takes the next byte away.
Peek_Takes ==
    /\ pc = "peek"
    /\ \/ /\ Available
          /\ taken' = taken + 1
          /\ PushBack(LF)
       \/ /\ Ended
          /\ PushBack(LF)
          /\ UNCHANGED taken
    /\ ch' = LF
    /\ UNCHANGED <<stream, peer>>

\* Mutant: the peek's failure is an error of ReadInLine.
Peek_EndIsError ==
    /\ pc = "peek"
    /\ \/ /\ Available
          /\ ch' = LF
          /\ IF NextByte = LF THEN pc' = "swallow" /\ UNCHANGED <<out, lines>>
                              ELSE PushBack(LF)
       \/ /\ Ended
          /\ pc' = "over"
          /\ UNCHANGED <<ch, out, lines>>
    /\ UNCHANGED <<stream, peer, taken>>

\* Mutant: a peek that fails is tried again.
Peek_Retry ==
    /\ pc = "peek"
    /\ Available
    /\ ch' = LF
    /\ IF NextByte = LF THEN pc' = "swallow" /\ UNCHANGED <<out, lines>>
                        ELSE PushBack(LF)
    /\ UNCHANGED <<stream, peer, taken>>

\* recv(sock, &ch, 1, MSG_PEEK): LF is taken away next, anything else ends
\* the line here; if it fails, ch is still CR, which ends the line as well.
Peek ==
    /\ pc = "peek"
    /\ ch' = LF
    /\ \/ /\ Available
          /\ IF NextByte = LF THEN pc' = "swallow" /\ UNCHANGED <<out, lines>>
                              ELSE PushBack(LF)
       \/ Ended /\ PushBack(LF)
    /\ UNCHANGED <<stream, peer, taken>>

\* recv(sock, &ch, 1, 0) takes the LF of CRLF; ch is LF even if it fails.
Swallow ==
    /\ pc = "swallow"
    /\ \/ Available /\ taken' = taken + 1
       \/ Ended /\ UNCHANGED taken
    /\ PushBack(ch)
    /\ UNCHANGED <<stream, peer, ch>>

ReaderStep == Recv \/ RecvEnded \/ Peek \/ Swallow

Next == (\E c \in Char \cup {CR, LF} : ClientSend(c)) \/ ClientEnds \/ ReaderStep

Spec == Init /\ [][Next]_vars

\* The worker's thread runs; the client owes nothing.
FairSpec == Spec /\ WF_vars(ReaderStep)

-----------------------------------------------------------------------------
(* Properties *)

TypeOK ==
    /\ stream \in Seq(Char \cup {CR, LF}) /\ Len(stream) <= MaxBytes
    /\ peer \in {"open", "shut", "reset"}
    /\ taken \in 0..Len(stream)
    /\ pc \in {"recv", "peek", "swallow", "over"}
    /\ ch \in Char \cup {CR, LF}
    /\ out \in Seq(Char)

\* The reference: the lines of s, each with an LF in place of its end, and the
\* rest of s that has no end yet.  The LF of a CRLF ends no line.
NoLines == [lines |-> <<>>, rest |-> <<>>]
WithByte(before, s, i) ==
    IF s[i] \in Char
    THEN [before EXCEPT !.rest = Append(@, s[i])]
    ELSE IF s[i] = LF /\ i > 1 /\ s[i - 1] = CR
    THEN before
    ELSE [lines |-> Append(before.lines, Append(before.rest, LF)), rest |-> <<>>]
Splits(s) ==
    LET upTo[i \in 0..Len(s)] ==
            IF i = 0 THEN NoLines ELSE WithByte(upTo[i - 1], s, i)
    IN  upTo
Split(s) == Splits(s)[Len(s)]

\* Between two bytes the reader has returned exactly the lines of what it took
\* from the socket, in whatever style they end and however the bytes arrive:
\* the byte after a CR is neither lost nor made a line of its own.
ReadsTheLines ==
    pc = "recv" =>
        LET read == Split(SubSeq(stream, 1, taken))
        IN  lines = read.lines /\ out = read.rest

\* When the client has ended its stream in order, every line of it was
\* returned, the last one too if it ends with a CR.
ReadsToTheEnd ==
    pc = "over" /\ peer = "shut" => lines = Split(stream).lines

\* How many lines end in the first n bytes of the stream.
LinesUpTo(n) ==
    Len(Split(SubSeq(stream, 1, IF n < Len(stream) THEN n ELSE Len(stream))).lines)

\* A line is read as soon as it is complete: once its end was sent (and, for
\* a CR, a byte more or the end of the stream) nothing more is waited for.
EachLineIsRead ==
    \A n \in 1..MaxBytes :
        /\ Len(stream) >= n /\ (stream[n] = LF \/ Len(stream) > n \/ peer = "shut")
        ~> peer = "reset" \/ Len(lines) >= LinesUpTo(n)

\* Util.hpp:21 says that every style of line end will do: a line whose end was
\* sent is returned, without a byte more from the client.
AnyStyleIsRead ==
    \A n \in 1..MaxBytes :
        Len(stream) >= n
        ~> peer = "reset" \/ Len(lines) >= LinesUpTo(n)

=============================================================================
