------------------------------ MODULE CgiPrograms ------------------------------
(***************************************************************************)
(* The programs of MinHttp/cgi that a request can start: the calculator    *)
(* cgi.cc and the registration mysql_connect.cc, which inserts a row into  *)
(* a table of a MySQL server.  That server is external: it executes or     *)
(* rejects an insert that was sent to it at any later time, also after the *)
(* connection was lost or the program was killed, and only what it answers *)
(* in time is known to the program.  A user who does not see the page,     *)
(* because the program was killed, because the answer was lost on its way  *)
(* or because he did not wait for it, sends the request again.             *)
(*                                                                         *)
(* How the query reaches the program is CgiPipe's subject; here it is what *)
(* GetQueryString returns, a sequence of characters.                       *)
(***************************************************************************)
EXTENDS Integers, Sequences, SequencesExt

CONSTANTS
    Queries,   \* query strings, sequences of one-character strings
    Special,   \* characters that end or escape a string of an SQL statement
    Strays,    \* what a statement with such characters in its values may add
    IntMax,    \* the largest int
    MaxCalls   \* bound of the model: how often the user tries to register

ASSUME CgiProgramsAssumption ==
    /\ Queries \subseteq Seq(STRING)
    /\ Strays \subseteq Seq([1..2 -> Seq(STRING)])
    /\ IntMax \in Nat \ {0}
    /\ MaxCalls \in Nat \ {0}

VARIABLES
    program,  \* "cgi" or "mysql_connect"
    query,    \* what the request gives it
    calls,    \* which of the user's calls this is
    kills,    \* how many of them were killed
    lost,     \* of how many the user did not see the page for another reason
    pc,       \* where the program is
    values,   \* value1 and value2, or sql_name and sql_passwd
    results,  \* the sum, difference, product and quotient, once computed
    buffer,   \* what is in cout's buffer
    page,     \* what was flushed, the body of the response
    status,   \* how the program ended
    conn,     \* the connection to the database
    insert,   \* what became of each call's insert
    table     \* the rows of the database

vars == <<program, query, calls, kills, lost, pc, values, results, buffer, page,
          status, conn, insert, table>>
callVars == <<program, query, calls, kills, lost>>
databaseVars == <<conn, insert, table>>

Init ==
    /\ program \in {"cgi", "mysql_connect"} /\ query \in Queries
    /\ calls = 1 /\ kills = 0 /\ lost = 0
    /\ pc = "start" /\ values = <<<<>>, <<>>>> /\ results = <<>>
    /\ buffer = <<>> /\ page = <<>> /\ status = "none"
    /\ conn = "none" /\ table = <<>>
    /\ insert = [k \in 1..MaxCalls |-> "none"]

-----------------------------------------------------------------------------
(* comm.hpp *)

\* What is before and after the separator at pos; nothing if there is none.
CutAt(in, pos) ==
    IF pos = 0 THEN <<<<>>, <<>>>>
    ELSE <<SubSeq(in, 1, pos - 1), SubSeq(in, pos + 1, Len(in))>>

\* Mutant: rfind instead of find.
CutString_Last(in, sep) == CutAt(in, SelectLastInSeq(in, LAMBDA c : c = sep))

CutString(in, sep) == CutAt(in, SelectInSeq(in, LAMBDA c : c = sep))

\* The three calls of CutString in either program.
ValuesOf(q) ==
    LET fields == CutString(q, "&")
    IN  [i \in 1..2 |-> CutString(fields[i], "=")[2]]

\* GetQueryString, and what is cut from it.
Start ==
    /\ pc = "start"
    /\ values' = ValuesOf(query)
    /\ pc' = IF program = "cgi" THEN "fields" ELSE "connect"
    /\ UNCHANGED <<callVars, results, buffer, page, status, databaseVars>>

-----------------------------------------------------------------------------
(* cgi.cc *)

\* Mutant: computed in a wider type than the int that is shown.
ToInt_Wide(n) == n

ToInt(n) == ((n + IntMax + 1) % (2 * IntMax + 2)) - (IntMax + 1)

\* atoi: white space (" " stands for all of it), a sign, and the digits up to
\* the first other character, for numbers that are a long.
Digits == <<"0", "1", "2", "3", "4", "5", "6", "7", "8", "9">>
DigitOf(c) == SelectInSeq(Digits, LAMBDA d : d = c) - 1
Number(digits) ==
    LET firsts[n \in 0..Len(digits)] ==
            IF n = 0 THEN 0 ELSE 10 * firsts[n - 1] + DigitOf(digits[n])
    IN  firsts
atoi(text) ==
    LET first == SelectInSeq(text, LAMBDA c : c # " ")
        sign == IF first = 0 THEN "" ELSE text[first]
        number == SubSeq(text, first + IF sign \in {"-", "+", ""} THEN 1 ELSE 0, Len(text))
        end == SelectInSeq(number, LAMBDA c : DigitOf(c) < 0)
        digits == IF end = 0 THEN number ELSE SubSeq(number, 1, end - 1)
        n == Number(digits)[Len(digits)]
    IN  ToInt(IF sign = "-" THEN -n ELSE n)

\* x/y of two ints: towards zero.  The processor traps if that is no int.
Abs(n) == IF n < 0 THEN -n ELSE n
Divide(x, y) == IF (x < 0) = (y < 0) THEN Abs(x) \div Abs(y) ELSE -(Abs(x) \div Abs(y))

\* The names and values, each line with endl, which flushes cout.
PrintFields ==
    /\ pc = "fields"
    /\ page' = <<"fields">>
    /\ pc' = "compute"
    /\ UNCHANGED <<callVars, values, results, buffer, status, databaseVars>>

\* Mutant: only a division by zero traps.
Traps_ZeroOnly(x, y) == y = 0

Traps(x, y) == y = 0 \/ (x = -(IntMax + 1) /\ y = -1)

PrintResults ==
    /\ pc = "compute"
    /\ LET x == atoi(values[1])
           y == atoi(values[2])
       IN  IF Traps(x, y)
           THEN /\ status' = "SIGFPE" /\ pc' = "ended"
                /\ UNCHANGED <<results, buffer>>
           ELSE /\ results' = <<ToInt(x + y), ToInt(x - y), ToInt(x * y),
                                ToInt(Divide(x, y))>>
                /\ buffer' = <<"results">>
                /\ pc' = "exit"
                /\ UNCHANGED status
    /\ UNCHANGED <<callVars, values, page, databaseVars>>

-----------------------------------------------------------------------------
(* mysql_connect.cc: InsertSql and its caller *)

\* mysql_real_connect.  If it fails, InsertSql returns 1, which is true.
Connect ==
    /\ pc = "connect"
    /\ \/ conn' = "up" /\ pc' = "query"
       \/ conn' = "refused" /\ pc' = "print"
    /\ UNCHANGED <<callVars, values, results, buffer, page, status, insert, table>>

\* mysql_query sends the statement, ...
Query ==
    /\ pc = "query"
    /\ insert' = IF conn = "up" THEN [insert EXCEPT ![calls] = "sent"] ELSE insert
    /\ pc' = "wait"
    /\ UNCHANGED <<callVars, values, results, buffer, page, status, conn, table>>

Await(answered) ==
    /\ pc = "wait"
    /\ answered
    /\ pc' = "print"
    /\ UNCHANGED <<callVars, values, results, buffer, page, status, databaseVars>>

\* Mutant: the result of the query is not waited for.
QueryReturns_AtOnce == Await(TRUE)

\* Mutant: a lost connection is not noticed.
QueryReturns_IgnoresLoss == Await(insert[calls] \in {"executed", "rejected"})

\* Mutant: after a loss InsertSql connects and sends once more.
QueryReturns_Reconnects ==
    /\ pc = "wait"
    /\ \/ insert[calls] \in {"executed", "rejected"} /\ pc' = "print"
       \/ conn = "lost" /\ pc' = "connect"
    /\ UNCHANGED <<callVars, values, results, buffer, page, status, databaseVars>>

\* ... and returns with the answer or when the connection is lost.  Its
\* result ret is only logged; mysql_close; InsertSql returns true.
QueryReturns == Await(insert[calls] \in {"executed", "rejected"} \/ conn = "lost")

\* The page that says the registration succeeded, into cout's buffer.
PrintPage ==
    /\ pc = "print"
    /\ buffer' = <<"registered">>
    /\ pc' = "exit"
    /\ UNCHANGED <<callVars, values, results, page, status, databaseVars>>

-----------------------------------------------------------------------------
(* The end of a program *)

\* return 0 flushes cout, ...
Exit ==
    /\ pc = "exit"
    /\ page' = page \o buffer
    /\ status' = "zero"
    /\ pc' = "ended"
    /\ UNCHANGED <<callVars, values, results, buffer, databaseVars>>

\* ... a signal does not.
Killed ==
    /\ pc # "ended"
    /\ status' = "killed"
    /\ kills' = kills + 1
    /\ pc' = "ended"
    /\ UNCHANGED <<program, query, calls, lost, values, results, buffer, page, databaseVars>>

\* A user who does not see the page registers once more.  Whether a program
\* that he did not wait for inserts is then up to LateQuery.
Resubmit ==
    /\ program = "mysql_connect" /\ calls < MaxCalls
    /\ calls' = calls + 1
    /\ lost' = IF pc = "ended" /\ page = <<>> THEN lost ELSE lost + 1
    /\ insert' = IF pc \in {"start", "connect", "query"} /\ conn # "lost"
                 THEN [insert EXCEPT ![calls] = "unsent"] ELSE insert
    /\ pc' = "start" /\ values' = <<<<>>, <<>>>>
    /\ buffer' = <<>> /\ page' = <<>> /\ status' = "none" /\ conn' = "none"
    /\ UNCHANGED <<program, query, kills, results, table>>

-----------------------------------------------------------------------------
(* The database server and the connection to it *)

\* Query of a program whose user did not wait for it, if it gets that far.
LateQuery(k) ==
    /\ insert[k] = "unsent"
    /\ insert' = [insert EXCEPT ![k] = "sent"]
    /\ UNCHANGED <<callVars, pc, values, results, buffer, page, status, conn, table>>

\* sql: insert into user(name, password) values ('sql_name','sql_passwd'),
\* with the values as they are: what a special character in them makes of the
\* statement, and how many rows that adds, is SQL's subject.
Plain(row) == \A i \in 1..2 : \A j \in DOMAIN row[i] : row[i][j] \notin Special
Added(row) == IF Plain(row) THEN {<<row>>} ELSE Strays

ExecuteInsert(k) ==
    /\ insert[k] = "sent"
    /\ \/ /\ insert' = [insert EXCEPT ![k] = "rejected"]
          /\ UNCHANGED table
       \/ /\ insert' = [insert EXCEPT ![k] = "executed"]
          /\ \E rows \in Added(ValuesOf(query)) : table' = table \o rows
    /\ UNCHANGED <<callVars, pc, values, results, buffer, page, status, conn>>

LoseConnection ==
    /\ pc \in {"query", "wait"} /\ conn = "up"
    /\ conn' = "lost"
    /\ UNCHANGED <<callVars, pc, values, results, buffer, page, status, insert, table>>

-----------------------------------------------------------------------------
ProgramStep ==
    \/ Start \/ PrintFields \/ PrintResults
    \/ Connect \/ Query \/ QueryReturns \/ PrintPage \/ Exit

DatabaseStep == \E k \in 1..MaxCalls : ExecuteInsert(k)

Next ==
    \/ ProgramStep \/ Killed \/ Resubmit
    \/ DatabaseStep \/ LoseConnection \/ \E k \in 1..MaxCalls : LateQuery(k)

Spec == Init /\ [][Next]_vars

\* Programs run, and the database gets round to what was sent to it.
FairSpec == Spec /\ WF_vars(ProgramStep) /\ WF_vars(DatabaseStep)

-----------------------------------------------------------------------------
(* Properties *)

TypeOK ==
    /\ program \in {"cgi", "mysql_connect"} /\ query \in Seq(STRING)
    /\ calls \in 1..MaxCalls /\ kills \in 0..calls /\ lost \in 0..calls
    /\ pc \in {"start", "fields", "compute", "connect", "query", "wait",
               "print", "exit", "ended"}
    /\ DOMAIN values = 1..2
    /\ \A i \in DOMAIN results : results[i] \in -(IntMax + 1)..IntMax
    /\ \A out \in {buffer, page} :
          out \in {<<>>, <<"fields">>, <<"results">>, <<"fields", "results">>, <<"registered">>}
    /\ status \in {"none", "zero", "SIGFPE", "killed"}
    /\ conn \in {"none", "up", "refused", "lost"}
    /\ insert \in [1..MaxCalls -> {"none", "unsent", "sent", "executed", "rejected"}]

\* v and w if the query is n=v&p=w with no "=" in n or p and no "&" before v's
\* end: a set of at most one pair.
At(q, c) == {i \in DOMAIN q : q[i] = c}
Said(q) ==
    {<<SubSeq(q, t[1] + 1, t[2] - 1), SubSeq(q, t[3] + 1, Len(q))>> :
        t \in {t \in At(q, "=") \X At(q, "&") \X At(q, "=") :
                /\ t[1] < t[2] /\ t[2] < t[3]
                /\ \A m \in At(q, "&") : m >= t[2]
                /\ \A m \in At(q, "=") : m >= t[1] /\ m \notin t[2]..(t[3] - 1)}}

\* A row has the two values the query gives, whatever further separators are
\* in them, unless SQL takes a character of them for its own.  A query of any
\* other form is not refused: it leaves a row with an empty field, or if it has
\* no '&' with two of them.
RowsAsAsked ==
    LET said == Said(query)
    IN  IF said # {}
        THEN (\A row \in said : Plain(row)) => \A r \in DOMAIN table : said = {table[r]}
        ELSE (\A c \in Special : At(query, c) = {}) =>
                \A r \in DOMAIN table :
                    \E i \in 1..2 :
                        /\ table[r][i] = <<>>
                        /\ At(query, "&") = {} => table[r][3 - i] = <<>>

\* The program is killed by SIGFPE exactly if the quotient, rounded towards
\* zero, does not exist or is no int; otherwise it shows that quotient, and
\* sum, difference and product if they are ints.
IsQuotient(q, x, y) ==
    LET r == x - q * y
    IN  y # 0 /\ Abs(r) < Abs(y) /\ (r # 0 => (r < 0 <=> x < 0))
ResultsRight ==
    program = "cgi" /\ status \in {"zero", "SIGFPE"} =>
        LET x == atoi(values[1])
            y == atoi(values[2])
            Int_ == -(IntMax + 1)..IntMax
        IN  /\ status = "SIGFPE" <=> ~\E q \in Int_ : IsQuotient(q, x, y)
            /\ status = "SIGFPE" => page = <<"fields">>
            /\ status = "zero" =>
                  /\ page = <<"fields", "results">>
                  /\ IsQuotient(results[4], x, y)
                  /\ \A i \in 1..3 :
                        LET exact == <<x + y, x - y, x * y>>[i]
                        IN  exact \in Int_ => results[i] = exact

\* The page says the registration succeeded (mysql_connect.cc:59) although its
\* insert was not executed only if the database refused, rejected or lost
\* something, and a program ends without the page only if it was killed.
PageTruth ==
    program = "mysql_connect" /\ pc = "ended" =>
        /\ page = <<"registered">> =>
              insert[calls] = "executed" \/ insert[calls] = "rejected"
              \/ conn \in {"refused", "lost"}
        /\ page = <<>> => status = "killed"

\* Nothing makes a registration unique: a user who tries again has two rows
\* if both inserts take effect, however late.  But a user who was told of
\* success at once has one, and no call inserts two, if the values are plain.
DuplicateOnlyIfUntold ==
    Plain(ValuesOf(query)) => Len(table) <= 1 + kills + lost

\* A program ends even if the connection breaks before or after its insert is
\* executed.  (waitpid in ProcessCIG waits for that.)
EveryCallEnds == []<>(pc = "ended")

=============================================================================
