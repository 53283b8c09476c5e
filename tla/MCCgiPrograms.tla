----------------------------- MODULE MCCgiPrograms -----------------------------
(* The instance of CgiPrograms for TLC. *)
EXTENDS CgiPrograms

Strings(chars, n) == UNION {[1..k -> chars] : k \in 0..n}

\* Every string of up to three characters, and longer ones of two parts: two
\* numbers or what is none (with IntMax = 1, 2 is read as -2: quotients that are
\* exact, rounded, too large, or by zero), and two fields of any form, with
\* further separators and a quotation mark.
Numbers ==
    {<<"=">> \o s : s \in Strings({"-", "1", "2"}, 2) \cup {<<" ", "1">>, <<"+", "2">>, <<" ", "-", "1">>}}
Forms ==
    {<<>>, <<"1">>, <<"=">>, <<"=", "=">>}
    \cup {<<"1", "=">> \o s : s \in Strings({"=", "&", "1", "'"}, 1)}
    \cup {<<"'", "=", "1">>, <<"=", "1", "'">>}
AllQueries ==
    Strings({"&", "=", "1"}, 3)
    \cup {s \o <<"&">> \o t : s, t \in Numbers} \cup {s \o <<"&">> \o t : s, t \in Forms}

\* No row, another one, or two of them.
SomeRows ==
    LET row == <<<<"1">>, <<"2">>>>
    IN  {<<>>, <<row>>, <<row, row>>}

=============================================================================
