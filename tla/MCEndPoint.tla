------------------------------ MODULE MCEndPoint ------------------------------
(* Instances of EndPoint for TLC. *)
EXTENDS EndPoint

RequestLine(method, uri) == [kind |-> "line", method |-> method, uri |-> uri]
Style == <<"/", "x", ".", "css">>   \* a file, or a directory of this name

File(kind, size) == [kind |-> kind, size |-> size]

\* For the reading of requests: lengths negative, zero and positive, one or
\* two of them in a request, over a few files that do not change.
ReadLines == {RequestLine(method, Style) : method \in {"GET", "POST", "OTHER"}}
ReadLengths == {-1, 0, 1, 2}
ReadFiles == {File("prog", 0), File("page", 1)}

\* For the building of responses: every kind of file, changing meanwhile, of
\* sizes that one sendfile moves (MaxSend = 2), that are an int (IntMax = 3) but
\* need two, become negative, or are cut; names with dots in a directory and in
\* the query.
BuildLines ==
    {RequestLine("GET", uri) : uri \in
        {Style, Style \o <<"/", "x", "?", "x", ".", "js", "/">>,
         Style \o <<"/">>, Style \o <<"/", "?">>}}
    \cup {RequestLine("POST", Style \o <<"/", "x", ".", "js">>), RequestLine("OTHER", Style)}
BuildLengths == {1}
BuildFiles == {File("dir", 1), File("prog", 1)} \cup {File("page", n) : n \in {0, 2, 3, 4, 9}}

=============================================================================
