----------------------------- MODULE EndPointProofs -----------------------------
(***************************************************************************)
(* Theorems about EndPoint, for any requests, lengths, files, sizes of an  *)
(* int, outputs and windows, and any number of changes of the files.       *)
(***************************************************************************)
EXTENDS EndPointTypeProofs

\* The handler has an answer, sent or not.
Answering ==
    \/ pc \in {"SendHead", "SendCgi", "SendFile"}
    \/ pc \in {"close", "done"} /\ ~stop

\* What each place in the handler says about its flags and descriptors.
Control ==
    /\ stop => pc \in {"GetRequestHead", "close", "done"} /\ Ended
    /\ "file" \in fds => pc = "SendFile" \/ (pc = "SendHead" /\ ~request.cgi)
    /\ pc = "done" => fds = {}
    /\ pc \in {"ProcessNonCIG", "SendFile"} => ~request.cgi
    /\ pc \in {"ProcessCIG", "SendCgi"} => request.cgi
    /\ pc \in {"RecvHttpRequestBody", "HandlerError"} \cup Building => taken > 0
    /\ Answering => taken > 0

\* The response: untouched, failed, or prepared by one of the three that do.
Untouched ==
    /\ response.Status_code = OK /\ response.Content_Type = "none"
    /\ response.Content_Length = NoLength
    /\ response.file = <<>> /\ response.total = 0
Failed ==
    /\ response.Status_code # OK /\ response.Content_Type = "none"
    /\ response.Content_Length = NoLength
    /\ response.file = <<>> /\ response.total = 0
FromCgi ==
    /\ request.cgi
    /\ response.Status_code = OK
    /\ response.Content_Type = Suffix2Desc(request.suffix)
    /\ response.Content_Length = Len(response.Resp_body)
    /\ \A i \in DOMAIN response.Resp_body : response.Resp_body[i][1] = "cgi"
FromFile ==
    /\ ~request.cgi
    /\ response.Status_code = OK
    /\ response.Content_Type = Suffix2Desc(request.suffix)
    /\ response.Content_Length = request.size
    /\ \A i \in DOMAIN response.file : response.file[i][1] = "file"
    /\ changes = 0 => /\ Len(response.file) = fs[request.path].size
                      /\ request.size = ToInt(fs[request.path].size)
FromError ==
    /\ ~request.cgi
    /\ response.Status_code # OK
    /\ \/ response.Content_Type = "none" /\ response.Content_Length = NoLength
          /\ response.file = <<>>
       \/ /\ response.Content_Type = "html"
          /\ response.Content_Length = Len(response.file)
          /\ \A i \in DOMAIN response.file : response.file[i][1] = "error"
          /\ Len(response.file) = fs["error"].size
          /\ request.size = ToInt(fs["error"].size)

Prepared ==
    /\ pc \in Reading \cup Building => Untouched
    /\ pc = "HandlerError" => Failed
    /\ pc = "SendHead" => response.total = 0
    /\ Answering => FromCgi \/ FromFile \/ FromError
    /\ pc = "ProcessNonCIG" /\ changes = 0 =>
          /\ request.size = ToInt(fs[request.path].size)
          /\ fs[request.path].kind = "page"

\* What reached the client.
Wired ==
    /\ wire.status = 0 => wire.body = <<>>
    /\ ~Answering \/ pc = "SendHead" => wire.status = 0
    /\ pc \in {"SendCgi", "SendFile"} /\ peer # "gone" => wire.status # 0
    /\ wire.status # 0 => /\ wire.status = response.Status_code
                          /\ wire.type = response.Content_Type
                          /\ wire.length = response.Content_Length
    /\ \A i \in DOMAIN wire.body :
          wire.body[i][1] = "error" <=> response.Status_code # OK
    /\ pc = "SendFile" => wire.body = <<>>
    /\ pc = "SendCgi" /\ response.total = 0 => wire.body = <<>>
    /\ Answering /\ pc # "SendHead" /\ peer # "gone" /\ request.cgi
       /\ (response.total > 0 \/ pc \in {"close", "done"}) =>
          /\ Len(wire.body) >= Len(response.Resp_body)
          /\ \A i \in 1..Len(response.Resp_body) : wire.body[i] = response.Resp_body[i]
    /\ pc \in {"close", "done"} /\ ~stop /\ peer # "gone" /\ ~request.cgi =>
          LET sent == Sent(response.file, request.size)
          IN  /\ Len(wire.body) <= Len(sent)
              /\ response.short \/ Len(wire.body) = Len(sent)

\* The suffix is that of the name that was looked up.
Suffixed ==
    pc \in {"ProcessNonCIG", "ProcessCIG"} \/ (Answering /\ response.Status_code = OK) =>
        request.suffix = Suffix(Full(Path(request.method, request.uri)
            \o IF request.path = "index" THEN <<"/", "index", ".", "html">> ELSE <<>>))

\* How the client's items follow each other.
InOrder ==
    /\ \A j \in DOMAIN stream : stream[j].kind = "byte" => "blank" \in SentKinds(stream)
    /\ \A i, j \in DOMAIN stream :
          i < j /\ stream[i].kind \in {"blank", "byte"} => stream[j].kind = "byte"

\* The headers read so far are the items after the first.
HeadsRead ==
    \A i \in DOMAIN request.heads :
        i + 1 <= taken /\ stream[i + 1] = HeadLine(request.heads[i])

\* Where the handler is in the stream: before the blank line, or the bytes
\* after it are the body.
Parsed ==
    LET blank == Len(request.heads) + 2
        length == FirstLength(request.heads)
    IN  /\ blank <= taken /\ stream[blank].kind = "blank"
        /\ request.method = stream[1].method
        /\ request.body = taken - blank
        /\ request.content_length =
              IF request.method = "POST" /\ length # NoLength THEN length ELSE 0
Unread == {"GetRequestLine", "GetRequestHead"}
ReadSoFar ==
    /\ InOrder /\ HeadsRead
    /\ pc = "GetRequestLine" => taken = 0
    /\ pc \in Unread => /\ request.method = ""
                       /\ request.body = 0 /\ request.content_length = 0
                       /\ Len(request.heads) = IF taken = 0 THEN 0 ELSE taken - 1
    /\ request.method = "" /\ pc \notin Unread /\ ~stop =>
          /\ taken = 1
          /\ \/ pc = "CheckMethod"
             \/ (pc = "HandlerError" \/ Answering) /\ response.Status_code = BAD_REQUSET
    /\ request.method # "" => /\ Parsed
                              /\ \/ pc = "RecvHttpRequestBody" \/ stop
                                 \/ request.body = request.content_length


-----------------------------------------------------------------------------
(* Flags and descriptors *)

ReadStep == GetRequestLine \/ GetRequestHead \/ ParseHttpRequest \/ RecvHttpRequestBody

LEMMA ReadUnchanged ==
    ReadStep => UNCHANGED <<stream, peer, unread, lost, fs, changes, response, fds, wire>>
BY DEF ReadStep, GetRequestLine, GetRequestHead, ParseHttpRequest, Parse, RecvHttpRequestBody,
       RecvBody, recvUnchanged, netVars, fsVars

LEMMA ControlInit == Init => Control
BY DEF Init, Control, Answering, Building

LEMMA ReadingKeepsControl ==
    ASSUME EndTypes, Control, ReadStep
    PROVE  Control'
<1> USE DEF Control, Answering, Reading, Building
<1>1. UNCHANGED <<stream, peer, fds>>
  BY ReadUnchanged
<1>2. taken \in Nat /\ request \in Requests /\ stop \in BOOLEAN
  BY DEF EndTypes, HandlerTypes, NetTypes, AnswerTypes
<1>3. ASSUME GetRequestLine PROVE Control'
  BY <1>1, <1>2, <1>3 DEF GetRequestLine, Ended, Available
<1>4. ASSUME GetRequestHead PROVE Control'
  BY <1>1, <1>2, <1>4 DEF GetRequestHead, Ended, Available
<1>5. ASSUME ParseHttpRequest PROVE Control'
  BY <1>1, <1>2, <1>5 DEF ParseHttpRequest, Parse, Ended, Available
<1>6. ASSUME RecvHttpRequestBody PROVE Control'
  BY <1>1, <1>2, <1>6 DEF RecvHttpRequestBody, RecvBody, Ended, Available
<1> QED
  BY <1>3, <1>4, <1>5, <1>6 DEF ReadStep

LEMMA BuildingKeepsControl ==
    ASSUME EndTypes, Control, BuildStep
    PROVE  Control'
<1> USE DEF Control, Answering, Reading, Building, EndTypes
<1>1. UNCHANGED <<stream, peer, taken, stop>>
  BY BuildUnchanged
<1>2. request \in Requests /\ fds \subseteq {"sock", "file"}
  BY DEF HandlerTypes, AnswerTypes
<1>3. ASSUME CheckMethod PROVE Control'
  BY <1>1, <1>2, <1>3 DEF CheckMethod, Fail, Ended
<1>4. ASSUME StatPath \/ StatIndex PROVE Control'
  <2>1. fds' = fds /\ pc \in {"stat", "restat"}
    BY <1>4 DEF StatPath, StatIndex
  <2>2. \/ pc' \in {"HandlerError", "restat"}
        \/ pc' = "ProcessCIG" /\ request'.cgi
        \/ pc' = "ProcessNonCIG" /\ ~request'.cgi
    <3>1. ASSUME NEW object, NEW path \in Paths, NEW cgi \in BOOLEAN, Found(object, path, cgi)
          PROVE  \/ pc' = "ProcessCIG" /\ request'.cgi
                 \/ pc' = "ProcessNonCIG" /\ ~request'.cgi
      BY <1>2, <3>1 DEF Found, Requests
    <3> QED
      BY <1>4, <3>1, StatIs DEF Fail
  <2> QED
    BY <1>1, <2>1, <2>2 DEF Ended
<1>5. ASSUME ProcessNonCIG PROVE Control'
  <2>1. request' = request
    BY <1>5 DEF ProcessNonCIG
  <2> QED
    BY <1>1, <1>2, <1>5, <2>1 DEF ProcessNonCIG, Fail, Ended
<1>6. ASSUME ProcessCIG PROVE Control'
  <2>1. request' = request /\ fds' = fds /\ pc = "ProcessCIG" /\ pc' \in {"SendHead", "HandlerError"}
    BY <1>6 DEF ProcessCIG
  <2> QED
    BY <1>1, <1>2, <2>1 DEF Ended
<1>7. ASSUME HandlerError PROVE Control'
  <2>1. pc = "HandlerError" /\ pc' = "SendHead" /\ ~request'.cgi
    BY <1>2, <1>7, ErrorIs DEF HandlerError, ErrorPage, Requests
  <2> QED
    BY <1>1, <1>2, <2>1 DEF Ended
<1> QED
  BY <1>3, <1>4, <1>5, <1>6, <1>7 DEF BuildStep

LEMMA SendingKeepsControl ==
    ASSUME EndTypes, Control, SendStep
    PROVE  Control'
<1> USE DEF Control, Answering, Reading, Building
<1>1. UNCHANGED <<stream, peer, taken, stop, request>>
  BY SendUnchanged
<1>2. fds \subseteq {"sock", "file"}
  BY DEF EndTypes, HandlerTypes
<1>3. ASSUME SendHead PROVE Control'
  BY <1>1, <1>3 DEF SendHead, Ended
<1>4. ASSUME SendCgi PROVE Control'
  BY <1>1, <1>4 DEF SendCgi, SendRound, Ended
<1>5. ASSUME SendFile PROVE Control'
  BY <1>1, <1>5 DEF SendFile, SendBytes, Ended
<1>6. ASSUME Close PROVE Control'
  BY <1>1, <1>2, <1>6 DEF Close, Ended
<1> QED
  BY <1>3, <1>4, <1>5, <1>6 DEF SendStep

LEMMA AroundKeepsControl ==
    ASSUME EndTypes, Control, Around
    PROVE  Control'
<1>1. UNCHANGED <<pc, taken, stop, request, fds>>
  BY AroundIs DEF EndTypes
<1>2. stop => Ended'
  <2>1. Ended => ~ClientSend
    BY DEF Ended, ClientSend
  <2>2. ClientSend \/ (stream' = stream /\ peer' \in {peer, "gone"}) \/ peer = "open"
    BY DEF Around, ClientShut, ClientGone, ClientRead, Reset, FsChange, vars, netVars
  <2> QED
    BY <1>1, <2>1, <2>2 DEF Ended, Control
<1> QED
  BY <1>1, <1>2 DEF Control, Answering

LEMMA StepIs == [Next]_vars => ReadStep \/ BuildStep \/ SendStep \/ Around
BY DEF Next, HandlerStep, ReadStep, BuildStep, SendStep, Around

LEMMA ControlStep == EndTypes /\ Control /\ [Next]_vars => Control'
BY StepIs, ReadingKeepsControl, BuildingKeepsControl, SendingKeepsControl, AroundKeepsControl

\* On every path through the handler, of every request, client and file, the
\* file and the socket are closed once it is done, and nothing else is left in
\* its set of descriptors: ProcessNonCIG, HandlerError, SendHttpResquese.
THEOREM EndClosesAll == Spec => []NothingLeftOpen
<1>1. Init => EndTypes /\ Control
  BY EndTypesInit, ControlInit
<1>2. EndTypes /\ Control /\ [Next]_vars => (EndTypes /\ Control)'
  BY EndTypesStep, ControlStep
<1>3. EndTypes /\ Control => NothingLeftOpen
  BY DEF Control, NothingLeftOpen
<1> QED
  BY <1>1, <1>2, <1>3, PTL DEF Spec

-----------------------------------------------------------------------------
(* The response *)

LEMMA PreparedInit == Init => Prepared
<1> SUFFICES ASSUME Init
             PROVE  Prepared
  OBVIOUS
<1>1. response = [Status_code |-> OK, Content_Type |-> "none", Content_Length |-> NoLength,
                  Resp_body |-> <<>>, file |-> <<>>, total |-> 0, short |-> FALSE]
  BY DEF Init
<1>2. pc = "GetRequestLine"
  BY DEF Init
<1>3. Untouched
  BY <1>1 DEF Untouched
<1> QED
  BY <1>2, <1>3 DEF Prepared, Answering

LEMMA ReadingKeepsPrepared ==
    ASSUME EndTypes, Control, Prepared, ReadStep
    PROVE  Prepared'
<1> USE DEF Reading, Building
<1>1. UNCHANGED <<response>>
  BY ReadUnchanged
<1>2. pc \in Reading /\ pc' \in Reading \cup {"CheckMethod", "close"} /\ (pc' = "close" => stop')
  <2>1. ASSUME GetRequestLine
        PROVE  pc \in Reading /\ pc' \in Reading \cup {"CheckMethod", "close"} /\ (pc' = "close" => stop')
    BY <2>1 DEF GetRequestLine
  <2>2. ASSUME GetRequestHead
        PROVE  pc \in Reading /\ pc' \in Reading \cup {"CheckMethod", "close"} /\ (pc' = "close" => stop')
    BY <2>2 DEF GetRequestHead
  <2>3. ASSUME ParseHttpRequest
        PROVE  pc \in Reading /\ pc' \in Reading \cup {"CheckMethod", "close"} /\ (pc' = "close" => stop')
    BY <2>3 DEF ParseHttpRequest, Parse
  <2>4. ASSUME RecvHttpRequestBody
        PROVE  pc \in Reading /\ pc' \in Reading \cup {"CheckMethod", "close"} /\ (pc' = "close" => stop')
    BY <2>4 DEF RecvHttpRequestBody, RecvBody
  <2> QED
    BY <2>1, <2>2, <2>3, <2>4 DEF ReadStep
<1>3. Untouched'
  BY <1>1, <1>2 DEF Prepared, Untouched
<1> QED
  BY <1>2, <1>3 DEF Prepared, Answering

\* A failure only sets the status.
LEMMA FailPrepares ==
    ASSUME AnswerTypes, Untouched, NEW code \in Codes \ {OK}, Fail(code)
    PROVE  Prepared'
<1>1. response' = [response EXCEPT !.Status_code = code] /\ pc' = "HandlerError"
  BY FailIs
<1>2. Failed'
  BY <1>1 DEF Untouched, Failed, AnswerTypes, Responses
<1> QED
  BY <1>1, <1>2 DEF Prepared, Answering, Reading, Building

LEMMA NonCgiPrepares ==
    ASSUME EndTypes, Control, Prepared, ProcessNonCIG
    PROVE  Prepared'
<1> USE DEF EndTypes
<1>1. UNCHANGED <<fs, changes, stop, request>> /\ pc = "ProcessNonCIG" /\ ~request.cgi
  BY BuildUnchanged DEF ProcessNonCIG, BuildStep, Control
<1>2. NOT_FOUND \in Codes \ {OK} /\ Untouched
  BY <1>1 DEF Codes, NOT_FOUND, OK, Prepared, Building
<1>3. CASE Fail(NOT_FOUND)
  BY <1>2, <1>3, FailPrepares
<1>4. CASE ~Fail(NOT_FOUND)
  <2>1. /\ response' = [response EXCEPT !.Status_code = OK,
               !.Content_Type = Suffix2Desc(request.suffix),
               !.Content_Length = request.size,
               !.file = Readable(fs[request.path])]
        /\ pc' = "SendHead"
    BY <1>4, NonCgiIs
  <2>2. request.path \in Paths /\ response \in Responses
    BY DEF AnswerTypes, Requests
  <2>3. /\ response'.Status_code = OK /\ response'.total = 0
        /\ response'.Content_Type = Suffix2Desc(request.suffix)
        /\ response'.Content_Length = request.size
        /\ response'.file = Readable(fs[request.path])
    BY <1>2, <2>1, <2>2 DEF Responses, Untouched
  <2>4. /\ \A i \in DOMAIN response'.file : response'.file[i][1] = "file"
        /\ changes = 0 => Len(response'.file) = fs[request.path].size
                          /\ request.size = ToInt(fs[request.path].size)
    <3>1. fs[request.path].kind # "dir" \/ changes # 0
      BY <1>1 DEF Prepared
    <3>2. changes = 0 => request.size = ToInt(fs[request.path].size)
      BY <1>1 DEF Prepared
    <3> QED
      BY <2>2, <2>3, <3>1, <3>2, ReadableIs
  <2>5. FromFile'
    BY <1>1, <2>3, <2>4 DEF FromFile
  <2> QED
    BY <2>1, <2>3, <2>5 DEF Prepared, Reading, Building
<1> QED
  BY <1>3, <1>4

LEMMA CgiPrepares ==
    ASSUME EndTypes, Control, Prepared, ProcessCIG
    PROVE  Prepared'
<1> USE DEF EndTypes
<1>1. UNCHANGED <<stop, request>> /\ pc = "ProcessCIG" /\ request.cgi /\ Untouched
  BY BuildUnchanged DEF ProcessCIG, BuildStep, Control, Prepared, Building
<1>2. PICK n \in Totals, code \in Codes :
          /\ response' = [response EXCEPT !.Status_code = code,
                 !.Resp_body = Content("cgi", n),
                 !.Content_Type = IF code = OK THEN Suffix2Desc(request.suffix) ELSE @,
                 !.Content_Length = IF code = OK THEN n ELSE @]
          /\ Len(Content("cgi", n)) = n
          /\ \A i \in DOMAIN Content("cgi", n) : Content("cgi", n)[i][1] = "cgi"
          /\ pc' = IF code = OK THEN "SendHead" ELSE "HandlerError"
  BY CgiIs
<1>3. /\ response'.Status_code = code /\ response'.Resp_body = Content("cgi", n)
      /\ response'.Content_Type = IF code = OK THEN Suffix2Desc(request.suffix)
                                               ELSE response.Content_Type
      /\ response'.Content_Length = IF code = OK THEN n ELSE response.Content_Length
      /\ response'.file = response.file /\ response'.total = response.total
  BY <1>2 DEF AnswerTypes, Responses
<1>4. CASE code = OK
  <2>1. FromCgi'
    BY <1>1, <1>2, <1>3, <1>4 DEF FromCgi
  <2> QED
    BY <1>1, <1>2, <1>3, <1>4, <2>1 DEF Prepared, Untouched, Reading, Building
<1>5. CASE code # OK
  <2>1. Failed'
    BY <1>1, <1>3, <1>5 DEF Failed, Untouched
  <2> QED
    BY <1>2, <1>5, <2>1 DEF Prepared, Reading, Building, Answering
<1> QED
  BY <1>4, <1>5

LEMMA ErrorPrepares ==
    ASSUME EndTypes, Control, Prepared, HandlerError
    PROVE  Prepared'
<1> USE DEF EndTypes
<1>1. UNCHANGED <<stop, fs>> /\ Failed /\ response \in Responses /\ request \in Requests
  BY BuildUnchanged DEF HandlerError, ErrorPage, BuildStep, Prepared, AnswerTypes
<1>2. pc' = "SendHead"
  BY ErrorIs
<1>3. CASE /\ request' = [request EXCEPT !.cgi = FALSE, !.size = ToInt(fs["error"].size)]
           /\ response' = [response EXCEPT !.Content_Type = "html",
                  !.Content_Length = fs["error"].size,
                  !.file = Content("error", fs["error"].size)]
  <2>1. ~request'.cgi /\ request'.size = ToInt(fs["error"].size)
    BY <1>1, <1>3 DEF Requests
  <2>2. /\ response'.Content_Type = "html" /\ response'.Content_Length = fs["error"].size
        /\ response'.file = Content("error", fs["error"].size)
        /\ response'.Status_code # OK /\ response'.total = 0
    BY <1>1, <1>3 DEF Responses, Failed
  <2>3. /\ Len(response'.file) = fs["error"].size
        /\ \A i \in DOMAIN response'.file : response'.file[i][1] = "error"
    <3>1. fs["error"].size \in Nat
      BY FileIs
    <3>2. \A n \in Nat : /\ Len(Content("error", n)) = n
                         /\ \A i \in DOMAIN Content("error", n) : Content("error", n)[i][1] = "error"
      BY ContentIs
    <3> QED
      BY <2>2, <3>1, <3>2
  <2>4. FromError'
    BY <1>1, <2>1, <2>2, <2>3 DEF FromError
  <2> QED
    BY <1>2, <2>2, <2>4 DEF Prepared, Reading, Building
<1>4. CASE request' = [request EXCEPT !.cgi = FALSE] /\ response' = response
  <2>1. ~request'.cgi
    BY <1>1, <1>4 DEF Requests
  <2>2. FromError'
    BY <1>1, <1>4, <2>1 DEF FromError, Failed
  <2> QED
    BY <1>1, <1>2, <1>4, <2>2 DEF Prepared, Failed, Reading, Building
<1> QED
  BY <1>3, <1>4, ErrorIs

LEMMA BuildingKeepsPrepared ==
    ASSUME EndTypes, Control, Prepared, BuildStep
    PROVE  Prepared'
<1> USE DEF EndTypes
<1>1. UNCHANGED <<fs, changes>>
  BY BuildUnchanged
<1>2. ASSUME CheckMethod PROVE Prepared'
  <2>1. Untouched
    BY <1>2 DEF CheckMethod, Prepared, Building
  <2>2. CASE Fail(BAD_REQUSET)
    <3>1. BAD_REQUSET \in Codes \ {OK}
      BY DEF Codes, BAD_REQUSET, OK
    <3> QED
      BY <2>1, <2>2, <3>1, FailPrepares
  <2>3. CASE pc' = "stat" /\ response' = response
    BY <2>1, <2>3 DEF Prepared, Untouched, Answering
  <2> QED
    BY <1>2, <2>2, <2>3, CheckMethodIs
<1>3. ASSUME StatPath \/ StatIndex PROVE Prepared'
  <2>1. Untouched
    BY <1>3 DEF StatPath, StatIndex, Prepared, Building
  <2>2. CASE Fail(NOT_FOUND)
    <3>1. NOT_FOUND \in Codes \ {OK}
      BY DEF Codes, NOT_FOUND, OK
    <3> QED
      BY <2>1, <2>2, <3>1, FailPrepares
  <2>3. CASE pc' = "restat" /\ response' = response
    BY <2>1, <2>3 DEF Prepared, Untouched, Answering
  <2>4. ASSUME response' = response, NEW cgi \in BOOLEAN, NEW path \in Paths,
               NEW object \in {fs[path], [kind |-> "dir", size |-> request.size]},
               Found(object, path, cgi)
        PROVE  Prepared'
    <3>1. pc' = IF cgi THEN "ProcessCIG" ELSE "ProcessNonCIG"
      BY <2>4 DEF Found
    <3>2. Untouched'
      BY <2>1, <2>4 DEF Untouched
    <3>3. ~cgi => request'.size = ToInt(fs[path].size) /\ request'.path = path
                  /\ fs[path].kind = "page"
      <4>1. request'.size = ToInt(object.size) /\ request'.path = path
        BY <2>4 DEF Found, AnswerTypes, Requests
      <4>2. ~cgi => object = fs[path] /\ object.kind \notin {"none", "dir", "prog"}
        BY <2>4 DEF Found
      <4>3. fs[path].kind \in {"none", "dir", "page", "prog"}
        BY FileIs DEF Paths
      <4> QED
        BY <4>1, <4>2, <4>3
    <3> QED
      BY <1>1, <3>1, <3>2, <3>3 DEF Prepared, Answering
  <2> QED
    BY <1>3, <2>2, <2>3, <2>4, StatIs
<1> QED
  BY <1>2, <1>3, NonCgiPrepares, CgiPrepares, ErrorPrepares DEF BuildStep

\* What is prepared stays so while it is sent, and while files change.
LEMMA StillPrepared ==
    ASSUME FromCgi \/ FromFile \/ FromError, UNCHANGED request,
           response'.Status_code = response.Status_code,
           response'.Content_Type = response.Content_Type,
           response'.Content_Length = response.Content_Length,
           response'.Resp_body = response.Resp_body,
           response'.file = response.file,
           fs'["error"] = fs["error"],
           changes' # 0 \/ UNCHANGED <<fs, changes>>
    PROVE  (FromCgi \/ FromFile \/ FromError)'
<1>1. CASE FromCgi
  <2>1. FromCgi'
    BY <1>1 DEF FromCgi
  <2> QED
    BY <2>1
<1>2. CASE FromFile
  <2>1. FromFile'
    BY <1>2 DEF FromFile
  <2> QED
    BY <2>1
<1>3. CASE FromError
  <2>1. FromError'
    BY <1>3 DEF FromError
  <2> QED
    BY <2>1
<1> QED
  BY <1>1, <1>2, <1>3

LEMMA SendingKeepsPrepared ==
    ASSUME EndTypes, Control, Prepared, SendStep
    PROVE  Prepared'
<1>1. UNCHANGED <<fs, changes, stop, request>>
  BY SendUnchanged
<1>2. /\ Answering' => Answering
      /\ pc' \in {"SendCgi", "SendFile", "close", "done"}
  BY <1>1 DEF SendStep, SendHead, SendCgi, SendRound, SendFile, SendBytes, Close, Answering
<1>3. /\ response'.Status_code = response.Status_code
      /\ response'.Content_Type = response.Content_Type
      /\ response'.Content_Length = response.Content_Length
      /\ response'.Resp_body = response.Resp_body
      /\ response'.file = response.file
  BY SendKeepsResponse DEF EndTypes
<1>4. Answering' => (FromCgi \/ FromFile \/ FromError)'
  BY <1>1, <1>2, <1>3, StillPrepared DEF Prepared
<1> QED
  BY <1>2, <1>4 DEF Prepared, Reading, Building

LEMMA AroundKeepsPrepared ==
    ASSUME EndTypes, Prepared, Around
    PROVE  Prepared'
<1>1. UNCHANGED <<pc, stop, request, response>>
  BY AroundIs DEF EndTypes
<1>2. fs'["error"] = fs["error"] /\ (changes' # 0 \/ UNCHANGED <<fs, changes>>)
  <2>1. changes \in Nat
    BY EndPointAssumption DEF EndTypes, FileTypes
  <2> QED
    BY <2>1, AroundIs DEF EndTypes
<1>3. Answering' => (FromCgi \/ FromFile \/ FromError)'
  BY <1>1, <1>2, StillPrepared DEF Prepared, Answering
<1> QED
  BY <1>1, <1>2, <1>3 DEF Prepared, Untouched, Failed

LEMMA PreparedStep == EndTypes /\ Control /\ Prepared /\ [Next]_vars => Prepared'
BY StepIs, ReadingKeepsPrepared, BuildingKeepsPrepared, SendingKeepsPrepared, AroundKeepsPrepared

-----------------------------------------------------------------------------
(* What reached the client *)

\* Nothing was sent, and nothing is.
LEMMA StillSilent ==
    ASSUME wire' = wire, wire.status = 0, wire.body = <<>>,
           pc' \notin {"SendCgi", "SendFile"}, pc' \in {"close", "done"} => stop'
    PROVE  Wired'
<1>1. wire'.body = <<>> /\ wire'.status = 0 /\ DOMAIN <<>> = {}
  BY EmptySeq
<1>2. \A i \in DOMAIN wire'.body : FALSE
  BY <1>1
<1> QED
  BY <1>1, <1>2 DEF Wired, Answering

LEMMA WiredInit == Init => Wired
<1> SUFFICES ASSUME Init
             PROVE  Wired
  OBVIOUS
<1>1. wire = [status |-> 0, type |-> "none", length |-> NoLength, body |-> <<>>]
  BY DEF Init
<1>2. wire.status = 0 /\ wire.body = <<>>
  BY <1>1
<1>3. pc = "GetRequestLine" /\ ~stop
  BY DEF Init
<1>4. \A i \in DOMAIN wire.body : FALSE
  BY <1>2, EmptySeq
<1> QED
  BY <1>2, <1>3, <1>4 DEF Wired, Answering

LEMMA ReadingKeepsWired ==
    ASSUME EndTypes, Control, Wired, ReadStep
    PROVE  Wired'
<1>1. pc \in Reading
  BY DEF ReadStep, GetRequestLine, GetRequestHead, ParseHttpRequest, Parse,
         RecvHttpRequestBody, RecvBody, Reading
<1>2. pc' \in Reading \cup {"CheckMethod", "close"} /\ (pc' = "close" => stop')
  BY DEF ReadStep, GetRequestLine, GetRequestHead, ParseHttpRequest, Parse,
         RecvHttpRequestBody, RecvBody, Reading
<1>3. wire.status = 0 /\ wire.body = <<>>
  BY <1>1 DEF Wired, Answering, Reading
<1> QED
  BY <1>2, <1>3, ReadUnchanged, StillSilent DEF Reading

LEMMA BuildingKeepsWired ==
    ASSUME EndTypes, Control, Wired, BuildStep
    PROVE  Wired'
<1>1. pc \in Building \cup {"HandlerError"}
  BY DEF BuildStep, CheckMethod, StatPath, StatIndex, ProcessNonCIG, ProcessCIG,
         HandlerError, ErrorPage, Building
<1>2. pc' \in Building \cup {"HandlerError", "SendHead"}
  BY DEF BuildStep, CheckMethod, StatPath, StatIndex, ProcessNonCIG, ProcessCIG,
         HandlerError, ErrorPage, Fail, UseStat, Building
<1>3. wire.status = 0 /\ wire.body = <<>>
  BY <1>1 DEF Wired, Answering, Building
<1> QED
  BY <1>2, <1>3, BuildUnchanged, StillSilent DEF Building

LEMMA SendHeadWires ==
    ASSUME EndTypes, Control, Prepared, Wired, SendHead
    PROVE  Wired'
<1> USE DEF EndTypes
<1>1. UNCHANGED <<response, peer, stop, request>> /\ pc' \in {"SendCgi", "SendFile"}
  BY SendHeadIs, SendUnchanged DEF SendStep
<1>2. /\ wire.status = 0 /\ wire.body = <<>> /\ response.total = 0
      /\ wire \in Wires /\ response \in Responses
  BY DEF SendHead, Wired, Prepared, AnswerTypes
<1>3. /\ wire'.body = <<>>
      /\ IF peer = "gone" THEN wire'.status = 0
         ELSE /\ wire'.status = response.Status_code /\ wire'.type = response.Content_Type
              /\ wire'.length = response.Content_Length
  BY <1>2, SendHeadIs DEF Wires
<1>4. response.Status_code # 0
  BY <1>2 DEF Responses, Codes, OK, BAD_REQUSET, NOT_FOUND, SERVER_ERROR
<1>5. \A i \in DOMAIN wire'.body : FALSE
  BY <1>3, EmptySeq
<1> QED
  BY <1>1, <1>2, <1>3, <1>4, <1>5 DEF Wired, Answering

LEMMA SendCgiWires ==
    ASSUME EndTypes, Control, Prepared, Wired, SendCgi
    PROVE  Wired'
<1> USE DEF EndTypes
<1> DEFINE body == response.Resp_body
           total == response.total
<1>1. UNCHANGED <<peer, stop, request>> /\ pc = "SendCgi" /\ request.cgi
  BY SendUnchanged DEF SendStep, SendCgi, SendRound, Control
<1>2. /\ wire \in Wires /\ response \in Responses /\ total \in Nat /\ Len(body) \in Nat
      /\ body \in Seq(Bytes) /\ wire.body \in Seq(Bytes) /\ Len(wire.body) \in Nat
      /\ DOMAIN body = 1..Len(body) /\ DOMAIN wire.body = 1..Len(wire.body)
  BY LenProperties, EndPointAssumption DEF AnswerTypes, Responses, Wires, Contents, Totals
<1>3. FromCgi
  BY <1>1 DEF Prepared, Answering, FromFile, FromError
<1>4. response.Status_code = OK /\ \A i \in DOMAIN body : body[i][1] = "cgi"
  BY <1>3 DEF FromCgi
<1>5. \A i \in DOMAIN wire.body : wire.body[i][1] # "error"
  BY <1>4 DEF Wired
<1>6. ASSUME total < Len(body), peer # "gone",
             wire' = [wire EXCEPT !.body = wire.body \o Rest],
             response' = [response EXCEPT !.total = total + 1],
             pc' = "SendCgi"
      PROVE  Wired'
  <2>1. /\ Rest \in Seq(Bytes) /\ Len(Rest) = Len(body) - total /\ DOMAIN Rest = 1..Len(Rest)
        /\ \A i \in DOMAIN Rest : i + total \in DOMAIN body /\ Rest[i] = body[i + total]
    BY <1>6, SendCgiIs, LenProperties DEF Contents
  <2>2. /\ wire'.body = wire.body \o Rest /\ wire'.status = wire.status
        /\ wire'.type = wire.type /\ wire'.length = wire.length
    BY <1>2, <1>6 DEF Wires
  <2>3. /\ response'.Status_code = response.Status_code /\ response'.total = total + 1
        /\ response'.Content_Type = response.Content_Type /\ response'.Resp_body = body
        /\ response'.Content_Length = response.Content_Length
    BY <1>2, <1>6 DEF Responses
  <2>4. /\ wire'.body \in Seq(Bytes) /\ Len(wire'.body) = Len(wire.body) + Len(Rest)
        /\ \A i \in 1..(Len(wire.body) + Len(Rest)) : wire'.body[i] =
              IF i <= Len(wire.body) THEN wire.body[i] ELSE Rest[i - Len(wire.body)]
    <3>1. wire'.body = wire.body \o Rest /\ wire.body \in Seq(Bytes) /\ Rest \in Seq(Bytes)
      BY <1>2, <2>1, <2>2
    <3> QED
      BY <3>1, ConcatProperties
  <2> HIDE DEF body, total
  <2>5. DOMAIN wire'.body = 1..(Len(wire.body) + Len(Rest))
    BY <2>4, LenProperties
  <2>6. \A i \in DOMAIN wire'.body : wire'.body[i][1] # "error"
    <3> SUFFICES ASSUME NEW i \in 1..(Len(wire.body) + Len(Rest))
                 PROVE  wire'.body[i][1] # "error"
      BY <2>5
    <3>1. CASE i <= Len(wire.body)
      <4>1. i \in DOMAIN wire.body
        BY <1>2, <3>1
      <4> QED
        BY <1>5, <2>4, <3>1, <4>1
    <3>2. CASE ~(i <= Len(wire.body))
      <4> DEFINE j == i - Len(wire.body)
      <4>1. j \in DOMAIN Rest
        BY <1>2, <2>1, <3>2
      <4>2. wire'.body[i] = Rest[j]
        BY <2>4, <3>2
      <4>3. Rest[j][1] = "cgi"
        BY <1>4, <2>1, <4>1 DEF body
      <4> QED
        BY <4>2, <4>3
    <3> QED
      BY <3>1, <3>2
  <2>7. /\ Len(wire'.body) >= Len(body)
        /\ \A i \in 1..Len(body) : wire'.body[i] = body[i]
    <3>1. CASE total = 0
      <4>1. wire.body = <<>>
        BY <1>1, <3>1 DEF Wired, total
      <4>2. Len(wire.body) = 0 /\ Len(Rest) = Len(body)
        BY <1>2, <2>1, <3>1, <4>1, EmptySeq
      <4>3. \A i \in 1..Len(body) : wire'.body[i] = Rest[i]
        BY <1>2, <2>4, <4>2
      <4>4. \A i \in 1..Len(body) : Rest[i] = body[i]
        BY <1>2, <2>1, <3>1, <4>2
      <4> QED
        BY <1>2, <2>4, <4>2, <4>3, <4>4
    <3>2. CASE total # 0
      <4>1. /\ Len(wire.body) >= Len(body)
            /\ \A i \in 1..Len(body) : wire.body[i] = body[i]
        <5>1. total > 0
          BY <1>2, <3>2
        <5> QED
          BY <1>1, <1>6, <5>1 DEF Wired, Answering, total, body
      <4>2. \A i \in 1..Len(body) : i <= Len(wire.body) /\ i \in 1..(Len(wire.body) + Len(Rest))
        BY <1>2, <2>1, <4>1
      <4>3. \A i \in 1..Len(body) : wire'.body[i] = body[i]
        BY <2>4, <4>1, <4>2
      <4>4. Len(wire'.body) >= Len(body)
        <5>1. Len(Rest) \in Nat /\ Len(wire'.body) = Len(wire.body) + Len(Rest)
          BY <2>1, <2>4, LenProperties
        <5>2. Len(body) \in Nat /\ Len(wire.body) \in Nat /\ Len(wire.body) >= Len(body)
          BY <1>2, <4>1 DEF body
        <5> QED
          BY <5>1, <5>2
      <4> QED
        BY <4>3, <4>4
    <3> QED
      BY <3>1, <3>2
  <2>8. wire.status # 0
    BY <1>1, <1>6 DEF Wired
  <2>9. total + 1 # 0
    BY <1>2
  <2> QED
    BY <1>1, <1>4, <1>6, <2>2, <2>3, <2>6, <2>7, <2>8, <2>9 DEF Wired, Answering, body
<1>7. ASSUME peer = "gone", wire' = wire,
             response' = [response EXCEPT !.total = total + 1],
             pc' = "close"
      PROVE  Wired'
  <2>1. /\ response'.Status_code = response.Status_code /\ response'.Resp_body = body
        /\ response'.Content_Type = response.Content_Type
        /\ response'.Content_Length = response.Content_Length
    BY <1>2, <1>7 DEF Responses
  <2> QED
    BY <1>1, <1>4, <1>7, <2>1 DEF Wired, Answering, Control
<1>8. ASSUME total = Len(body) \/ total > Len(body), pc' = "close", UNCHANGED <<wire, response>>
      PROVE  Wired'
  <2>1. peer # "gone" => /\ Len(wire.body) >= Len(body)
                         /\ \A i \in 1..Len(body) : wire.body[i] = body[i]
    <3>1. CASE total = 0
      <4>1. Len(body) = 0
        BY <1>2, <1>8, <3>1
      <4> QED
        BY <1>2, <4>1
    <3>2. CASE total # 0
      <4>1. total > 0
        BY <1>2, <3>2
      <4> QED
        BY <1>1, <4>1 DEF Wired, Answering
    <3> QED
      BY <3>1, <3>2
  <2> QED
    BY <1>1, <1>4, <1>8, <2>1 DEF Wired, Answering, Control
<1> QED
  BY <1>6, <1>7, <1>8, SendCgiIs

LEMMA SendFileWires ==
    ASSUME EndTypes, Control, Prepared, Wired, SendFile
    PROVE  Wired'
<1> USE DEF EndTypes
<1> DEFINE sent == Sent(response.file, request.size)
<1>1. UNCHANGED <<peer, stop, request>> /\ pc = "SendFile" /\ pc' = "close" /\ ~request.cgi
  BY SendFileIs, SendUnchanged DEF SendStep, SendFile, SendBytes, Control
<1>2. /\ wire \in Wires /\ wire.body = <<>> /\ response \in Responses
      /\ response.file \in Contents /\ request.size \in Int
  BY <1>1, EndPointAssumption DEF AnswerTypes, Wired, Responses, Requests, Ints
<1>3. PICK bytes \in Contents :
          /\ Len(bytes) <= Len(sent)
          /\ \A i \in DOMAIN bytes : i \in DOMAIN response.file /\ bytes[i] = response.file[i]
          /\ wire' = IF peer = "gone" \/ bytes = <<>> THEN wire
                     ELSE [wire EXCEPT !.body = wire.body \o bytes]
          /\ response' = [response EXCEPT !.short = Len(bytes) < Len(sent)]
  BY SendFileIs
<1>4. peer # "gone" => /\ wire'.body = bytes /\ wire'.status = wire.status
                       /\ wire'.type = wire.type /\ wire'.length = wire.length
  <2>1. <<>> \o bytes = bytes
    BY <1>3, ConcatEmptySeq DEF Contents
  <2> HIDE DEF sent
  <2> QED
    BY <1>2, <1>3, <2>1 DEF Wires
<1>5. \A i \in DOMAIN bytes : bytes[i][1] = "error" <=> response.Status_code # OK
  <2>1. CASE FromFile
    <3>1. \A i \in DOMAIN response.file : response.file[i][1] = "file"
      BY <2>1 DEF FromFile
    <3> QED
      BY <1>3, <2>1, <3>1 DEF FromFile
  <2>2. CASE FromError
    <3>1. \A i \in DOMAIN response.file : response.file[i][1] = "error"
      BY <2>2, EmptySeq DEF FromError
    <3> QED
      BY <1>3, <2>2, <3>1 DEF FromError
  <2> QED
    BY <1>1, <2>1, <2>2 DEF Prepared, Answering, FromCgi
<1>6. wire.status # 0 \/ peer = "gone"
  BY <1>1 DEF Wired
<1>7. /\ response'.Status_code = response.Status_code
      /\ response'.Content_Type = response.Content_Type
      /\ response'.Content_Length = response.Content_Length
      /\ response'.Resp_body = response.Resp_body
      /\ response'.file = response.file
  BY SendKeepsResponse DEF SendStep
<1> DEFINE short == Len(bytes) < Len(sent)
<1>8. response'.short = short
  <2>1. response' = [response EXCEPT !.short = short]
    BY <1>3
  <2> HIDE DEF short, sent
  <2> QED
    BY <1>2, <2>1 DEF Responses
<1>9. Len(sent) \in Nat /\ Len(bytes) \in Nat
  BY <1>2, <1>3, SentIs, LenProperties DEF Contents
<1>10. sent' = sent
  BY <1>1, <1>7
<1> HIDE DEF sent
<1>11. Len(bytes) <= Len(sent) /\ (short \/ Len(bytes) = Len(sent))
  BY <1>3, <1>9
<1> HIDE DEF short
<1>12. CASE peer = "gone"
  <2>1. wire' = wire /\ peer' = "gone"
    BY <1>1, <1>3, <1>12
  <2> QED
    BY <1>1, <1>7, <2>1 DEF Wired, Answering, Control
<1>13. CASE peer # "gone"
  <2>1. wire'.status # 0 /\ wire'.body = bytes
    BY <1>4, <1>6, <1>13
  <2>2. Len(wire'.body) <= Len(sent') /\ (response'.short \/ Len(wire'.body) = Len(sent'))
    BY <1>8, <1>10, <1>11, <2>1
  <2> QED
    BY <1>1, <1>4, <1>5, <1>7, <1>13, <2>1, <2>2 DEF Wired, Answering, Control, sent
<1> QED
  BY <1>12, <1>13

LEMMA SendingKeepsWired ==
    ASSUME EndTypes, Control, Prepared, Wired, SendStep
    PROVE  Wired'
<1>1. ASSUME Close PROVE Wired'
  <2>1. UNCHANGED <<peer, stop, request, response, wire>> /\ pc = "close" /\ pc' = "done"
    BY <1>1, SendUnchanged DEF SendStep, Close
  <2> QED
    BY <2>1 DEF Wired, Answering
<1> QED
  BY <1>1, SendHeadWires, SendCgiWires, SendFileWires DEF SendStep

LEMMA AroundKeepsWired ==
    ASSUME EndTypes, Wired, Around
    PROVE  Wired'
<1>1. UNCHANGED <<pc, stop, request, response, wire>> /\ (peer' # "gone" => peer # "gone")
  BY AroundIs DEF EndTypes
<1> QED
  BY <1>1 DEF Wired, Answering

LEMMA WiredStep == EndTypes /\ Control /\ Prepared /\ Wired /\ [Next]_vars => Wired'
BY StepIs, ReadingKeepsWired, BuildingKeepsWired, SendingKeepsWired, AroundKeepsWired

SentInv == EndTypes /\ Control /\ Prepared /\ Wired

LEMMA SentInvariant == Spec => []SentInv
<1>1. Init => SentInv
  BY EndTypesInit, ControlInit, PreparedInit, WiredInit DEF SentInv
<1>2. SentInv /\ [Next]_vars => SentInv'
  BY EndTypesStep, ControlStep, PreparedStep, WiredStep DEF SentInv
<1> QED
  BY <1>1, <1>2, PTL DEF Spec

\* Whatever a program had written before it failed, and whatever file was
\* asked for, an answer with an error status carries bytes of the error page
\* only: HandlerError empties or replaces what is sent, on every path to it.
THEOREM EndErrorNeverLeaks == Spec => []ErrorNeverLeaksContent
<1>1. SentInv => ErrorNeverLeaksContent
  BY DEF SentInv, Wired, ErrorNeverLeaksContent, Answered
<1> QED
  BY <1>1, SentInvariant, PTL

\* The first Content-Length bytes of the body are the program's output, however
\* often the loop of SendHttpResquese sent it again.
THEOREM EndCgiReaderGetsOutput == Spec => []CgiReaderGetsOutput
<1>1. ASSUME SentInv, pc \in {"close", "done"}, peer # "gone", Answered, request.cgi
      PROVE  /\ wire.length = Len(response.Resp_body)
             /\ SubSeq(wire.body, 1, wire.length) = response.Resp_body
  <2> DEFINE body == response.Resp_body
             n == Len(body)
             got == wire.body
  <2>1. wire.status # 0 /\ Answering
    BY <1>1 DEF SentInv, Wired, Answered
  <2>2. FromCgi
    BY <1>1, <2>1 DEF SentInv, Prepared, FromFile, FromError
  <2>3. wire.length = n
    BY <1>1, <2>1, <2>2 DEF SentInv, Wired, FromCgi
  <2>4. Len(got) >= n /\ \A i \in 1..n : got[i] = body[i]
    BY <1>1, <2>1 DEF SentInv, Wired
  <2>5. got \in Seq(Bytes) /\ body \in Seq(Bytes) /\ n \in Nat /\ Len(got) \in Nat
    BY <1>1, LenProperties DEF SentInv, EndTypes, AnswerTypes, Wires, Responses, Contents
  <2>6. SubSeq(got, 1, n) = body
    <3> HIDE DEF body, got
    <3>1. \A i \in 1..n : got[i] \in Bytes
      BY <2>4, <2>5, ElementOfSeq
    <3>2. /\ SubSeq(got, 1, n) \in Seq(Bytes)
          /\ Len(SubSeq(got, 1, n)) = IF 1 <= n THEN n - 1 + 1 ELSE 0
          /\ \A i \in 1..(n - 1 + 1) : SubSeq(got, 1, n)[i] = got[1 + i - 1]
      BY <2>5, <3>1, SubSeqProperties
    <3>3. n - 1 + 1 = n /\ \A i \in 1..n : 1 + i - 1 = i
      BY <2>5
    <3>4. Len(SubSeq(got, 1, n)) = n /\ \A i \in 1..n : SubSeq(got, 1, n)[i] = body[i]
      BY <2>4, <2>5, <3>2, <3>3
    <3> QED
      BY <2>5, <3>2, <3>4, SeqEqual
  <2> QED
    BY <2>3, <2>6
<1>2. SentInv => CgiReaderGetsOutput
  BY <1>1 DEF CgiReaderGetsOutput
<1> QED
  BY <1>2, SentInvariant, PTL

\* A file's body never overruns its Content-Length, is empty if that is
\* negative, and fills it if no file changed, the file is no larger than one
\* sendfile moves and that was not interrupted; a larger one is never sent
\* whole: the one sendfile of SendHttpResquese, whose result is not looked at.
THEOREM EndStaticFramed == Spec => []StaticFramed
<1> DEFINE size == fs[IF wire.status = OK THEN request.path ELSE "error"].size
           Bounded == IF wire.length < 0 THEN wire.body = <<>>
                      ELSE Len(wire.body) <= wire.length
           Filled == IF size > MaxSend THEN Len(wire.body) < size
                     ELSE response.short \/ Len(wire.body) = wire.length
           Framed == IF wire.length = NoLength THEN wire.body = <<>>
                     ELSE Bounded /\ (changes = 0 => Filled)
           count == request.size
           body == Len(wire.body)
           sent == Len(Sent(response.file, count))
           file == Len(response.file)
<1>1. ASSUME SentInv, pc \in {"close", "done"}, peer # "gone", Answered, ~request.cgi
      PROVE  Framed
  <2>1. wire.status # 0 /\ Answering /\ ~stop
    BY <1>1 DEF SentInv, Wired, Answered, Answering
  <2>2. /\ wire.length = response.Content_Length /\ wire.status = response.Status_code
        /\ body <= sent /\ (response.short \/ body = sent)
    BY <1>1, <2>1 DEF SentInv, Wired
  <2>3. /\ response.file \in Contents /\ count \in Int /\ request.path \in Paths
        /\ file \in Nat /\ FileTypes /\ wire.body \in Seq(Bytes) /\ body \in Nat
        /\ response.file \in Seq(Bytes)
    BY <1>1, EndPointAssumption, LenProperties DEF SentInv, EndTypes, AnswerTypes, Responses,
       Requests, Wires, Contents, Ints
  <2>4. /\ sent \in 0..file /\ sent <= MaxSend
        /\ count < 0 => sent = 0
        /\ count >= 0 => sent <= count
        /\ count = file /\ count <= MaxSend => sent = count
    BY <2>3, SentIs
  <2>5. \A p \in {"path", "index", "error"} :
           fs[p].size \in Nat /\ (fs[p].size <= MaxSend => ToInt(fs[p].size) = fs[p].size)
    <3>1. \A p \in {"path", "index", "error"} : fs[p].size \in Nat
      BY <2>3, FileIs
    <3>2. \A n \in Nat : n <= MaxSend => ToInt(n) = n
      BY ToIntRange, EndPointAssumption DEF Ints
    <3> QED
      BY <3>1, <3>2
  <2>6. size \in Nat /\ (size <= MaxSend => ToInt(size) = size)
    BY <2>3, <2>5 DEF Paths
  <2>7. MaxSend \in Nat /\ (body = 0 => wire.body = <<>>)
    BY <2>3, EmptySeq, EndPointAssumption
  <2>8. CASE FromFile
    <3>1. wire.length = count /\ wire.length # NoLength
      BY <2>2, <2>3, <2>8, EndPointAssumption DEF FromFile
    <3>2. changes = 0 => file = size /\ count = ToInt(size)
      BY <2>2, <2>8 DEF FromFile
    <3> HIDE DEF size, count, body, sent, file
    <3>3. Bounded
      BY <2>2, <2>3, <2>4, <2>7, <3>1 DEF body
    <3>4. ASSUME changes = 0 PROVE Filled
      <4>1. CASE size > MaxSend
        BY <2>2, <2>3, <2>4, <2>6, <2>7, <4>1 DEF body
      <4>2. CASE ~(size > MaxSend)
        <5>1. sent = count
          BY <2>4, <2>6, <2>7, <3>2, <3>4, <4>2
        <5> QED
          BY <2>2, <3>1, <4>2, <5>1 DEF body
      <4> QED
        BY <4>1, <4>2
    <3> QED
      BY <3>1, <3>3, <3>4
  <2>9. CASE FromError /\ response.Content_Length = NoLength
    <3>1. response.file = <<>>
      <4>1. NoLength # file
        BY <2>3, EndPointAssumption
      <4> QED
        BY <2>9, <4>1 DEF FromError
    <3>2. file = 0
      BY <3>1, EmptySeq
    <3> HIDE DEF body, sent, file
    <3>3. body = 0
      BY <2>2, <2>3, <2>4, <3>2
    <3> QED
      BY <2>2, <2>7, <2>9, <3>3
  <2>10. CASE FromError /\ response.Content_Length # NoLength
    <3>1. /\ wire.length = file /\ wire.length # NoLength
          /\ file = size /\ count = ToInt(size)
      BY <2>2, <2>10 DEF FromError
    <3> HIDE DEF size, count, body, sent, file
    <3>2. Bounded
      BY <2>2, <2>3, <2>4, <3>1 DEF body
    <3>3. CASE size > MaxSend
      BY <2>2, <2>3, <2>4, <2>6, <2>7, <3>1, <3>2, <3>3 DEF body
    <3>4. CASE ~(size > MaxSend)
      <4>1. sent = count
        BY <2>4, <2>6, <2>7, <3>1, <3>4
      <4>2. Filled
        BY <2>2, <2>6, <2>7, <3>1, <3>4, <4>1 DEF body
      <4> QED
        BY <3>1, <3>2, <4>2
    <3> QED
      BY <3>3, <3>4
  <2> QED
    BY <1>1, <2>1, <2>8, <2>9, <2>10 DEF SentInv, Prepared, FromCgi
<1>2. SentInv => StaticFramed
  BY <1>1 DEF StaticFramed
<1> QED
  BY <1>2, SentInvariant, PTL

-----------------------------------------------------------------------------
(* The type of the body *)

LEMMA SuffixedInit == Init => Suffixed
BY DEF Init, Suffixed, Answering

LEMMA SuffixedStep ==
    ASSUME EndTypes, Control, Prepared, Suffixed, [Next]_vars
    PROVE  Suffixed'
<1> USE DEF EndTypes
<1>1. request \in Requests /\ response \in Responses
  BY DEF AnswerTypes
<1>2. ASSUME pc' \notin {"ProcessNonCIG", "ProcessCIG"},
             ~Answering' \/ response'.Status_code # OK
      PROVE  Suffixed'
  BY <1>2 DEF Suffixed
<1>3. ASSUME UNCHANGED request, Suffixed,
             pc \in {"ProcessNonCIG", "ProcessCIG"} \/ (Answering /\ response.Status_code = OK)
      PROVE  Suffixed'
  BY <1>3 DEF Suffixed
<1>4. ASSUME ReadStep PROVE Suffixed'
  <2>1. pc' \in Reading \cup {"CheckMethod", "close"} /\ (pc' = "close" => stop')
    BY <1>4 DEF ReadStep, GetRequestLine, GetRequestHead, ParseHttpRequest, Parse,
       RecvHttpRequestBody, RecvBody, Reading
  <2> QED
    BY <1>2, <2>1 DEF Reading, Answering
<1>5. ASSUME CheckMethod PROVE Suffixed'
  BY <1>2, <1>5, CheckMethodIs DEF Answering, Fail
<1>6. ASSUME StatPath \/ StatIndex PROVE Suffixed'
  <2>1. CASE pc' \in {"HandlerError", "restat"}
    BY <1>2, <2>1 DEF Answering
  <2>2. ASSUME NEW object, NEW path \in Paths, NEW cgi \in BOOLEAN, Found(object, path, cgi)
        PROVE  Suffixed'
    <3>1. SuffixOf(path) \in Names
      BY <1>1, SuffixOfType
    <3>2. /\ request'.suffix = SuffixOf(path) /\ request'.path = path
          /\ request'.method = request.method /\ request'.uri = request.uri
      BY <1>1, <2>2, <3>1 DEF Found, Requests
    <3> QED
      BY <3>2 DEF Suffixed, SuffixOf
  <2> QED
    BY <1>6, <2>1, <2>2, StatIs DEF Fail
<1>7. ASSUME ProcessNonCIG \/ ProcessCIG PROVE Suffixed'
  BY <1>3, <1>7 DEF ProcessNonCIG, ProcessCIG
<1>8. ASSUME HandlerError PROVE Suffixed'
  <2>1. response.Status_code # OK /\ pc' = "SendHead"
    BY <1>8, ErrorIs DEF HandlerError, ErrorPage, Prepared, Failed
  <2>2. response'.Status_code = response.Status_code
    BY <1>1, <1>8, ErrorIs DEF Responses
  <2> QED
    BY <1>2, <2>1, <2>2
<1>9. ASSUME SendStep PROVE Suffixed'
  <2>1. UNCHANGED <<stop, request>> /\ pc' \notin {"ProcessNonCIG", "ProcessCIG"}
        /\ response'.Status_code = response.Status_code /\ (Answering' => Answering)
    <3>1. UNCHANGED <<stop, request>>
      BY <1>9, SendUnchanged
    <3>2. /\ Answering' => Answering
          /\ pc' \in {"SendCgi", "SendFile", "close", "done"}
      BY <1>9, <3>1 DEF SendStep, SendHead, SendCgi, SendRound, SendFile, SendBytes, Close,
         Answering
    <3> QED
      BY <1>9, <3>1, <3>2, SendKeepsResponse
  <2> QED
    BY <1>2, <1>3, <2>1
<1>10. ASSUME Around PROVE Suffixed'
  <2>1. UNCHANGED <<pc, stop, request, response>>
    BY <1>10, AroundIs
  <2> QED
    BY <1>2, <1>3, <2>1 DEF Answering
<1> QED
  BY <1>4, <1>5, <1>6, <1>7, <1>8, <1>9, <1>10, StepIs DEF BuildStep

\* Suffix2Desc of the suffix of a name, without and with index.html behind it.
LEMMA TypeOfName ==
    ASSUME NEW path \in Seq(Words)
    PROVE  Suffix2Desc(Suffix(Full(path))) =
             IF Len(path) > 1 /\ path[Len(path) - 1] = "." /\ path[Len(path)] \in Known
             THEN path[Len(path)] ELSE "html"
<1> DEFINE full == Full(path)
           dot == Greatest(Places(full, "."))
           n == Len(full)
           suffix == SubSeq(full, dot, n)
<1>1. /\ full \in Seq(Words) /\ n = Len(path) + 3 /\ Len(path) \in Nat
      /\ \A i \in 1..Len(path) : full[i + 3] = path[i]
      /\ full[1] = "." /\ full[2] = "/" /\ full[3] = "wwwroot"
      /\ dot \in 1..n /\ full[dot] = "."
      /\ \A i \in 1..n : full[i] = "." => i <= dot
  BY LastDot, LenProperties
<1>2. Suffix(full) = suffix
  BY DEF Suffix, SuffixAt
<1> HIDE DEF full, dot
<1>3. /\ Len(suffix) = n - dot + 1
      /\ \A i \in 1..(n - dot + 1) : suffix[i] = full[dot + i - 1]
  <2>1. \A i \in dot..n : full[i] \in Words
    BY <1>1, ElementOfSeq
  <2>2. /\ Len(suffix) = IF dot <= n THEN n - dot + 1 ELSE 0
        /\ \A i \in 1..(n - dot + 1) : suffix[i] = full[dot + i - 1]
    BY <1>1, <2>1, SubSeqProperties
  <2> QED
    BY <1>1, <2>2
<1> HIDE DEF suffix
<1>4. CASE Len(path) > 1 /\ path[Len(path) - 1] = "." /\ path[Len(path)] \in Known
  <2> DEFINE word == path[Len(path)]
  <2>1. full[n] = word /\ full[n - 1] = "."
    <3>1. Len(path) \in 1..Len(path) /\ Len(path) - 1 \in 1..Len(path)
          /\ Len(path) + 3 = n /\ Len(path) - 1 + 3 = n - 1
      BY <1>1, <1>4
    <3>2. full[Len(path) + 3] = path[Len(path)] /\ full[Len(path) - 1 + 3] = path[Len(path) - 1]
      BY <1>1, <3>1
    <3> QED
      BY <1>4, <3>1, <3>2
  <2>2. word # "."
    BY <1>4 DEF Known
  <2>3. dot = n - 1
    BY <1>1, <2>1, <2>2
  <2>4. Len(suffix) = 2 /\ suffix[1] = "." /\ suffix[2] = word
    <3>1. Len(suffix) = 2
      BY <1>1, <1>3, <2>3
    <3>2. suffix[1] = full[dot] /\ suffix[2] = full[n]
      BY <1>1, <1>3, <2>3
    <3> QED
      BY <1>1, <2>1, <3>1, <3>2
  <2>5. suffix = <<".", word>>
    <3>1. suffix \in Seq(Words)
      <4>1. \A i \in dot..n : full[i] \in Words
        BY <1>1, ElementOfSeq
      <4> QED
        BY <1>1, <4>1, SubSeqProperties DEF suffix
    <3> QED
      BY <2>4, <3>1
  <2>6. suffix \in {<<".", w>> : w \in {"html", "css", "js", "jpg", "xml"}}
    BY <1>4, <2>5 DEF Known
  <2>7. Suffix2Desc(suffix) = word
    BY <2>4, <2>6 DEF Suffix2Desc
  <2> QED
    BY <1>2, <1>4, <2>7 DEF full
<1>5. CASE ~(Len(path) > 1 /\ path[Len(path) - 1] = "." /\ path[Len(path)] \in Known)
  <2>1. CASE suffix \in {<<".", w>> : w \in {"html", "css", "js", "jpg", "xml"}}
    <3>1. PICK w \in Known : suffix = <<".", w>>
      BY <2>1 DEF Known
    <3>2. Len(suffix) = 2 /\ suffix[2] = w
      BY <3>1
    <3>3. dot = n - 1
      <4>1. dot \in Int /\ Len(full) \in Int
        BY <1>1
      <4>2. Len(full) - dot + 1 = 2
        BY <1>3, <3>2
      <4>3. \A k, m \in Int : m - k + 1 = 2 => k = m - 1
        OBVIOUS
      <4> QED
        BY <4>1, <4>2, <4>3
    <3>4. full[n] = w /\ full[n - 1] = "."
      <4>1. suffix[2] = full[dot + 2 - 1]
        BY <1>1, <1>3, <3>3
      <4> QED
        BY <1>1, <3>2, <3>3, <4>1
    <3>5. Len(path) = 0 \/ Len(path) = 1 \/ Len(path) > 1
      <4>1. \A k \in Nat : k = 0 \/ k = 1 \/ k > 1
        OBVIOUS
      <4>2. Len(path) \in Nat
        BY LenProperties
      <4> QED
        BY <4>1, <4>2
    <3>6. Len(path) # 0
      BY <1>1, <3>4 DEF Known
    <3>7. Len(path) # 1
      BY <1>1, <3>4
    <3>8. Len(path) > 1
      BY <3>5, <3>6, <3>7
    <3>9. path[Len(path)] = w /\ path[Len(path) - 1] = "."
      <4>1. Len(path) \in 1..Len(path) /\ Len(path) - 1 \in 1..Len(path)
            /\ Len(path) + 3 = n /\ Len(path) - 1 + 3 = n - 1
        BY <1>1, <3>8
      <4>2. full[Len(path) + 3] = path[Len(path)] /\ full[Len(path) - 1 + 3] = path[Len(path) - 1]
        BY <1>1, <4>1
      <4> QED
        BY <3>4, <4>1, <4>2
    <3> QED
      BY <1>5, <3>8, <3>9
  <2>2. CASE suffix \notin {<<".", w>> : w \in {"html", "css", "js", "jpg", "xml"}}
    BY <1>2, <1>5, <2>2 DEF Suffix2Desc, full
  <2> QED
    BY <2>1, <2>2
<1> QED
  BY <1>4, <1>5 DEF full

LEMMA TypeOfIndex ==
    ASSUME NEW path \in Seq(Words)
    PROVE  Suffix2Desc(Suffix(Full(path \o <<"/", "index", ".", "html">>))) = "html"
<1> DEFINE index == <<"/", "index", ".", "html">>
           name == path \o index
<1>1. /\ index \in Seq(Words) /\ Len(index) = 4 /\ index[3] = "." /\ index[4] = "html"
      /\ Len(path) \in Nat
  BY LenProperties DEF Words
<1> HIDE DEF index
<1>2. /\ name \in Seq(Words) /\ Len(name) = Len(path) + Len(index)
      /\ \A i \in 1..(Len(path) + Len(index)) : name[i] =
            IF i <= Len(path) THEN path[i] ELSE index[i - Len(path)]
  BY <1>1, ConcatProperties
<1> HIDE DEF name
<1>3. Len(name) > 1 /\ name[Len(name)] = "html" /\ name[Len(name) - 1] = "."
  <2>1. Len(name) = Len(path) + 4
    BY <1>1, <1>2
  <2>2. /\ Len(path) + 4 \in 1..(Len(path) + Len(index)) /\ ~(Len(path) + 4 <= Len(path))
        /\ Len(path) + 3 \in 1..(Len(path) + Len(index)) /\ ~(Len(path) + 3 <= Len(path))
        /\ Len(path) + 4 - Len(path) = 4 /\ Len(path) + 3 - Len(path) = 3
    BY <1>1
  <2>3. name[Len(path) + 4] = index[4] /\ name[Len(path) + 3] = index[3]
    BY <1>2, <2>2
  <2> QED
    BY <1>1, <2>1, <2>3
<1>4. Suffix2Desc(Suffix(Full(name))) = "html"
  BY <1>2, <1>3, TypeOfName DEF Known
<1> QED
  BY <1>4 DEF name, index

TypeInv == SentInv /\ Suffixed

\* The type sent with a body is that of the extension after the last dot of the
\* file's name, although Suffix2Desc is given what follows the last dot of the
\* whole path, "./wwwroot" included; index.html and error pages are html.
THEOREM EndTypeFitsName == Spec => []TypeFitsName
<1>1. Init => TypeInv
  BY EndTypesInit, ControlInit, PreparedInit, WiredInit, SuffixedInit DEF SentInv, TypeInv
<1>2. TypeInv /\ [Next]_vars => TypeInv'
  BY EndTypesStep, ControlStep, PreparedStep, WiredStep, SuffixedStep DEF SentInv, TypeInv
<1>3. TypeInv => TypeFitsName
  <2> DEFINE path == Path(request.method, request.uri)
             isName(i) == i > 1 /\ path[i - 1] = "." /\ i = Len(path)
             expected == IF wire.status = OK /\ request.path = "path" /\ path # <<>>
                            /\ isName(Len(path)) /\ path[Len(path)] \in Known
                         THEN path[Len(path)] ELSE "html"
  <2>1. ASSUME TypeInv, Answered, wire.length # NoLength
        PROVE  wire.type = expected
    <3>1. /\ wire.status = response.Status_code /\ wire.type = response.Content_Type
          /\ wire.length = response.Content_Length /\ Answering
      BY <2>1 DEF TypeInv, SentInv, Wired, Answered
    <3>2. CASE FromError
      <4>1. wire.status # OK /\ wire.type = "html"
        BY <2>1, <3>1, <3>2 DEF FromError
      <4> QED
        BY <4>1
    <3>3. CASE ~FromError
      <4>1. wire.status = OK /\ wire.type = Suffix2Desc(request.suffix)
        BY <2>1, <3>1, <3>3 DEF TypeInv, SentInv, Prepared, FromCgi, FromFile
      <4>2. request.suffix = SuffixOf(request.path)
        BY <2>1, <3>1, <4>1 DEF TypeInv, Suffixed, SuffixOf
      <4>3. request.uri \in Seq(Words) /\ request.path \in {"path", "index"}
        BY <2>1 DEF TypeInv, SentInv, EndTypes, AnswerTypes, Requests, Names, Paths
      <4>4. path \in Seq(Words)
        BY <4>3, PathType
      <4>5. CASE request.path = "index"
        <5>1. Suffix2Desc(SuffixOf(request.path)) = "html"
          BY <4>4, <4>5, TypeOfIndex DEF SuffixOf
        <5> QED
          BY <4>1, <4>2, <4>5, <5>1
      <4>6. CASE request.path = "path"
        <5>1. path \o <<>> = path
          BY <4>4, ConcatEmptySeq
        <5>2. SuffixOf(request.path) = Suffix(Full(path))
          BY <4>6, <5>1 DEF SuffixOf
        <5>3. Len(path) > 1 => path # <<>>
          BY <4>4, EmptySeq
        <5> HIDE DEF path
        <5>4. Suffix2Desc(Suffix(Full(path))) =
                IF Len(path) > 1 /\ path[Len(path) - 1] = "." /\ path[Len(path)] \in Known
                THEN path[Len(path)] ELSE "html"
          BY <4>4, TypeOfName
        <5> QED
          BY <4>1, <4>2, <4>6, <5>2, <5>3, <5>4
      <4> QED
        BY <4>3, <4>5, <4>6
    <3> QED
      BY <3>2, <3>3
  <2> QED
    BY <2>1 DEF TypeFitsName, Known
<1> QED
  BY <1>1, <1>2, <1>3, PTL DEF Spec

-----------------------------------------------------------------------------
(* What was read *)

LEMMA ItemIs ==
    ASSUME NEW item \in Items
    PROVE  /\ item.kind = "line" <=> item \in Lines
           /\ item.kind = "head" => \E n \in Lengths \cup {NoLength} : item = HeadLine(n)
           /\ item.kind = "blank" <=> item = Blank
           /\ item.kind = "byte" <=> item = Byte
<1>1. CASE item \in Lines
  <2>1. item.kind = "line"
    BY <1>1, LineIs
  <2> QED
    BY <1>1, <2>1 DEF Blank, Byte
<1>2. CASE item \in Heads
  <2>1. PICK n \in Lengths \cup {NoLength} : item = HeadLine(n)
    BY <1>2 DEF Heads
  <2>2. item.kind = "head"
    BY <2>1 DEF HeadLine
  <2>3. item \notin Lines
    BY <2>2, LineIs
  <2> QED
    BY <2>1, <2>2, <2>3 DEF Blank, Byte
<1>3. CASE item \in {Blank, Byte}
  <2>1. item.kind = IF item = Blank THEN "blank" ELSE "byte"
    BY <1>3 DEF Blank, Byte
  <2>2. item \notin Lines
    BY <2>1, LineIs
  <2>3. Blank # Byte
    <3>1. Blank.kind = "blank" /\ Byte.kind = "byte"
      BY DEF Blank, Byte
    <3> QED
      BY <3>1
  <2> QED
    BY <1>3, <2>1, <2>2, <2>3
<1> QED
  BY <1>1, <1>2, <1>3 DEF Items

LEMMA HeadLineIs ==
    ASSUME NEW n
    PROVE  HeadLine(n).kind = "head" /\ HeadLine(n).length = n
BY DEF HeadLine

\* Items follow each other as NextItems has them.
LEMMA InOrderStep == ASSUME NetTypes, InOrder, ClientSend PROVE InOrder'
<1> DEFINE n == Len(stream)
<1>1. PICK item \in NextItems : stream' = Append(stream, item)
  BY DEF ClientSend
<1>2. item \in Items
  BY DEF NextItems, Items
<1>3. /\ n \in Nat /\ DOMAIN stream = 1..n /\ DOMAIN stream' = 1..(n + 1)
      /\ stream'[n + 1] = item /\ \A i \in 1..n : stream'[i] = stream[i]
  <2>1. stream \in Seq(Items)
    BY DEF NetTypes
  <2>2. /\ stream' \in Seq(Items) /\ Len(stream') = n + 1
        /\ stream'[n + 1] = item /\ \A i \in 1..n : stream'[i] = stream[i]
    BY <1>1, <1>2, <2>1, AppendProperties
  <2> QED
    BY <2>1, <2>2, LenProperties
<1>4. "blank" \in SentKinds(stream) =>
         /\ "blank" \in SentKinds(stream') /\ item.kind = "byte"
  <2>1. ASSUME "blank" \in SentKinds(stream)
        PROVE  item.kind = "byte" /\ n # 0
    <3>1. stream # <<>>
      BY <2>1, <1>3 DEF SentKinds
    <3>2. item = Byte
      BY <2>1, <3>1 DEF NextItems
    <3> QED
      BY <1>2, <1>3, <2>1, <3>2, ItemIs DEF SentKinds
  <2>2. "blank" \in SentKinds(stream) => "blank" \in SentKinds(stream')
    <3>1. ASSUME NEW i \in 1..n, stream[i].kind = "blank" PROVE "blank" \in SentKinds(stream')
      <4>1. i \in 1..(n + 1) /\ stream'[i].kind = "blank"
        BY <1>3, <3>1
      <4> QED
        BY <1>3, <4>1 DEF SentKinds
    <3> QED
      BY <1>3, <3>1 DEF SentKinds
  <2> QED
    BY <2>1, <2>2
<1>5. "blank" \notin SentKinds(stream) => item.kind # "byte"
  <2>1. CASE stream = <<>>
    BY <1>2, <2>1, ItemIs DEF NextItems, Items
  <2>2. ASSUME stream # <<>>, "blank" \notin SentKinds(stream) PROVE item.kind # "byte"
    <3>1. item = Blank \/ item \in Heads
      BY <2>2 DEF NextItems
    <3>2. item \in Heads => item.kind = "head"
      BY HeadLineIs DEF Heads
    <3> QED
      BY <1>2, <3>1, <3>2, ItemIs
  <2> QED
    BY <2>1, <2>2
<1>6. ASSUME NEW j \in 1..(n + 1), stream'[j].kind = "byte"
      PROVE  "blank" \in SentKinds(stream')
  <2>1. CASE j \in 1..n
    BY <1>3, <1>4, <1>6, <2>1 DEF InOrder
  <2>2. CASE j = n + 1
    BY <1>3, <1>4, <1>5, <1>6, <2>2
  <2> QED
    BY <1>3, <2>1, <2>2
<1>7. ASSUME NEW i \in 1..(n + 1), NEW j \in 1..(n + 1), i < j,
             stream'[i].kind \in {"blank", "byte"}
      PROVE  stream'[j].kind = "byte"
  <2>1. i \in 1..n
    BY <1>3, <1>7
  <2>2. stream[i].kind \in {"blank", "byte"}
    BY <1>3, <1>7, <2>1
  <2>3. CASE j \in 1..n
    BY <1>3, <1>7, <2>1, <2>2, <2>3 DEF InOrder
  <2>4. CASE j = n + 1
    <3>1. "blank" \in SentKinds(stream)
      BY <1>3, <2>1, <2>2 DEF InOrder, SentKinds
    <3> QED
      BY <1>3, <1>4, <2>4, <3>1
  <2> QED
    BY <1>3, <2>3, <2>4
<1> QED
  BY <1>3, <1>6, <1>7 DEF InOrder

LEMMA ReadInit == Init => ReadSoFar
<1> SUFFICES ASSUME Init
             PROVE  ReadSoFar
  OBVIOUS
<1>1. request = [method |-> "", uri |-> <<>>, heads |-> <<>>,
                 content_length |-> 0, body |-> 0,
                 path |-> "path", suffix |-> <<>>, cgi |-> FALSE, size |-> 0]
  BY DEF Init
<1>2. stream = <<>> /\ pc = "GetRequestLine" /\ taken = 0
  BY DEF Init
<1>3. /\ request.method = "" /\ request.heads = <<>>
      /\ request.body = 0 /\ request.content_length = 0
  BY <1>1
<1>4. DOMAIN <<>> = {} /\ Len(<<>>) = 0
  BY EmptySeq
<1>5. InOrder
  BY <1>2, <1>4 DEF InOrder
<1>6. HeadsRead
  BY <1>3, <1>4 DEF HeadsRead
<1> QED
  BY <1>2, <1>3, <1>4, <1>5, <1>6 DEF ReadSoFar, Unread

\* The handler's view of the stream does not depend on what comes later.
LEMMA MoreSent ==
    ASSUME EndTypes, ReadSoFar, Around
    PROVE  ReadSoFar'
<1> USE DEF EndTypes
<1>1. UNCHANGED <<pc, taken, stop, request, response>>
  BY AroundIs
<1>2. InOrder'
  <2>1. CASE ClientSend
    BY <2>1, InOrderStep DEF ReadSoFar
  <2>2. CASE stream' = stream
    BY <2>2 DEF ReadSoFar, InOrder, SentKinds
  <2> QED
    BY <2>1, <2>2, AroundIs
<1>3. /\ taken \in Nat /\ Len(stream) \in Nat /\ taken <= Len(stream)
      /\ \A i \in 1..Len(stream) : stream'[i] = stream[i]
  BY AroundIs DEF HandlerTypes, NetTypes
<1>4. DOMAIN request.heads = 1..Len(request.heads) /\ Len(request.heads) \in Nat
  BY LenProperties DEF AnswerTypes, Requests, Given
<1>5. HeadsRead'
  <2> SUFFICES ASSUME NEW i \in DOMAIN request.heads
               PROVE  i + 1 <= taken /\ stream'[i + 1] = HeadLine(request.heads[i])
    BY <1>1 DEF HeadsRead
  <2>1. i + 1 <= taken /\ stream[i + 1] = HeadLine(request.heads[i])
    BY DEF ReadSoFar, HeadsRead
  <2>2. i + 1 \in 1..Len(stream)
    BY <1>3, <1>4, <2>1
  <2> QED
    BY <1>3, <2>1, <2>2
<1>6. ASSUME Parsed PROVE Parsed'
  <2> DEFINE blank == Len(request.heads) + 2
  <2>1. blank <= taken /\ stream[blank].kind = "blank" /\ request.method = stream[1].method
    BY <1>6 DEF Parsed
  <2>2. blank \in 1..Len(stream) /\ 1 \in 1..Len(stream)
    BY <1>3, <1>4, <2>1
  <2>3. stream'[blank].kind = "blank" /\ request.method = stream'[1].method
    BY <1>3, <2>1, <2>2
  <2> QED
    BY <1>1, <1>6, <2>3 DEF Parsed
<1> QED
  BY <1>1, <1>2, <1>5, <1>6 DEF ReadSoFar, Answering

LEMMA TakenItem ==
    ASSUME EndTypes, Available
    PROVE  /\ taken \in Nat /\ taken + 1 \in 1..Len(stream) /\ Item \in Items
           /\ Item = stream[taken + 1] /\ stream[1] \in Lines
           /\ taken = 0 => Item.kind = "line"
<1>1. taken \in Nat /\ Len(stream) \in Nat /\ taken + 1 \in 1..Len(stream)
  BY DEF EndTypes, HandlerTypes, NetTypes, Available
<1>2. Item = stream[taken + 1] /\ Item \in Items
  BY <1>1, ElementOfSeq DEF EndTypes, NetTypes, Item
<1>3. stream[1] \in Lines
  BY <1>1, EmptySeq DEF EndTypes, NetTypes
<1> QED
  BY <1>1, <1>2, <1>3, LineIs

LEMMA ReadingReads ==
    ASSUME EndTypes, Control, Prepared, ReadSoFar, ReadStep
    PROVE  ReadSoFar'
<1>1. UNCHANGED <<stream, response>> /\ request \in Requests /\ taken \in Nat
      /\ Len(stream) \in Nat
  BY ReadUnchanged DEF EndTypes, AnswerTypes, HandlerTypes, NetTypes
<1>2. InOrder'
  BY <1>1 DEF ReadSoFar, InOrder, SentKinds
<1>3. /\ DOMAIN request.heads = 1..Len(request.heads) /\ Len(request.heads) \in Nat
      /\ request.heads \in Seq(Lengths \cup {NoLength})
  BY <1>1, LenProperties DEF Requests, Given
<1>4. HeadsRead
  BY DEF ReadSoFar
<1>5. ASSUME GetRequestLine PROVE ReadSoFar'
  <2>1. pc = "GetRequestLine" /\ request' = request
    BY <1>5 DEF GetRequestLine
  <2>2. taken = 0 /\ ~stop
    BY <2>1 DEF ReadSoFar, Control
  <2>3. taken' = taken + 1 \/ (taken' = taken /\ stop')
    BY <1>5 DEF GetRequestLine
  <2>4. pc' = "GetRequestHead" \/ (stop' /\ pc' = "close") \/ (~stop' /\ pc' = "CheckMethod")
    BY <1>5 DEF GetRequestLine
  <2>5. /\ request'.method = "" /\ Len(request'.heads) = 0
        /\ request'.body = 0 /\ request'.content_length = 0
    BY <2>1, <2>2 DEF ReadSoFar, Unread
  <2>6. HeadsRead'
    <3>1. DOMAIN request'.heads = 1..0
      BY <1>3, <2>1, <2>5
    <3> QED
      BY <3>1 DEF HeadsRead
  <2>7. taken' \in {0, 1} /\ (taken' = 1 \/ stop')
    BY <2>2, <2>3
  <2>8. Len(request'.heads) = IF taken' = 0 THEN 0 ELSE taken' - 1
    <3>1. taken' \in {0, 1}
      BY <2>7
    <3>2. 0 = IF taken' = 0 THEN 0 ELSE taken' - 1
      BY <3>1
    <3> QED
      BY <2>5, <3>2
  <2>9. pc' # "GetRequestLine" /\ (pc' \in Unread \/ stop' \/ (taken' = 1 /\ pc' = "CheckMethod"))
    BY <2>4, <2>7 DEF Unread
  <2> QED
    BY <1>2, <2>5, <2>6, <2>8, <2>9 DEF ReadSoFar
<1>6. ASSUME GetRequestHead PROVE ReadSoFar'
  <2>1. /\ request.method = "" /\ request.body = 0 /\ request.content_length = 0
        /\ Len(request.heads) = IF taken = 0 THEN 0 ELSE taken - 1
    BY <1>6 DEF GetRequestHead, ReadSoFar, Unread
  <2>2. ASSUME Available, Item.kind = "head", taken' = taken + 1, UNCHANGED <<pc, stop>>,
               request' = [request EXCEPT !.heads = Append(@, Item.length)]
        PROVE  ReadSoFar'
    <3>1. /\ Item = stream[taken + 1] /\ Item \in Items /\ taken # 0
      BY <2>2, TakenItem
    <3>2. PICK n \in Lengths \cup {NoLength} : Item = HeadLine(n)
      BY <2>2, <3>1, ItemIs
    <3>3. Item.length = n
      BY <3>2, HeadLineIs
    <3>4. /\ request'.heads = Append(request.heads, n) /\ request'.method = ""
          /\ request'.body = 0 /\ request'.content_length = 0
      BY <1>1, <2>1, <2>2, <3>3 DEF Requests
    <3> DEFINE h == Len(request.heads)
    <3>5. /\ Len(request'.heads) = h + 1 /\ DOMAIN request'.heads = 1..(h + 1)
          /\ request'.heads[h + 1] = n
          /\ \A i \in 1..h : request'.heads[i] = request.heads[i]
      <4>1. /\ Append(request.heads, n) \in Seq(Lengths \cup {NoLength})
            /\ Len(Append(request.heads, n)) = h + 1
            /\ Append(request.heads, n)[h + 1] = n
            /\ \A i \in 1..h : Append(request.heads, n)[i] = request.heads[i]
        BY <1>3, AppendProperties
      <4>2. DOMAIN Append(request.heads, n) = 1..(h + 1)
        BY <4>1, LenProperties
      <4> QED
        BY <3>4, <4>1, <4>2
    <3>6. h + 1 = taken /\ h \in Nat
      <4>1. taken \in Nat /\ taken # 0 /\ h = IF taken = 0 THEN 0 ELSE taken - 1
        BY <1>1, <2>1, <3>1
      <4> HIDE DEF h
      <4> QED
        BY <4>1
    <3> HIDE DEF h
    <3>7. HeadsRead'
      <4> SUFFICES ASSUME NEW i \in 1..(h + 1)
                   PROVE  i + 1 <= taken + 1 /\ stream[i + 1] = HeadLine(request'.heads[i])
        BY <1>1, <2>2, <3>5 DEF HeadsRead
      <4>1. CASE i = h + 1
        <5>1. i + 1 = taken + 1 /\ request'.heads[i] = n /\ stream[taken + 1] = HeadLine(n)
          BY <1>1, <3>1, <3>2, <3>5, <3>6, <4>1
        <5> QED
          BY <1>1, <5>1
      <4>2. CASE i \in 1..h
        <5>1. i \in DOMAIN request.heads /\ request'.heads[i] = request.heads[i]
          BY <1>3, <3>5, <4>2 DEF h
        <5>2. i + 1 <= taken /\ stream[i + 1] = HeadLine(request.heads[i])
          BY <1>4, <5>1 DEF HeadsRead
        <5> QED
          BY <1>1, <5>1, <5>2
      <4> QED
        BY <3>6, <4>1, <4>2
    <3>8. Len(request'.heads) = taken' - 1 /\ taken' # 0
      BY <1>1, <2>2, <3>5, <3>6
    <3> QED
      BY <1>2, <1>6, <2>2, <3>4, <3>7, <3>8 DEF ReadSoFar, Unread, GetRequestHead
  <2>3. ASSUME stop', pc' = "close", UNCHANGED <<request, taken>>
        PROVE  ReadSoFar'
    BY <1>1, <1>2, <1>4, <2>1, <2>3 DEF ReadSoFar, Unread, HeadsRead
  <2> QED
    BY <1>6, <2>2, <2>3 DEF GetRequestHead
<1>7. ASSUME ParseHttpRequest PROVE ReadSoFar'
  <2> DEFINE length == FirstLength(request.heads)
             need == stream[1].method = "POST" /\ length # NoLength
             blank == Len(request.heads) + 2
  <2>1. /\ request.body = 0 /\ request.content_length = 0
        /\ Len(request.heads) = IF taken = 0 THEN 0 ELSE taken - 1
    BY <1>7 DEF ParseHttpRequest, Parse, ReadSoFar, Unread
  <2>2. /\ Available /\ Item.kind = "blank" /\ taken' = taken + 1 /\ stop' = stop
        /\ request' = [request EXCEPT
              !.method = stream[1].method, !.uri = stream[1].uri,
              !.content_length = IF need THEN length ELSE request.content_length]
        /\ pc' = IF need THEN "RecvHttpRequestBody" ELSE "CheckMethod"
    BY <1>7 DEF ParseHttpRequest, Parse
  <2>3. /\ Item = stream[taken + 1] /\ taken # 0 /\ stream[1] \in Lines
    BY <2>2, TakenItem
  <2>4. stream[1].method # ""
    BY <2>3, LineIs
  <2> HIDE DEF need, length
  <2>5. /\ request'.method = stream[1].method /\ request'.heads = request.heads
        /\ request'.body = 0
        /\ request'.content_length = IF need THEN length ELSE 0
    BY <1>1, <2>1, <2>2 DEF Requests
  <2>6. blank = taken' /\ request'.body = taken' - blank
    BY <1>1, <2>1, <2>2, <2>3, <2>5
  <2>7. Parsed'
    BY <1>1, <2>2, <2>3, <2>5, <2>6 DEF Parsed, need, length
  <2>8. HeadsRead'
    BY <1>1, <1>3, <1>4, <2>2, <2>5 DEF HeadsRead
  <2>9. pc' = "RecvHttpRequestBody" \/ request'.body = request'.content_length
    BY <2>2, <2>5
  <2> QED
    BY <1>2, <2>2, <2>4, <2>5, <2>7, <2>8, <2>9 DEF ReadSoFar, Unread
<1>8. ASSUME RecvHttpRequestBody PROVE ReadSoFar'
  <2>1. request.method # "" /\ pc = "RecvHttpRequestBody"
    BY <1>8 DEF RecvHttpRequestBody, RecvBody, ReadSoFar, Unread, Control, Answering
  <2>2. Parsed
    BY <2>1 DEF ReadSoFar
  <2>3. CASE request.body = request.content_length /\ pc' = "CheckMethod"
             /\ UNCHANGED <<request, taken, stop>>
    <3>1. Parsed' /\ HeadsRead'
      BY <1>1, <1>4, <2>2, <2>3 DEF Parsed, HeadsRead
    <3> QED
      BY <1>2, <2>1, <2>3, <3>1 DEF ReadSoFar, Unread
  <2>4. CASE taken' = taken + 1 /\ request' = [request EXCEPT !.body = @ + 1]
             /\ UNCHANGED <<pc, stop>>
    <3>1. /\ request'.body = request.body + 1 /\ request'.method = request.method
          /\ request'.heads = request.heads
          /\ request'.content_length = request.content_length
      BY <1>1, <2>4 DEF Requests
    <3> DEFINE blank == Len(request.heads) + 2
    <3>2. /\ blank <= taken' /\ request'.body = taken' - blank
      BY <1>1, <1>3, <2>2, <2>4, <3>1 DEF Parsed
    <3>3. Parsed'
      BY <1>1, <2>2, <3>1, <3>2 DEF Parsed
    <3>4. HeadsRead'
      <4> SUFFICES ASSUME NEW i \in 1..Len(request.heads)
                   PROVE  i + 1 <= taken + 1 /\ stream[i + 1] = HeadLine(request.heads[i])
        BY <1>1, <1>3, <2>4, <3>1 DEF HeadsRead
      <4>1. i + 1 <= taken /\ stream[i + 1] = HeadLine(request.heads[i])
        BY <1>3, <1>4 DEF HeadsRead
      <4> QED
        BY <1>1, <4>1
    <3> QED
      BY <1>2, <2>1, <2>4, <3>1, <3>3, <3>4 DEF ReadSoFar, Unread
  <2>5. CASE stop' /\ pc' = "close" /\ UNCHANGED <<taken, request>>
    <3>1. Parsed' /\ HeadsRead'
      BY <1>1, <1>4, <2>2, <2>5 DEF Parsed, HeadsRead
    <3> QED
      BY <1>2, <2>1, <2>5, <3>1 DEF ReadSoFar, Unread
  <2> QED
    BY <1>8, <2>3, <2>4, <2>5 DEF RecvHttpRequestBody, RecvBody
<1> QED
  BY <1>5, <1>6, <1>7, <1>8 DEF ReadStep

\* Nothing more is read once there is an answer to make.
LEMMA ReadingIsOver ==
    ASSUME ReadSoFar, pc \notin Unread, pc # "RecvHttpRequestBody",
           pc' \notin Unread, UNCHANGED <<stream, taken, stop>>,
           request'.method = request.method, request'.heads = request.heads,
           request'.body = request.body,
           request'.content_length = request.content_length,
           request.method = "" /\ ~stop =>
              (pc' = "HandlerError" \/ Answering') /\ response'.Status_code = BAD_REQUSET
    PROVE  ReadSoFar'
<1>1. InOrder' /\ HeadsRead'
  BY DEF ReadSoFar, InOrder, SentKinds, HeadsRead
<1>2. Parsed => Parsed'
  BY DEF Parsed
<1>3. pc' # "GetRequestLine"
  BY DEF Unread
<1> QED
  BY <1>1, <1>2, <1>3 DEF ReadSoFar

LEMMA BuildingReads ==
    ASSUME EndTypes, Control, ReadSoFar, BuildStep
    PROVE  ReadSoFar'
<1> USE DEF EndTypes
<1>1. /\ UNCHANGED <<stream, taken, stop>>
      /\ request \in Requests /\ response \in Responses
  BY BuildUnchanged DEF AnswerTypes
<1>2. pc \in Building \cup {"HandlerError"} /\ pc' \in Building \cup {"HandlerError", "SendHead"}
  BY DEF BuildStep, CheckMethod, StatPath, StatIndex, ProcessNonCIG, ProcessCIG,
         HandlerError, ErrorPage, Fail, UseStat, Building
<1>3. pc \notin Unread /\ pc # "RecvHttpRequestBody" /\ pc' \notin Unread
  BY <1>2 DEF Unread, Building
<1> DEFINE Kept == /\ request'.method = request.method /\ request'.heads = request.heads
                   /\ request'.body = request.body
                   /\ request'.content_length = request.content_length
           Bad == request.method = "" /\ ~stop =>
              (pc' = "HandlerError" \/ Answering') /\ response'.Status_code = BAD_REQUSET
<1>4. ASSUME CheckMethod PROVE Kept /\ Bad
  <2>1. CASE Fail(BAD_REQUSET) /\ request' = request
    <3>1. BAD_REQUSET \in Codes
      BY DEF Codes
    <3>2. response'.Status_code = BAD_REQUSET /\ pc' = "HandlerError"
      BY <1>1, <2>1, <3>1, FailIs DEF Responses
    <3> QED
      BY <2>1, <3>2
  <2>2. ASSUME request.method \in {"GET", "POST"}, NEW cgi \in BOOLEAN, NEW path \in Paths,
               request' = [request EXCEPT !.cgi = cgi, !.path = path]
        PROVE  Kept /\ Bad
    BY <1>1, <2>2 DEF Requests
  <2> QED
    BY <1>4, <2>1, <2>2, CheckMethodIs
<1>5. ASSUME StatPath \/ StatIndex PROVE Kept /\ Bad
  <2>1. pc \in {"stat", "restat"} /\ ~stop
    BY <1>5 DEF StatPath, StatIndex, Control
  <2>2. Bad
    BY <1>3, <2>1 DEF ReadSoFar, Answering
  <2>3. ASSUME NEW object, NEW path \in Paths, NEW cgi \in BOOLEAN, Found(object, path, cgi)
        PROVE  Kept
    BY <1>1, <2>3 DEF Found, Requests
  <2>4. ASSUME NEW size \in Ints, request' = [request EXCEPT !.size = size]
        PROVE  Kept
    BY <1>1, <2>4 DEF Requests
  <2> QED
    BY <1>5, <2>2, <2>3, <2>4, StatIs
<1>6. ASSUME ProcessNonCIG \/ ProcessCIG PROVE Kept /\ Bad
  <2>1. pc \in {"ProcessNonCIG", "ProcessCIG"} /\ ~stop /\ request' = request
    BY <1>6 DEF ProcessNonCIG, ProcessCIG, Control
  <2>2. Bad
    BY <1>3, <2>1 DEF ReadSoFar, Answering
  <2> QED
    BY <2>1, <2>2
<1>7. ASSUME HandlerError PROVE Kept /\ Bad
  <2>1. pc = "HandlerError" /\ pc' = "SendHead"
    BY <1>7, ErrorIs DEF HandlerError, ErrorPage
  <2>2. Kept /\ response'.Status_code = response.Status_code
    BY <1>1, <1>7, ErrorIs DEF Requests, Responses
  <2>3. Bad
    BY <1>3, <2>1, <2>2 DEF ReadSoFar, Answering
  <2> QED
    BY <2>2, <2>3
<1>8. Kept /\ Bad
  BY <1>4, <1>5, <1>6, <1>7 DEF BuildStep
<1> QED
  BY <1>1, <1>3, <1>8, ReadingIsOver

LEMMA SendingReads ==
    ASSUME EndTypes, Control, ReadSoFar, SendStep
    PROVE  ReadSoFar'
<1>1. UNCHANGED <<stream, taken, stop, request>> /\ response \in Responses
  BY SendUnchanged DEF EndTypes, AnswerTypes
<1>2. /\ pc \in {"SendHead", "SendCgi", "SendFile", "close"}
      /\ pc' \in {"SendCgi", "SendFile", "close", "done"}
  BY DEF SendStep, SendHead, SendCgi, SendRound, SendFile, SendBytes, Close
<1>3. response'.Status_code = response.Status_code
  BY SendKeepsResponse DEF EndTypes
<1>4. pc \notin Unread /\ pc # "RecvHttpRequestBody" /\ pc' \notin Unread
  BY <1>2 DEF Unread
<1>5. request.method = "" /\ ~stop => Answering' /\ response'.Status_code = BAD_REQUSET
  BY <1>1, <1>2, <1>3, <1>4 DEF ReadSoFar, Answering
<1> QED
  BY <1>1, <1>4, <1>5, ReadingIsOver

LEMMA ReadStepKept == EndTypes /\ Control /\ Prepared /\ ReadSoFar /\ [Next]_vars => ReadSoFar'
BY StepIs, ReadingReads, BuildingReads, SendingReads, MoreSent

\* The items read are the request line, the headers, the blank line, the body.
LEMMA ReadIs ==
    ASSUME EndTypes, ReadSoFar, Parsed
    PROVE  LET read == SubSeq(stream, 1, taken)
               h == Len(request.heads)
           IN  /\ h \in Nat /\ taken \in Nat /\ h + 2 <= taken
               /\ DOMAIN read = 1..taken /\ read[1] = stream[1]
               /\ stream[1] \in Lines /\ read[h + 2].kind = "blank"
               /\ \A i \in 1..h : read[i + 1] = HeadLine(request.heads[i])
               /\ \A i \in (h + 3)..taken : read[i].kind = "byte"
<1> DEFINE read == SubSeq(stream, 1, taken)
           h == Len(request.heads)
           n == Len(stream)
<1>1. /\ h \in Nat /\ taken \in Nat /\ n \in Nat /\ taken <= n
      /\ stream \in Seq(Items) /\ DOMAIN stream = 1..n
      /\ DOMAIN request.heads = 1..h
  BY LenProperties DEF EndTypes, AnswerTypes, HandlerTypes, NetTypes, Requests, Given
<1>2. h + 2 <= taken /\ stream[h + 2].kind = "blank"
  BY DEF Parsed
<1>3. /\ DOMAIN read = 1..taken /\ \A i \in 1..taken : read[i] = stream[i]
  <2>1. \A i \in 1..taken : stream[i] \in Items
    BY <1>1, ElementOfSeq
  <2>2. /\ read \in Seq(Items) /\ Len(read) = IF 1 <= taken THEN taken - 1 + 1 ELSE 0
        /\ \A i \in 1..(taken - 1 + 1) : read[i] = stream[1 + i - 1]
    BY <1>1, <2>1, SubSeqProperties
  <2> HIDE DEF read
  <2>3. Len(read) = taken
    BY <1>1, <2>2
  <2>4. DOMAIN read = 1..taken
    BY <2>2, <2>3, LenProperties
  <2>5. taken - 1 + 1 = taken /\ \A i \in 1..taken : 1 + i - 1 = i
    BY <1>1
  <2> QED
    BY <2>2, <2>4, <2>5
<1> HIDE DEF read, h
<1>4. 1 \in 1..taken /\ h + 2 \in 1..taken /\ h + 2 \in 1..n
  BY <1>1, <1>2
<1>5. stream[1] \in Lines
  <2>1. n # 0
    BY <1>1, <1>2
  <2>2. stream # <<>>
    BY <2>1, EmptySeq
  <2> QED
    BY <2>2 DEF EndTypes, NetTypes
<1>6. ASSUME NEW i \in 1..h PROVE read[i + 1] = HeadLine(request.heads[i])
  <2>1. i + 1 \in 1..taken
    BY <1>1, <1>2
  <2>2. stream[i + 1] = HeadLine(request.heads[i])
    BY <1>1 DEF ReadSoFar, HeadsRead, h
  <2> QED
    BY <1>3, <2>1, <2>2
<1>7. ASSUME NEW i \in (h + 3)..taken PROVE read[i].kind = "byte"
  <2>1. i \in 1..taken /\ i \in 1..n /\ h + 2 < i
    BY <1>1
  <2>2. stream[i].kind = "byte"
    BY <1>1, <1>2, <1>4, <2>1 DEF ReadSoFar, InOrder, h
  <2> QED
    BY <1>3, <2>1, <2>2
<1> QED
  BY <1>1, <1>2, <1>3, <1>4, <1>5, <1>6, <1>7 DEF read, h

\* What DeclaredLength and Body say of them is what the handler keeps.
LEMMA ReadMeans ==
    ASSUME EndTypes, ReadSoFar, Parsed
    PROVE  LET read == SubSeq(stream, 1, taken)
           IN  /\ "blank" \in SentKinds(read)
               /\ DeclaredLength(read) = request.content_length
               /\ Body(read) = request.body
<1> DEFINE read == SubSeq(stream, 1, taken)
           h == Len(request.heads)
           heads == request.heads
           length == FirstLength(heads)
           given == {i \in DOMAIN read : read[i].kind = "head" /\ read[i].length # NoLength}
<1>1. /\ h \in Nat /\ taken \in Nat /\ h + 2 <= taken
      /\ DOMAIN read = 1..taken /\ read[1] = stream[1]
      /\ stream[1] \in Lines /\ read[h + 2].kind = "blank"
      /\ \A i \in 1..h : read[i + 1] = HeadLine(heads[i])
      /\ \A i \in (h + 3)..taken : read[i].kind = "byte"
  BY ReadIs
<1>2. /\ request.method = stream[1].method /\ request.body = taken - (h + 2)
      /\ request.content_length = IF request.method = "POST" /\ length # NoLength
                                  THEN length ELSE 0
  BY DEF Parsed
<1>3. heads \in Seq(Lengths \cup {NoLength}) /\ DOMAIN heads = 1..h
  BY LenProperties DEF EndTypes, AnswerTypes, Requests, Given
<1>4. read[1].kind = "line"
  BY <1>1, LineIs
<1>5. \A i \in 1..h : read[i + 1].kind = "head" /\ read[i + 1].length = heads[i]
  BY <1>1, HeadLineIs
<1> HIDE DEF read, h, heads
<1>6. \A i \in 1..taken : \/ i = 1 \/ i = h + 2 \/ i \in (h + 3)..taken
                          \/ i - 1 \in 1..h /\ (i - 1) + 1 = i
  BY <1>1
<1>7. "blank" \in SentKinds(read)
  <2>1. h + 2 \in DOMAIN read
    BY <1>1
  <2> QED
    BY <1>1, <2>1 DEF SentKinds
<1>8. Body(read) = request.body
  <2>1. \A i \in 1..taken : read[i].kind = "byte" <=> i \in (h + 3)..taken
    <3> SUFFICES ASSUME NEW i \in 1..taken
                 PROVE  read[i].kind = "byte" <=> i \in (h + 3)..taken
      OBVIOUS
    <3>1. CASE i = 1
      BY <1>1, <1>4, <3>1
    <3>2. CASE i = h + 2
      BY <1>1, <3>2
    <3>3. CASE i \in (h + 3)..taken
      BY <1>1, <3>3
    <3>4. CASE i - 1 \in 1..h /\ (i - 1) + 1 = i
      <4>1. read[i].kind = "head"
        BY <1>5, <3>4
      <4>2. i \notin (h + 3)..taken
        BY <1>1, <3>4
      <4> QED
        BY <4>1, <4>2
    <3> QED
      BY <1>6, <3>1, <3>2, <3>3, <3>4
  <2>2. {i \in DOMAIN read : read[i].kind = "byte"} = (h + 3)..taken
    <3>1. \A i \in (h + 3)..taken : i \in 1..taken
      BY <1>1
    <3> QED
      BY <1>1, <2>1, <3>1
  <2>3. Cardinality((h + 3)..taken) = taken - (h + 2)
    <3>1. h + 3 \in Int /\ taken \in Int
      BY <1>1
    <3>2. Cardinality((h + 3)..taken) = IF h + 3 > taken THEN 0 ELSE taken - (h + 3) + 1
      BY <3>1, FS_Interval
    <3> QED
      BY <1>1, <3>2
  <2> QED
    BY <1>2, <2>2, <2>3 DEF Body, CountOf
<1>9. \A i \in 1..taken : i \in given <=> i - 1 \in 1..h /\ heads[i - 1] # NoLength
  <2> SUFFICES ASSUME NEW i \in 1..taken
               PROVE  i \in given <=> i - 1 \in 1..h /\ heads[i - 1] # NoLength
    OBVIOUS
  <2>1. CASE i = 1
    <3>1. i - 1 \notin 1..h /\ i \notin given
      BY <1>1, <1>4, <2>1
    <3> QED
      BY <3>1
  <2>2. CASE i = h + 2
    <3>1. i - 1 \notin 1..h
      BY <1>1, <2>2
    <3>2. i \notin given
      BY <1>1, <2>2
    <3> QED
      BY <3>1, <3>2
  <2>3. CASE i \in (h + 3)..taken
    <3>1. i - 1 \notin 1..h
      BY <1>1, <2>3
    <3>2. i \notin given
      BY <1>1, <2>3
    <3> QED
      BY <3>1, <3>2
  <2>4. CASE i - 1 \in 1..h /\ (i - 1) + 1 = i
    <3>1. read[i].kind = "head" /\ read[i].length = heads[i - 1]
      BY <1>5, <2>4
    <3> QED
      BY <1>1, <2>4, <3>1
  <2> QED
    BY <1>6, <2>1, <2>2, <2>3, <2>4
<1>10. DeclaredLength(read) = IF read[1].method = "POST" /\ given # {}
                              THEN read[Least(given)].length ELSE 0
  BY DEF DeclaredLength
<1> DEFINE inside == \A i \in given : i \in 1..taken
<1>11. inside
  BY <1>1
<1> HIDE DEF given
<1>12. given = {} <=> length = NoLength
  <2>1. length = NoLength <=> \A i \in DOMAIN heads : heads[i] = NoLength
    BY <1>3, FirstLengthIs
  <2>2. ASSUME length = NoLength PROVE given = {}
    BY <1>3, <1>9, <1>11, <2>1, <2>2
  <2>3. ASSUME length # NoLength PROVE given # {}
    <3>1. PICK i \in 1..h : heads[i] # NoLength
      BY <1>3, <2>1, <2>3
    <3>2. i + 1 \in 1..taken /\ (i + 1) - 1 = i
      BY <1>1
    <3>3. i + 1 \in given
      BY <1>9, <3>1, <3>2
    <3> QED
      BY <3>3
  <2> QED
    BY <2>2, <2>3
<1>13. ASSUME length # NoLength PROVE read[Least(given)].length = length
  <2>1. PICK i \in 1..h : /\ heads[i] # NoLength /\ heads[i] = length
                          /\ \A j \in 1..h : heads[j] # NoLength => i <= j
    BY <1>3, <1>13, FirstLengthIs
  <2>2. given \in SUBSET Nat /\ given # {}
    BY <1>1, <1>11, <1>12, <1>13
  <2>3. Least(given) \in given /\ \A m \in given : Least(given) <= m
    BY <2>2, LeastIs
  <2> DEFINE least == Least(given)
  <2> HIDE DEF least
  <2>4. i + 1 \in 1..taken /\ (i + 1) - 1 = i
    BY <1>1
  <2>5. i + 1 \in given
    BY <1>9, <2>1, <2>4
  <2>6. least <= i + 1
    BY <2>3, <2>5 DEF least
  <2>7. least \in 1..taken /\ least - 1 \in 1..h /\ heads[least - 1] # NoLength
    BY <1>9, <1>11, <2>3 DEF least
  <2>8. i <= least - 1
    BY <2>1, <2>7
  <2>9. least = i + 1
    BY <1>1, <2>6, <2>7, <2>8
  <2> QED
    BY <1>5, <2>1, <2>9 DEF least
<1>14. DeclaredLength(read) = request.content_length
  <2> HIDE DEF length
  <2> QED
    BY <1>1, <1>2, <1>10, <1>12, <1>13
<1> QED
  BY <1>7, <1>8, <1>14 DEF read

EndInv == TypeInv /\ ReadSoFar

\* A client whose request is cut off, of negative length or not complete is not
\* answered, but for the 400 of a request that was never parsed; and of a
\* complete one exactly the declared body is consumed: the loops of
\* RecvHttpRequest and IsStop, for every order of sends, ends and reads.
THEOREM EndAnswersCompleteOnly == Spec => []AnsweredOnlyIfComplete
<1>1. Init => EndInv
  BY EndTypesInit, ControlInit, PreparedInit, WiredInit, SuffixedInit, ReadInit
  DEF EndInv, SentInv, TypeInv
<1>2. EndInv /\ [Next]_vars => EndInv'
  BY EndTypesStep, ControlStep, PreparedStep, WiredStep, SuffixedStep, ReadStepKept
  DEF EndInv, SentInv, TypeInv
<1>3. EndInv => AnsweredOnlyIfComplete
  <2> DEFINE read == SubSeq(stream, 1, taken)
  <2>1. ASSUME EndInv, Answered
        PROVE  IF request.method = ""
               THEN wire.status = BAD_REQUSET /\ taken = 1
               ELSE Complete(read) /\ Body(read) = DeclaredLength(read)
    <3>1. Answering /\ wire.status = response.Status_code
      BY <2>1 DEF EndInv, TypeInv, SentInv, Wired, Answered
    <3>2. ~stop /\ pc \notin Unread \cup {"CheckMethod", "RecvHttpRequestBody"}
      BY <2>1, <3>1 DEF EndInv, TypeInv, SentInv, Control, Answering, Unread
    <3>3. CASE request.method = ""
      BY <2>1, <3>1, <3>2, <3>3 DEF EndInv, ReadSoFar
    <3>4. CASE request.method # ""
      <4>1. Parsed /\ request.body = request.content_length
        BY <2>1, <3>2, <3>4 DEF EndInv, ReadSoFar
      <4>2. /\ "blank" \in SentKinds(read) /\ DeclaredLength(read) = request.content_length
            /\ Body(read) = request.body
        BY <2>1, <4>1, ReadMeans DEF EndInv, TypeInv, SentInv
      <4>3. request.body \in Nat
        BY <2>1 DEF EndInv, TypeInv, SentInv, EndTypes, AnswerTypes, Requests
      <4> HIDE DEF read
      <4>4. DeclaredLength(read) >= 0 /\ Body(read) >= DeclaredLength(read)
        BY <4>1, <4>2, <4>3
      <4> QED
        BY <3>4, <4>1, <4>2, <4>4 DEF Complete
    <3> QED
      BY <3>3, <3>4
  <2> QED
    BY <2>1 DEF AnsweredOnlyIfComplete
<1> QED
  BY <1>1, <1>2, <1>3, PTL DEF Spec

-----------------------------------------------------------------------------
(* The exchange with the client *)

\* Bytes that go out are those of the answer's kind, after what was sent.
LEMMA SaysMore ==
    ASSUME NEW said \in Seq(Bytes), NEW more \in Seq(Bytes), more # <<>>,
           NEW status, \A i \in DOMAIN more : more[i][1] = "error" <=> status # OK
    PROVE  /\ Len(said \o more) > Len(said)
           /\ SubSeq(said \o more, 1, Len(said)) = said
           /\ \A i \in Len(said) + 1 .. Len(said \o more) :
                  (said \o more)[i][1] = "error" <=> status # OK
<1> DEFINE n == Len(said)
           k == Len(more)
           all == said \o more
<1>1. n \in Nat /\ k \in Nat /\ k # 0 /\ DOMAIN more = 1..k
  BY LenProperties, EmptySeq
<1>2. /\ Len(all) = n + k
      /\ \A i \in 1..(n + k) : all[i] = IF i <= n THEN said[i] ELSE more[i - n]
  BY ConcatProperties
<1>3. SubSeq(all, 1, n) = said
  BY SubSeqOfConcat1
<1> HIDE DEF n, k, all
<1>4. \A i \in (n + 1)..(n + k) : all[i][1] = "error" <=> status # OK
  <2> SUFFICES ASSUME NEW i \in (n + 1)..(n + k)
               PROVE  all[i][1] = "error" <=> status # OK
    OBVIOUS
  <2>1. i \in 1..(n + k) /\ ~(i <= n) /\ i - n \in 1..k
    BY <1>1
  <2>2. all[i] = more[i - n]
    BY <1>2, <2>1
  <2> QED
    BY <1>1, <2>1, <2>2
<1>5. Len(all) > n
  BY <1>1, <1>2
<1> QED
  BY <1>2, <1>3, <1>4, <1>5 DEF n, k, all

Phase ==
    IF pc = "done" THEN "closed"
    ELSE IF pc \in {"SendCgi", "SendFile"} \/ (pc = "close" /\ ~stop)
         THEN "answering" ELSE "listening"

LEMMA ConnectionStep ==
    ASSUME SentInv, [Next]_vars
    PROVE  \/ UNCHANGED <<Phase, taken, wire.status, wire.body>>
           \/ /\ Phase = "listening" /\ taken' = taken + 1
              /\ UNCHANGED <<Phase, wire.status, wire.body>>
           \/ /\ Phase = "listening" /\ taken > 0 /\ Phase' = "answering"
              /\ wire'.status \in Codes \cup {0} /\ UNCHANGED <<taken, wire.body>>
           \/ /\ Phase = "answering" /\ wire.status # 0
              /\ Len(wire'.body) > Len(wire.body)
              /\ SubSeq(wire'.body, 1, Len(wire.body)) = wire.body
              /\ \A i \in Len(wire.body) + 1 .. Len(wire'.body) :
                    wire'.body[i][1] = "error" <=> wire.status # OK
              /\ UNCHANGED <<Phase, taken, wire.status>>
           \/ /\ Phase # "closed" /\ Phase' = "closed"
              /\ UNCHANGED <<taken, wire.status, wire.body>>
<1> DEFINE Stutter == UNCHANGED <<Phase, taken, wire>>
           Says == /\ Phase = "answering" /\ wire.status # 0
                   /\ Len(wire'.body) > Len(wire.body)
                   /\ SubSeq(wire'.body, 1, Len(wire.body)) = wire.body
                   /\ \A i \in Len(wire.body) + 1 .. Len(wire'.body) :
                         wire'.body[i][1] = "error" <=> wire.status # OK
                   /\ UNCHANGED <<Phase, taken, wire.status>>
<1> USE DEF SentInv, EndTypes
<1>1. wire \in Wires /\ wire.body \in Seq(Bytes)
  BY DEF AnswerTypes, Wires, Contents
<1>2. ASSUME ReadStep
      PROVE  Stutter \/ (/\ Phase = "listening" /\ taken' = taken + 1
                         /\ UNCHANGED <<Phase, wire>>)
  <2>1. /\ pc \in Reading /\ pc' \in Reading \cup {"CheckMethod", "close"} /\ (pc' = "close" => stop')
        /\ taken' = taken \/ taken' = taken + 1
    BY <1>2 DEF ReadStep, GetRequestLine, GetRequestHead, ParseHttpRequest, Parse,
       RecvHttpRequestBody, RecvBody, Reading
  <2>2. Phase = "listening" /\ Phase' = "listening"
    BY <2>1 DEF Phase, Reading
  <2> QED
    BY <1>2, <2>1, <2>2, ReadUnchanged
<1>3. ASSUME BuildStep PROVE Stutter
  <2>1. /\ pc \in Building \cup {"HandlerError"}
        /\ pc' \in Building \cup {"HandlerError", "SendHead"}
    BY <1>3 DEF BuildStep, CheckMethod, StatPath, StatIndex, ProcessNonCIG, ProcessCIG,
       HandlerError, ErrorPage, Fail, UseStat, Building
  <2>2. Phase = "listening" /\ Phase' = "listening"
    BY <2>1 DEF Phase, Building
  <2> QED
    BY <1>3, <2>2, BuildUnchanged
<1>4. ASSUME SendHead
      PROVE  /\ Phase = "listening" /\ taken > 0 /\ Phase' = "answering"
             /\ wire'.status \in Codes \cup {0} /\ UNCHANGED <<taken, wire.body>>
  <2>1. pc = "SendHead" /\ pc' \in {"SendCgi", "SendFile"} /\ taken' = taken /\ taken > 0
    BY <1>4, SendUnchanged DEF SendStep, SendHead, Control, Answering
  <2>2. wire' \in Wires /\ wire'.body = wire.body
    BY <1>1, <1>4, SendHeadIs DEF Wires
  <2> QED
    BY <2>1, <2>2 DEF Phase, Wires
<1>5. ASSUME SendCgi PROVE Stutter \/ Says
  <2>1. pc = "SendCgi" /\ taken' = taken /\ stop' = stop /\ ~stop
    BY <1>5, SendUnchanged DEF SendStep, SendCgi, SendRound, Control
  <2>2. CASE wire' = wire /\ pc' \in {"SendCgi", "close"}
    BY <2>1, <2>2 DEF Phase
  <2>3. ASSUME peer # "gone", response.total < Len(response.Resp_body), Rest \in Contents,
               Len(Rest) = Len(response.Resp_body) - response.total,
               \A i \in DOMAIN Rest : /\ i + response.total \in DOMAIN response.Resp_body
                                      /\ Rest[i] = response.Resp_body[i + response.total],
               wire' = [wire EXCEPT !.body = wire.body \o Rest],
               pc' = "SendCgi"
        PROVE  Says
    <3>1. wire'.body = wire.body \o Rest /\ wire'.status = wire.status
      BY <1>1, <2>3 DEF Wires
    <3>2. wire.status # 0 /\ wire.status = response.Status_code
      BY <2>1, <2>3 DEF Wired
    <3>3. FromCgi
      BY <2>1 DEF Prepared, Answering, FromFile, FromError, Control
    <3>4. \A i \in DOMAIN Rest : Rest[i][1] = "error" <=> wire.status # OK
      BY <2>3, <3>2, <3>3 DEF FromCgi
    <3>5. Rest # <<>> /\ Rest \in Seq(Bytes)
      <4>1. response.total \in Nat /\ Len(response.Resp_body) \in Nat
        BY LenProperties, EndPointAssumption DEF AnswerTypes, Responses, Totals, Contents
      <4>2. Len(Rest) # 0
        BY <2>3, <4>1
      <4> QED
        BY <2>3, <4>2, EmptySeq DEF Contents
    <3>6. /\ Len(wire.body \o Rest) > Len(wire.body)
          /\ SubSeq(wire.body \o Rest, 1, Len(wire.body)) = wire.body
          /\ \A i \in Len(wire.body) + 1 .. Len(wire.body \o Rest) :
                (wire.body \o Rest)[i][1] = "error" <=> wire.status # OK
      BY <1>1, <3>4, <3>5, SaysMore
    <3>7. Phase = "answering" /\ Phase' = "answering"
      BY <2>1, <2>3 DEF Phase
    <3> QED
      BY <2>1, <3>1, <3>2, <3>6, <3>7
  <2> QED
    BY <1>5, <2>2, <2>3, SendCgiIs
<1>6. ASSUME SendFile PROVE Stutter \/ Says
  <2>1. pc = "SendFile" /\ pc' = "close" /\ taken' = taken /\ stop' = stop /\ ~stop
    BY <1>6, SendUnchanged DEF SendStep, SendFile, SendBytes, Control
  <2>2. Phase = "answering" /\ Phase' = "answering"
    BY <2>1 DEF Phase
  <2>3. PICK bytes \in Contents :
            wire' = IF peer = "gone" \/ bytes = <<>> THEN wire
                    ELSE [wire EXCEPT !.body = wire.body \o bytes]
    BY <1>6, SendFileIs
  <2>4. CASE wire' = wire
    BY <2>1, <2>2, <2>4
  <2>5. CASE peer # "gone" /\ bytes # <<>>
    <3>1. bytes \in Seq(Bytes) /\ wire' = [wire EXCEPT !.body = wire.body \o bytes]
      BY <2>3, <2>5 DEF Contents
    <3>2. wire.body = <<>> /\ wire.status # 0 /\ wire.status = response.Status_code
      BY <2>1, <2>5 DEF Wired
    <3>3. wire'.body = wire.body \o bytes /\ wire'.status = wire.status
      BY <1>1, <3>1 DEF Wires
    <3>4. wire'.body = bytes
      BY <3>1, <3>2, <3>3, ConcatEmptySeq
    <3>5. Wired' /\ response'.Status_code = response.Status_code
      BY <1>6, WiredStep, SendKeepsResponse DEF SendStep
    <3>6. \A i \in DOMAIN bytes : bytes[i][1] = "error" <=> wire.status # OK
      BY <3>2, <3>4, <3>5 DEF Wired
    <3>7. /\ Len(wire.body \o bytes) > Len(wire.body)
          /\ SubSeq(wire.body \o bytes, 1, Len(wire.body)) = wire.body
          /\ \A i \in Len(wire.body) + 1 .. Len(wire.body \o bytes) :
                (wire.body \o bytes)[i][1] = "error" <=> wire.status # OK
      BY <1>1, <2>5, <3>1, <3>6, SaysMore
    <3> QED
      BY <2>1, <2>2, <3>2, <3>3, <3>7
  <2> QED
    BY <2>3, <2>4, <2>5
<1>7. ASSUME Close
      PROVE  Phase # "closed" /\ Phase' = "closed" /\ UNCHANGED <<taken, wire>>
  BY <1>7, SendUnchanged DEF SendStep, Close, Phase
<1>8. ASSUME Around PROVE Stutter
  BY <1>8, AroundIs DEF Phase
<1> QED
  BY <1>2, <1>3, <1>4, <1>5, <1>6, <1>7, <1>8, StepIs DEF SendStep

\* The handler keeps Exchange's promise to its connection: it answers once,
\* after it listened, with one status, says nothing that belongs to another
\* one, and nothing at all if it gave up while it listened.
THEOREM EndImplementsExchange == Spec => ImplementsExchange
<1>1. Init => Connection!ExchangeInit
  <2> SUFFICES ASSUME Init
               PROVE  Connection!ExchangeInit
    OBVIOUS
  <2>1. wire = [status |-> 0, type |-> "none", length |-> NoLength, body |-> <<>>]
    BY DEF Init
  <2>2. pc = "GetRequestLine" /\ taken = 0
    BY DEF Init
  <2>3. wire.status = 0 /\ wire.body = <<>>
    BY <2>1
  <2> QED
    BY <2>2, <2>3 DEF Connection!ExchangeInit
<1>2. SentInv /\ [Next]_vars => [Connection!ExchangeNext]_(Connection!exchangeVars)
  <2> SUFFICES ASSUME SentInv, [Next]_vars
               PROVE  [Connection!ExchangeNext]_(Connection!exchangeVars)
    OBVIOUS
  <2>1. Connection!OK = OK /\ Connection!Codes = Codes
    BY DEF OK, Codes, BAD_REQUSET, NOT_FOUND, SERVER_ERROR, Connection!OK, Connection!Codes,
       Connection!BAD_REQUSET, Connection!NOT_FOUND, Connection!SERVER_ERROR
  <2>2. CASE UNCHANGED <<Phase, taken, wire.status, wire.body>>
    BY <2>2 DEF Phase, Connection!exchangeVars
  <2>3. CASE /\ Phase = "listening" /\ taken' = taken + 1
             /\ UNCHANGED <<Phase, wire.status, wire.body>>
    BY <2>3 DEF Phase, Connection!ExchangeNext, Connection!Hear
  <2>4. CASE /\ Phase = "listening" /\ taken > 0 /\ Phase' = "answering"
             /\ wire'.status \in Codes \cup {0} /\ UNCHANGED <<taken, wire.body>>
    BY <2>1, <2>4 DEF Phase, Connection!ExchangeNext, Connection!Answer
  <2>5. CASE /\ Phase = "answering" /\ wire.status # 0
             /\ Len(wire'.body) > Len(wire.body)
             /\ SubSeq(wire'.body, 1, Len(wire.body)) = wire.body
             /\ \A i \in Len(wire.body) + 1 .. Len(wire'.body) :
                   wire'.body[i][1] = "error" <=> wire.status # OK
             /\ UNCHANGED <<Phase, taken, wire.status>>
    BY <2>1, <2>5 DEF Phase, Connection!ExchangeNext, Connection!Say
  <2>6. CASE /\ Phase # "closed" /\ Phase' = "closed"
             /\ UNCHANGED <<taken, wire.status, wire.body>>
    BY <2>6 DEF Phase, Connection!ExchangeNext, Connection!HangUp
  <2> QED
    BY <2>2, <2>3, <2>4, <2>5, <2>6, ConnectionStep
<1> QED
  BY <1>1, <1>2, SentInvariant, PTL DEF Spec, ImplementsExchange, Connection!ExchangeSpec

=============================================================================
