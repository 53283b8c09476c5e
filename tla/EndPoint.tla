------------------------------- MODULE EndPoint -------------------------------
(***************************************************************************)
(* One connection's handler: CallBack::HandlerRequest and class EndPoint   *)
(* of MinHttp/Protocol.hpp, with the client at the other end of the socket *)
(* and the files under wwwroot, which others may replace meanwhile.        *)
(*                                                                         *)
(* The bytes of a request are grouped into items: a request line, a header *)
(* line, the blank line, a byte of the body.  Util::ReadInLine takes one   *)
(* line, recv(..., 1, 0) one byte.  ProcessCIG is one step here, with any  *)
(* outcome it can have; CgiPipe.tla models its inside.                     *)
(***************************************************************************)
EXTENDS Integers, Sequences, FiniteSets, CgiOutcome

CONSTANTS
    Lines,       \* request lines the client may send, see Line
    Lengths,     \* values of Content-Length headers, as atoi reads them
    NoLength,    \* "value" of any other header line, and of no header
    MaxHeads,    \* bound of the model: header lines of a request
    MaxBytes,    \* bound of the model: body bytes a client sends
    Files,       \* what may be at a path, see Object
    MaxChanges,  \* bound of the model: changes of the file system
    MaxOutput,   \* bound of the model: bytes a CGI program writes
    IntMax,      \* the largest int; a file may be larger
    MaxSend,     \* the most one sendfile moves: IntMax less a part of a page
    Window       \* how many segments the client lets the server send ahead

\* method is already in upper case, and "" is for the request that was never
\* parsed; uri is a sequence of "/", "?", "." and the words between them.
Line == [kind : {"line"}, method : {"GET", "POST", "OTHER"}, uri : Seq(STRING)]
Object == [kind : {"none", "dir", "page", "prog"}, size : Nat]

ASSUME EndPointAssumption ==
    /\ Lines \subseteq Line /\ Files \subseteq Object
    /\ Lengths \subseteq Int /\ NoLength \notin Int
    /\ {MaxHeads, MaxBytes, MaxChanges, MaxOutput} \subseteq Nat
    /\ IntMax \in Nat /\ MaxSend \in 0..IntMax
    /\ Window \in Nat \ {0}

VARIABLES
    stream,   \* every item the client has sent
    peer,     \* "open", "shut" (no more to send), "gone" (closed or reset)
    unread,   \* segments sent to the client and not yet read by it
    lost,     \* has a reset taken segments away from it?
    fs,       \* what is at the path of the request, its index.html, 404.html
    changes,  \* how often the file system changed
    pc,       \* where the handler is
    taken,    \* how many items of stream it has read
    stop,     \* EndPoint::stop
    request,  \* EndPoint::request
    response, \* EndPoint::response
    fds,      \* descriptors the handler has to close
    wire      \* the response as sent: status, Content-Type and -Length, body

netVars == <<stream, peer, unread, lost>>
fsVars == <<fs, changes>>
handlerVars == <<pc, taken, stop, request, response, fds, wire>>
vars == <<netVars, fsVars, handlerVars>>

NoObject == [kind |-> "none", size |-> 0]
Blank == [kind |-> "blank"]
Byte  == [kind |-> "byte"]
HeadLine(n) == [kind |-> "head", length |-> n]
Heads == {HeadLine(n) : n \in Lengths \cup {NoLength}}

\* The bytes of a file or of a program's output, told apart by their origin.
Content(origin, n) == [i \in 1..n |-> <<origin, i>>]
ToInt(n) == ((n + IntMax + 1) % (2 * IntMax + 2)) - (IntMax + 1)
Places(s, c) == {i \in DOMAIN s : s[i] = c}
Least(S) == CHOOSE n \in S : \A m \in S : n <= m
Greatest(S) == CHOOSE n \in S : \A m \in S : n >= m

\* index.html is only there if the path is a directory.  404.html stays what
\* it is while the server runs.
FileSystem ==
    {f \in [{"path", "index", "error"} -> Files \cup {NoObject}] :
        /\ f["index"].kind # "none" => f["path"].kind = "dir"
        /\ f["index"].kind # "dir"
        /\ f["error"].kind \in {"none", "page"}}

Init ==
    /\ stream = <<>> /\ peer = "open" /\ unread = 0 /\ lost = FALSE
    /\ fs \in FileSystem /\ changes = 0
    /\ pc = "GetRequestLine" /\ taken = 0 /\ stop = FALSE
    /\ request = [method |-> "", uri |-> <<>>, heads |-> <<>>,
                  content_length |-> 0, body |-> 0,
                  path |-> "path", suffix |-> <<>>, cgi |-> FALSE, size |-> 0]
    /\ response = [Status_code |-> OK, Content_Type |-> "none",
                   Content_Length |-> NoLength,
                   Resp_body |-> <<>>, file |-> <<>>, total |-> 0, short |-> FALSE]
    /\ fds = {"sock"}
    /\ wire = [status |-> 0, type |-> "none", length |-> NoLength, body |-> <<>>]

-----------------------------------------------------------------------------
(* The client and the file system *)

SentKinds(s) == {s[i].kind : i \in DOMAIN s}
CountOf(s, kind) == Cardinality({i \in DOMAIN s : s[i].kind = kind})

\* The items that may follow what was sent already.
NextItems ==
    IF stream = <<>> THEN Lines
    ELSE IF "blank" \notin SentKinds(stream)
         THEN {Blank} \cup IF CountOf(stream, "head") < MaxHeads THEN Heads ELSE {}
         ELSE IF CountOf(stream, "byte") < MaxBytes THEN {Byte} ELSE {}

ClientSend ==
    /\ peer = "open"
    /\ \E item \in NextItems : stream' = Append(stream, item)
    /\ UNCHANGED <<peer, unread, lost, fsVars, handlerVars>>

\* The client stops sending and still reads (shutdown), ...
ClientShut ==
    /\ peer = "open"
    /\ peer' = "shut"
    /\ UNCHANGED <<stream, unread, lost, fsVars, handlerVars>>

\* ... or its end of the connection is gone, with what it had not read.
ClientGone ==
    /\ peer # "gone"
    /\ peer' = "gone"
    /\ unread' = 0
    /\ UNCHANGED <<stream, lost, fsVars, handlerVars>>

ClientRead ==
    /\ unread > 0
    /\ unread' = unread - 1
    /\ UNCHANGED <<stream, peer, lost, fsVars, handlerVars>>

\* If there is, or arrives, what nobody took from a socket that was closed,
\* the kernel resets the connection, and the client may not get the rest.
Reset ==
    /\ pc = "done" /\ taken < Len(stream)
    /\ unread > 0
    /\ unread' = 0 /\ lost' = TRUE
    /\ UNCHANGED <<stream, peer, fsVars, handlerVars>>

\* Somebody installs, replaces or removes the requested file.
FsChange ==
    /\ changes < MaxChanges
    /\ fs' \in {f \in FileSystem : f # fs /\ f["error"] = fs["error"]}
    /\ changes' = changes + 1
    /\ UNCHANGED <<netVars, handlerVars>>

-----------------------------------------------------------------------------
(* RecvHttpRequest *)

\* recv has an item, or it reports the end of the stream or an error: without
\* an item if the client shut its side, at any time if it is gone.
Available == taken < Len(stream) /\ peer # "gone"
Ended == peer = "gone" \/ (peer = "shut" /\ taken = Len(stream))
Item == stream[taken + 1]

recvUnchanged == UNCHANGED <<netVars, fsVars, response, fds, wire>>

\* bool GetRequestLine() has no return statement: its caller goes on with
\* whatever value is in the register, and only skips the rest if it is true.
GetRequestLine ==
    /\ pc = "GetRequestLine"
    /\ \/ /\ Available
          /\ taken' = taken + 1
          /\ UNCHANGED stop
       \/ /\ Ended
          /\ stop' = TRUE
          /\ UNCHANGED taken
    /\ \E result \in BOOLEAN :
          pc' = IF ~result THEN "GetRequestHead"
                ELSE IF stop' THEN "close" ELSE "CheckMethod"
    /\ UNCHANGED request /\ recvUnchanged

\* Mutant: HandlerRequest does not ask IsStop after a head that was cut off.
GetRequestHead_NotStopped ==
    /\ pc = "GetRequestHead"
    /\ Ended
    /\ stop' = TRUE
    /\ pc' = "CheckMethod"
    /\ UNCHANGED <<request, taken>> /\ recvUnchanged

\* One round of the loop of GetRequestHead that does not find the blank line.
GetRequestHead ==
    /\ pc = "GetRequestHead"
    /\ \/ /\ Available /\ Item.kind = "head"
          /\ request' = [request EXCEPT !.heads = Append(@, Item.length)]
          /\ taken' = taken + 1
          /\ UNCHANGED <<pc, stop>>
       \/ /\ Ended
          /\ stop' = TRUE
          /\ pc' = "close"
          /\ UNCHANGED <<request, taken>>
    /\ recvUnchanged

\* head_kv.insert keeps the first Content-Length of several.
FirstLength(heads) ==
    LET given == {i \in DOMAIN heads : heads[i] # NoLength}
    IN  IF given = {} THEN NoLength
        ELSE heads[Least(given)]

\* The blank line ends GetRequestHead; what ParseHttpRequestLine and
\* ParseHttpRequestHead find, and whether there is a body to read.
Parse(need) ==
    /\ pc = "GetRequestHead"
    /\ Available /\ Item.kind = "blank"
    /\ taken' = taken + 1
    /\ request' = [request EXCEPT
          !.method = stream[1].method, !.uri = stream[1].uri,
          !.content_length = IF need THEN FirstLength(request.heads) ELSE @]
    /\ pc' = IF need THEN "RecvHttpRequestBody" ELSE "CheckMethod"
    /\ UNCHANGED stop /\ recvUnchanged

\* Mutant: no body is read, whatever the request declares.
ParseHttpRequest_NoBody == Parse(FALSE)

\* IsNeedRecvHttpRequestBody decides.
ParseHttpRequest ==
    Parse(stream[1].method = "POST" /\ FirstLength(request.heads) # NoLength)

\* One round of while (content_length) { recv ... content_length--; }: a
\* negative length is never counted down to 0, so only the end stops it.
RecvBody(ended) ==
    /\ pc = "RecvHttpRequestBody"
    /\ \/ /\ request.body = request.content_length
          /\ pc' = "CheckMethod" /\ UNCHANGED <<request, taken, stop>>
       \/ /\ request.body # request.content_length
          /\ Available
          /\ taken' = taken + 1
          /\ request' = [request EXCEPT !.body = @ + 1]
          /\ UNCHANGED <<pc, stop>>
       \/ /\ request.body # request.content_length
          /\ Ended
          /\ ended
    /\ recvUnchanged

\* Mutant: recv's result is not looked at.
RecvHttpRequestBody_Unchecked ==
    RecvBody(taken' = taken + 1 /\ UNCHANGED <<pc, stop, request>>)

\* Mutant: the loop ends at an error, but stop is not set.
RecvHttpRequestBody_NoStop ==
    RecvBody(pc' = "CheckMethod" /\ UNCHANGED <<taken, stop, request>>)

\* Mutant: recv's error is taken for "nothing there yet" and tried again.
RecvHttpRequestBody_Retry == RecvBody(FALSE)

\* recv failed or found the end: stop, and no answer.
RecvHttpRequestBody ==
    RecvBody(stop' = TRUE /\ pc' = "close" /\ UNCHANGED <<taken, request>>)

-----------------------------------------------------------------------------
(* BuildHttpResponse *)

buildUnchanged == UNCHANGED <<netVars, fsVars, taken, stop, wire>>

Fail(code) ==
    /\ response' = [response EXCEPT !.Status_code = code]
    /\ pc' = "HandlerError"

\* The path: of a GET, what is before the first '?'.
Path(method, uri) ==
    IF method = "GET" /\ Places(uri, "?") # {}
    THEN SubSeq(uri, 1, Least(Places(uri, "?")) - 1)
    ELSE uri

\* The method is checked and the path is put together: '?' and POST ask for
\* CGI, a path that ends with '/' gets index.html.
CheckMethod ==
    /\ pc = "CheckMethod"
    /\ IF request.method \notin {"GET", "POST"}
       THEN Fail(BAD_REQUSET) /\ UNCHANGED request
       ELSE /\ LET path == Path(request.method, request.uri)
               IN  request' = [request EXCEPT
                      !.cgi = request.method = "POST" \/ path # request.uri,
                      !.path = IF path # <<>> /\ path[Len(path)] = "/" THEN "index" ELSE "path"]
            /\ pc' = "stat"
            /\ UNCHANGED response
    /\ UNCHANGED fds /\ buildUnchanged

\* From the last dot of the whole path.  There always is one, WEB_ROOT's.
Full(path) == <<".", "/", "wwwroot">> \o path
SuffixAt(path, dot) == SubSeq(path, dot, Len(path))

\* Mutant: find instead of rfind.
Suffix_First(path) == SuffixAt(path, Least(Places(path, ".")))

Suffix(path) == SuffixAt(path, Greatest(Places(path, ".")))

\* Types are named by the suffix they belong to.
Suffix2Desc(suffix) ==
    IF suffix \in {<<".", word>> : word \in {"html", "css", "js", "jpg", "xml"}}
    THEN suffix[2] ELSE "html"

\* What BuildHttpResponse does with the last struct stat it filled: any x bit
\* asks for CGI, and directories have them; st_size is cut to an int.
UseStat(object, path) ==
    LET cgi == request.cgi \/ object.kind \in {"prog", "dir"}
    IN  /\ request' = [request EXCEPT !.cgi = cgi, !.size = ToInt(object.size),
              !.path = path,
              !.suffix = Suffix(Full(Path(request.method, request.uri)
                    \o IF path = "index" THEN <<"/", "index", ".", "html">> ELSE <<>>))]
        /\ pc' = IF cgi THEN "ProcessCIG" ELSE "ProcessNonCIG"

\* The first stat; a directory needs another one, until which struct stat
\* keeps the directory's size.
StatPath ==
    /\ pc = "stat"
    /\ LET object == fs[request.path]
       IN  \/ object.kind = "none" /\ Fail(NOT_FOUND) /\ UNCHANGED request
           \/ /\ object.kind = "dir"
              /\ request' = [request EXCEPT !.size = ToInt(object.size)]
              /\ pc' = "restat"
              /\ UNCHANGED response
           \/ /\ object.kind \in {"page", "prog"}
              /\ UseStat(object, request.path)
              /\ UNCHANGED response
    /\ UNCHANGED fds /\ buildUnchanged

\* The second stat, of index.html in the directory.  Its result is not
\* checked: if it fails, st still describes the directory.
StatIndex ==
    /\ pc = "restat"
    /\ IF fs["index"].kind = "none"
       THEN UseStat([kind |-> "dir", size |-> request.size], "index")
       ELSE UseStat(fs["index"], "index")
    /\ UNCHANGED <<response, fds>> /\ buildUnchanged

\* What sendfile can get from the descriptor: nothing if it is a directory.
Readable(object) ==
    IF object.kind = "dir" THEN <<>> ELSE Content("file", object.size)

\* ProcessNonCIG opens the file; open may also fail for want of descriptors.
ProcessNonCIG ==
    /\ pc = "ProcessNonCIG"
    /\ \/ /\ fs[request.path].kind # "none"
          /\ response' = [response EXCEPT !.Status_code = OK,
                 !.Content_Type = Suffix2Desc(request.suffix),
                 !.Content_Length = request.size,
                 !.file = Readable(fs[request.path])]
          /\ fds' = fds \cup {"file"}
          /\ pc' = "SendHead"
       \/ Fail(NOT_FOUND) /\ UNCHANGED fds
    /\ UNCHANGED request /\ buildUnchanged

\* ProcessCIG, with every outcome that CgiPipe shows it to have.
ProcessCIG ==
    /\ pc = "ProcessCIG"
    /\ \E n \in 0..MaxOutput :
       \E code \in CodesWith(n, fs[request.path].kind = "prog") :
          /\ response' = [response EXCEPT !.Status_code = code,
                 !.Resp_body = Content("cgi", n),
                 !.Content_Type = IF code = OK THEN Suffix2Desc(request.suffix) ELSE @,
                 !.Content_Length = IF code = OK THEN n ELSE @]
          /\ pc' = IF code = OK THEN "SendHead" ELSE "HandlerError"
    /\ UNCHANGED <<request, fds>> /\ buildUnchanged

\* The error page, if it can be opened; Content-Length is not cut to an int.
ErrorPage(cgi) ==
    /\ pc = "HandlerError"
    /\ \/ /\ fs["error"].kind = "page"
          /\ request' = [request EXCEPT !.cgi = cgi, !.size = ToInt(fs["error"].size)]
          /\ response' = [response EXCEPT
                 !.Content_Type = "html", !.Content_Length = fs["error"].size,
                 !.file = Content("error", fs["error"].size)]
          /\ fds' = fds \cup {"file"}
       \/ /\ request' = [request EXCEPT !.cgi = cgi]
          /\ UNCHANGED <<response, fds>>
    /\ pc' = "SendHead"
    /\ buildUnchanged

\* Mutant: HandlerError without request.cgi = false.
HandlerError_KeepsCgi == ErrorPage(request.cgi)

\* Every error is answered with 404.html.
HandlerError == ErrorPage(FALSE)

-----------------------------------------------------------------------------
(* SendHttpResquese, and the end of HandlerRequest *)

sendUnchanged == UNCHANGED <<stream, peer, lost, fsVars, taken, stop, request>>

\* send blocks while the client lets nothing more in, and fails (SIGPIPE is
\* ignored) if the client is gone.
Send(segment) ==
    IF peer = "gone" THEN UNCHANGED <<wire, unread>>
    ELSE /\ unread < Window
         /\ unread' = unread + 1
         /\ wire' = segment

Transmit(body) ==
    IF body = <<>> THEN UNCHANGED <<wire, unread>>
    ELSE Send([wire EXCEPT !.body = @ \o body])

\* The status line, the headers and the blank line; results are ignored.
SendHead ==
    /\ pc = "SendHead"
    /\ Send([wire EXCEPT !.status = response.Status_code,
                         !.type = response.Content_Type,
                         !.length = response.Content_Length])
    /\ pc' = IF request.cgi THEN "SendCgi" ELSE "SendFile"
    /\ UNCHANGED <<response, fds>> /\ sendUnchanged

\* One round of the loop that sends Resp_body.
SendRound(bytes) ==
    /\ pc = "SendCgi"
    /\ IF response.total < Len(response.Resp_body)
       THEN /\ Transmit(bytes)
            /\ response' = [response EXCEPT !.total = @ + 1]
            /\ pc' = IF peer = "gone" THEN "close" ELSE pc
       ELSE pc' = "close" /\ UNCHANGED <<wire, unread, response>>
    /\ UNCHANGED fds /\ sendUnchanged

\* Mutant: every round sends the body from its start.
SendCgi_FromStart == SendRound(SubSeq(response.Resp_body, 1, response.total + 1))

\* In (size = send(..., start + total, Resp_body.size() - total, 0) > 0)
\* > binds tighter than =, so a send of any length makes size 1.
SendCgi == SendRound(SubSeq(response.Resp_body, response.total + 1, Len(response.Resp_body)))

\* What one sendfile moves of a file unless it is interrupted.  A negative
\* count is an error (EINVAL), a large one is cut to MaxSend.
Sent(file, count) ==
    IF count < 0 THEN <<>>
    ELSE SubSeq(file, 1, Least({count, Len(file), MaxSend}))

SendBytes(bytes) ==
    /\ pc = "SendFile"
    /\ Transmit(bytes)
    /\ response' = [response EXCEPT
          !.short = Len(bytes) < Len(Sent(response.file, request.size))]
    /\ pc' = "close"
    /\ sendUnchanged

\* Mutant: the file is sent to its end, whatever Content-Length said.
SendFile_ToEnd == SendBytes(response.file) /\ fds' = fds \ {"file"}

\* Mutant: an empty file is not sent, and not closed either.
SendFile_SkipEmpty ==
    /\ SendBytes(Sent(response.file, request.size))
    /\ fds' = IF request.size = 0 THEN fds ELSE fds \ {"file"}

\* sendfile(_sock, response.fd, nullptr, request.size); close(response.fd);
\* An interrupted or failing sendfile has moved fewer bytes, or none.  It is
\* called once and its result is not looked at.
SendFile ==
    /\ \E n \in 0..Len(Sent(response.file, request.size)) :
          SendBytes(SubSeq(response.file, 1, n))
    /\ fds' = fds \ {"file"}

\* delete ep; close(sock);
Close ==
    /\ pc = "close"
    /\ fds' = fds \ {"sock"}
    /\ pc' = "done"
    /\ UNCHANGED <<unread, response, wire>> /\ sendUnchanged

-----------------------------------------------------------------------------
HandlerStep ==
    \/ GetRequestLine \/ GetRequestHead \/ ParseHttpRequest \/ RecvHttpRequestBody
    \/ CheckMethod \/ StatPath \/ StatIndex \/ ProcessNonCIG \/ ProcessCIG
    \/ HandlerError \/ SendHead \/ SendCgi \/ SendFile \/ Close

Next ==
    \/ HandlerStep
    \/ ClientSend \/ ClientShut \/ ClientGone \/ ClientRead \/ Reset
    \/ FsChange

Spec == Init /\ [][Next]_vars

\* The worker's thread runs, a CGI program ends (see CgiPipe), and a client
\* takes what is sent to it for as long as it is there.
FairSpec == Spec /\ WF_vars(HandlerStep) /\ WF_vars(ClientRead)

-----------------------------------------------------------------------------
(* Properties *)

TypeOK ==
    /\ stream \in Seq(Lines \cup Heads \cup {Blank, Byte})
    /\ peer \in {"open", "shut", "gone"}
    /\ unread \in 0..Window /\ lost \in BOOLEAN
    /\ fs \in FileSystem /\ changes \in 0..MaxChanges
    /\ taken \in 0..Len(stream)
    /\ stop \in BOOLEAN
    /\ request.method \in {"", "GET", "POST", "OTHER"}
    /\ request.path \in {"path", "index"}
    /\ request.size \in -(IntMax + 1)..IntMax /\ response.total \in 0..MaxOutput
    /\ fds \subseteq {"sock", "file"}

Answered == wire.status # 0
Body(s) == CountOf(s, "byte")
DeclaredLength(s) ==
    LET given == {i \in DOMAIN s : s[i].kind = "head" /\ s[i].length # NoLength}
    IN  IF s[1].method = "POST" /\ given # {} THEN s[Least(given)].length ELSE 0

\* A request is complete in s if its head is, and as many bytes of its body as
\* it declared.
Complete(s) ==
    /\ "blank" \in SentKinds(s)
    /\ DeclaredLength(s) >= 0 /\ Body(s) >= DeclaredLength(s)

\* Nothing but 400 for a request that was not parsed is answered to a client
\* whose request is not complete, cut off or of negative length; and not one
\* byte beyond the declared body is consumed.
AnsweredOnlyIfComplete ==
    Answered =>
        LET read == SubSeq(stream, 1, taken)
        IN  IF request.method = ""
            THEN wire.status = BAD_REQUSET /\ taken = 1
            ELSE Complete(read) /\ Body(read) = DeclaredLength(read)

\* With an error status the client gets bytes of the error page and nothing of
\* the requested file or of what a failed CGI program had already written.
ErrorNeverLeaksContent ==
    Answered /\ wire.status # OK =>
        \A i \in DOMAIN wire.body : wire.body[i][1] = "error"

\* A client that reads Content-Length bytes of the body gets the program's
\* output exactly, although SendHttpResquese sends more than that.
CgiReaderGetsOutput ==
    pc \in {"close", "done"} /\ peer # "gone" /\ Answered /\ request.cgi =>
        /\ wire.length = Len(response.Resp_body)
        /\ SubSeq(wire.body, 1, wire.length) = response.Resp_body

\* A file's body never overruns its Content-Length, and is empty if that is
\* negative.  It fills it if the file did not change between stat and open, is
\* no larger than one sendfile moves, and that was not interrupted; a larger
\* file is never sent whole, whatever Content-Length said.
StaticFramed ==
    pc \in {"close", "done"} /\ peer # "gone" /\ Answered /\ ~request.cgi =>
        IF wire.length = NoLength THEN wire.body = <<>>
        ELSE /\ IF wire.length < 0 THEN wire.body = <<>> ELSE Len(wire.body) <= wire.length
             /\ changes = 0 =>
                   LET size == fs[IF wire.status = OK THEN request.path ELSE "error"].size
                   IN  IF size > MaxSend THEN Len(wire.body) < size
                       ELSE response.short \/ Len(wire.body) = wire.length

\* A body's type is that of the name's extension, which is what follows the
\* last dot of the name after the last '/', not of a directory's and not of
\* the query's; index.html and error pages are html, and so is all that has no
\* extension that is known.
TypeFitsName ==
    Answered /\ wire.length # NoLength =>
        LET path == Path(request.method, request.uri)
            isName(i) == i > 1 /\ path[i - 1] = "." /\ i = Len(path)
            known == {"html", "css", "js", "jpg", "xml"}
        IN  wire.type =
                IF wire.status = OK /\ request.path = "path" /\ path # <<>>
                   /\ isName(Len(path)) /\ path[Len(path)] \in known
                THEN path[Len(path)] ELSE "html"

\* On every path through the handler the file and the socket get closed.
NothingLeftOpen == pc = "done" => fds = {}

\* A worker comes back from every client that sent a complete request or
\* stopped sending: no path waits for more from it.
HandlerEnds == (stream # <<>> /\ Complete(stream)) \/ peer # "open" ~> pc = "done"

\* A client that sends the request it declared, and not a byte more, reads the
\* whole answer: nothing of its request is left in the socket when that is
\* closed, which would reset the connection under the answer.  (What an
\* unparsed request gets is another matter, see ParsedUnlessError.)
Exact(s) == s # <<>> /\ Complete(s) /\ Body(s) = DeclaredLength(s)
AnswerArrives ==
    Exact(stream) ~> \/ pc = "done" /\ Answered /\ unread = 0 /\ ~lost
                     \/ ~Exact(stream) \/ peer = "gone"
                     \/ pc # "GetRequestHead" /\ taken > 0 /\ request.method = ""

\* Refinement (Exchange): one answer, of one status, after listening.
Connection == INSTANCE Exchange WITH
    phase  <- IF pc = "done" THEN "closed"
              ELSE IF pc \in {"SendCgi", "SendFile"} \/ (pc = "close" /\ ~stop)
                   THEN "answering" ELSE "listening",
    heard  <- taken,
    status <- wire.status,
    said   <- wire.body
ImplementsExchange == Connection!ExchangeSpec

\* Protocol.hpp:139: if the request is not parsed, reading it failed.
ParsedUnlessError == pc = "CheckMethod" => request.method # ""

\* Protocol.hpp:187: the program ProcessCIG executes does exist.
CgiTargetExists == pc = "ProcessCIG" => fs[request.path].kind # "none"

\* Protocol.hpp:166, 668-675: Content-Length is the size of the body sent.
CgiBodyFramed ==
    pc = "done" /\ peer # "gone" /\ Answered /\ request.cgi =>
        Len(wire.body) = wire.length

=============================================================================
