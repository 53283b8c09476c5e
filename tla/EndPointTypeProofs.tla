--------------------------- MODULE EndPointTypeProofs ---------------------------
(***************************************************************************)
(* What EndPoint's operators return and what its variables hold, for any   *)
(* requests, lengths, files, sizes of an int, outputs and windows.         *)
(***************************************************************************)
EXTENDS EndPoint, LeastNumbers, FiniteSetTheorems, SequenceTheorems

Reading  == {"GetRequestLine", "GetRequestHead", "RecvHttpRequestBody"}
Building == {"CheckMethod", "stat", "restat", "ProcessNonCIG", "ProcessCIG"}
Bytes    == {"cgi", "file", "error"} \X Nat
Known    == {"html", "css", "js", "jpg", "xml"}

\* What paths are made of: what requests contain, and what the code adds.
Words == STRING \cup {".", "/", "wwwroot", "index", "html"}

\* The values of the fields.
Ints     == -(IntMax + 1)..IntMax
Methods  == {"", "GET", "POST", "OTHER"}
Paths    == {"path", "index"}
Names    == Seq(Words)
Given    == Seq(Lengths \cup {NoLength})
Contents == Seq(Bytes)
Types    == Known \cup {"none"}
Declared == Int \cup {NoLength}
Totals   == 0..MaxOutput

Requests ==
    [method : Methods, uri : Names, heads : Given, content_length : Int, body : Nat,
     path : Paths, suffix : Names, cgi : BOOLEAN, size : Ints]
Responses ==
    [Status_code : Codes, Content_Type : Types, Content_Length : Declared,
     Resp_body : Contents, file : Contents, total : Totals, short : BOOLEAN]
Wires ==
    [status : Codes \cup {0}, type : Types, length : Declared, body : Contents]

Items == Lines \cup Heads \cup {Blank, Byte}

\* TypeOK, and the types of what it does not mention.
NetTypes ==
    /\ stream \in Seq(Items) /\ Len(stream) \in Nat
    /\ stream # <<>> => stream[1] \in Lines
    /\ peer \in {"open", "shut", "gone"}
    /\ unread \in 0..Window /\ lost \in BOOLEAN
FileTypes == fs \in FileSystem /\ changes \in 0..MaxChanges
HandlerTypes ==
    /\ pc \in Reading \cup Building
              \cup {"HandlerError", "SendHead", "SendCgi", "SendFile", "close", "done"}
    /\ taken \in 0..Len(stream) /\ stop \in BOOLEAN
    /\ fds \subseteq {"sock", "file"}
AnswerTypes ==
    /\ request \in Requests /\ response \in Responses /\ wire \in Wires
    /\ Len(response.Resp_body) <= MaxOutput
EndTypes == NetTypes /\ FileTypes /\ HandlerTypes /\ AnswerTypes

-----------------------------------------------------------------------------
(* What the operators return *)

LEMMA LeastIs ==
    ASSUME NEW S \in SUBSET Nat, S # {}
    PROVE  Least(S) \in S /\ \A m \in S : Least(S) <= m
<1>1. \E n \in S : \A m \in S : n <= m
  BY LeastNumber
<1> QED
  BY <1>1 DEF Least

LEMMA GreatestIs ==
    ASSUME NEW n \in Nat, NEW S \in SUBSET (0..n), S # {}
    PROVE  Greatest(S) \in S /\ \A m \in S : Greatest(S) >= m
<1>1. \E k \in S : \A m \in S : m <= k
  BY GreatestNumber
<1>2. \E k \in S : \A m \in S : k >= m
  BY <1>1
<1> QED
  BY <1>2 DEF Greatest

\* An int is an int, and the number it was cut from if that was one.
LEMMA ToIntRange ==
    ASSUME NEW n \in Int
    PROVE  /\ ToInt(n) \in Ints
           /\ n \in Ints => ToInt(n) = n
<1> USE DEF Ints
<1> DEFINE width == 2 * IntMax + 2
           k == n + IntMax + 1
<1>1. IntMax \in Nat
  BY EndPointAssumption
<1>2. width \in Nat /\ width > 0 /\ k \in Int
  BY <1>1
<1>3. k % width \in 0..(width - 1)
  <2> HIDE DEF width, k
  <2> QED
    BY <1>2
<1>4. k \in 0..(width - 1) => k % width = k
  <2> HIDE DEF width, k
  <2> QED
    BY <1>2
<1>5. ToInt(n) = (k % width) - (IntMax + 1)
  BY DEF ToInt
<1>6. n \in -(IntMax + 1)..IntMax => k \in 0..(width - 1)
  BY <1>1
<1> DEFINE r == k % width
<1> HIDE DEF r
<1>7. r \in 0..(2 * IntMax + 1) /\ ToInt(n) = r - (IntMax + 1)
  BY <1>1, <1>3, <1>5 DEF r
<1>8. n \in -(IntMax + 1)..IntMax => r = n + IntMax + 1
  BY <1>4, <1>6 DEF r
<1> QED
  BY <1>1, <1>7, <1>8

LEMMA ContentIs ==
    ASSUME NEW n \in Nat, NEW origin \in {"cgi", "file", "error"}
    PROVE  /\ Content(origin, n) \in Seq(Bytes)
           /\ Len(Content(origin, n)) = n
           /\ DOMAIN Content(origin, n) = 1..n
           /\ \A i \in 1..n : Content(origin, n)[i][1] = origin
  BY DEF Content, Bytes

LEMMA PathType ==
    ASSUME NEW method, NEW uri \in Seq(Words)
    PROVE  Path(method, uri) \in Seq(Words)
<1>1. CASE Places(uri, "?") # {}
  <2>1. Places(uri, "?") \in SUBSET Nat
    BY DEF Places
  <2>2. Least(Places(uri, "?")) \in 1..Len(uri)
    <3>1. Least(Places(uri, "?")) \in Places(uri, "?")
      BY <1>1, <2>1, LeastIs
    <3>2. Places(uri, "?") \in SUBSET (1..Len(uri))
      BY DEF Places
    <3> QED
      BY <3>1, <3>2
  <2>3. SubSeq(uri, 1, Least(Places(uri, "?")) - 1) \in Seq(Words)
    BY <2>2
  <2> QED
    BY <2>3 DEF Path
<1>2. CASE Places(uri, "?") = {}
  BY <1>2 DEF Path
<1> QED
  BY <1>1, <1>2

\* WEB_ROOT starts with a dot, so there is a last one.
LEMMA LastDot ==
    ASSUME NEW path \in Seq(Words)
    PROVE  LET full == Full(path)
               dot == Greatest(Places(full, "."))
           IN  /\ full \in Seq(Words) /\ Len(full) = Len(path) + 3
               /\ \A i \in 1..Len(path) : full[i + 3] = path[i]
               /\ full[1] = "." /\ full[2] = "/" /\ full[3] = "wwwroot"
               /\ dot \in 1..Len(full) /\ full[dot] = "."
               /\ \A i \in 1..Len(full) : full[i] = "." => i <= dot
<1> DEFINE full == Full(path)
           dot == Greatest(Places(full, "."))
<1>1. /\ full \in Seq(Words) /\ Len(full) = Len(path) + 3
      /\ full[1] = "." /\ full[2] = "/" /\ full[3] = "wwwroot"
      /\ \A i \in 1..Len(path) : full[i + 3] = path[i]
  <2> DEFINE root == <<".", "/", "wwwroot">>
  <2>1. root \in Seq(Words) /\ Len(root) = 3
    BY DEF Words
  <2>2. root[1] = "." /\ root[2] = "/" /\ root[3] = "wwwroot"
    OBVIOUS
  <2>3. full = root \o path
    BY DEF Full
  <2> HIDE DEF root, full
  <2>4. /\ full \in Seq(Words) /\ Len(full) = 3 + Len(path)
        /\ \A i \in 1..(3 + Len(path)) : full[i] = IF i <= 3 THEN root[i] ELSE path[i - 3]
    <3>1. /\ root \o path \in Seq(Words) /\ Len(root \o path) = Len(root) + Len(path)
          /\ \A i \in 1..(Len(root) + Len(path)) : (root \o path)[i] =
                IF i <= Len(root) THEN root[i] ELSE path[i - Len(root)]
      BY <2>1, ConcatProperties
    <3> QED
      BY <2>1, <2>3, <3>1
  <2>5. Len(path) \in Nat
    OBVIOUS
  <2>6. \A i \in 1..Len(path) : i + 3 \in 1..(3 + Len(path)) /\ ~(i + 3 <= 3) /\ (i + 3) - 3 = i
    BY <2>5
  <2> QED
    BY <2>2, <2>4, <2>5, <2>6
<1> HIDE DEF full
<1>2. DOMAIN full = 1..Len(full) /\ Len(full) \in Nat /\ 1 \in DOMAIN full
  BY <1>1
<1>3. Places(full, ".") \in SUBSET (0..Len(full)) /\ Places(full, ".") # {}
  BY <1>1, <1>2 DEF Places
<1>4. dot \in Places(full, ".") /\ \A m \in Places(full, ".") : dot >= m
  BY <1>2, <1>3, GreatestIs
<1> HIDE DEF dot
<1>5. dot \in 1..Len(full) /\ full[dot] = "."
  BY <1>2, <1>4 DEF Places
<1>6. \A i \in 1..Len(full) : full[i] = "." => i <= dot
  BY <1>2, <1>4, <1>5 DEF Places
<1> QED
  BY <1>1, <1>5, <1>6 DEF full, dot

LEMMA SuffixType ==
    ASSUME NEW path \in Seq(Words)
    PROVE  Suffix(Full(path)) \in Seq(Words)
<1> DEFINE full == Full(path)
           dot == Greatest(Places(full, "."))
<1>1. full \in Seq(Words) /\ dot \in 1..Len(full)
  BY LastDot
<1>2. Suffix(full) = SubSeq(full, dot, Len(full))
  BY DEF Suffix, SuffixAt
<1> HIDE DEF full, dot
<1>3. SubSeq(full, dot, Len(full)) \in Seq(Words)
  BY <1>1
<1> QED
  BY <1>2, <1>3 DEF full

LEMMA DescIsKnown ==
    ASSUME NEW suffix
    PROVE  Suffix2Desc(suffix) \in Known
<1>1. CASE suffix \in {<<".", word>> : word \in Known}
  <2>1. PICK word \in Known : suffix = <<".", word>>
    BY <1>1
  <2>2. suffix[2] = word
    BY <2>1
  <2> QED
    BY <1>1, <2>2 DEF Suffix2Desc, Known
<1>2. CASE suffix \notin {<<".", word>> : word \in Known}
  BY <1>2 DEF Suffix2Desc, Known
<1> QED
  BY <1>1, <1>2

\* The length that counts is that of the first header that gives one.
LEMMA FirstLengthIs ==
    ASSUME NEW heads \in Seq(Lengths \cup {NoLength})
    PROVE  /\ FirstLength(heads) \in Lengths \cup {NoLength}
           /\ FirstLength(heads) = NoLength <=> \A i \in DOMAIN heads : heads[i] = NoLength
           /\ FirstLength(heads) # NoLength =>
                \E i \in DOMAIN heads :
                    /\ heads[i] # NoLength /\ heads[i] = FirstLength(heads)
                    /\ \A j \in DOMAIN heads : heads[j] # NoLength => i <= j
<1> DEFINE given == {i \in DOMAIN heads : heads[i] # NoLength}
<1>1. DOMAIN heads = 1..Len(heads) /\ Len(heads) \in Nat
  OBVIOUS
<1>2. FirstLength(heads) = IF given = {} THEN NoLength ELSE heads[Least(given)]
  BY DEF FirstLength
<1>3. CASE given = {}
  BY <1>2, <1>3
<1>4. CASE given # {}
  <2>1. given \in SUBSET Nat
    BY <1>1
  <2>2. Least(given) \in given /\ \A j \in given : Least(given) <= j
    BY <1>4, <2>1, LeastIs
  <2>3. PICK i \in DOMAIN heads : i = Least(given)
    BY <2>2
  <2>4. FirstLength(heads) = heads[i] /\ heads[i] # NoLength
    BY <1>2, <1>4, <2>2, <2>3
  <2>5. \A j \in DOMAIN heads : heads[j] # NoLength => i <= j
    BY <2>2, <2>3
  <2> QED
    BY <1>1, <2>4, <2>5
<1> QED
  BY <1>3, <1>4

LEMMA FileIs ==
    ASSUME FileTypes, NEW p \in {"path", "index", "error"}
    PROVE  /\ fs[p].kind \in {"none", "dir", "page", "prog"} /\ fs[p].size \in Nat
           /\ fs["index"].kind # "dir"
           /\ fs["error"].kind \in {"none", "page"}
<1>1. fs \in [{"path", "index", "error"} -> Files \cup {NoObject}]
  BY DEF FileTypes, FileSystem
<1>2. fs[p] \in Object
  BY <1>1, EndPointAssumption DEF Object, NoObject
<1> QED
  BY <1>2 DEF FileTypes, FileSystem, Object

LEMMA LineIs ==
    ASSUME NEW line \in Lines
    PROVE  /\ line.kind = "line" /\ line.method \in {"GET", "POST", "OTHER"}
           /\ line.uri \in Names
<1>1. line \in Line
  BY EndPointAssumption
<1>2. line.uri \in Seq(STRING)
  BY <1>1 DEF Line
<1>3. line.uri \in Names
  BY <1>2, SeqMonotonic DEF Words, Names
<1> QED
  BY <1>1, <1>3 DEF Line

LEMMA TransmitIs ==
    ASSUME NetTypes, wire \in Wires, NEW body \in Contents, Transmit(body)
    PROVE  /\ wire' \in Wires /\ unread' \in 0..Window
           /\ wire' = IF peer = "gone" \/ body = <<>> THEN wire
                      ELSE [wire EXCEPT !.body = wire.body \o body]
<1>1. wire.body \o body \in Contents
  BY ConcatProperties DEF Wires, Contents
<1>2. CASE peer = "gone" \/ body = <<>>
  BY <1>2 DEF Transmit, Send, NetTypes
<1>3. CASE peer # "gone" /\ body # <<>>
  <2>1. wire' = [wire EXCEPT !.body = wire.body \o body] /\ unread < Window /\ unread' = unread + 1
    BY <1>3 DEF Transmit, Send
  <2>2. wire' \in Wires
    BY <1>1, <2>1 DEF Wires
  <2>3. unread' \in 0..Window
    BY <2>1, EndPointAssumption DEF NetTypes
  <2> QED
    BY <1>3, <2>1, <2>2, <2>3
<1> QED
  BY <1>2, <1>3

-----------------------------------------------------------------------------
(* Types *)

LEMMA EndTypesInit == Init => EndTypes
<1> SUFFICES ASSUME Init
             PROVE  EndTypes
  OBVIOUS
<1>1. IntMax \in Nat /\ MaxOutput \in Nat /\ MaxChanges \in Nat /\ Window \in Nat
  BY EndPointAssumption
<1>2. <<>> \in Names /\ <<>> \in Given /\ <<>> \in Contents
  BY EmptySeq DEF Names, Given, Contents
<1>3. <<>> \in Seq(Items) /\ Len(<<>>) = 0
  BY EmptySeq
<1>4. 0 \in Ints /\ 0 \in Totals /\ 0 \in 0..MaxChanges /\ 0 \in 0..Window
  BY <1>1 DEF Ints, Totals
<1>5. "" \in Methods /\ OK \in Codes /\ "none" \in Types /\ NoLength \in Declared
  BY DEF Methods, Codes, Types, Declared
<1>6. request \in Requests
  <2>1. request = [method |-> "", uri |-> <<>>, heads |-> <<>>,
                   content_length |-> 0, body |-> 0,
                   path |-> "path", suffix |-> <<>>, cgi |-> FALSE, size |-> 0]
    BY DEF Init
  <2>2. 0 \in Int /\ 0 \in Nat
    OBVIOUS
  <2>3. "path" \in Paths
    BY DEF Paths
  <2>4. FALSE \in BOOLEAN
    OBVIOUS
  <2> QED
    BY <1>2, <1>4, <1>5, <2>1, <2>2, <2>3, <2>4 DEF Requests
<1>7. response \in Responses
  <2>1. response = [Status_code |-> OK, Content_Type |-> "none",
                    Content_Length |-> NoLength,
                    Resp_body |-> <<>>, file |-> <<>>, total |-> 0, short |-> FALSE]
    BY DEF Init
  <2> QED
    BY <1>2, <1>4, <1>5, <2>1 DEF Responses
<1>8. wire \in Wires
  <2>1. wire = [status |-> 0, type |-> "none", length |-> NoLength, body |-> <<>>]
    BY DEF Init
  <2> QED
    BY <1>2, <1>5, <2>1 DEF Wires
<1>9. Len(response.Resp_body) <= MaxOutput
  <2>1. response.Resp_body = <<>>
    BY DEF Init
  <2> QED
    BY <1>1, <1>3, <2>1
<1>10. NetTypes
  BY <1>3, <1>4 DEF Init, NetTypes
<1>11. FileTypes
  BY <1>4 DEF Init, FileTypes
<1>12. HandlerTypes
  <2>1. /\ pc = "GetRequestLine" /\ taken = 0 /\ stop = FALSE /\ fds = {"sock"}
        /\ Len(stream) \in Nat
    BY <1>3 DEF Init
  <2>2. taken \in 0..Len(stream)
    BY <2>1
  <2> QED
    BY <2>1, <2>2 DEF HandlerTypes, Reading
<1> QED
  BY <1>6, <1>7, <1>8, <1>9, <1>10, <1>11, <1>12 DEF EndTypes, AnswerTypes

\* The client and the file system leave the handler's variables alone.
Around ==
    \/ ClientSend \/ ClientShut \/ ClientGone \/ ClientRead \/ Reset
    \/ FsChange \/ UNCHANGED vars

\* What is sent stays sent, and a client that is gone does not come back.
LEMMA AroundIs ==
    ASSUME NetTypes, Around
    PROVE  /\ UNCHANGED <<pc, taken, stop, request, response, fds, wire>>
           /\ \/ ClientSend \/ stream' = stream
           /\ Len(stream') \in Nat /\ Len(stream) <= Len(stream')
           /\ \A i \in 1..Len(stream) : stream'[i] = stream[i]
           /\ peer = "gone" => peer' = "gone"
           /\ \/ changes' = changes /\ fs' = fs
              \/ changes' = changes + 1 /\ fs'["error"] = fs["error"]
<1> USE DEF Around, ClientSend, ClientShut, ClientGone, ClientRead, Reset, FsChange, vars,
            netVars, fsVars, handlerVars
<1>1. CASE ClientSend
  <2>1. PICK item \in NextItems : stream' = Append(stream, item)
    BY <1>1
  <2>2. item \in Items
    BY DEF NextItems, Items
  <2>3. Len(stream') = Len(stream) + 1 /\ \A i \in 1..Len(stream) : stream'[i] = stream[i]
    BY <2>1, <2>2, AppendProperties DEF NetTypes
  <2> QED
    BY <1>1, <2>3 DEF NetTypes
<1>2. CASE ~ClientSend
  BY <1>2 DEF NetTypes
<1> QED
  BY <1>1, <1>2

LEMMA AroundKeepsTypes ==
    ASSUME EndTypes, Around
    PROVE  EndTypes'
<1> USE DEF EndTypes
<1>1. UNCHANGED <<pc, taken, stop, request, response, fds, wire>>
  BY AroundIs
<1>2. NetTypes'
  <2>1. CASE ClientSend
    <3>1. PICK item \in NextItems : stream' = Append(stream, item)
      BY <2>1 DEF ClientSend
    <3>2. item \in Items /\ (stream = <<>> => item \in Lines)
      BY DEF NextItems, Items
    <3>3. /\ stream' \in Seq(Items) /\ Len(stream') \in Nat
          /\ stream = <<>> => stream'[1] = item
          /\ stream # <<>> => stream'[1] = stream[1]
      BY <3>1, <3>2, AppendProperties DEF NetTypes
    <3>4. stream' # <<>> => stream'[1] \in Lines
      BY <3>2, <3>3 DEF NetTypes
    <3>5. UNCHANGED <<peer, unread, lost>>
      BY <2>1 DEF ClientSend
    <3> QED
      BY <3>3, <3>4, <3>5 DEF NetTypes
  <2>2. CASE ~ClientSend
    <3>1. /\ stream' = stream
          /\ unread' = 0 \/ unread' = unread \/ (unread > 0 /\ unread' = unread - 1)
          /\ peer' = peer \/ peer' = "shut" \/ peer' = "gone"
          /\ lost' = lost \/ lost' = TRUE
      BY <2>2 DEF Around, ClientShut, ClientGone, ClientRead, Reset, FsChange, vars, netVars
    <3>2. unread' \in 0..Window
      BY <3>1, EndPointAssumption DEF NetTypes
    <3> QED
      BY <3>1, <3>2 DEF NetTypes
  <2> QED
    BY <2>1, <2>2
<1>3. FileTypes'
  <2>1. MaxChanges \in Nat
    BY EndPointAssumption
  <2> QED
    BY <2>1 DEF Around, ClientSend, ClientShut, ClientGone, ClientRead, Reset, FsChange, vars,
                fsVars, FileTypes
<1>4. HandlerTypes'
  <2>1. taken' \in 0..Len(stream')
    BY <1>1, AroundIs DEF HandlerTypes, NetTypes
  <2> QED
    BY <1>1, <2>1 DEF HandlerTypes
<1>5. AnswerTypes'
  BY <1>1 DEF AnswerTypes
<1> QED
  BY <1>2, <1>3, <1>4, <1>5

LEMMA ReadingKeepsTypes ==
    ASSUME EndTypes,
           GetRequestLine \/ GetRequestHead \/ ParseHttpRequest \/ RecvHttpRequestBody
    PROVE  EndTypes'
<1> USE DEF EndTypes
<1>1. UNCHANGED <<netVars, fsVars, response, fds, wire>>
  BY DEF GetRequestLine, GetRequestHead, ParseHttpRequest, Parse, RecvHttpRequestBody,
         RecvBody, recvUnchanged
<1>2. taken' \in 0..Len(stream)
  <2>1. taken \in 0..Len(stream) /\ Len(stream) \in Nat
    BY DEF HandlerTypes, NetTypes
  <2>2. taken' = taken \/ (taken' = taken + 1 /\ taken < Len(stream))
    BY DEF GetRequestLine, GetRequestHead, ParseHttpRequest, Parse, RecvHttpRequestBody,
           RecvBody, Available
  <2> QED
    BY <2>1, <2>2
<1>3. pc' \in Reading \cup Building \cup {"close"} /\ stop' \in BOOLEAN
  BY DEF GetRequestLine, GetRequestHead, ParseHttpRequest, Parse, RecvHttpRequestBody,
         RecvBody, Reading, Building, HandlerTypes
<1>4. request' \in Requests
  <2>1. CASE GetRequestLine \/ UNCHANGED request
    BY <2>1 DEF GetRequestLine, AnswerTypes
  <2>2. CASE GetRequestHead /\ ~UNCHANGED request
    <3>1. /\ Available /\ Item.kind = "head"
          /\ request' = [request EXCEPT !.heads = Append(@, Item.length)]
      BY <2>2 DEF GetRequestHead
    <3>2. Item \in Items
      <4>1. taken + 1 \in 1..Len(stream)
        BY <3>1 DEF Available, HandlerTypes, NetTypes
      <4> QED
        BY <4>1, ElementOfSeq DEF NetTypes, Item
    <3>3. Item \in Heads
      BY <3>1, <3>2, LineIs DEF Items, Blank, Byte
    <3>4. Item.length \in Lengths \cup {NoLength}
      BY <3>3 DEF Heads, HeadLine
    <3>5. Append(request.heads, Item.length) \in Given
      BY <3>4, AppendProperties DEF AnswerTypes, Requests, Given
    <3> QED
      BY <3>1, <3>5 DEF AnswerTypes, Requests
  <2>3. CASE ParseHttpRequest
    <3>1. stream[1] \in Lines
      <4>1. Len(stream) > 0
        BY <2>3 DEF ParseHttpRequest, Parse, Available, HandlerTypes, NetTypes
      <4> QED
        BY <4>1 DEF NetTypes
    <3>2. stream[1].method \in {"GET", "POST", "OTHER"} /\ stream[1].uri \in Names
      BY <3>1, LineIs
    <3> DEFINE need == stream[1].method = "POST" /\ FirstLength(request.heads) # NoLength
               length == IF need THEN FirstLength(request.heads) ELSE request.content_length
    <3>3. length \in Int
      <4>1. request.heads \in Given /\ request.content_length \in Int
        BY DEF AnswerTypes, Requests
      <4>2. FirstLength(request.heads) \in Lengths \cup {NoLength}
        BY <4>1, FirstLengthIs DEF Given
      <4> QED
        BY <4>1, <4>2, EndPointAssumption
    <3>4. request' = [request EXCEPT !.method = stream[1].method, !.uri = stream[1].uri,
                                     !.content_length = length]
      BY <2>3 DEF ParseHttpRequest, Parse
    <3>5. request \in Requests /\ stream[1].method \in Methods
      BY <3>2 DEF AnswerTypes, Methods
    <3> HIDE DEF length
    <3> QED
      BY <3>2, <3>3, <3>4, <3>5 DEF Requests
  <2>4. CASE RecvHttpRequestBody
    <3>1. \/ request' = request
          \/ request' = [request EXCEPT !.body = request.body + 1]
      BY <2>4 DEF RecvHttpRequestBody, RecvBody
    <3>2. request \in Requests
      BY DEF AnswerTypes
    <3>3. request.body \in Nat
      BY <3>2 DEF Requests
    <3>4. request.body + 1 \in Nat
      BY <3>3
    <3> QED
      BY <3>1, <3>2, <3>4 DEF Requests
  <2> QED
    BY <2>1, <2>2, <2>3, <2>4
<1>5. NetTypes' /\ FileTypes' /\ AnswerTypes'
  BY <1>1, <1>4 DEF NetTypes, FileTypes, AnswerTypes, netVars, fsVars
<1>6. HandlerTypes'
  BY <1>1, <1>2, <1>3 DEF HandlerTypes, netVars
<1> QED
  BY <1>5, <1>6

\* The suffix of the name that is looked up for path.
SuffixOf(path) ==
    Suffix(Full(Path(request.method, request.uri)
        \o IF path = "index" THEN <<"/", "index", ".", "html">> ELSE <<>>))

LEMMA SuffixOfType ==
    ASSUME request \in Requests, NEW path
    PROVE  SuffixOf(path) \in Names
<1> DEFINE name == Path(request.method, request.uri)
           rest == IF path = "index" THEN <<"/", "index", ".", "html">> ELSE <<>>
<1>1. request.uri \in Seq(Words)
  BY DEF Requests, Names
<1>2. name \in Seq(Words)
  BY <1>1, PathType
<1>3. rest \in Seq(Words)
  <2>1. <<"/", "index", ".", "html">> \in Seq(Words) /\ <<>> \in Seq(Words)
    BY EmptySeq DEF Words
  <2> QED
    BY <2>1
<1> HIDE DEF name, rest
<1>4. name \o rest \in Seq(Words)
  BY <1>2, <1>3, ConcatProperties
<1>5. Suffix(Full(name \o rest)) \in Seq(Words)
  BY <1>4, SuffixType
<1> QED
  BY <1>5 DEF SuffixOf, Names, name, rest

LEMMA UseStatIs ==
    ASSUME request \in Requests, NEW object, object.size \in Int, NEW path \in Paths,
           UseStat(object, path)
    PROVE  \E cgi \in BOOLEAN :
              /\ cgi <=> request.cgi \/ object.kind \in {"prog", "dir"}
              /\ request' = [request EXCEPT !.cgi = cgi, !.size = ToInt(object.size),
                                            !.path = path, !.suffix = SuffixOf(path)]
              /\ request' \in Requests
              /\ pc' = IF cgi THEN "ProcessCIG" ELSE "ProcessNonCIG"
<1> DEFINE cgi == request.cgi \/ object.kind \in {"prog", "dir"}
<1>1. cgi \in BOOLEAN
  OBVIOUS
<1>2. ToInt(object.size) \in Ints
  BY ToIntRange
<1>3. SuffixOf(path) \in Names
  BY SuffixOfType
<1>4. /\ request' = [request EXCEPT !.cgi = cgi, !.size = ToInt(object.size),
                                    !.path = path, !.suffix = SuffixOf(path)]
      /\ pc' = IF cgi THEN "ProcessCIG" ELSE "ProcessNonCIG"
  BY DEF UseStat, SuffixOf
<1> HIDE DEF cgi
<1>5. request' \in Requests
  BY <1>1, <1>2, <1>3, <1>4 DEF Requests
<1> QED
  BY <1>1, <1>4, <1>5 DEF cgi

LEMMA CheckMethodIs ==
    ASSUME AnswerTypes, CheckMethod
    PROVE  \/ /\ request.method \notin {"GET", "POST"} /\ Fail(BAD_REQUSET)
              /\ request' = request
           \/ /\ request.method \in {"GET", "POST"} /\ pc' = "stat" /\ response' = response
              /\ \E cgi \in BOOLEAN, path \in Paths :
                    request' = [request EXCEPT !.cgi = cgi, !.path = path]
<1>1. CASE request.method \notin {"GET", "POST"}
  BY <1>1 DEF CheckMethod
<1>2. CASE request.method \in {"GET", "POST"}
  <2> DEFINE path == Path(request.method, request.uri)
             cgi == request.method = "POST" \/ path # request.uri
             file == IF path # <<>> /\ path[Len(path)] = "/" THEN "index" ELSE "path"
  <2>1. /\ request' = [request EXCEPT !.cgi = cgi, !.path = file]
        /\ pc' = "stat" /\ response' = response
    BY <1>2 DEF CheckMethod
  <2>2. cgi \in BOOLEAN /\ file \in Paths
    BY DEF Paths
  <2> HIDE DEF cgi, file
  <2> QED
    BY <1>2, <2>1, <2>2
<1> QED
  BY <1>1, <1>2

\* What is kept of the object that was found at path.
Found(object, path, cgi) ==
    /\ object.size \in Int
    /\ cgi <=> request.cgi \/ object.kind \in {"prog", "dir"}
    /\ object = fs[path] => object.kind # "none"
    /\ object.kind # "dir" => object = fs[path]
    /\ request' = [request EXCEPT !.cgi = cgi, !.size = ToInt(object.size),
                                  !.path = path, !.suffix = SuffixOf(path)]
    /\ pc' = IF cgi THEN "ProcessCIG" ELSE "ProcessNonCIG"

LEMMA StatIs ==
    ASSUME AnswerTypes, FileTypes, StatPath \/ StatIndex
    PROVE  \/ Fail(NOT_FOUND) /\ request' = request
           \/ /\ pc' = "restat" /\ response' = response /\ request' \in Requests
              /\ \E size \in Ints : request' = [request EXCEPT !.size = size]
           \/ /\ response' = response /\ request' \in Requests
              /\ \E cgi \in BOOLEAN, path \in Paths :
                 \E object \in {fs[path], [kind |-> "dir", size |-> request.size]} :
                    Found(object, path, cgi)
<1>1. /\ request \in Requests /\ request.path \in Paths /\ "index" \in Paths
      /\ request.size \in Int
  BY EndPointAssumption DEF AnswerTypes, Requests, Paths, Ints
<1>2. \A path \in Paths : fs[path].kind \in {"none", "dir", "page", "prog"} /\ fs[path].size \in Nat
  BY FileIs DEF Paths
<1>3. CASE StatPath
  <2>1. CASE fs[request.path].kind \notin {"page", "prog"}
    <3>1. \/ fs[request.path].kind = "none" /\ Fail(NOT_FOUND) /\ UNCHANGED request
          \/ /\ pc' = "restat" /\ response' = response
             /\ request' = [request EXCEPT !.size = ToInt(fs[request.path].size)]
      BY <1>3, <2>1 DEF StatPath
    <3> DEFINE size == ToInt(fs[request.path].size)
    <3>2. size \in Ints
      BY <1>1, <1>2, ToIntRange
    <3> HIDE DEF size
    <3>3. [request EXCEPT !.size = size] \in Requests
      BY <1>1, <3>2 DEF Requests
    <3> QED
      BY <3>1, <3>2, <3>3 DEF size
  <2>2. CASE fs[request.path].kind \in {"page", "prog"}
    <3>1. UseStat(fs[request.path], request.path) /\ response' = response
      BY <1>3, <2>2 DEF StatPath
    <3>2. fs[request.path].size \in Nat
      BY <1>1, <1>2
    <3> DEFINE object == fs[request.path]
               path == request.path
    <3>3. object.size \in Int /\ object.kind \notin {"none", "dir"} /\ path \in Paths
      BY <1>1, <2>2, <3>2
    <3>4. UseStat(object, path) /\ object = fs[path]
      BY <3>1
    <3> HIDE DEF object, path
    <3>5. request' \in Requests /\ \E cgi \in BOOLEAN : Found(object, path, cgi)
      BY <1>1, <3>3, <3>4, UseStatIs DEF Found
    <3> QED
      BY <1>1, <3>1, <3>3, <3>4, <3>5
  <2> QED
    BY <2>1, <2>2
<1>4. CASE StatIndex
  <2> DEFINE object == IF fs["index"].kind = "none" THEN [kind |-> "dir", size |-> request.size]
                                                     ELSE fs["index"]
  <2>1. UseStat(object, "index") /\ response' = response
    BY <1>4 DEF StatIndex
  <2>2. object.size \in Int
    BY <1>1, <1>2
  <2>3. object = fs["index"] => object.kind # "none"
    BY <1>1, <1>2
  <2>4. object.kind # "dir" => object = fs["index"]
    OBVIOUS
  <2>5. object \in {fs["index"], [kind |-> "dir", size |-> request.size]}
    OBVIOUS
  <2> HIDE DEF object
  <2>6. request' \in Requests /\ \E cgi \in BOOLEAN : Found(object, "index", cgi)
    BY <1>1, <2>1, <2>2, <2>3, <2>4, UseStatIs DEF Found
  <2> QED
    BY <1>1, <2>1, <2>5, <2>6
<1> QED
  BY <1>3, <1>4

LEMMA FailIs ==
    ASSUME AnswerTypes, NEW code \in Codes, Fail(code)
    PROVE  /\ response' = [response EXCEPT !.Status_code = code]
           /\ response' \in Responses /\ response'.Resp_body = response.Resp_body
           /\ pc' = "HandlerError"
  BY DEF Fail, AnswerTypes, Responses

LEMMA ReadableIs ==
    ASSUME FileTypes, NEW path \in Paths
    PROVE  /\ Readable(fs[path]) \in Contents
           /\ \A i \in DOMAIN Readable(fs[path]) : Readable(fs[path])[i][1] = "file"
           /\ fs[path].kind # "dir" => Len(Readable(fs[path])) = fs[path].size
<1>1. fs[path].size \in Nat
  BY FileIs DEF Paths
<1>2. <<>> \in Contents /\ DOMAIN <<>> = {}
  BY EmptySeq DEF Contents
<1>3. CASE fs[path].kind = "dir"
  BY <1>2, <1>3 DEF Readable
<1>4. CASE fs[path].kind # "dir"
  BY <1>1, <1>4, ContentIs DEF Readable, Contents
<1> QED
  BY <1>3, <1>4

\* The two ways ProcessNonCIG ends.
LEMMA NonCgiIs ==
    ASSUME AnswerTypes, FileTypes, ProcessNonCIG
    PROVE  \/ Fail(NOT_FOUND) /\ fds' = fds
           \/ /\ fs[request.path].kind # "none"
              /\ response' = [response EXCEPT !.Status_code = OK,
                     !.Content_Type = Suffix2Desc(request.suffix),
                     !.Content_Length = request.size,
                     !.file = Readable(fs[request.path])]
              /\ response' \in Responses
              /\ fds' = fds \cup {"file"} /\ pc' = "SendHead"
<1>1. CASE Fail(NOT_FOUND) /\ UNCHANGED fds
  BY <1>1
<1>2. CASE ~(Fail(NOT_FOUND) /\ UNCHANGED fds)
  <2>1. /\ fs[request.path].kind # "none"
        /\ response' = [response EXCEPT !.Status_code = OK,
               !.Content_Type = Suffix2Desc(request.suffix),
               !.Content_Length = request.size,
               !.file = Readable(fs[request.path])]
        /\ fds' = fds \cup {"file"} /\ pc' = "SendHead"
    BY <1>2 DEF ProcessNonCIG
  <2>2. request \in Requests /\ response \in Responses
    BY DEF AnswerTypes
  <2>3. request.size \in Declared
    <3>1. request.size \in Ints
      BY <2>2 DEF Requests
    <3>2. IntMax \in Nat
      BY EndPointAssumption
    <3> QED
      BY <3>1, <3>2 DEF Declared, Ints
  <2>4. Suffix2Desc(request.suffix) \in Types
    BY DescIsKnown DEF Types
  <2>5. Readable(fs[request.path]) \in Contents
    BY <2>2, ReadableIs DEF Requests
  <2>6. OK \in Codes
    BY DEF Codes
  <2>7. response' \in Responses
    BY <2>1, <2>2, <2>3, <2>4, <2>5, <2>6 DEF Responses
  <2> QED
    BY <2>1, <2>7
<1> QED
  BY <1>1, <1>2

\* What ProcessCIG leaves, with the code it returns.
LEMMA CgiIs ==
    ASSUME AnswerTypes, ProcessCIG
    PROVE  \E n \in Totals, code \in Codes :
              /\ response' = [response EXCEPT !.Status_code = code,
                     !.Resp_body = Content("cgi", n),
                     !.Content_Type = IF code = OK THEN Suffix2Desc(request.suffix) ELSE @,
                     !.Content_Length = IF code = OK THEN n ELSE @]
              /\ response' \in Responses
              /\ Content("cgi", n) \in Contents /\ Len(Content("cgi", n)) = n
              /\ \A i \in DOMAIN Content("cgi", n) : Content("cgi", n)[i][1] = "cgi"
              /\ pc' = IF code = OK THEN "SendHead" ELSE "HandlerError"
<1>1. PICK n \in 0..MaxOutput :
      \E code \in CodesWith(n, fs[request.path].kind = "prog") :
          /\ response' = [response EXCEPT !.Status_code = code,
                 !.Resp_body = Content("cgi", n),
                 !.Content_Type = IF code = OK THEN Suffix2Desc(request.suffix) ELSE @,
                 !.Content_Length = IF code = OK THEN n ELSE @]
          /\ pc' = IF code = OK THEN "SendHead" ELSE "HandlerError"
  BY DEF ProcessCIG
<1>2. PICK code \in CodesWith(n, fs[request.path].kind = "prog") :
          /\ response' = [response EXCEPT !.Status_code = code,
                 !.Resp_body = Content("cgi", n),
                 !.Content_Type = IF code = OK THEN Suffix2Desc(request.suffix) ELSE @,
                 !.Content_Length = IF code = OK THEN n ELSE @]
          /\ pc' = IF code = OK THEN "SendHead" ELSE "HandlerError"
  BY <1>1
<1>3. code \in Codes
  BY DEF CodesWith, Codes
<1>4. n \in Totals /\ n \in Nat /\ n \in Declared
  BY DEF Totals, Declared
<1>5. /\ Content("cgi", n) \in Contents /\ Len(Content("cgi", n)) = n
      /\ \A i \in DOMAIN Content("cgi", n) : Content("cgi", n)[i][1] = "cgi"
  BY <1>4, ContentIs DEF Contents
<1>6. response' \in Responses
  <2>1. Suffix2Desc(request.suffix) \in Types
    BY DescIsKnown DEF Types
  <2>2. response \in Responses
    BY DEF AnswerTypes
  <2> QED
    BY <1>2, <1>3, <1>4, <1>5, <2>1, <2>2 DEF Responses
<1> QED
  BY <1>2, <1>3, <1>4, <1>5, <1>6

\* The error page, or nothing.
LEMMA ErrorIs ==
    ASSUME AnswerTypes, FileTypes, HandlerError
    PROVE  /\ pc' = "SendHead" /\ request' \in Requests /\ response' \in Responses
           /\ \/ /\ request' = [request EXCEPT !.cgi = FALSE, !.size = ToInt(fs["error"].size)]
                 /\ response' = [response EXCEPT !.Content_Type = "html",
                        !.Content_Length = fs["error"].size,
                        !.file = Content("error", fs["error"].size)]
                 /\ fds' = fds \cup {"file"}
              \/ /\ request' = [request EXCEPT !.cgi = FALSE]
                 /\ UNCHANGED <<response, fds>>
<1>1. request \in Requests /\ response \in Responses /\ FALSE \in BOOLEAN
  BY DEF AnswerTypes
<1>2. pc' = "SendHead"
  BY DEF HandlerError, ErrorPage
<1>3. fs["error"].size \in Nat
  BY FileIs
<1>4. CASE /\ request' = [request EXCEPT !.cgi = FALSE, !.size = ToInt(fs["error"].size)]
           /\ response' = [response EXCEPT !.Content_Type = "html",
                  !.Content_Length = fs["error"].size,
                  !.file = Content("error", fs["error"].size)]
           /\ fds' = fds \cup {"file"}
  <2>1. ToInt(fs["error"].size) \in Ints
    BY <1>3, ToIntRange
  <2>2. "html" \in Types /\ fs["error"].size \in Declared
    BY <1>3 DEF Types, Known, Declared
  <2>3. Content("error", fs["error"].size) \in Contents
    BY <1>3, ContentIs DEF Contents
  <2>4. request' \in Requests
    BY <1>1, <1>4, <2>1 DEF Requests
  <2>5. response' \in Responses
    BY <1>1, <1>4, <2>2, <2>3 DEF Responses
  <2> QED
    BY <1>2, <1>4, <2>4, <2>5
<1>5. CASE request' = [request EXCEPT !.cgi = FALSE] /\ UNCHANGED <<response, fds>>
  <2>1. request' \in Requests
    BY <1>1, <1>5 DEF Requests
  <2> QED
    BY <1>1, <1>2, <1>5, <2>1
<1> QED
  BY <1>4, <1>5 DEF HandlerError, ErrorPage

BuildStep ==
    CheckMethod \/ StatPath \/ StatIndex \/ ProcessNonCIG \/ ProcessCIG \/ HandlerError

LEMMA BuildUnchanged ==
    BuildStep => UNCHANGED <<stream, peer, unread, lost, fs, changes, taken, stop, wire>>
BY DEF BuildStep, CheckMethod, StatPath, StatIndex, ProcessNonCIG, ProcessCIG, HandlerError,
       ErrorPage, buildUnchanged, netVars, fsVars

LEMMA BuildingKeepsTypes ==
    ASSUME EndTypes, BuildStep
    PROVE  EndTypes'
<1> USE DEF EndTypes
<1>1. UNCHANGED <<stream, peer, unread, lost, fs, changes, taken, stop, wire>>
  BY BuildUnchanged
<1>2. NetTypes' /\ FileTypes'
  BY <1>1 DEF NetTypes, FileTypes
<1> DEFINE Done ==
        /\ request' \in Requests /\ response' \in Responses
        /\ Len(response'.Resp_body) <= MaxOutput
        /\ pc' \in Building \cup {"HandlerError", "SendHead"}
        /\ fds' \subseteq {"sock", "file"}
<1>3. /\ request \in Requests /\ response \in Responses
      /\ Len(response.Resp_body) <= MaxOutput /\ fds \subseteq {"sock", "file"}
  BY DEF AnswerTypes, HandlerTypes
<1>4. ASSUME CheckMethod PROVE Done
  <2>1. fds' = fds
    BY <1>4 DEF CheckMethod
  <2>2. CASE Fail(BAD_REQUSET) /\ request' = request
    <3>1. BAD_REQUSET \in Codes
      BY DEF Codes
    <3> QED
      BY <1>3, <2>1, <2>2, <3>1, FailIs
  <2>3. ASSUME NEW cgi \in BOOLEAN, NEW path \in Paths,
               request' = [request EXCEPT !.cgi = cgi, !.path = path],
               pc' = "stat", response' = response
        PROVE  Done
    <3>1. request' \in Requests
      BY <1>3, <2>3 DEF Requests
    <3> QED
      BY <1>3, <2>1, <2>3, <3>1 DEF Building
  <2> QED
    BY <1>4, <2>2, <2>3, CheckMethodIs
<1>5. ASSUME StatPath \/ StatIndex PROVE Done
  <2>1. fds' = fds
    BY <1>5 DEF StatPath, StatIndex
  <2>2. CASE Fail(NOT_FOUND) /\ request' = request
    <3>1. NOT_FOUND \in Codes
      BY DEF Codes
    <3> QED
      BY <1>3, <2>1, <2>2, <3>1, FailIs
  <2>3. CASE pc' = "restat" /\ response' = response /\ request' \in Requests
    BY <1>3, <2>1, <2>3 DEF Building
  <2>4. CASE /\ response' = response /\ request' \in Requests
             /\ pc' \in {"ProcessCIG", "ProcessNonCIG"}
    BY <1>3, <2>1, <2>4 DEF Building
  <2>5. (\E cgi \in BOOLEAN, path \in Paths :
         \E object \in {fs[path], [kind |-> "dir", size |-> request.size]} : Found(object, path, cgi))
            => pc' \in {"ProcessCIG", "ProcessNonCIG"}
    BY DEF Found
  <2> QED
    BY <1>5, <2>2, <2>3, <2>4, <2>5, StatIs
<1>6. ASSUME ProcessNonCIG PROVE Done
  <2>1. request' = request
    BY <1>6 DEF ProcessNonCIG
  <2>2. CASE Fail(NOT_FOUND) /\ fds' = fds
    <3>1. NOT_FOUND \in Codes
      BY DEF Codes
    <3> QED
      BY <1>3, <2>1, <2>2, <3>1, FailIs
  <2>3. CASE ~(Fail(NOT_FOUND) /\ fds' = fds)
    <3>1. /\ response' = [response EXCEPT !.Status_code = OK,
                 !.Content_Type = Suffix2Desc(request.suffix),
                 !.Content_Length = request.size,
                 !.file = Readable(fs[request.path])]
          /\ response' \in Responses
          /\ fds' = fds \cup {"file"} /\ pc' = "SendHead"
      BY <1>6, <2>3, NonCgiIs
    <3>2. response'.Resp_body = response.Resp_body
      BY <1>3, <3>1 DEF Responses
    <3> QED
      BY <1>3, <2>1, <3>1, <3>2
  <2> QED
    BY <2>2, <2>3
<1>7. ASSUME ProcessCIG PROVE Done
  <2>1. PICK n \in Totals, code \in Codes :
          /\ response' = [response EXCEPT !.Status_code = code,
                 !.Resp_body = Content("cgi", n),
                 !.Content_Type = IF code = OK THEN Suffix2Desc(request.suffix) ELSE @,
                 !.Content_Length = IF code = OK THEN n ELSE @]
          /\ response' \in Responses
          /\ Len(Content("cgi", n)) = n
          /\ pc' = IF code = OK THEN "SendHead" ELSE "HandlerError"
    BY <1>7, CgiIs
  <2>2. response'.Resp_body = Content("cgi", n)
    BY <1>3, <2>1 DEF Responses
  <2>3. Len(response'.Resp_body) <= MaxOutput
    BY <2>1, <2>2, EndPointAssumption DEF Totals
  <2>4. request' = request /\ fds' = fds
    BY <1>7 DEF ProcessCIG
  <2> QED
    BY <1>3, <2>1, <2>3, <2>4
<1>8. ASSUME HandlerError PROVE Done
  <2>1. /\ pc' = "SendHead" /\ request' \in Requests /\ response' \in Responses
        /\ fds' \subseteq {"sock", "file"}
    BY <1>3, <1>8, ErrorIs
  <2>2. response'.Resp_body = response.Resp_body
    BY <1>3, <1>8, ErrorIs DEF Responses
  <2> QED
    BY <1>3, <2>1, <2>2
<1>9. Done
  BY <1>4, <1>5, <1>6, <1>7, <1>8 DEF BuildStep
<1>10. HandlerTypes' /\ AnswerTypes'
  BY <1>1, <1>9 DEF HandlerTypes, AnswerTypes
<1> QED
  BY <1>2, <1>10

LEMMA PrefixIs ==
    ASSUME NEW file \in Contents, NEW n \in 0..Len(file)
    PROVE  /\ SubSeq(file, 1, n) \in Contents /\ Len(SubSeq(file, 1, n)) = n
           /\ \A i \in DOMAIN SubSeq(file, 1, n) :
                  i \in DOMAIN file /\ SubSeq(file, 1, n)[i] = file[i]
<1> USE DEF Contents
<1>1. DOMAIN file = 1..Len(file) /\ Len(file) \in Nat
  OBVIOUS
<1>2. \A i \in 1..n : file[i] \in Bytes
  BY <1>1, ElementOfSeq
<1>3. /\ SubSeq(file, 1, n) \in Seq(Bytes)
      /\ Len(SubSeq(file, 1, n)) = IF 1 <= n THEN n - 1 + 1 ELSE 0
      /\ \A i \in 1..(n - 1 + 1) : SubSeq(file, 1, n)[i] = file[1 + i - 1]
  BY <1>2, SubSeqProperties
<1>4. Len(SubSeq(file, 1, n)) = n
  BY <1>1, <1>3
<1>5. DOMAIN SubSeq(file, 1, n) = 1..n
  BY <1>3, <1>4
<1>6. \A i \in 1..n : SubSeq(file, 1, n)[i] = file[i] /\ i \in DOMAIN file
  BY <1>1, <1>3
<1> QED
  BY <1>3, <1>4, <1>5, <1>6

\* What one sendfile can move: nothing for a negative count, the whole file if
\* that is its count and not too large, and never more than there is.
LEMMA SentIs ==
    ASSUME NEW file \in Contents, NEW count \in Int
    PROVE  /\ Sent(file, count) \in Contents /\ Len(Sent(file, count)) \in 0..Len(file)
           /\ count < 0 => Len(Sent(file, count)) = 0
           /\ count >= 0 => Len(Sent(file, count)) <= count
           /\ Len(Sent(file, count)) <= MaxSend
           /\ count = Len(file) /\ count <= MaxSend => Len(Sent(file, count)) = count
<1>1. Len(file) \in Nat /\ MaxSend \in Nat
  BY EndPointAssumption, LenProperties DEF Contents
<1>2. CASE count < 0
  <2>1. Sent(file, count) = <<>>
    BY <1>2 DEF Sent
  <2>2. Sent(file, count) \in Contents /\ Len(Sent(file, count)) = 0
    BY <2>1, EmptySeq DEF Contents
  <2>3. 0 \in 0..Len(file) /\ 0 <= MaxSend /\ ~(count >= 0) /\ count # Len(file)
    BY <1>1, <1>2
  <2> QED
    BY <1>2, <2>2, <2>3
<1>3. CASE count >= 0
  <2> DEFINE S == {count, Len(file), MaxSend}
             n == Least(S)
  <2>1. S \in SUBSET Nat /\ S # {}
    BY <1>1, <1>3
  <2> HIDE DEF S
  <2>2. n \in S /\ \A m \in S : n <= m
    BY <2>1, LeastIs
  <2>3. n \in {count, Len(file), MaxSend} /\ n <= count /\ n <= Len(file) /\ n <= MaxSend
    BY <2>2 DEF S
  <2>4. Sent(file, count) = SubSeq(file, 1, n)
    <3>1. ~(count < 0)
      BY <1>3
    <3> QED
      BY <3>1, Zenon DEF Sent, S
  <2> HIDE DEF n
  <2>5. n \in 0..Len(file)
    BY <1>1, <1>3, <2>3
  <2>6. Sent(file, count) \in Contents /\ Len(Sent(file, count)) = n
    BY <2>4, <2>5, PrefixIs
  <2> QED
    BY <1>1, <1>3, <2>3, <2>5, <2>6
<1> QED
  BY <1>2, <1>3

SendStep == SendHead \/ SendCgi \/ SendFile \/ Close

LEMMA SendUnchanged ==
    SendStep => UNCHANGED <<stream, peer, lost, fs, changes, taken, stop, request>>
BY DEF SendStep, SendHead, SendCgi, SendRound, SendFile, SendBytes, Close,
       sendUnchanged, fsVars

\* The head goes out, unless the client is gone.
LEMMA SendHeadIs ==
    ASSUME NetTypes, AnswerTypes, SendHead
    PROVE  /\ UNCHANGED <<response, fds>> /\ unread' \in 0..Window /\ wire' \in Wires
           /\ pc' = IF request.cgi THEN "SendCgi" ELSE "SendFile"
           /\ wire' = IF peer = "gone" THEN wire
                      ELSE [wire EXCEPT !.status = response.Status_code,
                                        !.type = response.Content_Type,
                                        !.length = response.Content_Length]
<1>1. UNCHANGED <<response, fds>> /\ pc' = IF request.cgi THEN "SendCgi" ELSE "SendFile"
  BY DEF SendHead
<1>2. CASE peer = "gone"
  BY <1>1, <1>2 DEF SendHead, Send, NetTypes, AnswerTypes
<1>3. CASE peer # "gone"
  <2>1. /\ wire' = [wire EXCEPT !.status = response.Status_code,
                                !.type = response.Content_Type,
                                !.length = response.Content_Length]
        /\ unread < Window /\ unread' = unread + 1
    BY <1>3 DEF SendHead, Send
  <2>2. unread' \in 0..Window
    BY <2>1, EndPointAssumption DEF NetTypes
  <2>3. wire' \in Wires
    BY <2>1 DEF AnswerTypes, Responses, Wires
  <2> QED
    BY <1>1, <1>3, <2>1, <2>2, <2>3
<1> QED
  BY <1>2, <1>3

\* One round of the loop, and the last one.
Rest == SubSeq(response.Resp_body, response.total + 1, Len(response.Resp_body))

LEMMA SendCgiIs ==
    ASSUME NetTypes, AnswerTypes, SendCgi
    PROVE  /\ fds' = fds /\ unread' \in 0..Window /\ wire' \in Wires /\ response' \in Responses
           /\ response'.Resp_body = response.Resp_body
           /\ \/ /\ response.total < Len(response.Resp_body)
                 /\ Rest \in Contents
                 /\ Len(Rest) = Len(response.Resp_body) - response.total
                 /\ \A i \in DOMAIN Rest : /\ i + response.total \in DOMAIN response.Resp_body
                                           /\ Rest[i] = response.Resp_body[i + response.total]
                 /\ wire' = IF peer = "gone" THEN wire
                            ELSE [wire EXCEPT !.body = wire.body \o Rest]
                 /\ response' = [response EXCEPT !.total = response.total + 1]
                 /\ pc' = IF peer = "gone" THEN "close" ELSE "SendCgi"
              \/ /\ response.total = Len(response.Resp_body) \/ response.total > Len(response.Resp_body)
                 /\ pc' = "close" /\ UNCHANGED <<wire, response>>
<1> DEFINE body == response.Resp_body
           total == response.total
<1>1. /\ body \in Seq(Bytes) /\ total \in 0..MaxOutput /\ Len(body) <= MaxOutput
      /\ Len(body) \in Nat /\ DOMAIN body = 1..Len(body) /\ MaxOutput \in Nat
  BY LenProperties, EndPointAssumption DEF AnswerTypes, Responses, Contents, Totals
<1>2. fds' = fds
  BY DEF SendCgi, SendRound
<1>3. CASE total < Len(body)
  <2>1. /\ Transmit(Rest) /\ response' = [response EXCEPT !.total = total + 1]
        /\ pc' = IF peer = "gone" THEN "close" ELSE "SendCgi"
    BY <1>3 DEF SendCgi, SendRound, Rest
  <2>2. /\ Rest \in Seq(Bytes) /\ Len(Rest) = Len(body) - total
        /\ \A i \in DOMAIN Rest : i + total \in DOMAIN body /\ Rest[i] = body[i + total]
    <3> HIDE DEF body, total
    <3>1. \A i \in (total + 1)..Len(body) : body[i] \in Bytes
      BY <1>1, ElementOfSeq
    <3>2. Rest = SubSeq(body, total + 1, Len(body))
      BY DEF Rest, body, total
    <3>3. /\ SubSeq(body, total + 1, Len(body)) \in Seq(Bytes)
          /\ Len(SubSeq(body, total + 1, Len(body))) =
                IF total + 1 <= Len(body) THEN Len(body) - (total + 1) + 1 ELSE 0
          /\ \A i \in 1..(Len(body) - (total + 1) + 1) :
                SubSeq(body, total + 1, Len(body))[i] = body[total + 1 + i - 1]
      BY <1>1, <3>1, SubSeqProperties
    <3> DEFINE n == Len(body)
    <3>4. Rest \in Seq(Bytes) /\ Len(Rest) = n - total
      <4>1. total + 1 <= n /\ n - (total + 1) + 1 = n - total
        BY <1>1, <1>3
      <4>2. Rest \in Seq(Bytes) /\ Len(Rest) = IF total + 1 <= n THEN n - (total + 1) + 1 ELSE 0
        BY <3>2, <3>3
      <4> HIDE DEF n
      <4> QED
        BY <4>1, <4>2
    <3>5. DOMAIN Rest = 1..(Len(body) - total)
      BY <3>4
    <3>6. \A i \in 1..(Len(body) - total) : total + 1 + i - 1 = i + total /\ i + total \in 1..Len(body)
      BY <1>1
    <3>7. \A i \in 1..(Len(body) - total) : Rest[i] = body[i + total]
      BY <1>1, <3>2, <3>3, <3>6
    <3> QED
      BY <1>1, <3>4, <3>5, <3>6, <3>7
  <2>3. Rest # <<>>
    <3>1. Len(Rest) # 0
      BY <1>1, <1>3, <2>2
    <3> QED
      BY <3>1
  <2>4. wire \in Wires /\ Rest \in Contents
    BY <2>2 DEF AnswerTypes, Contents
  <2>5. /\ wire' \in Wires /\ unread' \in 0..Window
        /\ wire' = IF peer = "gone" THEN wire ELSE [wire EXCEPT !.body = wire.body \o Rest]
    BY <2>1, <2>3, <2>4, TransmitIs
  <2>6. total + 1 \in Totals
    BY <1>1, <1>3 DEF Totals
  <2>7. response' \in Responses /\ response'.Resp_body = body
    <3> HIDE DEF total
    <3> QED
      BY <2>1, <2>6 DEF AnswerTypes, Responses
  <2> QED
    BY <1>2, <1>3, <2>1, <2>2, <2>4, <2>5, <2>7
<1>4. CASE ~(total < Len(body))
  <2>1. pc' = "close" /\ UNCHANGED <<wire, unread, response>>
    BY <1>4 DEF SendCgi, SendRound
  <2>2. total = Len(body) \/ total > Len(body)
    BY <1>1, <1>4
  <2> QED
    BY <1>2, <2>1, <2>2 DEF NetTypes, AnswerTypes
<1> QED
  BY <1>3, <1>4

\* Bytes from the file's start, as many as one sendfile moves or fewer.
LEMMA SendFileIs ==
    ASSUME NetTypes, AnswerTypes, SendFile
    PROVE  /\ pc' = "close" /\ fds' = fds \ {"file"}
           /\ unread' \in 0..Window /\ wire' \in Wires /\ response' \in Responses
           /\ \E bytes \in Contents :
                 /\ Len(bytes) <= Len(Sent(response.file, request.size))
                 /\ \A i \in DOMAIN bytes :
                       i \in DOMAIN response.file /\ bytes[i] = response.file[i]
                 /\ wire' = IF peer = "gone" \/ bytes = <<>> THEN wire
                            ELSE [wire EXCEPT !.body = wire.body \o bytes]
                 /\ response' = [response EXCEPT
                       !.short = Len(bytes) < Len(Sent(response.file, request.size))]
<1> DEFINE sent == Sent(response.file, request.size)
<1>1. request.size \in Int /\ response.file \in Contents /\ wire \in Wires
  BY EndPointAssumption DEF AnswerTypes, Requests, Responses, Ints
<1>2. Len(response.file) \in Nat /\ Len(sent) \in 0..Len(response.file)
  BY <1>1, SentIs, LenProperties DEF Contents
<1>3. pc' = "close" /\ fds' = fds \ {"file"}
  BY DEF SendFile, SendBytes
<1>4. PICK n \in 0..Len(sent) : SendBytes(SubSeq(response.file, 1, n))
  BY DEF SendFile
<1> DEFINE bytes == SubSeq(response.file, 1, n)
<1>5. n \in 0..Len(response.file)
  <2> HIDE DEF sent
  <2> QED
    BY <1>2, <1>4
<1>6. /\ bytes \in Contents /\ Len(bytes) = n
      /\ \A i \in DOMAIN bytes : i \in DOMAIN response.file /\ bytes[i] = response.file[i]
  BY <1>1, <1>5, PrefixIs
<1>7. /\ Transmit(bytes)
      /\ response' = [response EXCEPT !.short = Len(bytes) < Len(sent)]
  BY <1>4 DEF SendBytes
<1> HIDE DEF bytes, sent
<1>8. /\ wire' \in Wires /\ unread' \in 0..Window
      /\ wire' = IF peer = "gone" \/ bytes = <<>> THEN wire
                 ELSE [wire EXCEPT !.body = wire.body \o bytes]
  BY <1>1, <1>6, <1>7, TransmitIs
<1> DEFINE short == Len(bytes) < Len(sent)
<1>9. short \in BOOLEAN
  OBVIOUS
<1>10. response' = [response EXCEPT !.short = short]
  BY <1>7
<1> HIDE DEF short
<1>11. response' \in Responses
  BY <1>9, <1>10 DEF AnswerTypes, Responses
<1>12. Len(bytes) <= Len(sent)
  BY <1>2, <1>4, <1>6
<1> QED
  BY <1>3, <1>6, <1>7, <1>8, <1>11, <1>12 DEF sent

\* Sending does not change what was prepared.
LEMMA SendKeepsResponse ==
    ASSUME NetTypes, AnswerTypes, SendStep
    PROVE  /\ response'.Status_code = response.Status_code
           /\ response'.Content_Type = response.Content_Type
           /\ response'.Content_Length = response.Content_Length
           /\ response'.Resp_body = response.Resp_body
           /\ response'.file = response.file
<1>1. response \in Responses
  BY DEF AnswerTypes
<1>2. CASE SendHead \/ Close
  BY <1>2 DEF SendHead, Close
<1>3. CASE SendCgi
  <2>1. response' = response \/ response' = [response EXCEPT !.total = response.total + 1]
    BY <1>3, SendCgiIs
  <2> QED
    BY <1>1, <2>1 DEF Responses
<1>4. CASE SendFile
  <2>1. PICK short : response' = [response EXCEPT !.short = short]
    BY <1>4, SendFileIs
  <2> QED
    BY <1>1, <2>1 DEF Responses
<1> QED
  BY <1>2, <1>3, <1>4 DEF SendStep

LEMMA SendingKeepsTypes ==
    ASSUME EndTypes, SendStep
    PROVE  EndTypes'
<1> USE DEF EndTypes
<1>1. UNCHANGED <<stream, peer, lost, fs, changes, taken, stop, request>>
  BY SendUnchanged
<1> DEFINE Done ==
        /\ response' \in Responses /\ wire' \in Wires
        /\ response'.Resp_body = response.Resp_body
        /\ unread' \in 0..Window
        /\ pc' \in {"SendCgi", "SendFile", "close", "done"}
        /\ fds' \subseteq {"sock", "file"}
<1>2. /\ response \in Responses /\ wire \in Wires
      /\ fds \subseteq {"sock", "file"}
  BY DEF AnswerTypes, HandlerTypes
<1>3. ASSUME SendHead PROVE Done
  BY <1>2, <1>3, SendHeadIs
<1>4. ASSUME SendCgi PROVE Done
  BY <1>2, <1>4, SendCgiIs
<1>5. ASSUME SendFile PROVE Done
  <2>1. response'.Resp_body = response.Resp_body
    BY <1>5, SendKeepsResponse DEF SendStep
  <2> QED
    BY <1>2, <1>5, <2>1, SendFileIs
<1>6. ASSUME Close PROVE Done
  BY <1>2, <1>6 DEF Close, NetTypes
<1>7. Done
  BY <1>3, <1>4, <1>5, <1>6 DEF SendStep
<1>8. NetTypes' /\ FileTypes'
  BY <1>1, <1>7 DEF NetTypes, FileTypes
<1>9. HandlerTypes' /\ AnswerTypes'
  BY <1>1, <1>7 DEF HandlerTypes, AnswerTypes
<1> QED
  BY <1>8, <1>9

LEMMA EndTypesStep == EndTypes /\ [Next]_vars => EndTypes'
<1> SUFFICES ASSUME EndTypes, [Next]_vars
             PROVE  EndTypes'
  OBVIOUS
<1>1. \/ GetRequestLine \/ GetRequestHead \/ ParseHttpRequest \/ RecvHttpRequestBody
      \/ BuildStep \/ SendStep \/ Around
  BY DEF Next, HandlerStep, BuildStep, SendStep, Around
<1> QED
  BY <1>1, ReadingKeepsTypes, BuildingKeepsTypes, SendingKeepsTypes, AroundKeepsTypes

LEMMA TypesImplyTypeOK == EndTypes => TypeOK
<1> SUFFICES ASSUME EndTypes
             PROVE  TypeOK
  OBVIOUS
<1>1. /\ request.method \in {"", "GET", "POST", "OTHER"} /\ request.path \in {"path", "index"}
      /\ request.size \in -(IntMax + 1)..IntMax /\ response.total \in 0..MaxOutput
  BY DEF EndTypes, AnswerTypes, Requests, Responses, Methods, Paths, Ints, Totals
<1> QED
  BY <1>1 DEF EndTypes, NetTypes, FileTypes, HandlerTypes, Items, TypeOK

\* What every variable holds, and that no count leaves its bounds: of items
\* read, of segments on their way, of rounds of the loop that sends the output,
\* and the size a file has as an int.
THEOREM EndTypeCorrect == Spec => []TypeOK
<1>1. Spec => []EndTypes
  BY EndTypesInit, EndTypesStep, PTL DEF Spec
<1> QED
  BY <1>1, TypesImplyTypeOK, PTL

=============================================================================
