--------------------------- MODULE HttpConnection ---------------------------
(***************************************************************************)
(* One connection of the HTTP server in src/Libs/httplib.h, from accept to  *)
(* close: a client sends its requests in pieces of any length, without       *)
(* waiting or waiting for "100 Continue", stops in the middle, is silent,    *)
(* closes or resets the connection; a worker reads requests, calls the       *)
(* handlers of src/Server/Server.cpp and replies.                            *)
(*                                                                         *)
(* What the client will send is a sequence of units, as in Multipart; a      *)
(* request line, a header, the digits of a chunk's length are words:         *)
(*   <<"request", [method, path, query, version]>>, <<"header", name, value>>*)
(*   <<"size", n>>, <<"long", 0>> for more than 8192 characters.             *)
(* A unit counts for one in a Content-Length.                               *)
(*                                                                         *)
(* A call that reads from the socket is one step: nobody else reads, and     *)
(* what arrives in between could have arrived before.                        *)
(***************************************************************************)
EXTENDS Integers, Sequences, FiniteSets, Places, HttpText, Multipart

CONSTANTS
    Scripts,     \* what clients may have to say: sequences of messages
    MaxRequests, \* CPPHTTPLIB_KEEPALIVE_MAX_COUNT
    RecvBuf,     \* CPPHTTPLIB_RECV_BUFSIZ
    MaxNumber,   \* LLONG_MAX, the most that stoll reads
    Texts,       \* what handlers answer, by the kind of the answer
    Steady       \* tables and queries whose handler succeeds; others may fail in any way

ASSUME LimitsAssumption ==
    MaxRequests \in Nat \ {0} /\ RecvBuf \in Nat \ {0} /\ MaxNumber \in Nat

\* The units of the messages that come before place i of a script; what a client says.
Before(s, i) == FlattenSeq([k \in 1..(i - 1) |-> s[k].text])
Said(s) == FlattenSeq([k \in DOMAIN s |-> s[k].text])

IsWord(unit, kind) == Len(unit) > 1 /\ unit[1] = kind

\* What the patterns for request lines, ranges and numbers let through.
Methods == {"GET", "HEAD", "POST", "PUT", "DELETE", "CONNECT", "OPTIONS", "TRACE", "PATCH", "PRI"}
RangeEnds == Nat \union {-1}

WellFormed(unit) ==
    /\ IsWord(unit, "request") => unit[2].method \in Methods
    /\ IsWord(unit, "size") => unit[2] \in Nat
    /\ IsWord(unit, "header") =>
          /\ unit[2] = "Content-Length" => unit[3] \in Nat
          /\ unit[2] = "Range" => unit[3] \in Seq(RangeEnds \X RangeEnds)

ASSUME ScriptsAssumption ==
    \A s \in Scripts :
        /\ Said(s) \in Seq(Range(Said(s))) /\ \A i \in DOMAIN Said(s) : WellFormed(Said(s)[i])
        /\ \A i \in DOMAIN s : i \in Nat /\ Len(Before(s, i)) + s[i].pause \in 0..Len(Said(s))

ASSUME TextsAssumption == \A k \in {"imported", "rows", "error"} : Texts[k] \in Seq(Range(Texts[k]))

VARIABLES
    script,    \* the messages of this client
    stream,    \* their units, one after another
    sent,      \* how many units have left the client
    fin,       \* the client has closed its side
    gone,      \* the connection is reset
    taken,     \* how many units the worker has read
    pc,        \* what the worker does
    left,      \* count of process_server_socket_core
    start,     \* the place in the stream where the request line began
    req,       \* Request
    res,       \* Response
    need,      \* how much of the body, or of the chunk, has not come
    parser,    \* MultipartFormDataParser
    replies,   \* the replies written so far
    calls,     \* the handlers called so far
    continues, \* how often "100 Continue" has been written
    late       \* a read or a write has been given up because nothing moved

client == <<script, stream, sent, fin, gone>>
reading == <<taken, late>>
made == <<replies, calls, continues>>
vars == <<client, reading, made, pc, left, start, req, res, need, parser>>

NoRequest == [method |-> "", version |-> "", path |-> <<>>, params |-> <<>>,
              headers |-> <<>>, ranges |-> <<>>, body |-> <<>>]
NoResponse == [status |-> -1, headers |-> <<>>, body |-> <<>>, head |-> FALSE]

-----------------------------------------------------------------------------
(* The client.                                                              *)

\* Where message i begins, and where its client waits to be told to continue.
BeginOf(i) == Len(Before(script, i))
Waits == {i \in DOMAIN script :
             /\ script[i].pause < Len(script[i].text)
             /\ continues < Cardinality({k \in 1..i : script[k].pause < Len(script[k].text)})
             /\ Len(replies) < i}
SendLimit == IF Waits = {} THEN Len(stream)
             ELSE LET i == CHOOSE i \in Waits : \A k \in Waits : i <= k
                  IN  BeginOf(i) + script[i].pause

Send ==
    /\ ~fin /\ ~gone
    /\ sent' \in (sent + 1)..SendLimit
    /\ UNCHANGED <<script, stream, fin, gone, reading, made, pc, left, start, req, res,
                   need, parser>>

Close ==
    /\ ~fin /\ ~gone
    /\ fin' = TRUE
    /\ UNCHANGED <<script, stream, sent, gone, reading, made, pc, left, start, req, res,
                   need, parser>>

Reset ==
    /\ ~gone /\ pc # "closed"
    /\ gone' = TRUE
    /\ UNCHANGED <<script, stream, sent, fin, reading, made, pc, left, start, req, res,
                   need, parser>>

-----------------------------------------------------------------------------
(* Reading from the socket.                                                 *)

Arrived == SubSeq(stream, taken + 1, sent)
AtEnd == ~gone /\ fin /\ Arrived = <<>>

\* select_read returns 0: for five seconds nothing has come.
Silence == ~gone /\ ~fin

\* What SocketStream::read of at most limit characters gets.
Piece(limit) ==
    LET n == CHOOSE n \in {limit, RecvBuf, Len(Arrived)} :
                 \A k \in {limit, RecvBuf, Len(Arrived)} : n <= k
    IN  SubSeq(Arrived, 1, n)

\* It gets something, the end of the connection (n = 0), or fails (n < 0).
Read(limit, Got(_), Ended, Failed) ==
    \/ /\ ~gone /\ Arrived # <<>>
       /\ taken' = taken + Len(Piece(limit)) /\ Got(Piece(limit))
       /\ UNCHANGED late
    \/ AtEnd /\ Ended /\ UNCHANGED reading
    \/ gone /\ Failed /\ UNCHANGED reading
    \/ Silence /\ Arrived = <<>> /\ Failed /\ late' = TRUE /\ UNCHANGED taken

\* stream_line_reader::getline, which asks for one character after another: a line
\* with its line feed, what stands before the end of the connection, or a failure.
\* What it has read before it fails is lost.
LineLength ==
    LET ends == {i \in DOMAIN Arrived : Arrived[i] = LF}
    IN  IF ends # {}  THEN CHOOSE i \in ends : \A k \in ends : i <= k
        ELSE IF fin   THEN Len(Arrived)
        ELSE 0

GetLine(Got(_), Failed) ==
    \/ /\ ~gone /\ LineLength > 0
       /\ taken' = taken + LineLength
       /\ Got(SubSeq(Arrived, 1, LineLength))
       /\ UNCHANGED late
    \/ (gone \/ AtEnd) /\ Failed /\ UNCHANGED reading
    \/ Silence /\ LineLength = 0 /\ Failed /\ taken' = sent /\ late' = TRUE

\* select_write returns 0: for five seconds the client has not read enough.
NoRoom == ~gone

\* SocketStream::write, of all that is given.
Write(Wrote(_)) ==
    \/ ~gone /\ Wrote(TRUE) /\ UNCHANGED reading
    \/ gone /\ Wrote(FALSE) /\ UNCHANGED reading
    \/ NoRoom /\ Wrote(FALSE) /\ late' = TRUE /\ UNCHANGED taken

end_with_crlf(line) == Len(line) >= 2 /\ SubSeq(line, Len(line) - 1, Len(line)) = CrLf

\* An exception that nobody catches ends the thread, and with it the process.
EndProcess == pc' = "terminated"

\* The next thing the worker does is to write this status.
Answer(status) == res' = [res EXCEPT !.status = status] /\ pc' = "reply"

-----------------------------------------------------------------------------
(* The headers of Request and Response, and what is asked of them.           *)

HeaderOf(r, name, absent) ==
    LET at == {i \in DOMAIN r.headers : r.headers[i][2] = name}
    IN  IF at = {} THEN absent
        ELSE r.headers[CHOOSE i \in at : \A k \in at : i <= k][3]

NoType == [type |-> "", boundary |-> <<>>]
ContentType(r) == HeaderOf(r, "Content-Type", NoType)
is_multipart_form_data(r) == ContentType(r).type = "multipart/form-data"
BoundaryOf(r) == parse_multipart_boundary(decode_url(ContentType(r).boundary, TRUE))

\* The mistake of reading a body only where its length is announced.
expect_content_OnlyWithLength(r) ==
    /\ r.method \in {"POST", "PUT", "PATCH", "PRI", "DELETE"}
    /\ HeaderOf(r, "Content-Length", -1) # -1

\* DELETE brings a body only with a Content-Length.
expect_content(r) ==
    \/ r.method \in {"POST", "PUT", "PATCH", "PRI"}
    \/ r.method = "DELETE" /\ HeaderOf(r, "Content-Length", -1) # -1

-----------------------------------------------------------------------------
(* process_server_socket_core and keep_alive.                               *)

AwaitRequest ==
    /\ pc = "keep_alive"
    /\ Arrived # <<>> \/ fin \/ gone
    /\ pc' = "request line"
    /\ UNCHANGED <<client, reading, made, left, start, req, res, need, parser>>

\* More than five seconds without a character.
IdleTooLong ==
    /\ pc = "keep_alive"
    /\ Silence /\ Arrived = <<>>
    /\ pc' = "close"
    /\ UNCHANGED <<client, reading, made, left, start, req, res, need, parser>>

\* shutdown_socket and close_socket in process_and_close_socket.
CloseSocket ==
    /\ pc = "close"
    /\ pc' = "closed"
    /\ UNCHANGED <<client, reading, made, left, start, req, res, need, parser>>

-----------------------------------------------------------------------------
(* The request line and the headers, in process_request.                    *)

\* parse_request_line: the path is decoded, the query taken apart.
parse_request_line(line) ==
    LET given == line[1][2]
    IN  [NoRequest EXCEPT !.method = given.method, !.version = given.version,
                          !.path = decode_url(given.path, FALSE),
                          !.params = parse_query_text(given.query)]

IsRequestLine(line) ==
    Len(line) = 3 /\ IsWord(line[1], "request") /\ end_with_crlf(line)

\* A line that is no request line is refused at once: its headers are not read.
GotRequestLine(line) ==
    IF \E i \in DOMAIN line : IsWord(line[i], "long")
    THEN req' = NoRequest /\ res' = NoResponse /\ pc' = "skip headers"
    ELSE IF ~IsRequestLine(line)
    THEN req' = NoRequest /\ res' = [NoResponse EXCEPT !.status = 400] /\ pc' = "reply"
    ELSE IF QueryEndsProcess(line[1][2].query) THEN EndProcess /\ UNCHANGED <<req, res>>
    ELSE req' = parse_request_line(line) /\ res' = NoResponse /\ pc' = "headers"

\* process_request returns false, and the connection is closed without a reply.
HangUp == pc' = "close" /\ UNCHANGED <<req, res>>

ReadRequestLine ==
    /\ pc = "request line"
    /\ start' = taken
    /\ GetLine(GotRequestLine, HangUp)
    /\ UNCHANGED <<client, made, left, need, parser>>

\* One line in read_headers.  A line that does not end as it should, or that has no
\* colon, is passed over; of several headers of one name the first one counts.
parse_header(line) ==
    req' = IF Len(line) = 3 /\ end_with_crlf(line) /\ IsWord(line[1], "header")
           THEN [req EXCEPT !.headers = Append(@, line[1])] ELSE req

\* The headers of a request line that is too long go nowhere.
SkipHeader ==
    /\ pc = "skip headers"
    /\ GetLine(LAMBDA line : IF line = CrLf THEN Answer(414) ELSE UNCHANGED <<pc, res>>,
               Answer(414))
    /\ UNCHANGED <<client, made, left, start, req, need, parser>>

\* Behind the last header.
ParseRanges(onward) ==
    LET given == HeaderOf(req, "Range", <<>>)
    IN  IF RangesEndProcess(given, MaxNumber) THEN EndProcess /\ UNCHANGED req
        ELSE req' = [req EXCEPT !.ranges = parse_range_header(given)] /\ pc' = onward

\* The mistake of not asking whether the client waits.
GotHeader_NoContinue(line) ==
    IF line = CrLf THEN ParseRanges("routing")
    ELSE parse_header(line) /\ UNCHANGED pc

\* process_request also notes connection_closed, which
\* process_server_socket takes by value, so that it has no effect on the loop.
GotHeader(line) ==
    IF line = CrLf
    THEN ParseRanges(IF HeaderOf(req, "Expect", "") = "100-continue" THEN "continue"
                     ELSE "routing")
    ELSE parse_header(line) /\ UNCHANGED pc

ReadHeader ==
    /\ pc = "headers"
    /\ GetLine(LAMBDA line : GotHeader(line) /\ UNCHANGED res, Answer(400) /\ UNCHANGED req)
    /\ UNCHANGED <<client, made, left, start, need, parser>>

\* There is no expect_100_continue_handler_.
WriteContinue ==
    /\ pc = "continue"
    /\ Write(LAMBDA done : continues' = IF done THEN continues + 1 ELSE continues)
    /\ pc' = "routing"
    /\ UNCHANGED <<client, replies, calls, left, start, req, res, need, parser>>

-----------------------------------------------------------------------------
(* routing: the body is read before a handler is looked for.                *)

is_chunked_transfer_encoding == HeaderOf(req, "Transfer-Encoding", "") = "chunked"

\* read_content: which of its loops reads the body.
read_content ==
    LET length == HeaderOf(req, "Content-Length", -1)
    IN  /\ need' = IF ~is_chunked_transfer_encoding /\ length > 0 THEN length ELSE 0
        /\ pc' = IF is_chunked_transfer_encoding THEN "chunk size"
                 ELSE CASE length = -1 -> "until close"
                        [] length = 0  -> "received"
                        [] length > 0  -> "with length"
        /\ UNCHANGED res

\* A coding of the body, even "deflate", is refused: no decompressor is built in.
prepare_content_receiver ==
    IF HeaderOf(req, "Content-Encoding", "") \in {"gzip", "deflate", "br"}
    THEN Answer(415) /\ need' = 0
    ELSE read_content

\* The beginning of read_content_core.
PrepareContent ==
    IF is_multipart_form_data(req) /\ BoundaryOf(req) = <<>> THEN Answer(400) /\ need' = 0
    ELSE prepare_content_receiver

Routing ==
    /\ pc = "routing"
    /\ IF expect_content(req)
       THEN PrepareContent /\ parser' = NewParser(BoundaryOf(req))
       ELSE pc' = "dispatch" /\ UNCHANGED <<res, need, parser>>
    /\ UNCHANGED <<client, reading, made, left, start, req>>

\* The receiver of read_content: the body grows, or the parser is called.
Receive(piece, onward) ==
    IF is_multipart_form_data(req)
    THEN /\ parser' = Parse(parser, piece)
         /\ IF parser'.run = "fail" THEN Answer(400) ELSE pc' = onward /\ UNCHANGED res
         /\ UNCHANGED req
    ELSE /\ req' = [req EXCEPT !.body = @ \o piece]
         /\ pc' = onward
         /\ UNCHANGED <<res, parser>>

NotReceived == Answer(400) /\ UNCHANGED <<req, parser>>

\* The mistake of taking the end of the connection for the end of the body.
ReadWithLength_EofIsEnd ==
    /\ pc \in {"with length", "chunk data"}
    /\ Read(need,
            LAMBDA piece :
                /\ need' = need - Len(piece)
                /\ Receive(piece, IF Len(piece) < need THEN pc
                                  ELSE IF pc = "with length" THEN "received" ELSE "chunk end"),
            pc' = "received" /\ UNCHANGED <<req, res, parser, need>>,
            NotReceived /\ UNCHANGED need)
    /\ UNCHANGED <<client, made, left, start>>

\* read_content_with_length, also for the data of a chunk.
ReadWithLength ==
    /\ pc \in {"with length", "chunk data"}
    /\ Read(need,
            LAMBDA piece :
                /\ need' = need - Len(piece)
                /\ Receive(piece, IF Len(piece) < need THEN pc
                                  ELSE IF pc = "with length" THEN "received" ELSE "chunk end"),
            NotReceived /\ UNCHANGED need,
            NotReceived /\ UNCHANGED need)
    /\ UNCHANGED <<client, made, left, start>>

\* read_content_without_length: the body ends where the connection does.
ReadUntilClose ==
    /\ pc = "until close"
    /\ Read(RecvBuf, LAMBDA piece : Receive(piece, pc),
            pc' = "received" /\ UNCHANGED <<req, res, parser>>, NotReceived)
    /\ UNCHANGED <<client, made, left, start, need>>

\* read_content_chunked: strtoul has to find digits.
ReadChunkSize ==
    /\ pc = "chunk size"
    /\ GetLine(LAMBDA line :
                   IF ~IsWord(line[1], "size") THEN Answer(400) /\ UNCHANGED need
                   ELSE /\ need' = line[1][2]
                        /\ pc' = IF line[1][2] = 0 THEN "last chunk" ELSE "chunk data"
                        /\ UNCHANGED res,
               Answer(400) /\ UNCHANGED need)
    /\ UNCHANGED <<client, made, left, start, req, parser>>

\* A chunk that is not followed by the end of a line ends the body, without an error.
ReadChunkEnd ==
    /\ pc = "chunk end"
    /\ GetLine(LAMBDA line : /\ pc' = IF line = CrLf THEN "chunk size" ELSE "received"
                             /\ UNCHANGED res,
               Answer(400))
    /\ UNCHANGED <<client, made, left, start, req, need, parser>>

ReadLastChunk ==
    /\ pc = "last chunk"
    /\ GetLine(LAMBDA line : IF line = CrLf THEN pc' = "received" /\ UNCHANGED res
                             ELSE Answer(400),
               Answer(400))
    /\ UNCHANGED <<client, made, left, start, req, need, parser>>

\* A word in a body is copied like a byte that no text has to be cut at.
Copied == 256
AsText(body) == [i \in DOMAIN body |-> IF Len(body[i]) = 1 THEN body[i][1] ELSE Copied]

\* A body of this type is read as a query string; nobody asks for its parameters, since
\* the handlers that look at parameters are those of Get.
IsUrlEncoded == ContentType(req).type = "application/x-www-form-urlencoded"

\* A multipart body has to have come to its last boundary.
ContentRead ==
    /\ pc = "received"
    /\ IF is_multipart_form_data(req) /\ ~parser.is_valid THEN Answer(400)
       ELSE /\ IF IsUrlEncoded /\ QueryEndsProcess(AsText(req.body)) THEN EndProcess
               ELSE pc' = "dispatch"
            /\ UNCHANGED res
    /\ UNCHANGED <<client, reading, made, left, start, req, need, parser>>

-----------------------------------------------------------------------------
(* dispatch_request and the handlers of Server.cpp.  In a path, PostPath is *)
(* the word "/post/", QueryPath "/query"; SqlKey is the key "sql".          *)

PostPath == 1001
QueryPath == 1002
SqlKey == 1003

\* \w
IsWordByte(c) == c \in (48..57) \union (65..90) \union (97..122) \union {95}

\* Get("/query", ...) and Post("/post/(\w+)", ...) of Server::init.
IsQueryPath(path) == path = <<QueryPath>>
IsImportPath(path) ==
    Len(path) > 1 /\ path[1] = PostPath /\ \A i \in 2..Len(path) : IsWordByte(path[i])

Called(handler, arg, body) ==
    calls' = Append(calls, [handler |-> handler, arg |-> arg, body |-> body, start |-> start])

\* A second header of the same name stands behind the first one.
set_header(r, name, value) == [r EXCEPT !.headers = Append(@, <<"header", name, value>>)]

set_content(r, text) == set_header([r EXCEPT !.body = text], "Content-Type", "text/plain")

\* dispatch_request catches what a handler throws.
CaughtException == set_header([res EXCEPT !.status = 500], "EXCEPTION_WHAT", "what")

\* processImportRequest: what csvParser throws goes through to dispatch_request.
processImportRequest ==
    /\ Called("import", Tail(req.path), req.body)
    /\ \/ res' = set_content(res, Texts["imported"])
       \/ Tail(req.path) \notin Steady /\ res' = CaughtException

SqlParams == {k \in DOMAIN req.params : req.params[k][1] = <<SqlKey>>}

\* An answer of processQueryRequest with a status of its own.
Failed(status, text) == [set_content(res, text) EXCEPT !.status = status]

\* processQueryRequest.  executeQuery gives a stream, no stream, or throws an
\* Exception, or something else; printing may throw an Exception, whose text is then
\* overwritten by what has been printed.
processQueryRequest ==
    IF SqlParams = {}
    THEN res' = Failed(400, Texts["error"]) /\ UNCHANGED calls
    ELSE LET first == CHOOSE k \in SqlParams : \A j \in SqlParams : k <= j
             sql   == req.params[first][2]
         IN  /\ Called("query", sql, <<>>)
             /\ \/ res' = set_content(res, Texts["rows"])
                \/ /\ sql \notin Steady
                   /\ res' \in {Failed(400, Texts["error"]), Failed(500, Texts["error"]),
                               CaughtException,
                               set_content(Failed(400, Texts["error"]), Texts["rows"])}

Refused(status) == res' = [res EXCEPT !.status = status] /\ UNCHANGED calls

\* The end of routing.
Dispatch ==
    /\ pc = "dispatch"
    /\ CASE req.method \in {"GET", "HEAD"} ->
              IF IsQueryPath(req.path) THEN processQueryRequest ELSE Refused(404)
         [] req.method = "POST" ->
              IF IsImportPath(req.path) THEN processImportRequest ELSE Refused(404)
         [] req.method \in {"PUT", "DELETE", "OPTIONS", "PATCH"} -> Refused(404)
         [] req.method \in {"CONNECT", "TRACE", "PRI"} -> Refused(400)
    /\ pc' = "reply"
    /\ UNCHANGED <<client, reading, replies, continues, left, start, req, need, parser>>

-----------------------------------------------------------------------------
(* write_response.                                                          *)

\* The status that process_request fills in if nothing has gone wrong.
StatusOf == IF res.status # -1 THEN res.status ELSE IF req.ranges = <<>> THEN 200 ELSE 206

\* What is sent of the body: all of it, one range, or a part for every range with
\* its Content-Range.
BodyOf(ranges, body) ==
    CASE ranges = <<>> \/ body = <<>> -> body
      [] Len(ranges) = 1 /\ body # <<>> -> Slice(ranges[1], body)
      [] Len(ranges) > 1 /\ body # <<>> ->
           FlattenSeq([k \in DOMAIN ranges |->
               <<ContentRange(ranges[k], body)>> \o Slice(ranges[k], body)])

\* A range that begins behind the end makes substr throw, outside of every handler.
Unsatisfiable == res.body # <<>> /\ \E k \in DOMAIN req.ranges : ~InsideBody(req.ranges[k], res.body)

\* The mistake of announcing the end one request too late.
LastOne_Late == left = 0

LastOne == left = 1

Body == BodyOf(req.ranges, res.body)

\* The headers that write_response adds.
ConnectionHeader ==
    IF LastOne \/ HeaderOf(req, "Connection", "") = "close"
    THEN <<<<"header", "Connection", "close">>>>
    ELSE IF HeaderOf(req, "Connection", "") = "Keep-Alive"
    THEN <<<<"header", "Connection", "Keep-Alive">>>>
    ELSE <<>>

AcceptRanges ==
    IF req.method = "HEAD" THEN <<<<"header", "Accept-Ranges", "bytes">>>> ELSE <<>>

\* Several ranges take the place of the first Content-Type.
WithMultipartType(headers) ==
    LET types == {i \in DOMAIN headers : headers[i][2] = "Content-Type"}
        first == CHOOSE i \in types : \A k \in types : i <= k
    IN  IF Len(req.ranges) <= 1 THEN headers
        ELSE (IF types = {} THEN headers ELSE AtPlaces(headers, DOMAIN headers \ {first}))
             \o <<<<"header", "Content-Type", "multipart/byteranges">>>>

BodyHeaders ==
    (IF Len(req.ranges) = 1 /\ res.body # <<>>
     THEN <<<<"header", "Content-Range", ContentRange(req.ranges[1], res.body)>>>> ELSE <<>>)
    \o <<<<"header", "Content-Length", Len(Body)>>>>

\* What the server knows of an exception it does not tell.
write_headers(headers) ==
    AtPlaces(headers, {i \in DOMAIN headers : headers[i][2] # "EXCEPTION_WHAT"})

ReplyOf(written) ==
    [start   |-> start,
     head    |-> res.head, \* whether the head has reached the client
     status  |-> StatusOf,
     headers |-> write_headers(
                     WithMultipartType(res.headers \o ConnectionHeader \o AcceptRanges)
                     \o BodyHeaders),
     body    |-> written,
     ranges  |-> req.ranges,
     whole   |-> res.body]

\* The head is put together in a BufferStream and then written at once.  A write that
\* fails is not noticed: it gives -1, which is no zero, and the body follows.
WriteHead ==
    /\ pc = "reply"
    /\ ~Unsatisfiable
    /\ Write(LAMBDA done : res' = [res EXCEPT !.head = done])
    /\ pc' = "reply body"
    /\ UNCHANGED <<client, made, left, start, req, need, parser>>

\* Request, Response and the parser are local to the call.
Forget == req' = NoRequest /\ res' = NoResponse /\ need' = 0 /\ parser' = NewParser(<<>>)

WriteBody ==
    /\ pc = "reply body"
    /\ IF req.method = "HEAD" \/ Body = <<>>
       THEN replies' = Append(replies, ReplyOf(<<>>)) /\ UNCHANGED reading
       ELSE Write(LAMBDA done :
                replies' = Append(replies, ReplyOf(IF done THEN Body ELSE <<>>)))
    /\ left' = left - 1
    /\ pc' = IF left = 1 THEN "close" ELSE "keep_alive"
    /\ Forget
    /\ UNCHANGED <<client, calls, continues, start>>

Terminate ==
    /\ pc = "reply"
    /\ Unsatisfiable
    /\ EndProcess
    /\ UNCHANGED <<client, reading, made, left, start, req, res, need, parser>>

-----------------------------------------------------------------------------
Init ==
    /\ script \in Scripts
    /\ stream = Said(script)
    /\ sent = 0 /\ fin = FALSE /\ gone = FALSE
    /\ taken = 0 /\ late = FALSE
    /\ pc = "keep_alive" /\ left = MaxRequests /\ start = 0
    /\ req = NoRequest /\ res = NoResponse /\ need = 0 /\ parser = NewParser(<<>>)
    /\ replies = <<>> /\ calls = <<>> /\ continues = 0

Client == Send \/ Close \/ Reset

Worker ==
    \/ AwaitRequest \/ IdleTooLong \/ CloseSocket
    \/ ReadRequestLine \/ SkipHeader \/ ReadHeader \/ WriteContinue
    \/ Routing \/ ReadWithLength \/ ReadUntilClose
    \/ ReadChunkSize \/ ReadChunkEnd \/ ReadLastChunk \/ ContentRead
    \/ Dispatch \/ WriteHead \/ WriteBody \/ Terminate

Next == Client \/ Worker

\* Whatever the client sends, its worker goes on: what it reads comes or times out, and so
\* it is with the room for what it writes, since a reply fits into the buffers of the
\* kernel once there is room: select has a timeout, send has none.
\* This is WF_vars(Worker), with what ENABLED Worker comes to written out.
AtRest == pc \in {"closed", "terminated"}
Fairness == []<>AtRest \/ []<><<Worker>>_vars

Spec == Init /\ [][Next]_vars /\ Fairness

-----------------------------------------------------------------------------
(* Properties.  A message says what its client means by it:                 *)
(*   call      the handler, its argument and the body,                      *)
(*   answers   the statuses it may get,                                     *)
(*   framing   how the end of its body is told: "length", "chunked", "none",*)
(*   awkward   whether it is refused, or handled, before it is read to its   *)
(*             end, so that what is left is read as further requests, or is  *)
(*             read beyond its end.                                          *)

Complete(i) == BeginOf(i + 1) <= sent
Undisturbed(i) == ~late /\ ~gone /\ \A k \in 1..(i - 1) : ~script[k].awkward

\* The j-th reply answers the j-th message of the client, however the messages are cut
\* and run together on the way, and there are no more replies than messages: the reply
\* loop of process_server_socket_core stays in step with the client as long as every
\* message is read to its end.
AnswersInOrder ==
    \A j \in DOMAIN replies :
        /\ Undisturbed(Len(script) + 1) => j <= Len(script)
        /\ j \in DOMAIN script /\ Undisturbed(j) /\ Complete(j) =>
              /\ replies[j].start = BeginOf(j) /\ replies[j].status \in script[j].answers
              /\ replies[j].head

\* A body that may be handed on: the one that was meant; without any framing, what came
\* before the end of the connection; and, which read_content_chunked takes for an end,
\* the chunks before a connection that ends inside the line end behind a chunk.
MayBeHandedOn(body, i) ==
    \/ body = script[i].call.body
    \/ /\ script[i].framing # "length" /\ fin
       /\ script[i].framing = "chunked" => stream[sent] = CR
       /\ IsPrefix(body, script[i].call.body)

\* A handler is called only for a message that the client has sent, with the table or
\* the query that the client meant, and with its whole body: no part of a body reaches
\* csvParser as a smaller table because a read failed, timed out or came in pieces.
HandlersGetWholeMessages ==
    \A k \in DOMAIN calls :
        \/ \E i \in DOMAIN script :
              /\ calls[k].start = BeginOf(i)
              /\ calls[k].handler = script[i].call.handler
              /\ calls[k].arg = script[i].call.arg
              /\ MayBeHandedOn(calls[k].body, i)
        \/ \E i \in DOMAIN script : script[i].awkward /\ BeginOf(i) < calls[k].start

\* The places of a body of n characters that a range means.
PlacesOf(r, n) ==
    {p \in 0..(n - 1) :
        \/ r = <<-1, -1>>
        \/ r[1] = -1 /\ r[2] # -1 /\ n - r[2] <= p
        \/ r[1] # -1 /\ r[1] <= p /\ (r[2] = -1 \/ p <= r[2])}

WithinBody(r, n) == r[2] < n /\ PlacesOf(r, n) # {}

\* The places of the answer that a range means: the first and the last one, as a client
\* is told them, and what stands there.
PartOf(r, whole) ==
    LET places == PlacesOf(r, Len(whole))
    IN  <<CHOOSE p \in places : \A q \in places : p <= q,
          CHOOSE p \in places : \A q \in places : q <= p>>

PartMeant(r, whole) == AtPlaces(whole, {p + 1 : p \in PlacesOf(r, Len(whole))})

\* The body that is meant, and the type and the Content-Range that describe it.
BodyMeant(r) ==
    CASE r.ranges = <<>>   -> r.whole
      [] Len(r.ranges) = 1 -> PartMeant(r.ranges[1], r.whole)
      [] Len(r.ranges) > 1 -> FlattenSeq([k \in DOMAIN r.ranges |->
             <<PartOf(r.ranges[k], r.whole)>> \o PartMeant(r.ranges[k], r.whole)])

RangeMeant(r) == IF Len(r.ranges) = 1 THEN PartOf(r.ranges[1], r.whole) ELSE <<>>
TypeMeant(r) == IF Len(r.ranges) > 1 THEN "multipart/byteranges" ELSE "text/plain"

\* Its places are those that are meant, and its headers describe them.
ExactReply(r) ==
    /\ HeaderOf(r, "EXCEPTION_WHAT", "") = ""
    /\ \/ r.whole = <<>>
       \/ \E k \in DOMAIN r.ranges : ~WithinBody(r.ranges[k], Len(r.whole))
       \/ /\ r.body \in {BodyMeant(r), <<>>}
          /\ HeaderOf(r, "Content-Length", -1) = Len(BodyMeant(r))
          /\ HeaderOf(r, "Content-Range", <<>>) = RangeMeant(r)
          /\ r.status = 400 \/ HeaderOf(r, "Content-Type", "") = TypeMeant(r)

\* A reply to a request for ranges that lie within the answer has exactly the places
\* that are asked for, in the order in which they are, each part of several under its
\* own first and last place; Content-Length, Content-Range and Content-Type describe it,
\* but for the type of a result that failed while it was printed, which has two; and what
\* a handler threw is not told to the client.
RangesExact == \A j \in DOMAIN replies : ExactReply(replies[j])

\* The server does not wait for a body whose client waits for "100 Continue".
NoStandoff ==
    /\ pc \in {"with length", "until close", "chunk size", "chunk data", "chunk end"}
    /\ Undisturbed(Len(script) + 1) /\ ~fin /\ Arrived = <<>> /\ sent < Len(stream)
    => sent < SendLimit

\* What the loop over the requests of a connection promises; see KeptAlive.
Promise == INSTANCE KeptAlive WITH
    phase <- CASE pc = "keep_alive" -> "idle"
               [] pc \in {"close", "closed", "terminated"} -> "ended"
               [] OTHER -> "busy",
    said <- replies # <<>> /\ HeaderOf(Last(replies), "Connection", "") = "close"

\* A connection gets at most MaxRequests replies, the last one says that it is the last,
\* and the worker is free again in the end, whatever the client does or leaves undone.
KeepsPromise == Promise!Spec
=============================================================================
