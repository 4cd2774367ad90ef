---------------------------- MODULE HttpMessages ----------------------------
(***************************************************************************)
(* What the messages of a script of HttpConnection are: how a client writes *)
(* a request, told from the text alone, and what it may then mean by it.     *)
(* HttpConnection reads any stream of units; that its replies and calls are  *)
(* those that are meant can only be said of messages that are written as     *)
(* they are meant.  HttpConnection gets the text in pieces, behind others,   *)
(* and may not get the end of it; here the whole of it is looked at.  What   *)
(* is inside of a word, or of a form, is told with HttpText and Multipart.   *)
(* A message with a body in chunks says where in its text their lengths      *)
(* stand: m.chunks.                                                         *)
(***************************************************************************)
EXTENDS HttpConnection

-----------------------------------------------------------------------------
(* The head: lines of one word each, and an empty one behind the last.       *)

HeadHasLines(text, n) ==
    /\ 3 * n + 2 <= Len(text)
    /\ text[1] \notin {CR, LF}
    /\ \A k \in 1..n : /\ k > 1 => IsWord(text[3 * k - 2], "header")
                       /\ text[3 * k - 1] = CR /\ text[3 * k] = LF
    /\ text[3 * n + 1] = CR /\ text[3 * n + 2] = LF

LinesOf(m) == CHOOSE n \in 1..Len(m.text) : HeadHasLines(m.text, n)
HeadOf(m) == 3 * LinesOf(m) + 2

\* The request with the first n headers, and the whole one.
RequestWith(m, n) ==
    [parse_request_line(<<m.text[1]>>) EXCEPT !.headers = [k \in 1..n |-> m.text[3 * k + 1]]]
RequestOf(m) ==
    LET r == RequestWith(m, LinesOf(m) - 1)
    IN  [r EXCEPT !.ranges = parse_range_header(HeaderOf(r, "Range", <<>>))]

-----------------------------------------------------------------------------
(* The body.                                                                *)

Rest(m) == SubSeq(m.text, HeadOf(m) + 1, Len(m.text))

BringsBody(r) ==
    \/ r.method \in {"POST", "PUT", "PATCH", "PRI"}
    \/ r.method = "DELETE" /\ HeaderOf(r, "Content-Length", -1) # -1

IsChunked(r) == HeaderOf(r, "Transfer-Encoding", "") = "chunked"
LengthOf(r) == HeaderOf(r, "Content-Length", -1)

\* Refused before it is read.
NotRead(r, status) ==
    \/ is_multipart_form_data(r) /\ BoundaryOf(r) = <<>> /\ status = 400
    \/ /\ ~(is_multipart_form_data(r) /\ BoundaryOf(r) = <<>>)
       /\ HeaderOf(r, "Content-Encoding", "") \in {"gzip", "deflate", "br"}
       /\ status = 415

\* Chunk k has its length at the place m.chunks[k], two units for the end of the line,
\* its data and another end of the line; the last one has no data.
ChunkSize(m, k) == m.text[m.chunks[k]][2]
DataBefore(m, k) == m.chunks[k] - m.chunks[1] - 5 * (k - 1)

ChunksLaidOut(m) ==
    LET c == Len(m.chunks)
    IN  /\ c > 0 /\ m.chunks[1] = HeadOf(m) + 1
        /\ \A k \in 1..c :
              LET at == m.chunks[k]
              IN  /\ at \in 1..(Len(m.text) - 3)
                  /\ IsWord(m.text[at], "size") /\ ChunkSize(m, k) \in Nat
                  /\ m.text[at + 1] = CR /\ m.text[at + 2] = LF
                  /\ k = c <=> ChunkSize(m, k) = 0
                  /\ k < c => LET next == at + ChunkSize(m, k) + 5
                              IN  /\ m.chunks[k + 1] = next
                                  /\ m.text[next - 2] = CR /\ m.text[next - 1] = LF

\* What stands behind the last chunk: the end of a line, or something else.
EndsWithChunks(m) ==
    LET end == m.chunks[Len(m.chunks)] + 3
    IN  m.text[end] = CR /\ m.text[end + 1] = LF /\ Len(m.text) = end + 1
HasTrailer(m) == m.text[m.chunks[Len(m.chunks)] + 3] \notin {CR, LF}

\* The body is the data of the chunks, one after another.
ChunksMeant(m) ==
    /\ Len(m.call.body) = DataBefore(m, Len(m.chunks))
    /\ \A k \in DOMAIN m.chunks :
          /\ DataBefore(m, k) + ChunkSize(m, k) <= Len(m.call.body)
          /\ \A i \in 1..ChunkSize(m, k) :
                m.call.body[DataBefore(m, k) + i] = m.text[m.chunks[k] + 2 + i]

\* The parsers that may have read the first n units of a form, in pieces of any length.
FormReaders(m) ==
    LET form == Rest(m)
        read[n \in 0..Len(form)] ==
            IF n = 0 THEN {NewParser(BoundaryOf(RequestOf(m)))}
            ELSE UNION {{Parse(p, SubSeq(form, k + 1, n)) : p \in {q \in read[k] : q.run # "fail"}} :
                        k \in {k \in 0..(n - 1) : n - k <= RecvBuf}}
    IN  read

-----------------------------------------------------------------------------
(* What is made of a request that has been read.                             *)

SqlKeys(r) == {k \in DOMAIN r.params : r.params[k][1] = <<SqlKey>>}
SqlOf(r) == r.params[CHOOSE k \in SqlKeys(r) : \A j \in SqlKeys(r) : k <= j][2]

ForQuery(r) == r.method \in {"GET", "HEAD"} /\ IsQueryPath(r.path)
ForImport(r) == r.method = "POST" /\ IsImportPath(r.path)

Success(r) == IF r.ranges = <<>> THEN 200 ELSE 206

StatusesOf(r) ==
    CASE ForQuery(r) /\ SqlKeys(r) # {} ->
           {Success(r)} \union (IF SqlOf(r) \in Steady THEN {} ELSE {400, 500})
      [] ForImport(r) -> {Success(r)} \union (IF Tail(r.path) \in Steady THEN {} ELSE {500})
      [] (ForQuery(r) /\ SqlKeys(r) = {}) \/ r.method \in {"CONNECT", "TRACE", "PRI"} -> {400}
      [] OTHER -> {404}

CallMeant(m, r) ==
    /\ ForQuery(r) /\ SqlKeys(r) # {} =>
          m.call.handler = "query" /\ m.call.arg = SqlOf(r) /\ m.call.body = <<>>
    /\ ForImport(r) => m.call.handler = "import" /\ m.call.arg = Tail(r.path)

-----------------------------------------------------------------------------
(* Messages.                                                                *)

\* A form comes with its length.  If it may be refused its client knows, and also that
\* what follows is then read as further requests, if there is anything.
FormMeant(m, r) ==
    LET n == Len(Rest(m))
        readers == FormReaders(m)
    IN  /\ ~IsChunked(r) /\ LengthOf(r) = n /\ m.call.body = <<>>
        /\ \A k \in 0..n : \A p \in readers[k] :
              /\ p.run = "fail" => 400 \in m.answers /\ (k = n \/ m.awkward)
              /\ k = n /\ p.run # "fail" =>
                    IF p.is_valid THEN StatusesOf(r) \subseteq m.answers ELSE 400 \in m.answers

\* Only the end of the connection ends a body without a framing.
BodyIsMeant(m, r, last) ==
    IF is_multipart_form_data(r) THEN FormMeant(m, r)
    ELSE IF IsChunked(r)
    THEN /\ ChunksLaidOut(m) /\ m.framing = "chunked" /\ (ForImport(r) => ChunksMeant(m))
         /\ \/ EndsWithChunks(m) /\ StatusesOf(r) \subseteq m.answers
            \/ HasTrailer(m) /\ m.awkward /\ 400 \in m.answers
    ELSE /\ StatusesOf(r) \subseteq m.answers
         /\ ForImport(r) => m.call.body = Rest(m)
         /\ \/ LengthOf(r) = Len(Rest(m))
            \/ LengthOf(r) = -1 /\ m.framing = "none" /\ (last \/ (m.awkward /\ ~ForImport(r)))

RequestMeant(m, last) ==
    LET r == RequestOf(m)
    IN  /\ CallMeant(m, r)
        /\ IF ~BringsBody(r) THEN /\ Rest(m) = <<>> \/ m.awkward
                                  /\ StatusesOf(r) \subseteq m.answers
           ELSE IF \E status \in {400, 415} : NotRead(r, status)
           THEN m.awkward /\ \A status \in {400, 415} : NotRead(r, status) => status \in m.answers
           ELSE BodyIsMeant(m, r, last)

\* A client that waits for "100 Continue" asks for it, and waits behind the head.  What it
\* sends has no request line but the first one, which a server that has given up a part
\* of it would take for the beginning of a message.
MessageMeant(m, last) ==
    /\ \E n \in 1..Len(m.text) : HeadHasLines(m.text, n)
    /\ \/ m.pause = Len(m.text)
       \/ /\ m.pause = HeadOf(m) /\ IsWord(m.text[1], "request")
          /\ HeaderOf(RequestOf(m), "Expect", "") = "100-continue"
    /\ m.awkward \/ \A k \in 2..Len(m.text) : ~IsWord(m.text[k], "request")
    /\ IsWord(m.text[1], "request") => RequestMeant(m, last)
    /\ IsWord(m.text[1], "long") => 414 \in m.answers /\ (Rest(m) = <<>> \/ m.awkward)
    /\ ~IsWord(m.text[1], "request") /\ ~IsWord(m.text[1], "long") =>
          m.awkward /\ 400 \in m.answers

ASSUME MessagesAssumption ==
    \A s \in Scripts :
        /\ s \in Seq(Range(s))
        /\ \A i \in DOMAIN s : /\ s[i].text \in Seq(Range(s[i].text))
                               /\ s[i].awkward \in BOOLEAN /\ s[i].pause \in Nat
                               /\ s[i].chunks \in Seq(Nat)
                               /\ s[i].call.body \in Seq(Range(s[i].call.body))
                               /\ MessageMeant(s[i], i = Len(s))
=============================================================================
