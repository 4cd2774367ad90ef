--------------------------- MODULE MCHttpConnection --------------------------
(* Clients of HttpConnection.                                                *)
EXTENDS HttpMessages

-----------------------------------------------------------------------------
(* How clients write messages.                                              *)

Request(method, path, query) ==
    <<<<"request", [method |-> method, path |-> path, query |-> query,
                    version |-> "HTTP/1.1"]>>>> \o CrLf
WithHeader(name, value) == <<<<"header", name, value>>>> \o CrLf
Size(n) == <<<<"size", n>>>> \o CrLf

Meaning(handler, arg, body) == [handler |-> handler, arg |-> arg, body |-> body]
Nothing == Meaning("none", <<>>, <<>>)

Message(text, call, answers) ==
    [text |-> text, pause |-> Len(text), call |-> call, answers |-> answers,
     framing |-> "length", awkward |-> FALSE,
     chunks |-> SetToSortSeq({i \in DOMAIN text : IsWord(text[i], "size")}, <)]

Imported == {200, 500}
Queried == {200, 206, 400, 500}

\* Two units of a body.
a == <<97>>
b == <<98>>

Import(table, headers, sentBody, meantBody) ==
    Message(Request("POST", <<PostPath>> \o table, <<>>) \o headers \o CrLf \o sentBody,
            Meaning("import", table, meantBody), Imported)
Query(method, headers, query, sql) ==
    Message(Request(method, <<QueryPath>>, query) \o headers \o CrLf,
            Meaning("query", sql, <<>>), Queried)
Length(n) == WithHeader("Content-Length", n)
Chunked == WithHeader("Transfer-Encoding", "chunked")
Typed(boundary) ==
    WithHeader("Content-Type", [type |-> "multipart/form-data", boundary |-> boundary])

Sql(text) == <<SqlKey, EqualSign>> \o text

-----------------------------------------------------------------------------
(* One request whose texts are escaped: every way to write a byte, and what  *)
(* it means.                                                                 *)

Ways == {
    <<<<97>>, <<97>>>>, <<<<37, 54, 49>>, <<97>>>>,          \* a, %61
    <<<<37, 50, 54>>, <<38>>>>, <<<<37, 51, 68>>, <<61>>>>,  \* %26, %3D
    <<<<43>>, <<32>>>>, <<<<37, 50, 48>>, <<32>>>>,          \* +, %20
    <<<<37, 50, 98>>, <<43>>>>, <<<<37, 50, 53>>, <<37>>>>,  \* %2b, %25
    <<<<37, 117, 50, 48, 65, 67>>, <<226, 130, 172>>>>}      \* %u20AC, the euro sign

WrittenTexts == Ways \union {<<v[1] \o w[1], v[2] \o w[2]>> : v, w \in Ways}

\* The parameter alone, and behind another one that is empty.
EscapedTexts ==
    {<<Query("GET", <<>>, Sql(w[1]), w[2])>> : w \in WrittenTexts}
    \union
    {<<Query("GET", <<>>, <<97, 61, 38>> \o Sql(w[1]), w[2])>> : w \in Ways}
    \union
    {<<Message(Request("POST", <<PostPath>> \o w[1], <<>>) \o Length(1) \o CrLf \o <<a>>,
               IF w[2] = <<97>> THEN Meaning("import", w[2], <<a>>) ELSE Nothing,
               IF w[2] = <<97>> THEN Imported ELSE {404})>> :
        w \in {v \in Ways : v[1] # <<43>>}}

-----------------------------------------------------------------------------
(* Messages with all kinds of bodies.                                        *)

A == <<97>> \* the name of a table

Select == Query("GET", <<>>, Sql(<<97>>), <<97>>)
AnySelect == Query("GET", <<>>, Sql(<<98>>), <<98>>)
AnyImport == Import(<<98>>, Length(1), <<a>>, <<a>>)
Counted == Import(A, Length(3), <<a, LF, b>>, <<a, LF, b>>)
InPieces(m) == [m EXCEPT !.framing = "chunked"]
InChunks == InPieces(
    Import(A, Chunked,
           Size(2) \o <<a, LF>> \o CrLf \o Size(1) \o <<b>> \o CrLf \o Size(0) \o CrLf,
           <<a, LF, b>>))
Unframed(m) == [m EXCEPT !.framing = "none"]
UpToClose == Unframed(Import(A, <<>>, <<a, LF, b>>, <<a, LF, b>>))

\* The client sends the body only when it is told to continue.
Polite ==
    LET m == Import(A, Length(2) \o WithHeader("Expect", "100-continue"), <<a, b>>, <<a, b>>)
    IN  [m EXCEPT !.pause = Len(m.text) - 2]

\* A form with one part; its body is not what the handler looks at.
Form(content) ==
    Dashes \o <<b>> \o CrLf \o WithHeader("Content-Disposition", "form-data") \o CrLf
    \o content \o CrLf \o Dashes \o <<b>> \o Dashes \o CrLf
Upload(boundary, content) ==
    Import(A, Typed(boundary) \o Length(Len(Form(content))), Form(content), <<>>)

\* Content that ends like a boundary begins: if a piece of the body ends in the middle
\* of the boundary, the boundary may be missed.
LineEndInForm == [Upload(<<98>>, <<CR, LF>>) EXCEPT !.answers = @ \union {400}]

\* A body of the type that a browser gives to what has been filled in.
Filled(body) ==
    Import(A, WithHeader("Content-Type", [type |-> "application/x-www-form-urlencoded",
                                          boundary |-> <<>>]) \o Length(Len(body)), body, body)

-----------------------------------------------------------------------------
(* Messages that are refused, or not read to their end.                      *)

Unreadable(m, answers) == [m EXCEPT !.awkward = TRUE, !.answers = answers]
Plain(method, path, answers) ==
    Message(Request(method, path, <<>>) \o CrLf, Nothing, answers)

GetWithBody == Unreadable(
    Message(Request("GET", <<QueryPath>>, Sql(<<97>>)) \o Length(3) \o CrLf \o <<a>> \o CrLf,
            Meaning("query", <<97>>, <<>>), Queried), Queried)
Zipped == Unreadable(
    Import(A, WithHeader("Content-Encoding", "gzip") \o Length(3), <<a>> \o CrLf, <<>>), {415})
WithTrailer == Unreadable(InPieces(
    Import(A, Chunked, Size(0) \o WithHeader("Expires", "0") \o CrLf, <<>>)), {400})
NoBoundary == Unreadable(Upload(<<>>, <<>>), {400})
PlusBoundary == Unreadable(Upload(<<98, 43>>, <<>>), {400})
Nonsense == Unreadable(
    Message(<<<<"nonsense", 0>>>> \o CrLf \o Length(0) \o CrLf, Nothing, {400}), {400})
TooLong == Message(<<<<"long", 0>>>> \o CrLf \o Length(0) \o CrLf, Nothing, {414})
Unending == Unreadable(Unframed(Plain("POST", <<QueryPath>>, {404})), {404})
NoSql == [Plain("GET", <<QueryPath>>, {400}) EXCEPT !.call = Nothing]

Closing == Query("GET", WithHeader("Connection", "close"), Sql(<<97>>), <<97>>)
Ranged(method, ranges) == Query(method, WithHeader("Range", ranges), Sql(<<97>>), <<97>>)
AnyRange(ranges) == Query("GET", WithHeader("Range", ranges), Sql(<<98>>), <<98>>)

Ranges == {<<p, q>> : p, q \in -1..3}

\* Queries with blanks: around their parts; all there is between two signs, or between
\* two ampersands; all there is at all, in a query string or in a body.
BlankBody == [i \in 1..2 |-> <<Blank>>]
WithBlanks == {
    <<Query("GET", <<>>, Sql(<<Blank, 97, Blank>>), <<97>>), Select>>,
    <<Query("GET", <<>>, <<Blank>> \o Sql(<<97>>) \o <<Ampersand>>, <<97>>)>>,
    <<Select, Query("GET", <<>>, Sql(<<Blank, EqualSign, 97>>), <<97>>), Select>>,
    <<Query("GET", <<>>, Sql(<<97, Ampersand, Blank, Ampersand>>), <<97>>), Select>>,
    <<Message(Request("GET", <<QueryPath>>, <<Blank>>) \o CrLf, Nothing, {400})>>,
    <<Filled(<<a, b>>)>>, <<Filled(BlankBody), Select>>}

\* Numbers that are too long, in the last place that is read and in one that is not.
LongNumbers == {
    <<Ranged("GET", <<<<0, 0>>, <<4, -1>>>>), Select>>, <<AnyRange(<<<<4, 1>>>>), Select>>,
    <<Ranged("GET", <<<<0, 0>>, <<2, 1>>, <<0, 4>>>>), Select>>}

Conversations == EscapedTexts \union WithBlanks \union LongNumbers
    \union {<<AnyRange(<<r>>)>> : r \in Ranges}
    \union {<<Ranged("GET", <<q, r>>)>> : q, r \in {<<0, 0>>, <<1, 2>>, <<-1, 1>>, <<2, 1>>}}
    \union {<<m>> : m \in {
        AnyRange(<<<<0, 0>>, <<1, 2>>>>), AnySelect, AnyImport, UpToClose, LineEndInForm,
        Unframed(Plain("PRI", <<QueryPath>>, {400})), NoSql}}
    \union {
        <<Select, Counted, Select, Select>>, <<InChunks, Select>>,
        <<Polite, Polite>>, <<Upload(<<34, 98, 34>>, <<a, Hyphen>>)>>,
        <<Closing, Select>>, <<Ranged("HEAD", <<<<0, 1>>>>), TooLong, Select>>,
        <<GetWithBody, Select>>, <<Zipped, Select>>, <<WithTrailer, Select>>,
        <<NoBoundary>>, <<PlusBoundary>>, <<Nonsense, Select>>,
        <<Unending, Select>>,
        <<Plain("GET", <<PostPath, 97>>, {404}), Plain("DELETE", <<PostPath, 97>>, {404}),
          Plain("TRACE", <<QueryPath>>, {400})>>}

Answers == [imported |-> <<<<1>>>>, rows |-> <<<<1>>, <<2>>, <<3>>>>, error |-> <<<<8>>, <<9>>>>]

SteadyArguments == {w[2] : w \in WrittenTexts}
=============================================================================
