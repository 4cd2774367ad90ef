# testdb: a TLA+ model of a small column store

testdb keeps each table as a directory of text files, one per column.
`POST /post/<table>` replaces a table by a CSV body, `GET /query?sql=...`
evaluates a SELECT. Both run on the worker threads of an HTTP library; nothing
locks the files.

Contents: [the system](#the-system), [modules](#modules), [runs](#runs),
[fairness](#fairness), [proofs](#proofs), [what the code does
differently](#what-the-code-does-differently), [not modelled](#not-modelled),
[plan](#plan).

## The system

| part | state | operations | interacts with |
|---|---|---|---|
| CSV import, `src/Server/csvparser.h` | cells of the line, data of every column, row counter | `parseLine`, `csvParser` | called by `processImportRequest`; writes the table's files |
| table files, `data/test/<table>/` | a file per column, `columns.txt`, `count.txt` | truncating opens, writes, buffered reads | shared by imports and queries, survives a crash |
| `SelectStep`, `src/Processors/SelectStep.h` | one input stream per column, the row begun, the block | opens, the reading loop | first step of every query |
| block streams, `src/DataStreams/threadsafe_queue.h` | queue, mutex, condition variable, `closed` | `push`, `pop`, `pop(T&)`, `close`, `operator bool` | connect the steps of a query |
| processors, `src/Processors/` | input and output stream, hash table of groups | Filter, GroupBy, DropTmpColumns, OrderBy, Limit | called by `InterpreterSelectQuery::execute`, consumed by `processQueryRequest` |
| interpreter, `src/Interpreters/` | column lists | name resolution, choice of the steps | between the parser and the processors |
| lexer, `src/Parser/Lexer.cpp` | place in the text, last significant token type | `nextToken` | fills the vector of tokens that the token iterator walks over |
| parser, `src/Parser/` | token position, depth, tree | recursive descent with going back | called by `executeQuery` |
| HTTP connection, `src/Libs/httplib.h` 1725-1776, 2379-2647, 2801-3138, 3843-4161, 4286-4490 | what has been read, request, response, requests left | read a request, its headers and body, route, reply, keep alive | calls the handlers of `src/Server/Server.cpp` |
| listener and thread pool, `src/Libs/httplib.h` 455-523, 1795-1874, 4234-4284 | socket, job list, shutdown flag, workers | bind, accept, enqueue, take, wait, shut down | makes requests concurrent |
| AST, `src/Parser/AST*.h` | tree; the clauses of a SELECT in one vector | `setExpression`, `getExpression`, constructors | made by the parser, read by the interpreter |

A request travels down the table: the HTTP layer hands it to a handler of
`src/Server/Server.cpp`; an import is parsed and written to the files; a query
goes through lexer, parser and interpreter, which strings the processors
together with block streams, the first one reading the files. Requests meet
only in the files.

Hard behaviours: requests interleave at the granularity of system calls on the
same files; an import is neither atomic nor checked for errors and may be cut
by a crash; a reader sees end of file at moments that depend on its buffering
and on the writers; a block may have columns of different lengths; the stream
class is written for threads; a connection may be cut, silent or reset in the
middle of anything, and what is left of one request is the beginning of the
next; the worker pool has a condition variable and a shutdown of its own; the
parser goes back over what it has read, with
a depth that is counted up and down by hand; what a character means to the
lexer depends on tokens before it.

What makes each part correct:

* import: values land in the column and row they stand in, for every body; a
  rectangular body loses nothing; the scan ends and stays inside the body;
* table files: an import that is alone leaves exactly its body, whatever was
  there before; a query that is alone reads exactly the files; under races the
  damage is bounded: blocks stay within one row of rectangular, values do not
  change columns except in that row, zero bytes need two imports;
* streams: first in first out, nothing lost or doubled, waiting consumers served;
* processors: the answer is the relational one: filtered rows, true counts,
  sorted, cut;
* lexer: the tokens cover the text once, quoted tokens end at the right quote;
* parser: a query written from a tree is parsed back into it, no operand is
  lost or read twice, the depth is given back, a failed parse is reported;
* HTTP connection: replies stay in step with requests, an incomplete body
  reaches no handler, a range is exactly what was asked for, nobody waits for
  somebody who waits for him, the connection is kept alive as announced and not
  longer;
* listener and pool: an accepted connection is served once and to its end,
  nothing is left behind at shutdown;
* AST: a clause is read as it was set last, whatever moves in the vector.

## Modules

Each component has a module, an `MC` module with its small instances, and where
there are proofs a `Proofs` module.

| module | models | extends |
|---|---|---|
| `Places`, `PlacesProofs` | positions in a sequence, in order, and what stands there; lemmas | |
| `TextLines` | text as lines and as characters | `Places` |
| `Csv` | reference: what the separators of a body mean | `TextLines` |
| `CsvParser`, `CsvParserProofs` | `parseLine`, the parsing half of `csvParser`; theorems | `Csv`, `PlacesProofs` |
| `TableFiles` | the writing half of `csvParser`, `SelectStep`, the file system | `TextLines` |
| `TableFilesProofs` | theorems about types, about readers, about what imports leave in the files and what queries read of them | `TableFiles`, `PlacesProofs` |
| `BlockStream`, `BlockStreamProofs` | `threadsafe_queue`; theorems | |
| `SelectQuery` | the tree of a query and what the interpreter takes from it | `Places` |
| `Processors` | what each processor does to a block | `SelectQuery` |
| `SelectAnswer` | abstract specification: the relational answer | `SelectQuery` |
| `QueryPipeline` | interpreter, processors and reply, step by step; implements `SelectAnswer` | `Processors` |
| `QueryPipelineProofs` | theorems about what the steps hand on, about the counts, and that the answer is the one of `SelectAnswer` | `QueryPipeline`, `PlacesProofs` |
| `Lexer` | `Lexer::nextTokenImpl` | |
| `SyntaxTree` | the nodes of the tree, the clauses of a SELECT | |
| `ParserProofs` | theorems about tokens and about clauses | `Lexer`, `SyntaxTree`, `PlacesProofs` |
| `Parsers` | token iterator, results of parsers | `SyntaxTree` |
| `SelectGrammar` | the parser classes | `Parsers` |
| `ExecuteQuery` | `ParserSelectQuery` and `executeQuery` | `SelectGrammar` |
| `HttpText` | percent encoding, query string, ranges, boundary of a form | |
| `Multipart` | `MultipartFormDataParser` | |
| `HttpConnection` | one connection from accept to close, with the handlers; implements `KeptAlive` | `HttpText`, `Multipart`, `Places` |
| `HttpMessages` | what it is to write a request as it is meant | `HttpConnection` |
| `HttpConnectionProofs` | theorems about replies, about the loop over requests, about handlers and the order of the replies | `HttpMessages`, `PlacesProofs` |
| `KeptAlive` | abstract specification: what a connection promises | |
| `HttpServer`, `HttpServerProofs` | listener, job list, workers; connections take the steps of `KeptAlive`; theorems | |

The composition is by contract where a whole would be out of reach: `HttpServer`
runs connections that take steps of `KeptAlive`, and `HttpConnection` is proved,
step by step, and checked, with its fairness, to implement `KeptAlive`; a handler's outcome in `HttpConnection` is any of those
that `TableFiles` and `ExecuteQuery` can give; a query in `TableFiles` stops at
the block with which `QueryPipeline` begins.

A definition named `Name_Variant` right before `Name` is a plausible mistake in
the code that `Name` models. Each checked property has such a mistake that
violates it; `PROJECT.json` lists the pairs.

### Csv and CsvParser

`pos` is the pointer of the scanning loop, `size` the length of the cell, and a
`Cell` points into the body as it does in the source. One action is one way
through the body of the loop of `parseLine` (`ScanChar`, `ScanComma`), and one
per caller is the return of `parseLine` with what `csvParser` does with the line
(`HeaderEnds`, the rows). `Csv` does not scan: it says by the positions of
commas and line feeds which cells a body has, and the invariant `ParsedAsMeant`
compares the two.

### TableFiles

The central module. A file is a sequence of characters in `text`; `exists` and
`dir` are what the directory holds. An import (`ipc`, `icol`, `ioff`) creates
the directory, opens and so truncates `columns.txt` and `count.txt`, opens and
writes each column, and flushes the two small files last, in the order in which
the stream objects are destroyed. Opening and writing are different steps; a
write may reach the file in several pieces; an open that fails is skipped in
silence, as in the code. A query (`qpc`, `streams`, `qi`, `row`, `block`) opens
its columns one after another and then runs the reading loop of `SelectStep`:
`ReadBuffer` refills a stream's buffer, `GetLine`, `EndOfFile` and
`GetLineAfterEof` are the three outcomes of `std::getline` with their state
bits, `StopReading` is the end of the loop. `Crash` kills all requests being
served, with their buffers; the files stay.

A write lands at the writer's own offset even if another import has truncated
the file: `WriteAt` fills the gap with `Hole`, the zero byte of the file system.
The history variables `got`, `sole`, `quiet` and `overlap` are read by properties
only: the values a stream has delivered, the requests that nobody overlapped.

A request identity is served at most once. A client that sends an import again,
because the reply was lost or late, is a second identity with the same upload.

### BlockStream

One thread's step is one acquisition of the mutex, one section under it, going
to wait, or one read of `closed` or of `queue.empty()` outside the mutex
(`PopReadClosed`, `PopReadEmpty`, `BoolReadClosed`, `BoolReadEmpty`). The
unlocked reads are data races; an unlocked read gives the current value here,
between any two steps of the others. Torn reads of the deque's pointers are not
modelled. Threads call in any order, but nobody pushes once closing has begun,
as in all of `src/Processors`. `notify_one` wakes any waiting thread,
`SpuriousWakeup` any thread at any time. `size()` has no caller.

In the server of this commit both ends of a stream are on one thread. The class
is nevertheless checked as the shared object it is written to be, since its
users rely on its contract; `QueryPipeline` has the way it is used now.

### SelectQuery, Processors, QueryPipeline and SelectAnswer

`QueryPipeline` takes a tree and a table. `Interpret` is
`InterpreterSelectQuery::execute`: it collects the columns to read, resolves
aliases and positions, and sets up the steps. Then each step drains its input
stream and closes its output, one block at a time (`FilterNext`, `GroupNext`,
`DropNext`, `OrderNext`, `LimitNext`, `EndStep`, `EndGroup`), and
`processQueryRequest` prints. `GoUndefined` is taken where the code dereferences
null or reads past a column; `Fail` where it throws. A name and a value are
sequences of numbers, since the code joins them; `IntSize` is the number of values of
`int`, 2^32 in the program.

`SelectAnswer` knows nothing of blocks, streams or temporary columns. It has one
step: an answer appears that is the relational reading of the query: of all
listings of the matching rows, or of the groups with their counts (`Listings`), one
that is in the order of ORDER BY (`Ordered`), cut at the limit (`FirstRows`). That
holds for the queries that are `Promised`:

* the columns of the table have one length, below `IntSize \div 2`, since row
  numbers are of type `int`;
* the query names this table and columns that it has; the titles of the result
  differ, and no alias hides a column of the table or `count` (`PromisedNames`);
* WHERE is absent, or `=` between a column and a string; a column `t.a` in WHERE is
  not spelled like a column of the table or a title (`PromisedFilter`);
* identifiers come first in the list, then at most one `count`; with it, GROUP BY
  names the selected columns, each by its name, its alias or its position, and the
  values of different groups do not join to one key (`PromisedGroups`);
* ORDER BY names columns of the result, and a limit is a number that 32 bits hold
  (`PromisedOrder`, `PromisedLimit`).

Outside the promise there is a reply of any kind. `QueryPipeline` is proved and
checked to implement `SelectAnswer` with `answer` mapped to `<<step, reply>>` once
the query is over, so that everything between is a stutter.

### Lexer

Places count from 1. Every branch of `nextTokenImpl` is an action that consumes
a whole token, except in quotes, where every turn of the loop is a step
(`OpenQuote`, `QuotedPair`, `CloseQuote`, `QuoteNotClosed`). `prev` is
`prev_significant_token_type`. A character is a model string; wide white space
counts as one character.

What the parser takes out of a quoted token is here too (`QuotedValue`), since it
depends on where the token ends: `readQuoted` looks for the next quote and not
for the end of the token.

### SyntaxTree, Parsers, SelectGrammar and ExecuteQuery

`SyntaxTree` has a constructor for each kind of node. The node of a SELECT is
modelled as it is stored: `children` is one sequence, `positions` says which of
them is which clause, and taking a clause away moves those behind it
(`SetExpression`, `GetExpression`). The joins of FROM are nodes of their own.

A token is the string that spells it. `Parse(class, pos)` is
`IParserBase::parse`: it enters the levels of the class, calls the virtual
`parseImpl` (a rule of `SelectGrammar` with the class's name), and on failure
goes back. A result is a node with a position, a failure, or an exception.
Classes that only hand over to the next class of the precedence ladder are
taken together with their `Levels`. Keywords are predicates: they are parsers in
the code too, but a keyword alone never reaches the depth limit, because a
deeper chain has to fit below the same level. The rules for lists and operators
are shared as in the code (`List`, `LeftAssociative`, `VariableArity`, `Prefix`).

`ExecuteQuery` steps through the clauses of `ParserSelectQuery`, with the
iterator and the local variables as state, and through `executeQuery`, which
swallows exceptions of the parser.

### HttpText, Multipart, HttpConnection and KeptAlive

A message is a sequence of units: a byte, or a word for what the code does not
look into (a request line, a header, the digits of a chunk's length, a line that
is too long). The client has a script of messages and lets units go in pieces of
any length (`Send`); it may close its side, and the connection may be reset, at
any time. A message may have a place where its client waits for "100 Continue".

The worker's program counter `pc` follows the calls of `process_request`:
`ReadRequestLine`, `ReadHeader`, `WriteContinue`, `Routing`, one action for each
loop of `read_content` (`ReadWithLength`, `ReadUntilClose`, `ReadChunkSize`,
`ReadChunkEnd`, `ReadLastChunk`), `ContentRead`, `Dispatch`, `WriteHead`,
`WriteBody`. A call that reads takes what has arrived, at most a buffer, or finds
the end of the connection, an error, or five seconds of silence (`late`). A write
may fail, and the code does not notice. `Dispatch` is routing and the handler:
its outcomes are those of `processImportRequest` and `processQueryRequest`, with
`Steady` naming the arguments for which nothing fails.

`HttpText` is what is done with the text inside of words: `decode_url`,
`parse_query_text`, `parse_range_header`, `get_range_offset_and_length`. Two of these
do not come back from every text. Around a piece of blanks `trim` returns an end before
the beginning, and `std::stoll` throws for a number that does not fit into 64 bits; no
handler has been entered, nobody catches, and the process ends. `QueryEndsProcess` and
`RangesEndProcess` say when, the second with the constant `MaxNumber` as the largest
number there is. `HttpConnection` asks them where the code parses a query string, a
`Range` header or a body of the type `application/x-www-form-urlencoded`, whose
parameters it then drops since nobody reads them. `EndProcess` leaves the connection
where no action leads on; the same happens to a reply with a range behind its body
(`Terminate`).
`Multipart` is the parser of forms as a function from its state and a piece of
the body to its next state: the pieces are cut by the network.

`KeptAlive` has three variables: whether a request is being served, how many may
still come, and whether the last reply has announced the end. `HttpConnection`
implements it with `phase` and `said` read off `pc` and the last reply.

`HttpConnection` reads any stream of units. A script also says what its client means
by each message: the handler and its argument, the body, the statuses that it may
get, where it waits, and whether it is `awkward` (left before its end, or read beyond
it). `HttpMessages` says when a message is written as it is meant
(`MessagesAssumption`): the lines of the head, the request they come to (`RequestOf`),
a body of the announced length, in chunks, as a form or up to the end of the
connection, and which handler, body and statuses go with that. It looks at one text
as a whole, with the functions of `HttpText` for what is inside of a word and with
those of `Multipart` for a form, cut in any way (`FormReaders`); `HttpConnection` gets
the same text in pieces, behind other texts, and may not get the end of it. A message
at which the process ends is meant like any other, only that nothing is called and
nothing comes back. What these
functions make of a text is checked against texts written by hand in
`MCHttpConnection` (`EscapedTexts`, the forms), whose scripts satisfy the assumption.

### HttpServer

The listener tries addresses (`BindAddress`), accepts, and puts connections into
the job list; workers test the predicate of the condition variable, wait, take a
connection, and serve it step by step (`Serve`) until it has ended. Sections
under the mutex are single steps; `notify_one` wakes any waiting worker, and a
worker may wake for no reason. When `accept` fails for any reason but `EMFILE`,
the listener sets the flag, notifies everybody, joins the workers and returns.
Connections in the backlog of the kernel are lost then, those accepted are not.

## Runs

Every run is a module, a `.cfg` and a question. Passing runs explore all
reachable states; the others stop at a counterexample that shows a disagreement
between the code and what it says of itself.

| run | instance | states | shows |
|---|---|---|---|
| `csv_parser` | every body of up to 6 characters over `a`, `b`, the comma and the line feed | 52 thousand | the scanner computes the reference, never reads past the body, returns |
| `table_files` | 2 imports, 1 query, 1 kill, buffers of 3 characters, a whole and a ragged upload | 423 thousand | what races cannot do; what is exact without them |
| `table_files_odd` | the same with a repeated, an empty and a colliding column name, queries of no column and of the two extra files, buffers of 2 | 349 thousand | the same for odd names; zero bytes need an overlap; imports reply and queries answer |
| `query_pipeline` | 4416 pairs of a query and a table | 30 thousand | the pipeline implements `SelectAnswer`, ends, and stays defined for sound queries |
| `many_counts` | two counts in one list | counterexample | both columns are too large |
| `block_stream` | 3 threads, 3 blocks | 28 thousand | first in first out, end means drained, no lost notification, waiters served |
| `block_stream_close` | 2 threads, 1 block | counterexample | a `pop` that waits is not ended by `close` |
| `execute_query` | queries written from trees, joins included, all sequences of up to 4 of 12 tokens, queries that fail, throw or break off in the clauses | 260 thousand | trees come back, operands are kept, depth is given back |
| `deep_query` | the queries that fail | counterexample | a query with two pairs of brackets is too deep, and its empty tree is executed |
| `lexer` | all texts of up to 5 characters of four alphabets of six, and texts written from tokens | 217 thousand | tokens tile the text and come back as written, quoted values up to their first inner quote |
| `http_connection` | 1 connection; conversations of up to three requests, `MaxRequests` 3, a buffer of 2 units | 1.5 million | replies in step, whole bodies, exact ranges, no standoff, implements `KeptAlive` |
| `http_server` | 2 workers, 3 connections, 2 addresses, a backlog of 2, `MaxRequests` 2 | 48 thousand | no connection lost, doubled or left behind; all are served; `listen` returns |

Why these bounds are enough:

* `csv_parser`: six characters hold a header with two columns and two lines
  that are too short, exact or too long, with and without the last line feed,
  empty cells everywhere, and the empty body. The scanner keeps no state across
  lines but the counter.
* `table_files`: values have up to two characters and a buffer three or two, so
  that lines end before, at and after the end of a buffer and the end of the
  file; two imports are what it takes to truncate under the other's offset; one
  query sees an arbitrary moment of each stream. The properties speak of one
  query at a time and queries do not write. A second kill adds nothing that one
  before or after any step does not show, since an import starts from whatever
  files there are.
* `query_pipeline`: two columns and three rows are the least with a filter that
  drops and keeps rows, two groups, ties in the order and a limit in the middle.
  The tables include ragged and empty columns and values whose concatenations
  collide. `IntSize = 16` puts the overflow of a limit at 16 instead of 2^32. Of the
  4416 pairs 525 are within the promise of `SelectAnswer`, 126 of them with a count,
  WHERE and ORDER BY together; that it is kept for any query and table is proved.
* `block_stream`: three threads let one wait, one push and one steal the block.
* `execute_query`: the written queries have two levels of operators in each
  clause position; the token sequences meet every alternative of an element.
  `MaxDepth` is 100 as in the code.
* `lexer`: every branch has a text of at most five characters that takes it, on
  both sides of its boundary; `MaxQuerySize` is 8 instead of 1000 so that texts
  pass it.
* `http_connection`: the conversations have every framing of a body, alone and
  before another request; every way to write a byte in a parameter, one or two of
  them; every range over an answer of three units, with both ends, one or none.
  With a buffer of two units bodies of three come in pieces even when they arrive
  at once, and cuts fall inside line ends, boundaries and chunks. Three requests
  reach the last one that is allowed. The client's cuts are exhaustive. Queries have
  blanks around their parts and blanks for parts; with `MaxNumber` 3 instead of
  2^63 - 1 ranges have the largest number and one that is too long, alone, behind
  another range and behind one that cannot be.
* `http_server`: two workers let one wait while the other serves or leaves, three
  connections let one stand in the list while both are busy; the theorems about
  it hold for any number.

`CHECK_DEADLOCK FALSE` stands in the configurations since a served request, a
finished text or an idle set of threads has nothing left to do; that they do get
there is a liveness property where it is not obvious.

What the counterexamples say, with the lines they contradict, is under
`findings` in `PROJECT.json`.

## Fairness

* `TableFiles`: weak fairness of each request's own steps once it has begun: a
  worker thread runs on, and system calls on a local directory return. Nothing
  makes a client send a request, and a kill is always possible.
* `BlockStream`: strong fairness of each thread's steps: a thread that finds
  the mutex free again and again gets it. `std::mutex` does not promise this in
  one acquisition, but a scheduler that starves a thread for ever is not what
  the property is about. Calls and spurious wake-ups are not fair.
* `CsvParser`, `QueryPipeline`, `Lexer`: weak fairness of the next step of a
  single thread.
* `HttpConnection`: weak fairness of the worker, written out as `[]<>AtRest \/
  []<><<Worker>>_vars`, since `ENABLED` of it is that the worker is not at rest: a
  read comes or times out. There is none for the client. A write counts as one
  that ends: `select` waits for room with a timeout, `send` after it has none, so
  this says that a reply of this server fits into the buffers of the kernel.
* `HttpServer`: weak fairness of the listener, strong fairness of each worker, as
  in `BlockStream`: a worker that finds the mutex free again and again gets it.
  Clients are not fair, and `accept` need never fail.
* `ExecuteQuery` has no liveness property: every step takes the next clause.

## Proofs

All proofs are about any values of the constants that satisfy the assumptions
named in the modules.

`TableFilesProofs`, for any numbers of imports, queries, columns and kills, any
buffer size and any uploads (`NamesAssumption`, `TextAssumption`,
`RequestsAssumption`):

* `TypeCorrect`: `Spec => []TypeOK`. What needs work is that the bounds hold of
  indices into sequences: a stream's offset and buffer, the column being written.
* `BlocksAlmostRectangular` and `ShiftsOnlyInLastRow`: `AlmostRectangular` and
  `OnlyLastRowShifts` always hold. Neither is inductive: the reading loop leaves
  its pass only when it meets a failed stream, so one has to know what a failed
  stream to the left (`Short`) or to the right (`Doomed`) of the current one
  means. `ReadInv` says that while a query reads, either a stream still to come
  has failed and the pass will not be completed, or the block is level and the
  row begun is either too short to fill it (`Short`) or exactly what the streams
  delivered in this pass (`InStep`). The argument uses nothing about the
  files: it holds whatever the imports do, which is why it can be made for one
  query at a time (`BlocksInv`), and an import or a kill preserves it trivially.

Of what imports leave behind, from the same assumptions:

* `LoneImportsStore`: `LoneImportStored` always holds. An import is alone if it is
  in `sole`. `StoredInv` says of it what it has written so far in each phase:
  every file it has opened holds the data of the last column of that name among
  those done (`UpTo`), the one being written a prefix, `columns.txt` what a column
  of that name has left until the header is flushed over it. That the next piece
  goes on where the last one has ended is `WriteGoesOn`. `ColumnsInTurn` is what
  the position in the list of columns says about each phase.
* `GapsTakeTwo`: `HolesNeedOverlap` always holds, if no upload brings zero bytes of
  its own (`HolelessUploads`, which the property needs: the code copies what it is
  given). `GapInv` says that without an overlap there is one writer and its offset
  lies within its file; only a second import could truncate it.

Of what queries read, from the same assumptions:

* `QuietQueriesExact`: `QuietQueryExact` always holds. A stream that is `OnCourse`
  has delivered the first lines of its text and holds in its buffer what it has
  read behind them, up to its offset; refills of any size, lines taken from the
  buffer and the end of the file, with or without a line feed, keep it so
  (`StreamSteps`), and at the end all lines have been delivered. What the loop over
  the streams makes of the values is `InPass`: the block has the first `b` lines of
  every file, `rowValues` the next line of each stream to the left that had one.
  When a pass ends, either every file had one and the next pass begins with `b + 1`,
  or a stream has failed and the row makes the block what `RowsRead` says
  (`PassGoesOn`). Files that nobody writes to stay as they are: a query is in
  `quiet` only while nobody is in `Writing` (`QuietInv`).
* `FirstImportSeenInPrefixes`: `FirstImportReadsPrefix` always holds. The same
  streams, on the text the import will have written in the end: the file has a
  beginning of it (`Growing`), and `OnCourse` needs only that. A stream that has
  come to the end of the file too early has delivered a cut line as its last and
  delivers no more (`Partly`).

`QueryPipelineProofs`, for any queries and tables (`QueriesAssumption`, `TablesAssumption`:
lists are lists, a limit that is an integer literal has an integer, and cells are
strings of letters; `LettersAssumption`):

* `PipelineStaysDefined`: `StaysDefined` always holds. `PipeInv` says what a step may
  find in its input: blocks of columns, level ones if the files are (`GoodBlock`,
  `GoodStream`), and which steps are planned (`Planned`, `NextStep`). That GroupByStep
  has seen a block when its input ends is not so if any step before it may drop one:
  `PipeInv` adds that the two steps that can come first have columns in every block and
  that the filter has pushed one or still has one to read.
* `GroupsAddUp`: `OneCountAddsUp` always holds. `CountInv` follows the one block that
  comes from the files: up to `group` it has the matching rows, from there on its last
  column has counts with their number as their sum (`Counting`). Sorting and the
  order of the hash table permute the counts, which leaves the sum
  (`SumInAnyOrder`), since it is the number of the units that are summed up
  (`SumIsUnits`). One function visits each row once, and a visit counts one, whether it
  makes a group or meets one (`VisitCounts`, `RowsCounted`); nothing is said of keys,
  which is why colliding ones do no harm.
* `PromiseKept`: `Spec => AnswersAsPromised`, the refinement of `SelectAnswer`.
  `AnswerInv` follows the one block from the files to the reply. Behind SelectStep it
  has the columns that are read, with all their values (`Reads`, `AllRows`); behind
  the filter those of the matching rows (`MatchingPlaces`), since the column that
  FilterBlock takes is the one `ColumnNamed` means (`FilterAtHand`); before the drop
  the temporary columns are still among them, behind it the block lists what the
  query selects (`Lists`, `Found`). `GroupsFound` says of the hash table that it has
  one entry for each group, with its values and the number of its rows: two rows meet
  in an entry exactly if they agree in the selected columns, because the promise keeps
  their keys apart (`VisitFinds`, `GroupsMet`). What `std::sort` may make of the block
  is `Ordered` (`RowsSorted`), for which the comparison of the code, letter by letter
  in the first column that differs, has to be that of `SelectAnswer`, which speaks of
  prefixes and of keys one after another (`LexIsLess`, `PrecedesIsBefore`). LimitStep
  leaves what `FirstRows` leaves, also where the limit becomes negative as an `int`
  (`RowsCut`). A query needs only some of the steps: what one hands on fits what the
  next planned one expects, whichever that is (`Fits`, `PassedOn`, `FitsOn`). With
  `PipeInv` this excludes errors and undefined behaviour for a promised query. The
  step that ends the query is the step of `SelectAnswer`, every other one a stutter
  (`RunningSteps`).

`CsvParserProofs`, for every body (`CsvAssumption`):

* `ParserIsExact`: `ParsedAsMeant` always holds: names, columns and count are what
  `Csv` says by the positions of separators. `ParseInv` says of the scanner between
  two steps that the cells so far are those of the separators before its position;
  that the k-th cell it makes is the k-th by rank needs the lemmas on ranks of
  `PlacesProofs`, proved by the least counterexample instead of an induction
  over operators.

* `ScannerStaysInBody`: `NoOverrun` always holds. Type correctness is part of the
  invariant (`ScanInv`), since what is copied out of a cell is text only if the
  cell lies in the body.

`BlockStreamProofs`, for any finite set of threads and any number of blocks
(`StreamAssumption`):

* `FirstInFirstOut`, `EndIsTheEnd`, `NoneSleepsThrough`: `InOrder`,
  `EndMeansDrained` and `EnoughAwake`. The second needs that nobody pushes once
  closing has begun and that whoever looks at the queue after `closed` has seen it
  set (`Quiet`); the last counts the awake threads.

`HttpServerProofs`, for any finite set of workers and any connections
(`WorkersAssumption`, `NumbersAssumption`):

* `ServerTypeCorrect`, `ConnectionsInOnePlace`, `NothingLeftBehind`,
  `NoLostNotification`: `TypeOK`, `InOnePlace`, `DrainedBeforeReturn`,
  `EnoughAwake`. `InOnePlace` speaks only of accepted connections; that none is
  accepted twice needs that backlog, job list and workers have no connection in
  common and none twice (`BacklogApart`, `JobsApart`, `WorkersApart`). That nothing
  is left behind needs that a worker leaves only when the list is empty and the
  listener has stopped (`NoneLeftBehind`).

`HttpConnectionProofs`, for any conversations of any number of requests, any answers of
the handlers, any buffer, any limit of requests and any largest number
(`LimitsAssumption`;
`ScriptsAssumption`: a request line that matches has one of the methods of the
pattern, numbers are numbers, and a client waits inside its own message;
`TextsAssumption`: an answer is a text):

* `RepliesAreExact`: `RangesExact` always holds. Two lemmas carry it.
  `ReplyIsExact` is about one reply: from what a handler may leave in the response
  (`AnswerOK`: no content, or content with one type, or the second type of a
  result that failed while it was printed), for any ranges, the places that
  `get_range_offset_and_length` cuts out are those that a range means
  (`PlacesOfRange`, `RangeCutOut`), the headers that are added, replaced and left
  out say so (`AllHeadersSay`, `BodyHeadersSay`), and nothing that was thrown is
  among them. `ConnInv` is why a response is like that when it is written: until
  the request is answered it is empty, whatever was read, refused or given up, and
  every header of the request is one that the client has sent, so that
  a `Content-Length` is a number and a `Range` is a list of ranges
  (`RequestHeaders`).
* `ConnectionKeepsPromise`: the refinement of `KeptAlive` step by step. Every
  action is mapped to one of `Begin`, `Answer`, `GiveUp` or to a stutter
  (`StepsOfTheLoop`); that a request is begun only while some are left, and that the
  last reply says so, again need `ConnInv` and `ReplyIsExact`. The fairness of
  `KeptAlive`, which is the other half of `KeepsPromise`, stays with TLC.

The second part of `HttpConnectionProofs`, for any number of messages of any length that
are written as they are meant (`MessagesAssumption`, on top of the assumptions above;
the first part does without it), cut into pieces, run together, broken off, silent or
reset at any time:

* `HandlersCalledAsMeant`: `HandlersGetWholeMessages` always holds. `ReadInv` says of a
  request that is being read that it is one of the messages (`Reading(i)`), and how
  much of it: behind which line of the head and with which headers (`InHead`,
  `BehindHead`), how many units of a body of known length (`InLength`) or of a form,
  with a parser that may be in any state to which some cut of them leads (`InForm`), in
  which chunk and with how many units of its data (`InChunk`), or behind the end with a
  body that may be handed on (`IsMeant`). `RequestProceeds` is one lemma for each
  action: either message i is read on, or it is answered, with a status it may get if
  nothing was given up. That a line is what stands between two places of the stream
  (`LineRead`, `WordLine`), and that message i stands in it where the lengths of the
  ones before it say (`MessageFacts`), is proved for the fold that puts the stream
  together through a function on the naturals (`Joined`), by the least
  counterexample. `ReadInv` speaks only of requests that begin where no awkward message
  lies before (`ClearBefore`): behind one of those anything may be a request line, and
  the property says so too.
* `RepliesInOrder`: `AnswersInOrder` always holds. `StepInv` says that as long as
  nothing is given up and no message so far was awkward the worker stands at the message
  after those it has answered, or at the end of all that was sent; `OrderInv` keeps for
  every reply that it is right, or that its message was cut off.
* `NobodyWaitsInVain`: `NoStandoff` always holds. `ContinueInv` counts the messages whose
  clients wait (`Waiting`): at least as many "100 Continue" have been written as there
  are such messages up to the one whose body is read. A request that is refused at its
  first line, or skipped, is one whose client does not wait (`RefusedNotWaiting`), and
  one that goes past `WriteContinue` has not asked (`RoutedNotWaiting`). So nobody stops
  before the end of the message that is read (`SendsToTheEnd`).

`ParserProofs`, for every text, every division of the characters into classes,
and every limit (`SizeAssumption`):

* `LexerStaysInText`: `Spec => []StaysInText`, the lexer stays inside the text;
* `TokensAlwaysTile`: no character is skipped or read twice, but for the last
  one behind a comment that is not closed. `TokensTile` says nothing of where
  the next token begins; `Lexed` adds that it begins where the last one ends,
  and that inside quotes the lexer has moved past the beginning.
* `QuotesEndTokens`: `QuotedAsWritten` always holds. `QuotedInv` keeps, for the quotes
  that are open and for every token that had some, the places at which the loop of
  `quotedString` begins a turn (`Reached`): from each of them it goes on to another
  one, by one character or over a pair. `WellQuoted` reads the same text from its
  end; that it holds at every place that was reached is shown by the last one at
  which it would not (`ReachedIsWellQuoted`), and that the value which the parser
  takes ends at the first quote inside by `ValueOfQuoted`.

Of the node of a SELECT, for every tree:

* `ClausesAreAMap`: setting a clause changes what is read for it and for no other,
  whether it was there, is new or is taken away; every child stays the clause of
  exactly one expression (`WellFormed`).

Model-checked only: liveness, and with it the fairness in the refinement of
`HttpConnection` to `KeptAlive` and that `QueryPipeline` comes to an answer at all
(`QueryEnds`; `SelectAnswer` says what it is); the recursive operators of the parser
(`SelectGrammar` is recursive by nature) and what rests on them; what the parsers of
texts and forms, folds over data, make of a given text: the theorems about messages
take that as `MessagesAssumption` states it.

## What the code does differently

Met while translating, and modelled as it is. Differences from SQL that no line
of the repository denies are not findings.

* Import: files are truncated and rewritten in place; lines shorter than the
  header leave columns of different lengths; excess fields are dropped; a column
  that cannot be opened is lost in silence; a column named `columns.txt` is
  overwritten at its beginning.
* Reading: the last row of a ragged table is filled from the left, so that a
  value may stand under a wrong name.
* Grouping: rows are grouped by all selected columns, joined without a
  separator; each of them has to be named in GROUP BY, a column that
  is selected under two aliases for each of them, and what else is named there is
  ignored; GROUP BY without an aggregate does nothing; no matching row
  gives no count row instead of 0; `SELECT count(*)` without WHERE reads no
  column and fails with "empty column list".
* Result columns: first the identifiers, then the functions, whatever the order
  of the list.
* WHERE: anything but a call of `equals` is dropped; a name `t.a` means a column of
  the table or a title that is spelled like that, if it comes before column `a`; a double-quoted name on the
  right is taken as a string, which the example of `src/README.md` relies on; an
  integer on the right or a literal on the left is undefined.
* FROM may be missing, and is then dereferenced.
* LIMIT is cut to 32 bits, and one that is negative then leaves all rows; it pads columns that are shorter than the first;
  `LIMIT m, n` makes `m` both the offset and the length.
* FROM with several tables or joins reads the last table only; LOCAL is not a
  reserved word, so that behind `FROM t` it is an alias.
* The reply "n rows imported" counts lines, although a line may have been short or
  a column could not be written.
* Quoted values: the parser takes what stands before the first inner quote, where
  the lexer lets a quote be doubled or escaped.
* Parsing: text behind the last clause is ignored; two pairs of brackets are
  too deep for the limit of 100 levels; an outer alias replaces an inner one.
* Lexing: tokens that end behind the 1000th character are errors, and the parser
  takes the query up to there; behind a comment that is not closed the last
  character is read again; `.5FROM` is two tokens where `5FROM` is an error; a
  dot at the very beginning begins a number; `-` and `/` directly before a comment
  belong to it.
* HTTP, keeping alive: `process_server_socket` takes `connection_closed` by value,
  so that "Connection: close" is announced and the connection goes on; a request
  that is refused leaves its headers or its body, which are read as further
  requests.
* HTTP, bodies: a chunked body that breaks off inside the line end behind a chunk
  is taken for whole; whether a multipart body is accepted may depend on how the
  network cuts it; a `+` in a boundary becomes a space; of a parameter with
  several equal signs the last piece is the value.
* HTTP, replies: a write that fails is not noticed, so that a body may follow a
  head that was lost; a range that begins behind the answer ends the process by an
  exception that nobody catches (requests that do the same are named below);
  `Content-Range` is not cut to the length; ranges
  that cannot be read are ignored; a query that fails while it is printed keeps
  the status but gets the printed rows and two `Content-Type` headers; what a
  handler threw is not told to the client.
* HTTP, requests that end the process: a query string, or a body of the type
  `application/x-www-form-urlencoded`, with a key, a value or a piece between two
  ampersands that is all blanks (`?sql= =b`); a number of more than 64 bits in a
  `Range` header, unless a range before it ends before it begins.
* HTTP, listening: any error of `accept` but `EMFILE` stops the server.

## Not modelled

* Of `src/Libs/httplib.h`, a vendored library, what this server does not reach or
  set: the client half (2000 lines), TLS, compression, content providers, static
  files, `stop()`, the limit of the payload, the logger and the error handler; of forms
  in the body, their fields and parameters. `HttpServer` assumes that no request and no
  reply ends the process (see above): `HttpConnection` says which do, and in
  `TableFiles` that is a kill.
* In `TableFiles` a request is a thread that runs at any time; the pool (at least
  eight workers) only restricts that. The creation of the directory never fails,
  a disk is never full, and `columns.txt` and `count.txt` are small enough for one
  write, as a header of a few kilobytes is.
* Cloning, formatting and sizes of trees, which nobody calls; the alternatives of
  `Field` that no parser makes; the list of expected variants (only wording);
  parsers that no SELECT reaches.
* The token iterator over the lexer's tokens: `Parsers` begins with the significant
  tokens, `Lexer` ends with all tokens. Between them stands a filter.
* `main.cpp` beyond its call of `listen`, build files, `src/Parser/demangle.cpp`
  and other helpers: no state.

## Plan

Done, in this order: `CsvParser`, `TableFiles`, `BlockStream`, `QueryPipeline` with
`SelectAnswer`, the parser, the lexer, the HTTP connection, the listener and the
pool, the tree of a SELECT; proofs about readers, writers, streams, the pool, a
connection, its replies and what it hands on, the scanner, the pipeline up to its implementation of
`SelectAnswer`, the lexer and the tree.

Left, the most important first:

1. An abstract table, replaced in one step by an import and read in one step by a
   query, implemented by `TableFiles` for clients that wait for each other.
2. The token iterator over the lexer's tokens as the text of the parser.
