----------------------------- MODULE TableFiles -----------------------------
(***************************************************************************)
(* The files of one table, shared without any lock by the worker threads   *)
(* that import into it (csvParser, src/Server/csvparser.h, from the point   *)
(* where the body has been parsed) and the worker threads that read it     *)
(* (SelectStep, src/Processors/SelectStep.h).                              *)
(*                                                                         *)
(* A file is a sequence of characters.  Every step is one system call of   *)
(* one thread, or a step of its own memory: opening a file with truncation *)
(* and writing to it are different steps, a write may reach the file in    *)
(* several pieces, a stream reads a bounded buffer at a time.  The process *)
(* may be killed between any two steps; the files survive it.              *)
(*                                                                         *)
(* Imports and Queries are identities of requests, each served at most     *)
(* once.  What a request asks for (upload, select) is arbitrary and fixed. *)
(***************************************************************************)
EXTENDS TextLines, Integers

CONSTANTS
    Imports,    \* requests POST /post/<table>
    Queries,    \* requests GET /query on the same table
    FileNames,  \* names of files in the table's directory
    ColumnsTxt, \* the name columns.txt
    CountTxt,   \* the name count.txt
    Unwritable, \* column names that cannot be opened for writing: the empty
                \* name is the directory, a '/' leads out of it
    Chars,      \* characters of files
    Hole,       \* the zero byte a file system puts into a gap
    Uploads,    \* parsed bodies
    Selects,    \* lists of columns that queries read
    BufferSize, \* the capacity of an input stream's buffer
    MaxCrashes  \* bound on the number of times the process is killed

ASSUME NamesAssumption ==
    /\ Unwritable \subseteq FileNames
    /\ ColumnsTxt \in FileNames \ Unwritable
    /\ CountTxt \in FileNames \ Unwritable
    /\ ColumnsTxt # CountTxt

ASSUME TextAssumption ==
    /\ NL \in Chars
    /\ Hole \in Chars \ {NL}
    /\ BufferSize \in Nat \ {0}
    /\ MaxCrashes \in Nat

Text == Seq(Chars)

\* What csvParser holds when it begins to write: the column names, the text of
\* each column and the texts it will put into columns.txt and count.txt.
Upload == [cols : Seq(FileNames), data : Seq(Text), header : Text, count : Text]

ASSUME RequestsAssumption ==
    /\ Uploads \subseteq Upload
    /\ \A u \in Uploads : Len(u.data) = Len(u.cols)
    /\ Selects \subseteq Seq(FileNames)

VARIABLES
    dir,     \* whether the table's directory exists
    exists,  \* the files in it
    text,    \* their contents
    crashes, \* how many times the process was killed
    upload,  \* per import: its parsed body
    ipc,     \* per import: what csvParser does next
    icol,    \* per import: the column being written
    ioff,    \* per import: the bytes of the open file written so far
    select,  \* per query: the columns it reads
    qpc,     \* per query: what SelectStep does next
    streams, \* per query: the input streams opened so far
    qi,      \* per query: the next column
    row,     \* per query: rowValues
    block    \* per query: the columns of the block read so far

\* History variables, read by properties only.
VARIABLES
    got,     \* per query: the values each of its streams has delivered
    sole,    \* the imports that no other import has overlapped or followed
    quiet,   \* the queries that no import has overlapped or followed
    overlap  \* whether two imports ever wrote at the same time

files  == <<dir, exists, text>>
ivars  == <<upload, ipc, icol, ioff>>
qvars  == <<select, qpc, streams, qi, row, block, got>>
hvars  == <<sole, quiet, overlap>>
vars   == <<files, crashes, ivars, qvars, hvars>>

Stream == [state : {"good", "eof", "fail"}, off : Nat, buf : Text]

ImportPhases == {"idle", "header", "open", "write", "count",
                 "return", "done", "crashed"}
QueryPhases == {"idle", "open", "read", "ok", "failed", "crashed"}

FilesOK ==
    /\ dir \in BOOLEAN
    /\ exists \subseteq FileNames
    /\ text \in [FileNames -> Text]
    /\ crashes \in 0..MaxCrashes

ImportsOK ==
    /\ upload \in [Imports -> Uploads]
    /\ ipc \in [Imports -> ImportPhases]
    /\ icol \in [Imports -> Nat \ {0}]
    /\ ioff \in [Imports -> Nat]
    /\ \A m \in Imports : ipc[m] = "write" =>
        /\ icol[m] \in DOMAIN upload[m].cols
        /\ ioff[m] <= Len(upload[m].data[icol[m]])

QueriesOK ==
    /\ select \in [Queries -> Selects]
    /\ qpc \in [Queries -> QueryPhases]
    /\ streams \in [Queries -> Seq(Stream)]
    /\ qi \in [Queries -> Nat \ {0}]
    /\ row \in [Queries -> Seq(Text)]
    /\ block \in [Queries -> Seq(Seq(Text))]
    /\ got \in [Queries -> Seq(Seq(Text))]
    /\ \A q \in Queries :
        /\ Len(block[q]) = Len(select[q])
        /\ Len(got[q]) = Len(select[q])
        /\ qpc[q] = "idle" => qi[q] = 1 /\ streams[q] = <<>>
        /\ qpc[q] \in {"open", "read"} => qi[q] \in 1..Len(select[q])
        /\ qpc[q] = "open" => Len(streams[q]) = qi[q] - 1
        /\ qpc[q] = "read" => Len(streams[q]) = Len(select[q])

HistoryOK ==
    /\ sole \subseteq Imports
    /\ quiet \subseteq Queries
    /\ overlap \in BOOLEAN

TypeOK == FilesOK /\ ImportsOK /\ QueriesOK /\ HistoryOK

Init ==
    /\ dir = FALSE
    /\ exists = {}
    /\ text = [c \in FileNames |-> <<>>]
    /\ crashes = 0
    /\ upload \in [Imports -> Uploads]
    /\ ipc = [m \in Imports |-> "idle"]
    /\ icol = [m \in Imports |-> 1]
    /\ ioff = [m \in Imports |-> 0]
    /\ select \in [Queries -> Selects]
    /\ qpc = [q \in Queries |-> "idle"]
    /\ streams = [q \in Queries |-> <<>>]
    /\ qi = [q \in Queries |-> 1]
    /\ row = [q \in Queries |-> <<>>]
    /\ block = [q \in Queries |-> [k \in DOMAIN select[q] |-> <<>>]]
    /\ got = [q \in Queries |-> [k \in DOMAIN select[q] |-> <<>>]]
    /\ sole = {}
    /\ quiet = {}
    /\ overlap = FALSE

-----------------------------------------------------------------------------
(*                          csvParser, one import                          *)

Writing == {m \in Imports : ipc[m] \notin {"idle", "done", "crashed"}}

Cols(m) == upload[m].cols

\* A new stream on file c: the file exists from now on and is empty.
Truncate(c) ==
    /\ exists' = exists \union {c}
    /\ text' = [text EXCEPT ![c] = <<>>]

\* The same, one byte too far.
WriteAt_OffByOne(old, off, piece) ==
    [i \in 1..(off + Len(piece) + 1) |->
        IF i \in (off + 2)..(off + Len(piece) + 1) THEN piece[i - off - 1]
        ELSE IF i <= Len(old) THEN old[i] ELSE Hole]

\* The file after piece has been written at offset off, as pwrite leaves it.
WriteAt(old, off, piece) ==
    [i \in 1..(IF Len(old) > off + Len(piece) THEN Len(old) ELSE off + Len(piece)) |->
        IF i \in (off + 1)..(off + Len(piece)) THEN piece[i - off]
        ELSE IF i <= Len(old) THEN old[i] ELSE Hole]

CreateDirectories(m) ==
    /\ ipc[m] = "idle"
    /\ dir' = TRUE
    /\ ipc' = [ipc EXCEPT ![m] = "header"]
    /\ sole' = IF Writing = {} THEN {m} ELSE {}
    /\ overlap' = (overlap \/ Writing # {})
    /\ quiet' = {}
    /\ UNCHANGED <<exists, text, crashes, upload, icol, ioff, qvars>>

\* columns.txt is opened here, but what is put into the stream stays in its
\* buffer until csvParser returns.
OpenColumnsTxt(m) ==
    /\ ipc[m] = "header"
    /\ Truncate(ColumnsTxt)
    /\ ipc' = [ipc EXCEPT ![m] = "open"]
    /\ UNCHANGED <<dir, crashes, upload, icol, ioff, qvars, hvars>>

\* csvParser with an output stream that appends to the file.
OpenColumn_Append(m) ==
    /\ ipc[m] = "open"
    /\ icol[m] \in DOMAIN Cols(m)
    /\ Cols(m)[icol[m]] \notin Unwritable
    /\ exists' = exists \union {Cols(m)[icol[m]]}
    /\ ioff' = [ioff EXCEPT ![m] = Len(text[Cols(m)[icol[m]]])]
    /\ ipc' = [ipc EXCEPT ![m] = "write"]
    /\ UNCHANGED <<dir, text, crashes, upload, icol, qvars, hvars>>

\* csvParser with one output stream for all columns that keeps its offset.
OpenColumn_KeepsOffset(m) ==
    /\ ipc[m] = "open"
    /\ icol[m] \in DOMAIN Cols(m)
    /\ Cols(m)[icol[m]] \notin Unwritable
    /\ Truncate(Cols(m)[icol[m]])
    /\ ipc' = [ipc EXCEPT ![m] = "write"]
    /\ UNCHANGED <<dir, crashes, upload, icol, ioff, qvars, hvars>>

OpenColumn(m) ==
    /\ ipc[m] = "open"
    /\ icol[m] \in DOMAIN Cols(m)
    /\ Cols(m)[icol[m]] \notin Unwritable
    /\ Truncate(Cols(m)[icol[m]])
    /\ ioff' = [ioff EXCEPT ![m] = 0]
    /\ ipc' = [ipc EXCEPT ![m] = "write"]
    /\ UNCHANGED <<dir, crashes, upload, icol, qvars, hvars>>

\* The stream is not checked after it was opened: writing to one that could not
\* be opened does nothing.
SkipColumn(m) ==
    /\ ipc[m] = "open"
    /\ icol[m] \in DOMAIN Cols(m)
    /\ Cols(m)[icol[m]] \in Unwritable
    /\ icol' = [icol EXCEPT ![m] = @ + 1]
    /\ UNCHANGED <<files, crashes, upload, ipc, ioff, qvars, hvars>>

Remaining(m) ==
    SubSeq(upload[m].data[icol[m]], ioff[m] + 1, Len(upload[m].data[icol[m]]))

\* A retry after a short write that starts again with the first byte.
WriteColumn_Restarts(m) ==
    /\ ipc[m] = "write"
    /\ \E n \in 1..Len(Remaining(m)) :
        /\ text' = [text EXCEPT ![Cols(m)[icol[m]]] =
                        WriteAt(@, ioff[m], SubSeq(upload[m].data[icol[m]], 1, n))]
        /\ ioff' = [ioff EXCEPT ![m] = @ + n]
    /\ UNCHANGED <<dir, exists, crashes, upload, ipc, icol, qvars, hvars>>

\* Some further bytes of the column reach the file.
WriteColumn(m) ==
    /\ ipc[m] = "write"
    /\ \E n \in 1..Len(Remaining(m)) :
        /\ text' = [text EXCEPT ![Cols(m)[icol[m]]] =
                        WriteAt(@, ioff[m], SubSeq(Remaining(m), 1, n))]
        /\ ioff' = [ioff EXCEPT ![m] = @ + n]
    /\ UNCHANGED <<dir, exists, crashes, upload, ipc, icol, qvars, hvars>>

\* A loop over the columns that does not go on to the next one.
CloseColumn_SameColumn(m) ==
    /\ ipc[m] = "write"
    /\ Remaining(m) = <<>>
    /\ ipc' = [ipc EXCEPT ![m] = "open"]
    /\ UNCHANGED <<files, crashes, upload, icol, ioff, qvars, hvars>>

CloseColumn(m) ==
    /\ ipc[m] = "write"
    /\ Remaining(m) = <<>>
    /\ ipc' = [ipc EXCEPT ![m] = "open"]
    /\ icol' = [icol EXCEPT ![m] = @ + 1]
    /\ UNCHANGED <<files, crashes, upload, ioff, qvars, hvars>>

OpenCount(m) ==
    /\ ipc[m] = "open"
    /\ icol[m] \notin DOMAIN Cols(m)
    /\ Truncate(CountTxt)
    /\ ipc' = [ipc EXCEPT ![m] = "count"]
    /\ UNCHANGED <<dir, crashes, upload, icol, ioff, qvars, hvars>>

\* The streams are destroyed in the reverse order of their declaration:
\* count.txt first, then columns.txt.
FlushCount(m) ==
    /\ ipc[m] = "count"
    /\ text' = [text EXCEPT ![CountTxt] = WriteAt(@, 0, upload[m].count)]
    /\ ipc' = [ipc EXCEPT ![m] = "return"]
    /\ UNCHANGED <<dir, exists, crashes, upload, icol, ioff, qvars, hvars>>

\* The last stream is flushed and the reply, "<count> rows imported", is sent.
FlushHeader(m) ==
    /\ ipc[m] = "return"
    /\ text' = [text EXCEPT ![ColumnsTxt] = WriteAt(@, 0, upload[m].header)]
    /\ ipc' = [ipc EXCEPT ![m] = "done"]
    /\ UNCHANGED <<dir, exists, crashes, upload, icol, ioff, qvars, hvars>>

ImportStep(m) ==
    \/ OpenColumnsTxt(m)
    \/ OpenColumn(m)
    \/ SkipColumn(m)
    \/ WriteColumn(m)
    \/ CloseColumn(m)
    \/ OpenCount(m)
    \/ FlushCount(m)
    \/ FlushHeader(m)

-----------------------------------------------------------------------------
(*                          SelectStep, one query                          *)

Width(q) == Len(select[q])

StartQuery(q) ==
    /\ qpc[q] = "idle"
    /\ qpc' = [qpc EXCEPT ![q] = IF dir /\ select[q] # <<>> THEN "open" ELSE "failed"]
    /\ quiet' = IF Writing = {} THEN quiet \union {q} ELSE quiet
    /\ UNCHANGED <<files, crashes, ivars, select, streams, qi, row, block, got,
                   sole, overlap>>

\* exists(fileName), and the opening of the input stream.  No file is ever
\* removed, so nothing can come between the two.
OpenFile(q) ==
    /\ qpc[q] = "open"
    /\ IF select[q][qi[q]] \in exists
       THEN /\ streams' = [streams EXCEPT ![q] =
                            Append(@, [state |-> "good", off |-> 0, buf |-> <<>>])]
            /\ qi' = [qi EXCEPT ![q] = IF @ = Width(q) THEN 1 ELSE @ + 1]
            /\ qpc' = [qpc EXCEPT ![q] = IF qi[q] = Width(q) THEN "read" ELSE "open"]
       ELSE /\ qpc' = [qpc EXCEPT ![q] = "failed"]
            /\ UNCHANGED <<streams, qi>>
    /\ UNCHANGED <<files, crashes, ivars, select, row, block, got, hvars>>

\* The stream whose turn it is, and its file.
Current(q) == streams[q][qi[q]]
CurrentText(q) == text[select[q][qi[q]]]

\* Position i of a buffer holds its first line feed.
FirstNL(buf, i) == buf[i] = NL /\ \A j \in 1..(i - 1) : buf[j] # NL

HasLine(buf) == \E i \in DOMAIN buf : buf[i] = NL

\* What the file still has for a stream that is at offset off.
Chunk(t, off) ==
    SubSeq(t, off + 1, IF off + BufferSize < Len(t) THEN off + BufferSize ELSE Len(t))

\* A reader that forgets what it had of the line.
ReadBuffer_DropsPartial(q) ==
    /\ qpc[q] = "read"
    /\ Current(q).state = "good"
    /\ ~HasLine(Current(q).buf)
    /\ Chunk(CurrentText(q), Current(q).off) # <<>>
    /\ LET chunk == Chunk(CurrentText(q), Current(q).off)
       IN  streams' = [streams EXCEPT
                ![q][qi[q]].buf = chunk,
                ![q][qi[q]].off = @ + Len(chunk)]
    /\ UNCHANGED <<files, crashes, ivars, select, qpc, qi, row, block, got, hvars>>

\* getline finds no line feed in what it has and reads another buffer.
ReadBuffer(q) ==
    /\ qpc[q] = "read"
    /\ Current(q).state = "good"
    /\ ~HasLine(Current(q).buf)
    /\ Chunk(CurrentText(q), Current(q).off) # <<>>
    /\ LET chunk == Chunk(CurrentText(q), Current(q).off)
       IN  streams' = [streams EXCEPT
                ![q][qi[q]].buf = @ \o chunk,
                ![q][qi[q]].off = @ + Len(chunk)]
    /\ UNCHANGED <<files, crashes, ivars, select, qpc, qi, row, block, got, hvars>>

\* The end of a pass over the streams: the values of rowValues go to the columns
\* from the left, whichever columns they came from.
AddRow(b, values) ==
    [k \in DOMAIN b |-> IF k <= Len(values) THEN Append(b[k], values[k]) ELSE b[k]]

\* SelectStep without the rowValues.clear() at the start of a pass.
Advance_KeepsRow(q, s, values) ==
    LET full == row[q] \o values
        last == qi[q] = Width(q)
    IN  /\ streams' = [streams EXCEPT ![q][qi[q]] = s]
        /\ got' = [got EXCEPT ![q][qi[q]] = @ \o values]
        /\ row' = [row EXCEPT ![q] = full]
        /\ qi' = [qi EXCEPT ![q] = IF last THEN 1 ELSE @ + 1]
        /\ block' = [block EXCEPT ![q] = IF last THEN AddRow(@, full) ELSE @]
        /\ UNCHANGED <<files, crashes, ivars, select, qpc, hvars>>

\* The stream s replaces the current one, and the values (none or one) it
\* delivered join rowValues; after the last stream the row goes to the block.
Advance(q, s, values) ==
    LET full == row[q] \o values
        last == qi[q] = Width(q)
    IN  /\ streams' = [streams EXCEPT ![q][qi[q]] = s]
        /\ got' = [got EXCEPT ![q][qi[q]] = @ \o values]
        /\ row' = [row EXCEPT ![q] = IF last THEN <<>> ELSE full]
        /\ qi' = [qi EXCEPT ![q] = IF last THEN 1 ELSE @ + 1]
        /\ block' = [block EXCEPT ![q] = IF last THEN AddRow(@, full) ELSE @]
        /\ UNCHANGED <<files, crashes, ivars, select, qpc, hvars>>

\* getline finds a line.
GetLine(q) ==
    /\ qpc[q] = "read"
    /\ Current(q).state = "good"
    /\ LET buf == Current(q).buf
       IN  \E i \in 1..Len(buf) :
            /\ FirstNL(buf, i)
            /\ Advance(q, [Current(q) EXCEPT !.buf = SubSeq(buf, i + 1, Len(buf))],
                       <<SubSeq(buf, 1, i - 1)>>)

\* getline comes to the end of the file.  Characters without a line feed are a
\* value, and only the next getline fails; with no characters this one fails.
EndOfFile(q) ==
    /\ qpc[q] = "read"
    /\ Current(q).state = "good"
    /\ ~HasLine(Current(q).buf)
    /\ Chunk(CurrentText(q), Current(q).off) = <<>>
    /\ IF Current(q).buf = <<>>
       THEN Advance(q, [Current(q) EXCEPT !.state = "fail"], <<>>)
       ELSE Advance(q, [Current(q) EXCEPT !.state = "eof", !.buf = <<>>],
                    <<Current(q).buf>>)

GetLineAfterEof(q) ==
    /\ qpc[q] = "read"
    /\ Current(q).state = "eof"
    /\ Advance(q, [Current(q) EXCEPT !.state = "fail"], <<>>)

\* A loop that stops only when its last stream has failed.
StopReading_AtLast(q) ==
    /\ qpc[q] = "read"
    /\ Current(q).state = "fail"
    /\ IF qi[q] = Width(q)
       THEN /\ row' = [row EXCEPT ![q] = <<>>]
            /\ qpc' = [qpc EXCEPT ![q] = "ok"]
            /\ UNCHANGED <<files, crashes, ivars, select, streams, qi, block, got,
                           hvars>>
       ELSE Advance(q, Current(q), <<>>)

\* A loop that leaves the pass but does not set stopReading.
StopReading_NextPass(q) ==
    /\ qpc[q] = "read"
    /\ Current(q).state = "fail"
    /\ row' = [row EXCEPT ![q] = <<>>]
    /\ qi' = [qi EXCEPT ![q] = 1]
    /\ UNCHANGED <<files, crashes, ivars, select, qpc, streams, block, got, hvars>>

\* A stream that has failed stops the reading; the row begun is forgotten, the
\* block is pushed and the stream of blocks closed.
StopReading(q) ==
    /\ qpc[q] = "read"
    /\ Current(q).state = "fail"
    /\ row' = [row EXCEPT ![q] = <<>>]
    /\ qpc' = [qpc EXCEPT ![q] = "ok"]
    /\ UNCHANGED <<files, crashes, ivars, select, streams, qi, block, got, hvars>>

QueryStep(q) ==
    \/ OpenFile(q)
    \/ ReadBuffer(q)
    \/ GetLine(q)
    \/ EndOfFile(q)
    \/ GetLineAfterEof(q)
    \/ StopReading(q)

-----------------------------------------------------------------------------
\* The process is killed and started again: whatever was being served is lost
\* with its buffers, what had reached the files stays.
Crash ==
    /\ crashes < MaxCrashes
    /\ crashes' = crashes + 1
    /\ ipc' = [m \in Imports |-> IF m \in Writing THEN "crashed" ELSE ipc[m]]
    /\ qpc' = [q \in Queries |->
                IF qpc[q] \in {"open", "read"} THEN "crashed" ELSE qpc[q]]
    /\ UNCHANGED <<files, upload, icol, ioff, select, streams, qi, row, block,
                   got, hvars>>

Next ==
    \/ \E m \in Imports : CreateDirectories(m) \/ ImportStep(m)
    \/ \E q \in Queries : StartQuery(q) \/ QueryStep(q)
    \/ Crash

\* A worker thread that has begun a request runs on.  Nobody has to send one,
\* and nothing has to kill the process.
Fairness ==
    /\ \A m \in Imports : WF_vars(ImportStep(m))
    /\ \A q \in Queries : WF_vars(QueryStep(q))

Spec == Init /\ [][Next]_vars
FairSpec == Spec /\ Fairness

-----------------------------------------------------------------------------
(* The block that a query builds is never more than one row out of shape,  *)
(* whatever the imports do to the files meanwhile and however ragged the   *)
(* uploads were: its columns have the same length, or the first few have   *)
(* one value more.  The printing loop of processQueryRequest walks all     *)
(* columns to the length of the first.                                     *)
AlmostRectangular ==
    \A q \in Queries : \A i, j \in DOMAIN block[q] :
        i < j => /\ Len(block[q][j]) <= Len(block[q][i])
                 /\ Len(block[q][i]) <= Len(block[q][j]) + 1

(* Values can slide into the wrong column (rowValues forgets which streams *)
(* its values came from), but only in that last, incomplete row: in every  *)
(* row that the last column has, each column holds the value its own file  *)
(* delivered for that row.                                                 *)
OnlyLastRowShifts ==
    \A q \in Queries : \A k \in DOMAIN block[q] :
        \A r \in 1..Len(block[q][Len(block[q])]) :
            /\ r \in DOMAIN got[q][k]
            /\ block[q][k][r] = got[q][k][r]

(* What SelectStep makes of files that nobody writes to: all rows that     *)
(* every column has, then the next values of the longer columns from the   *)
(* left.                                                                   *)
RowsRead(q) ==
    LET lines  == [k \in DOMAIN select[q] |-> LinesOf(text[select[q][k]])]
        all    == CHOOSE n \in {Len(lines[k]) : k \in DOMAIN lines} :
                      \A k \in DOMAIN lines : n <= Len(lines[k])
        longer == Increasing({k \in DOMAIN lines : Len(lines[k]) > all})
    IN  [k \in DOMAIN lines |->
            SubSeq(lines[k], 1, all) \o
            IF k \in DOMAIN longer THEN <<lines[longer[k]][all + 1]>> ELSE <<>>]

(* A query that no import overlapped answers with exactly the lines of its *)
(* files, through any sequence of buffer refills, for files with and       *)
(* without a line feed at the end.                                         *)
QuietQueryExact ==
    \A q \in quiet : qpc[q] = "ok" => block[q] = RowsRead(q)

(* The text a lone import leaves in file c: of several columns of that     *)
(* name the last; columns.txt and count.txt are written after all columns, *)
(* the first over what a column of that name has left.                     *)
ColumnText(u, c) ==
    LET named == {i \in DOMAIN u.cols : u.cols[i] = c}
    IN  IF named = {} THEN <<>>
        ELSE u.data[CHOOSE i \in named : \A j \in named : j <= i]

FinalText(u, c) ==
    CASE c = CountTxt   -> u.count
      [] c = ColumnsTxt -> WriteAt(ColumnText(u, c), 0, u.header)
      [] OTHER          -> ColumnText(u, c)

(* An import that overlapped no other one leaves every file it could open  *)
(* exactly as its body says, until the next import begins: whatever        *)
(* earlier imports of other shapes left behind, and however a crash cut    *)
(* one of them or overlapping ones mixed up the files.                     *)
LoneImportStored ==
    \A m \in sole : ipc[m] = "done" =>
        \A c \in ({Cols(m)[i] : i \in DOMAIN Cols(m)} \ Unwritable)
                    \union {ColumnsTxt, CountTxt} :
            c \in exists /\ text[c] = FinalText(upload[m], c)

(* A file gets a gap of zero bytes only when two imports overlap, one of   *)
(* them truncating the file under the other's offset; a crash makes none.  *)
HolesNeedOverlap ==
    (\E c \in FileNames : \E i \in DOMAIN text[c] : text[c][i] = Hole) => overlap

(* While the table's first import runs, and after a crash cut it off, a    *)
(* query sees of each column a prefix of the uploaded values, at worst     *)
(* with the last value cut short.                                          *)
CutPrefix(s, t) ==
    /\ Len(s) <= Len(t)
    /\ \A i \in 1..(Len(s) - 1) : s[i] = t[i]
    /\ s # <<>> => \E n \in 0..Len(t[Len(s)]) :
                      s[Len(s)] = SubSeq(t[Len(s)], 1, n)

FirstImportReadsPrefix ==
    \A m \in Imports : \A q \in Queries :
        (\A o \in Imports \ {m} : ipc[o] = "idle") =>
            \A k \in DOMAIN select[q] : \A i \in DOMAIN Cols(m) :
                (/\ Cols(m)[i] = select[q][k]
                 /\ Cols(m)[i] \notin {ColumnsTxt, CountTxt}
                 /\ \A j \in DOMAIN Cols(m) : Cols(m)[j] = Cols(m)[i] => j = i) =>
                    CutPrefix(got[q][k], LinesOf(upload[m].data[i]))

(* Every import that has begun replies and every query that has begun      *)
(* answers, unless the process is killed: an import cannot hold up a       *)
(* query for ever, nor the other way round.                                *)
ImportsReply ==
    \A m \in Imports : m \in Writing ~> ipc[m] \in {"done", "crashed"}

QueriesAnswer ==
    \A q \in Queries :
        qpc[q] \in {"open", "read"} ~> qpc[q] \in {"ok", "failed", "crashed"}
=============================================================================
