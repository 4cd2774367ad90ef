----------------------------- MODULE CsvParser -----------------------------
(***************************************************************************)
(* parseLine and the parsing half of csvParser, src/Server/csvparser.h, as  *)
(* the loop over characters that they are.  The half that writes the       *)
(* column files is TableFiles.                                             *)
(*                                                                         *)
(* The pointers begin and pos of the source are the variable pos, counted  *)
(* from 1, and end is Len(body) + 1.  A Cell points into the body by its    *)
(* first position and its size, as in the source; its characters are       *)
(* copied out only when csvParser copies them.                             *)
(***************************************************************************)
EXTENDS Csv, Integers

CONSTANTS Chars, \* the characters of a body
          Bodies \* the request bodies the server may receive

ASSUME CsvAssumption == /\ {Comma, NL} \subseteq Chars
                        /\ Comma # NL
                        /\ Bodies \subseteq Seq(Chars)

VARIABLES body,        \* the request body
          phase,       \* where csvParser is, see TypeOK
          pos,         \* the next character
          size,        \* cell.size, the length of the cell being scanned
          fields,      \* the cells of the line being scanned
          columnsName, \* the cells of the header
          columnsData, \* per column, the cells copied so far
          count        \* the data lines parsed so far

vars == <<body, phase, pos, size, fields, columnsName, columnsData, count>>

end == Len(body) + 1

Cell == [start : Nat \ {0}, size : Nat]

TextAt(cell) == SubSeq(body, cell.start, cell.start + cell.size - 1)

\* "header" and "line" are inside parseLine, "rows" is the test of the loop
\* over the data lines.
TypeOK ==
    /\ body \in Bodies
    /\ phase \in {"header", "rows", "line", "return"}
    /\ pos \in 1..(Len(body) + 2)
    /\ size \in Nat
    /\ fields \in Seq(Cell)
    /\ columnsName \in Seq(Seq(Chars))
    /\ columnsData \in Seq(Seq(Seq(Chars)))
    /\ count \in Nat

Init ==
    /\ body \in Bodies
    /\ phase = "header"
    /\ pos = 1
    /\ size = 0
    /\ fields = <<>>
    /\ columnsName = <<>>
    /\ columnsData = <<>>
    /\ count = 0

-----------------------------------------------------------------------------
(* parseLine: one action per way through the body of its loop, and one for *)
(* what follows the loop together with what the caller does with the line. *)

Scanning == phase \in {"header", "line"}

LineEnds == pos \in NewLines(body) \union {end}

Cells == Append(fields, [start |-> pos - size, size |-> size])

ScanChar ==
    /\ Scanning
    /\ ~LineEnds
    /\ body[pos] # Comma
    /\ size' = size + 1
    /\ pos' = pos + 1
    /\ UNCHANGED <<body, phase, fields, columnsName, columnsData, count>>

\* A parseLine whose branch for the comma forgets begin++.
ScanComma_Continue ==
    /\ Scanning
    /\ ~LineEnds
    /\ body[pos] = Comma
    /\ UNCHANGED vars

ScanComma ==
    /\ Scanning
    /\ ~LineEnds
    /\ body[pos] = Comma
    /\ fields' = Cells
    /\ size' = 0
    /\ pos' = pos + 1
    /\ UNCHANGED <<body, phase, columnsName, columnsData, count>>

HeaderEnds ==
    /\ phase = "header"
    /\ LineEnds
    /\ columnsName' = [i \in DOMAIN Cells |-> TextAt(Cells[i])]
    /\ columnsData' = [i \in DOMAIN Cells |-> <<>>]
    /\ fields' = <<>>
    /\ size' = 0
    /\ pos' = pos + 1
    /\ phase' = "rows"
    /\ UNCHANGED <<body, count>>

\* The same test written with <= for <.
RowsBegin_PastEnd ==
    /\ phase = "rows"
    /\ phase' = IF pos <= end THEN "line" ELSE "return"
    /\ UNCHANGED <<body, pos, size, fields, columnsName, columnsData, count>>

\* A do-while loop.
RowsBegin_NoTest ==
    /\ phase = "rows"
    /\ phase' = IF count = 0 \/ pos < end THEN "line" ELSE "return"
    /\ UNCHANGED <<body, pos, size, fields, columnsName, columnsData, count>>

RowsBegin ==
    /\ phase = "rows"
    /\ phase' = IF pos < end THEN "line" ELSE "return"
    /\ UNCHANGED <<body, pos, size, fields, columnsName, columnsData, count>>

\* A cell beyond the header's width is dropped, a column beyond the line's
\* width gets nothing.
AddRow(row) ==
    [i \in DOMAIN columnsData |->
        IF i <= Len(row) THEN Append(columnsData[i], TextAt(row[i]))
                         ELSE columnsData[i]]

LineParsed ==
    /\ phase = "line"
    /\ LineEnds
    /\ columnsData' = AddRow(Cells)
    /\ count' = count + 1
    /\ fields' = <<>>
    /\ size' = 0
    /\ pos' = pos + 1
    /\ phase' = "rows"
    /\ UNCHANGED <<body, columnsName>>

Next == ScanChar \/ ScanComma \/ HeaderEnds \/ RowsBegin \/ LineParsed

\* csvParser runs to its end on the thread that serves the request.
Spec == Init /\ [][Next]_vars /\ WF_vars(Next)

-----------------------------------------------------------------------------
(* The pointer never passes the end of the body while a line is scanned:   *)
(* parseLine stops only when its pointer is equal to end, so that starting  *)
(* it beyond the end (after the header of a body without a line feed, or   *)
(* after the last line) would read past the buffer.                        *)
NoOverrun ==
    /\ Scanning => pos <= end
    /\ size < pos
    /\ \A i \in DOMAIN fields :
        fields[i].start >= 1 /\ fields[i].start + fields[i].size <= pos

(* The scanner computes what the body means: when csvParser has parsed the *)
(* body, the column names, the columns and the returned count are those    *)
(* that Csv reads off the positions of the commas and line feeds.          *)
ParsedAsMeant ==
    phase = "return" =>
        /\ columnsName = CellsAt(body, 1)
        /\ columnsData = [i \in DOMAIN CellsAt(body, 1) |-> ColumnOf(body, i)]
        /\ count = Cardinality(DataStarts(body))

(* csvParser returns for every body.                                       *)
ParserReturns == <>(phase = "return")
=============================================================================
