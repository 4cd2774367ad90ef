-------------------------------- MODULE Csv --------------------------------
(***************************************************************************)
(* What an uploaded CSV body means, stated without a scanner: where its    *)
(* lines begin and end, which cells a line has, and the columns a body     *)
(* gives rise to.  The scanner of src/Server/csvparser.h is CsvParser; it   *)
(* is checked against these definitions, and the models of the column      *)
(* files take their uploads from them.                                     *)
(*                                                                         *)
(* A body is a sequence of characters.  There is no quoting and no         *)
(* escaping in the dialect: a comma always ends a cell and a line feed     *)
(* always ends a line.                                                     *)
(***************************************************************************)
EXTENDS TextLines, SequencesExt, FiniteSetsExt

CONSTANT Comma

\* The header is the first line.  A data line begins after every line feed
\* that is not the last character of the body.
DataStarts(body) == {p + 1 : p \in NewLines(body)} \cap 1..Len(body)

\* The position of the line feed that ends the line beginning at s, or one past
\* the end of the body.
LineEnd(body, s) == Min({p \in NewLines(body) : p >= s} \union {Len(body) + 1})

CellEnds(body, s) ==
    {p \in s..(LineEnd(body, s) - 1) : body[p] = Comma} \union {LineEnd(body, s)}

\* The cells of the line beginning at s: what stands between its commas.
CellsAt(body, s) ==
    LET ends == Increasing(CellEnds(body, s))
    IN  [i \in DOMAIN ends |->
            SubSeq(body, IF i = 1 THEN s ELSE ends[i - 1] + 1, ends[i] - 1)]

\* The i-th column: the i-th cell of the lines that have one.
ColumnOf(body, i) ==
    LET starts == Increasing({s \in DataStarts(body) : i <= Len(CellsAt(body, s))})
    IN  [r \in DOMAIN starts |-> CellsAt(body, starts[r])[i]]

\* The text of a column file: every cell followed by a line feed.
TextOf(cells) == FlattenSeq([i \in DOMAIN cells |-> Append(cells[i], NL)])
=============================================================================
