--------------------------- MODULE CsvParserProofs --------------------------
(***************************************************************************)
(* Theorems about CsvParser, for every body over every alphabet that has a  *)
(* comma and a line feed, which are different.                              *)
(***************************************************************************)
EXTENDS CsvParser, PlacesProofs

ScanInv == TypeOK /\ NoOverrun

\* Where the line being scanned begins.
LineStart == IF fields = <<>> THEN pos - size ELSE fields[1].start

CommasIn(s, p) == {q \in s..(p - 1) : body[q] = Comma}

\* What parseLine has of its line: the cells before the commas that it has passed.
LineInv ==
    LET commas == Increasing(CommasIn(LineStart, pos))
    IN  /\ LineStart \in 1..pos
        /\ \A p \in LineStart..(pos - 1) : body[p] # NL
        /\ Len(fields) = Len(commas)
        /\ \A j \in 1..Len(fields) :
              /\ fields[j].start = IF j = 1 THEN LineStart ELSE commas[j - 1] + 1
              /\ fields[j].start + fields[j].size = commas[j]
        /\ pos - size = IF fields = <<>> THEN LineStart ELSE commas[Len(fields)] + 1

StartsBefore(text, p) == {s \in DataStarts(text) : s < p}
LongBefore(text, p, i) == {s \in StartsBefore(text, p) : i <= Len(CellsAt(text, s))}

\* The i-th cells of the lines that begin before p.
ColumnBefore(text, p, i) ==
    [r \in DOMAIN Increasing(LongBefore(text, p, i)) |->
        CellsAt(text, Increasing(LongBefore(text, p, i))[r])[i]]

\* What csvParser has of the lines that begin before p.
Parsed(p) ==
    /\ columnsName = CellsAt(body, 1)
    /\ columnsData = [i \in DOMAIN CellsAt(body, 1) |-> ColumnBefore(body, p, i)]
    /\ count = Cardinality(StartsBefore(body, p))

ParseInv ==
    /\ Scanning => LineInv
    /\ phase = "header" => LineStart = 1 /\ count = 0
    /\ phase = "line" => LineStart \in DataStarts(body) /\ Parsed(LineStart)
    /\ phase = "rows" => /\ pos - 1 \in NewLines(body) \union {end}
                         /\ fields = <<>> /\ size = 0
                         /\ Parsed(pos)
    /\ phase = "return" => Parsed(end)

-----------------------------------------------------------------------------
LEMMA BodyFacts ==
  ASSUME TypeOK
  PROVE  /\ body \in Seq(Chars) /\ Len(body) \in Nat /\ end = Len(body) + 1
         /\ \A p \in NewLines(body) : p \in 1..Len(body)
  BY CsvAssumption DEF TypeOK, end, NewLines

LEMMA FunctionIsSeq ==
  ASSUME NEW S, NEW n \in Nat, NEW f \in [1..n -> S]
  PROVE  f \in Seq(S)
  OBVIOUS

\* Cells that end before p end before p + 1.
LEMMA StayBefore ==
  ASSUME NEW cells \in Seq(Cell), NEW p \in Int,
         \A i \in DOMAIN cells : cells[i].start >= 1 /\ cells[i].start + cells[i].size <= p
  PROVE  \A i \in DOMAIN cells : cells[i].start >= 1 /\ cells[i].start + cells[i].size <= p + 1
<1> SUFFICES ASSUME NEW i \in DOMAIN cells
             PROVE  cells[i].start >= 1 /\ cells[i].start + cells[i].size <= p + 1
  OBVIOUS
<1>1. cells[i] \in Cell
  OBVIOUS
<1>2. cells[i].start \in Nat /\ cells[i].size \in Nat
  BY <1>1 DEF Cell
<1> QED
  BY <1>2

\* The cell that ends at pos lies in the body, as do those before it.
LEMMA CellsInBody ==
  ASSUME ScanInv, Scanning
  PROVE  /\ Cells \in Seq(Cell)
         /\ \A i \in DOMAIN Cells : Cells[i].start >= 1 /\ Cells[i].start + Cells[i].size <= pos
<1> DEFINE c == [start |-> pos - size, size |-> size]
<1>1. pos \in Nat /\ size \in Nat /\ size < pos /\ fields \in Seq(Cell)
  BY DEF ScanInv, TypeOK, NoOverrun
<1>2. c \in Cell /\ c.start >= 1 /\ c.start + c.size = pos
  BY <1>1 DEF Cell
<1> HIDE DEF c
<1>3. Append(fields, c) \in Seq(Cell)
  BY <1>1, <1>2
<1>4. \A i \in DOMAIN Append(fields, c) :
          Append(fields, c)[i] = c \/ (i \in DOMAIN fields /\ Append(fields, c)[i] = fields[i])
  BY <1>1, <1>2
<1>5. \A i \in DOMAIN fields : fields[i].start >= 1 /\ fields[i].start + fields[i].size <= pos
  BY DEF ScanInv, NoOverrun
<1>6. Cells = Append(fields, c)
  BY DEF Cells, c
<1>7. c.start + c.size <= pos
  BY <1>1, <1>2
<1> QED
  BY <1>2, <1>3, <1>4, <1>5, <1>6, <1>7

\* What is copied out of a cell is text of the body.
LEMMA TextTyped ==
  ASSUME ScanInv, Scanning, NEW i \in DOMAIN Cells
  PROVE  TextAt(Cells[i]) \in Seq(Chars)
<1> DEFINE c == Cells[i]
<1>1. c \in Cell /\ c.start >= 1 /\ c.start + c.size <= pos
  BY CellsInBody
<1>2. pos <= Len(body) + 1 /\ pos \in Nat
  BY DEF ScanInv, NoOverrun, TypeOK, end
<1> HIDE DEF c
<1>3. c.start \in Nat /\ c.size \in Nat
  BY <1>1 DEF Cell
<1>4. c.start + c.size - 1 <= Len(body)
  BY <1>1, <1>2, <1>3, BodyFacts DEF ScanInv
<1>5. \A k \in c.start..(c.start + c.size - 1) : body[k] \in Chars
  BY <1>1, <1>3, <1>4, BodyFacts DEF ScanInv
<1>6. SubSeq(body, c.start, c.start + c.size - 1) \in Seq(Chars)
  BY <1>1, <1>3, <1>4, <1>5, BodyFacts DEF ScanInv
<1> QED
  BY <1>6 DEF TextAt, c

LEMMA InitInv == Init => ScanInv
<1> SUFFICES ASSUME Init PROVE ScanInv
  OBVIOUS
<1>1. Len(body) \in Nat /\ end = Len(body) + 1
  BY CsvAssumption DEF Init, end
<1>2. TypeOK
  BY <1>1 DEF Init, TypeOK
<1>3. NoOverrun
  BY <1>1 DEF Init, NoOverrun, Scanning
<1> QED
  BY <1>2, <1>3 DEF ScanInv

\* The pointer moves on by one from a place in the body.
LEMMA MovesOn ==
  ASSUME ScanInv, Scanning, ~LineEnds
  PROVE  pos + 1 \in 1..(Len(body) + 2) /\ pos + 1 <= end
  BY BodyFacts, SMTT(30) DEF ScanInv, TypeOK, NoOverrun, LineEnds

LEMMA NextInv == ScanInv /\ [Next]_vars => ScanInv'
<1> SUFFICES ASSUME ScanInv, [Next]_vars PROVE ScanInv'
  OBVIOUS
<1>0. TypeOK /\ NoOverrun
  BY DEF ScanInv
<1>1. CASE ScanChar
  <2>1. pos' \in 1..(Len(body) + 2) /\ pos' <= end /\ body' = body /\ pos' = pos + 1
    BY <1>1, MovesOn DEF ScanChar
  <2>2. TypeOK'
    BY <1>0, <1>1, <2>1 DEF ScanChar, TypeOK
  <2>3. end' = end
    BY <2>1 DEF end
  <2>4. \A i \in DOMAIN fields : fields[i].start >= 1 /\ fields[i].start + fields[i].size <= pos + 1
    <3>1. fields \in Seq(Cell) /\ pos \in Int
      BY <1>0 DEF TypeOK
    <3>2. \A i \in DOMAIN fields : fields[i].start >= 1 /\ fields[i].start + fields[i].size <= pos
      BY <1>0 DEF NoOverrun
    <3> QED
      BY <3>1, <3>2, StayBefore
  <2>5. size' < pos' /\ fields' = fields
    BY <1>0, <1>1, <2>1 DEF ScanChar, TypeOK, NoOverrun
  <2>6. NoOverrun'
    BY <2>1, <2>3, <2>4, <2>5 DEF NoOverrun
  <2> QED
    BY <2>2, <2>6 DEF ScanInv
<1>2. CASE ScanComma
  <2>1. pos' \in 1..(Len(body) + 2) /\ pos' <= end /\ body' = body /\ pos' = pos + 1
    BY <1>2, MovesOn DEF ScanComma
  <2>2. /\ fields' \in Seq(Cell)
        /\ \A i \in DOMAIN fields' : fields'[i].start >= 1 /\ fields'[i].start + fields'[i].size <= pos
    BY <1>2, CellsInBody DEF ScanComma
  <2>3. TypeOK'
    BY <1>0, <1>2, <2>1, <2>2 DEF ScanComma, TypeOK
  <2>4. end' = end
    BY <2>1 DEF end
  <2>5. \A i \in DOMAIN fields' : fields'[i].start >= 1 /\ fields'[i].start + fields'[i].size <= pos'
    <3>1. pos \in Int
      BY <1>0 DEF TypeOK
    <3>2. \A i \in DOMAIN fields' :
              fields'[i].start >= 1 /\ fields'[i].start + fields'[i].size <= pos + 1
      BY <2>2, <3>1, StayBefore
    <3> QED
      BY <2>1, <3>2
  <2>6. size' < pos' /\ (Scanning' => pos' <= end')
    BY <1>0, <1>2, <2>1, <2>4 DEF ScanComma, TypeOK
  <2> QED
    BY <2>3, <2>5, <2>6 DEF ScanInv, NoOverrun
\* The end of a line: the pointer may pass the end of the body, outside parseLine.
<1>3. ASSUME HeaderEnds \/ LineParsed, columnsName' \in Seq(Seq(Chars)),
             columnsData' \in Seq(Seq(Seq(Chars)))
      PROVE  ScanInv'
  <2>1. Scanning /\ pos <= end /\ pos' = pos + 1 /\ size' = 0 /\ fields' = <<>> /\ phase' = "rows"
        /\ body' = body
    BY <1>0, <1>3 DEF HeaderEnds, LineParsed, Scanning, NoOverrun
  <2>2. pos' \in 1..(Len(body) + 2) /\ size' < pos'
    BY <1>0, <2>1, BodyFacts DEF TypeOK
  <2>3. count' \in Nat
    BY <1>0, <1>3 DEF HeaderEnds, LineParsed, TypeOK
  <2>4. fields' \in Seq(Cell)
    BY <2>1
  <2>5. TypeOK'
    BY <1>0, <1>3, <2>1, <2>2, <2>3, <2>4 DEF TypeOK
  <2>6. NoOverrun'
    BY <2>1, <2>2 DEF NoOverrun, Scanning
  <2> QED
    BY <2>5, <2>6 DEF ScanInv
<1>4. CASE HeaderEnds
  <2>1. Scanning
    BY <1>4 DEF HeaderEnds, Scanning
  <2>2. Cells \in Seq(Cell) /\ \A i \in DOMAIN Cells : TextAt(Cells[i]) \in Seq(Chars)
    BY <2>1, CellsInBody, TextTyped
  <2>3. [i \in DOMAIN Cells |-> TextAt(Cells[i])] \in Seq(Seq(Chars))
    BY <2>2
  <2>4. [i \in DOMAIN Cells |-> <<>>] \in Seq(Seq(Seq(Chars)))
    <3>1. Len(Cells) \in Nat /\ DOMAIN Cells = 1..Len(Cells)
      BY <2>2
    <3>2. <<>> \in Seq(Seq(Chars))
      OBVIOUS
    <3>3. [i \in DOMAIN Cells |-> <<>>] \in [1..Len(Cells) -> Seq(Seq(Chars))]
      BY <3>1, <3>2
    <3> QED
      BY <3>1, <3>3, FunctionIsSeq
  <2> QED
    BY <1>3, <1>4, <2>3, <2>4 DEF HeaderEnds
<1>5. CASE LineParsed
  <2>1. Scanning
    BY <1>5 DEF LineParsed, Scanning
  <2>2. \A i \in DOMAIN Cells : TextAt(Cells[i]) \in Seq(Chars)
    BY <2>1, TextTyped
  <2>3. columnsData \in Seq(Seq(Seq(Chars))) /\ Cells \in Seq(Cell)
    BY <1>0, <2>1, CellsInBody DEF TypeOK
  <2>4. \A i \in DOMAIN columnsData : AddRow(Cells)[i] \in Seq(Seq(Chars))
    <3> SUFFICES ASSUME NEW i \in DOMAIN columnsData PROVE AddRow(Cells)[i] \in Seq(Seq(Chars))
      OBVIOUS
    <3>1. i \in Nat /\ i >= 1 /\ columnsData[i] \in Seq(Seq(Chars))
      BY <2>3
    <3>2. CASE i <= Len(Cells)
      <4>1. i \in DOMAIN Cells
        BY <2>3, <3>1, <3>2
      <4>2. Append(columnsData[i], TextAt(Cells[i])) \in Seq(Seq(Chars))
        BY <2>2, <3>1, <4>1
      <4> QED
        BY <3>2, <4>2 DEF AddRow
    <3>3. CASE ~(i <= Len(Cells))
      BY <3>1, <3>3 DEF AddRow
    <3> QED
      BY <3>2, <3>3
  <2>5. AddRow(Cells) \in Seq(Seq(Seq(Chars)))
    <3>1. DOMAIN AddRow(Cells) = 1..Len(columnsData) /\ Len(columnsData) \in Nat
      BY <2>3 DEF AddRow
    <3>2. AddRow(Cells) = [i \in 1..Len(columnsData) |-> AddRow(Cells)[i]]
      BY <3>1 DEF AddRow
    <3>3. \A i \in 1..Len(columnsData) : AddRow(Cells)[i] \in Seq(Seq(Chars))
      BY <2>3, <2>4
    <3>4. AddRow(Cells) \in [1..Len(columnsData) -> Seq(Seq(Chars))]
      BY <3>2, <3>3
    <3> QED
      BY <3>1, <3>4, FunctionIsSeq
  <2>6. columnsName' \in Seq(Seq(Chars))
    BY <1>0, <1>5 DEF LineParsed, TypeOK
  <2> QED
    BY <1>3, <1>5, <2>5, <2>6 DEF LineParsed
<1>6. CASE RowsBegin
  <2>1. TypeOK' /\ end' = end
    BY <1>0, <1>6 DEF RowsBegin, TypeOK, end
  <2>2. NoOverrun'
    BY <1>0, <1>6, <2>1, BodyFacts DEF RowsBegin, TypeOK, NoOverrun, Scanning
  <2> QED
    BY <2>1, <2>2 DEF ScanInv
<1>7. CASE UNCHANGED vars
  BY <1>7 DEF ScanInv, TypeOK, NoOverrun, Scanning, end, vars
<1> QED
  BY <1>1, <1>2, <1>4, <1>5, <1>6, <1>7 DEF Next

\* No pointer of parseLine leaves the body, whatever the body is, and each cell lies in
\* what has been scanned (csvparser.h:17-42).
THEOREM ScannerStaysInBody == Spec => []NoOverrun
<1>1. ScanInv => NoOverrun
  BY DEF ScanInv
<1> QED
  BY <1>1, InitInv, NextInv, PTL DEF Spec

-----------------------------------------------------------------------------
\* The commas of the line, and how they are counted.
LEMMA CommaFacts ==
  ASSUME NEW s \in Int, NEW p \in Int
  PROVE  /\ CommasIn(s, p) \in SUBSET Int
         /\ IsFiniteSet(CommasIn(s, p))
         /\ \A q \in CommasIn(s, p) : s <= q /\ q < p
<1>1. CommasIn(s, p) \in SUBSET (s..(p - 1))
  BY DEF CommasIn
<1>2. IsFiniteSet(s..(p - 1))
  BY FS_Interval
<1>3. IsFiniteSet(CommasIn(s, p))
  BY <1>1, <1>2, FS_Subset
<1> QED
  BY <1>1, <1>3

LEMMA NoComma ==
  ASSUME NEW s \in Int, NEW p \in Int, body[p] # Comma
  PROVE  CommasIn(s, p + 1) = CommasIn(s, p)
<1>1. \A q \in CommasIn(s, p + 1) : q \in CommasIn(s, p)
  BY DEF CommasIn
<1>2. \A q \in CommasIn(s, p) : q \in CommasIn(s, p + 1)
  BY DEF CommasIn
<1> QED
  BY <1>1, <1>2

LEMMA OneComma ==
  ASSUME NEW s \in Int, NEW p \in Int, s <= p, body[p] = Comma
  PROVE  Increasing(CommasIn(s, p + 1)) = Append(Increasing(CommasIn(s, p)), p)
<1>1. \A q \in CommasIn(s, p + 1) : q \in CommasIn(s, p) \union {p}
  BY DEF CommasIn
<1>2. \A q \in CommasIn(s, p) \union {p} : q \in CommasIn(s, p + 1)
  BY DEF CommasIn
<1>3. CommasIn(s, p + 1) = CommasIn(s, p) \union {p}
  BY <1>1, <1>2
<1> QED
  BY <1>3, CommaFacts, IncreasingAppend

LEMMA LineFacts ==
  ASSUME ScanInv
  PROVE  /\ pos \in Nat /\ pos >= 1 /\ size \in Nat /\ size < pos
         /\ fields \in Seq(Cell) /\ Len(fields) \in Nat /\ DOMAIN fields = 1..Len(fields)
         /\ (fields = <<>> <=> Len(fields) = 0)
         /\ body \in Seq(Chars) /\ Len(body) \in Nat
         /\ \A j \in 1..Len(fields) : fields[j].start \in Nat /\ fields[j].size \in Nat
         /\ LineStart \in Int
<1>1. pos \in Nat /\ pos >= 1 /\ size \in Nat /\ size < pos /\ fields \in Seq(Cell)
  BY DEF ScanInv, TypeOK, NoOverrun
<1>2. Len(fields) \in Nat /\ DOMAIN fields = 1..Len(fields) /\ (fields = <<>> <=> Len(fields) = 0)
  BY <1>1
<1>3. \A j \in 1..Len(fields) : fields[j].start \in Nat /\ fields[j].size \in Nat
  <2> SUFFICES ASSUME NEW j \in 1..Len(fields)
               PROVE  fields[j].start \in Nat /\ fields[j].size \in Nat
    OBVIOUS
  <2>1. fields[j] \in Cell
    BY <1>1
  <2> QED
    BY <2>1 DEF Cell
<1>4. LineStart \in Int
  BY <1>1, <1>2, <1>3 DEF LineStart
<1> QED
  BY <1>1, <1>2, <1>3, <1>4, BodyFacts DEF ScanInv

LEMMA LineAfterChar ==
  ASSUME ScanInv, LineInv, ScanChar
  PROVE  LineInv' /\ LineStart' = LineStart
<1>1. fields' = fields /\ pos' = pos + 1 /\ size' = size + 1 /\ body' = body
      /\ body[pos] # Comma /\ body[pos] # NL /\ pos \in 1..Len(body)
  BY LineFacts DEF ScanChar, LineEnds, NewLines, end, ScanInv, NoOverrun
<1>2. LineStart' = LineStart
  BY <1>1, LineFacts DEF LineStart
<1>3. \A s, p : CommasIn(s, p)' = CommasIn(s, p)
  BY <1>1 DEF CommasIn
<1>4. CommasIn(LineStart, pos)' = CommasIn(LineStart, pos)
  <2>1. CommasIn(LineStart, pos)' = CommasIn(LineStart, pos + 1)
    BY <1>1, <1>2 DEF CommasIn
  <2> QED
    BY <1>1, <2>1, NoComma, LineFacts
<1>5. \A p \in LineStart..(pos' - 1) : body[p] # NL
  BY <1>1, LineFacts DEF LineInv
<1>6. pos' - size' = pos - size
  BY <1>1, LineFacts
<1> QED
  BY <1>1, <1>2, <1>4, <1>5, <1>6, LineFacts, SMTT(30) DEF LineInv

\* The cell that ends at pos stands behind the last comma.
LEMMA CellsRead ==
  ASSUME ScanInv, Scanning, LineInv
  PROVE  LET ends == Append(Increasing(CommasIn(LineStart, pos)), pos)
         IN  /\ Cells \in Seq(Cell) /\ Len(Cells) \in Nat \ {0}
             /\ Len(Cells) = Len(ends)
             /\ Cells[1].start = LineStart
             /\ \A j \in 1..Len(Cells) :
                   /\ Cells[j].start = IF j = 1 THEN LineStart ELSE ends[j - 1] + 1
                   /\ Cells[j].start + Cells[j].size = ends[j]
<1> DEFINE commas == Increasing(CommasIn(LineStart, pos))
           ends   == Append(commas, pos)
           n      == Len(fields)
           cell   == [start |-> pos - size, size |-> size]
<1>1. commas \in Seq(Int) /\ Len(commas) = n /\ n \in Nat
  <2>1. CommasIn(LineStart, pos) \in SUBSET Int /\ IsFiniteSet(CommasIn(LineStart, pos))
    BY LineFacts, CommaFacts
  <2>2. commas \in Seq(CommasIn(LineStart, pos))
    BY <2>1, IncreasingFacts
  <2> QED
    BY <2>1, <2>2, LineFacts DEF LineInv
<1>2. Cells \in Seq(Cell) /\ Cells = Append(fields, cell) /\ fields \in Seq(Cell)
  BY CellsInBody, LineFacts DEF Cells
<1>3. cell.start = pos - size /\ cell.start + cell.size = pos
  BY LineFacts
<1>4. \A j \in 1..n :
          /\ fields[j].start = IF j = 1 THEN LineStart ELSE commas[j - 1] + 1
          /\ fields[j].start + fields[j].size = commas[j]
  BY DEF LineInv
<1>5. cell.start = IF n = 0 THEN LineStart ELSE commas[n] + 1
  BY <1>3, LineFacts DEF LineInv
<1> HIDE DEF commas, cell
<1>6. Len(Cells) = n + 1 /\ Len(ends) = n + 1
  BY <1>1, <1>2, LineFacts
<1>7. /\ \A j \in 1..n : Cells[j] = fields[j] /\ ends[j] = commas[j]
      /\ Cells[n + 1] = cell /\ ends[n + 1] = pos
  BY <1>1, <1>2, LineFacts
<1> HIDE DEF ends
<1>8. \A j \in 1..Len(Cells) :
          /\ Cells[j].start = IF j = 1 THEN LineStart ELSE ends[j - 1] + 1
          /\ Cells[j].start + Cells[j].size = ends[j]
  <2> SUFFICES ASSUME NEW j \in 1..(n + 1)
               PROVE  /\ Cells[j].start = IF j = 1 THEN LineStart ELSE ends[j - 1] + 1
                      /\ Cells[j].start + Cells[j].size = ends[j]
    BY <1>6
  <2>1. CASE j = n + 1
    <3>1. j # 1 => j - 1 = n /\ n \in 1..n
      BY <1>1, <2>1
    <3> QED
      BY <1>1, <1>3, <1>5, <1>7, <2>1, <3>1
  <2>2. CASE j # n + 1
    <3>1. j \in 1..n /\ (j # 1 => j - 1 \in 1..n)
      BY <1>1, <2>2
    <3> QED
      BY <1>4, <1>7, <3>1
  <2> QED
    BY <2>1, <2>2
<1>9. Cells[1].start = LineStart
  BY <1>1, <1>6, <1>8
<1> QED
  BY <1>1, <1>2, <1>6, <1>8, <1>9, SMTT(30) DEF ends, commas

LEMMA LineAfterComma ==
  ASSUME ScanInv, LineInv, ScanComma
  PROVE  LineInv' /\ LineStart' = LineStart
<1> DEFINE commas == Increasing(CommasIn(LineStart, pos))
           ends   == Append(commas, pos)
<1>1. fields' = Cells /\ pos' = pos + 1 /\ size' = 0 /\ body' = body /\ Scanning
      /\ body[pos] = Comma /\ body[pos] # NL
  BY CsvAssumption DEF ScanComma
<1>2. /\ Cells \in Seq(Cell) /\ Len(Cells) \in Nat \ {0}
      /\ Len(Cells) = Len(ends)
      /\ Cells[1].start = LineStart
      /\ \A j \in 1..Len(Cells) :
            /\ Cells[j].start = IF j = 1 THEN LineStart ELSE ends[j - 1] + 1
            /\ Cells[j].start + Cells[j].size = ends[j]
  BY <1>1, CellsRead
<1>3. LineStart' = LineStart
  BY <1>1, <1>2 DEF LineStart
<1>4. LineStart \in 1..pos /\ \A p \in LineStart..(pos - 1) : body[p] # NL
  BY DEF LineInv
<1>5. Increasing(CommasIn(LineStart, pos))' = ends
  <2>1. CommasIn(LineStart, pos)' = CommasIn(LineStart, pos + 1)
    BY <1>1, <1>3 DEF CommasIn
  <2>2. Increasing(CommasIn(LineStart, pos))' = Increasing(CommasIn(LineStart, pos + 1))
    BY <2>1
  <2> QED
    BY <1>1, <1>4, <2>2, OneComma, LineFacts, SMTT(30)
<1>6. \A p \in LineStart..(pos' - 1) : body'[p] # NL
  BY <1>1, <1>4, LineFacts
<1>7. ends[Len(Cells)] = pos
  <2>1. commas \in Seq(Int)
    <3>1. CommasIn(LineStart, pos) \in SUBSET Int /\ IsFiniteSet(CommasIn(LineStart, pos))
      BY LineFacts, CommaFacts
    <3>2. commas \in Seq(CommasIn(LineStart, pos))
      BY <3>1, IncreasingFacts
    <3> QED
      BY <3>1, <3>2
  <2> HIDE DEF commas
  <2> QED
    BY <1>2, <2>1, LineFacts
<1> HIDE DEF ends
<1>8. pos' - size' = IF fields' = <<>> THEN LineStart ELSE ends[Len(fields')] + 1
  BY <1>1, <1>2, <1>7, LineFacts
<1>9. LineStart \in 1..pos'
  BY <1>1, <1>4, LineFacts
<1> QED
  BY <1>1, <1>2, <1>3, <1>5, <1>6, <1>8, <1>9 DEF LineInv

\* The line that parseLine has read is the line of the body that begins there.
LEMMA LineRead ==
  ASSUME ScanInv, Scanning, LineInv, LineEnds
  PROVE  CellsAt(body, LineStart) = [i \in DOMAIN Cells |-> TextAt(Cells[i])]
<1> DEFINE ends == Append(Increasing(CommasIn(LineStart, pos)), pos)
<1>1. /\ LineStart \in 1..pos /\ pos \in NewLines(body) \union {Len(body) + 1}
      /\ \A p \in LineStart..(pos - 1) : body[p] # NL
  BY BodyFacts DEF LineInv, LineEnds, ScanInv
<1>2. LineEnd(body, LineStart) = pos
  <2> DEFINE S == {p \in NewLines(body) : p >= LineStart} \union {Len(body) + 1}
  <2>1. pos \in S
    BY <1>1, LineFacts
  <2>2. \A p \in S : p \in Int /\ pos <= p
    <3> SUFFICES ASSUME NEW p \in S PROVE p \in Int /\ pos <= p
      OBVIOUS
    <3>1. pos <= Len(body) + 1
      BY <1>1, BodyFacts, LineFacts DEF ScanInv
    <3>2. CASE p = Len(body) + 1
      BY <3>1, <3>2, LineFacts
    <3>3. CASE p # Len(body) + 1
      <4>1. p \in 1..Len(body) /\ body[p] = NL /\ p >= LineStart
        BY <3>3 DEF NewLines
      <4> QED
        BY <1>1, <4>1, LineFacts
    <3> QED
      BY <3>2, <3>3
  <2> HIDE DEF S
  <2>3. \A x \in S : (\A y \in S : x <= y) => x = pos
    <3> SUFFICES ASSUME NEW x \in S, \A y \in S : x <= y PROVE x = pos
      OBVIOUS
    <3> QED
      BY <2>1, <2>2, LineFacts
  <2>4. Min(S) = pos
    BY <2>1, <2>2, <2>3 DEF Min
  <2> QED
    BY <2>4 DEF LineEnd, S
<1>3. CellEnds(body, LineStart) = CommasIn(LineStart, pos) \union {pos}
  BY <1>2 DEF CellEnds, CommasIn
<1>4. Increasing(CellEnds(body, LineStart)) = ends
  <2>1. /\ CommasIn(LineStart, pos) \in SUBSET Int /\ IsFiniteSet(CommasIn(LineStart, pos))
        /\ \A q \in CommasIn(LineStart, pos) : q < pos
    BY CommaFacts, LineFacts
  <2>2. pos \in Int
    BY LineFacts
  <2>3. Increasing(CommasIn(LineStart, pos) \union {pos}) = ends
    BY <2>1, <2>2, IncreasingAppend
  <2> QED
    BY <1>3, <2>3
<1>5. /\ Cells \in Seq(Cell) /\ Len(Cells) \in Nat \ {0} /\ Len(Cells) = Len(ends)
      /\ \A j \in 1..Len(Cells) :
            /\ Cells[j].start = IF j = 1 THEN LineStart ELSE ends[j - 1] + 1
            /\ Cells[j].start + Cells[j].size = ends[j]
  BY CellsRead
<1>6. DOMAIN ends = 1..Len(Cells) /\ DOMAIN Cells = 1..Len(Cells)
  <2>1. CommasIn(LineStart, pos) \in SUBSET Int /\ IsFiniteSet(CommasIn(LineStart, pos))
    BY LineFacts, CommaFacts
  <2>2. Increasing(CommasIn(LineStart, pos)) \in Seq(Int)
    BY <2>1, IncreasingFacts
  <2>3. ends \in Seq(Int)
    BY <2>2, LineFacts
  <2> HIDE DEF ends
  <2> QED
    BY <1>5, <2>3
<1> HIDE DEF ends
<1>7. CellsAt(body, LineStart) = [i \in 1..Len(Cells) |->
          SubSeq(body, IF i = 1 THEN LineStart ELSE ends[i - 1] + 1, ends[i] - 1)]
  BY <1>4, <1>6 DEF CellsAt
<1>8. \A i \in 1..Len(Cells) : TextAt(Cells[i]) =
          SubSeq(body, IF i = 1 THEN LineStart ELSE ends[i - 1] + 1, ends[i] - 1)
  <2> SUFFICES ASSUME NEW i \in 1..Len(Cells)
               PROVE  TextAt(Cells[i]) =
                      SubSeq(body, IF i = 1 THEN LineStart ELSE ends[i - 1] + 1, ends[i] - 1)
    OBVIOUS
  <2> DEFINE b == Cells[i].start
             n == Cells[i].size
             e == ends[i]
  <2>1. b + n = e /\ b = IF i = 1 THEN LineStart ELSE ends[i - 1] + 1
    BY <1>5
  <2>2. b \in Nat /\ n \in Nat
    <3>1. Cells[i] \in Cell
      BY <1>5
    <3> QED
      BY <3>1 DEF Cell
  <2>3. TextAt(Cells[i]) = SubSeq(body, b, b + n - 1)
    BY DEF TextAt
  <2> HIDE DEF b, n, e
  <2>4. b + n - 1 = e - 1
    BY <2>1, <2>2
  <2>5. TextAt(Cells[i]) = SubSeq(body, b, e - 1)
    BY <2>3, <2>4
  <2> QED
    BY <2>1, <2>5 DEF e
<1> QED
  BY <1>6, <1>7, <1>8

-----------------------------------------------------------------------------
\* Data lines begin behind the first line feed, and there are finitely many.
LEMMA StartFacts ==
  ASSUME ScanInv, NEW p \in Int
  PROVE  /\ StartsBefore(body, p) \in SUBSET Int /\ IsFiniteSet(StartsBefore(body, p))
         /\ \A s \in DataStarts(body) : s \in 2..Len(body) /\ body[s - 1] = NL
         /\ \A s \in 2..Len(body) : body[s - 1] = NL => s \in DataStarts(body)
<1>1. \A s \in DataStarts(body) : s \in 2..Len(body) /\ body[s - 1] = NL
  BY LineFacts DEF DataStarts, NewLines
<1>2. \A s \in 2..Len(body) : body[s - 1] = NL => s \in DataStarts(body)
  <2> SUFFICES ASSUME NEW s \in 2..Len(body), body[s - 1] = NL PROVE s \in DataStarts(body)
    OBVIOUS
  <2>1. s - 1 \in NewLines(body) /\ (s - 1) + 1 = s
    BY LineFacts DEF NewLines
  <2> QED
    BY <2>1, LineFacts DEF DataStarts
<1>3. StartsBefore(body, p) \in SUBSET (2..Len(body))
  BY <1>1 DEF StartsBefore
<1>4. IsFiniteSet(2..Len(body))
  BY FS_Interval, LineFacts
<1>5. IsFiniteSet(StartsBefore(body, p))
  BY <1>3, <1>4, FS_Subset
<1> QED
  BY <1>1, <1>2, <1>3, <1>5

\* No other line begins before the one that has been read is over.
LEMMA NextStart ==
  ASSUME ScanInv, Scanning, LineInv
  PROVE  StartsBefore(body, pos + 1) = StartsBefore(body, LineStart) \union ({LineStart} \cap DataStarts(body))
<1>1. LineStart \in 1..pos /\ \A p \in LineStart..(pos - 1) : body[p] # NL
  BY DEF LineInv
<1>2. \A s \in DataStarts(body) : s < pos + 1 <=> (s < LineStart \/ s = LineStart)
  <2> SUFFICES ASSUME NEW s \in DataStarts(body)
               PROVE  s < pos + 1 <=> (s < LineStart \/ s = LineStart)
    OBVIOUS
  <2>1. s \in Int /\ body[s - 1] = NL
    BY StartFacts, LineFacts
  <2>2. ~(LineStart <= s - 1 /\ s - 1 <= pos - 1)
    BY <1>1, <2>1, LineFacts
  <2> QED
    BY <1>1, <2>1, <2>2, LineFacts
<1> QED
  BY <1>2 DEF StartsBefore

\* The i-th column when a line has been read that begins at s behind all others.
LEMMA ColumnGrows ==
  ASSUME ScanInv, NEW s \in Int, NEW p \in Int, NEW i \in Int, Len(CellsAt(body, s)) \in Int,
         s \in DataStarts(body), StartsBefore(body, p) = StartsBefore(body, s) \union {s}
  PROVE  ColumnBefore(body, p, i) = IF i <= Len(CellsAt(body, s))
                              THEN Append(ColumnBefore(body, s, i), CellsAt(body, s)[i])
                              ELSE ColumnBefore(body, s, i)
<1> DEFINE L == LongBefore(body, s, i)
           F == [x \in L \union {s} |-> CellsAt(body, x)[i]]
<1>1. L \in SUBSET Int /\ IsFiniteSet(L) /\ \A x \in L : x < s
  <2>1. L \in SUBSET StartsBefore(body, s)
    BY DEF LongBefore
  <2> QED
    BY <2>1, StartFacts, FS_Subset DEF StartsBefore
<1>2. CASE i <= Len(CellsAt(body, s))
  <2>1. LongBefore(body, p, i) = L \union {s}
    BY <1>2 DEF LongBefore
  <2>2. Increasing(LongBefore(body, p, i)) = Append(Increasing(L), s)
    BY <1>1, <2>1, IncreasingAppend
  <2>3. Increasing(L) \in Seq(L)
    BY <1>1, IncreasingFacts
  <2>4. ColumnBefore(body, s, i) = [r \in DOMAIN Increasing(L) |-> F[Increasing(L)[r]]]
    BY <2>3 DEF ColumnBefore
  <2>5. /\ Append(Increasing(L), s) \in Seq(L \union {s}) /\ Increasing(L) \in Seq(L \union {s})
    <3>1. Increasing(L) \in Seq(L \union {s})
      BY <2>3
    <3> HIDE DEF L
    <3> QED
      BY <3>1
  <2>6. ColumnBefore(body, p, i) = [r \in DOMAIN Append(Increasing(L), s) |->
                                 F[Append(Increasing(L), s)[r]]]
    <3>1. \A r \in DOMAIN Append(Increasing(L), s) : Append(Increasing(L), s)[r] \in L \union {s}
      <4> HIDE DEF L
      <4> QED
        BY <2>5
    <3>2. \A r \in DOMAIN Append(Increasing(L), s) :
             F[Append(Increasing(L), s)[r]] = CellsAt(body, Append(Increasing(L), s)[r])[i]
      BY <3>1
    <3> QED
      BY <2>2, <3>2 DEF ColumnBefore
  <2>7. ColumnBefore(body, p, i) = Append(ColumnBefore(body, s, i), F[s])
    <3>1. DOMAIN F = L \union {s} /\ s \in L \union {s}
      OBVIOUS
    <3> HIDE DEF F, L
    <3> QED
      BY <2>4, <2>5, <2>6, <3>1, MapOfAppend
  <2> QED
    BY <1>2, <2>7
<1>3. CASE ~(i <= Len(CellsAt(body, s)))
  <2>1. LongBefore(body, p, i) = L
    BY <1>3 DEF LongBefore
  <2> QED
    BY <1>3, <2>1 DEF ColumnBefore
<1> QED
  BY <1>2, <1>3


-----------------------------------------------------------------------------
LEMMA InitParse == Init => ParseInv
<1> SUFFICES ASSUME Init PROVE ParseInv
  OBVIOUS
<1>1. phase = "header" /\ pos = 1 /\ size = 0 /\ fields = <<>> /\ count = 0 /\ LineStart = 1
  BY DEF Init, LineStart
<1>2. Increasing(CommasIn(LineStart, pos)) = <<>>
  <2>1. CommasIn(LineStart, pos) = {}
    BY <1>1 DEF CommasIn
  <2> QED
    BY <2>1, NothingIncreasing
<1>3. LineInv
  BY <1>1, <1>2 DEF LineInv
<1> QED
  BY <1>1, <1>3 DEF ParseInv

LEMMA HeaderParsed ==
  ASSUME ScanInv, ParseInv, HeaderEnds
  PROVE  ParseInv'
<1>1. Scanning /\ LineInv /\ LineStart = 1 /\ LineEnds /\ count = 0
  BY DEF HeaderEnds, ParseInv, Scanning
<1>2. /\ columnsName' = [i \in DOMAIN Cells |-> TextAt(Cells[i])]
      /\ columnsData' = [i \in DOMAIN Cells |-> <<>>]
      /\ fields' = <<>> /\ size' = 0 /\ pos' = pos + 1 /\ phase' = "rows"
      /\ body' = body /\ count' = 0
  BY <1>1 DEF HeaderEnds
<1>3. CellsAt(body, 1) = [i \in DOMAIN Cells |-> TextAt(Cells[i])]
  BY <1>1, LineRead
<1>4. StartsBefore(body, pos + 1) = {}
  <2>1. \A s \in DataStarts(body) : s \in Int /\ 1 < s
    BY StartFacts, LineFacts
  <2>2. StartsBefore(body, 1) = {} /\ 1 \notin DataStarts(body)
    BY <2>1 DEF StartsBefore
  <2> QED
    BY <1>1, <2>2, NextStart
<1>5. \A i : ColumnBefore(body, pos + 1, i) = <<>>
  <2> SUFFICES ASSUME NEW i PROVE ColumnBefore(body, pos + 1, i) = <<>>
    OBVIOUS
  <2>1. LongBefore(body, pos + 1, i) = {}
    BY <1>4 DEF LongBefore
  <2>2. DOMAIN Increasing(LongBefore(body, pos + 1, i)) = {}
    BY <2>1, NothingIncreasing
  <2> QED
    BY <2>2 DEF ColumnBefore
<1>6. Parsed(pos)'
  <2>1. DOMAIN CellsAt(body, 1) = DOMAIN Cells
    BY <1>3
  <2>2. columnsData' = [i \in DOMAIN CellsAt(body, 1) |-> ColumnBefore(body, pos + 1, i)]
    BY <1>2, <1>5, <2>1
  <2>3. count' = Cardinality(StartsBefore(body, pos + 1))
    BY <1>2, <1>4, FS_EmptySet
  <2> QED
    BY <1>2, <1>3, <2>2, <2>3 DEF Parsed
<1>7. (pos - 1 \in NewLines(body) \union {end})'
  <2>1. pos' - 1 = pos
    BY <1>2, LineFacts
  <2> QED
    BY <1>1, <1>2, <2>1 DEF LineEnds, end
<1> QED
  BY <1>2, <1>6, <1>7 DEF ParseInv, Scanning

LEMMA NextLineParsed ==
  ASSUME ScanInv, ParseInv, LineParsed
  PROVE  ParseInv'
<1> DEFINE s == LineStart
<1>1. Scanning /\ LineInv /\ s \in DataStarts(body) /\ Parsed(s) /\ LineEnds /\ s \in Int
  BY LineFacts DEF LineParsed, ParseInv, Scanning
<1>2. /\ columnsName' = columnsName /\ columnsData' = AddRow(Cells) /\ count' = count + 1
      /\ fields' = <<>> /\ size' = 0 /\ pos' = pos + 1 /\ phase' = "rows" /\ body' = body
  BY DEF LineParsed
<1>3. CellsAt(body, s) = [i \in DOMAIN Cells |-> TextAt(Cells[i])]
  BY <1>1, LineRead
<1>4. Cells \in Seq(Cell) /\ Len(Cells) \in Nat /\ DOMAIN Cells = 1..Len(Cells)
  BY <1>1, CellsRead
<1>5. Len(CellsAt(body, s)) = Len(Cells)
  BY <1>3, <1>4
<1>6. StartsBefore(body, pos + 1) = StartsBefore(body, s) \union {s}
  <2>1. {s} \cap DataStarts(body) = {s}
    BY <1>1
  <2>2. StartsBefore(body, pos + 1)
           = StartsBefore(body, s) \union ({s} \cap DataStarts(body))
    BY <1>1, NextStart
  <2> QED
    BY <2>1, <2>2
<1> HIDE DEF s
<1>7. count' = Cardinality(StartsBefore(body, pos + 1))
  <2>1. /\ StartsBefore(body, s) \in SUBSET Int /\ IsFiniteSet(StartsBefore(body, s))
        /\ \A x \in StartsBefore(body, s) : x < s
    BY <1>1, StartFacts DEF StartsBefore
  <2>2. Cardinality(StartsBefore(body, s) \union {s}) = Cardinality(StartsBefore(body, s)) + 1
    BY <1>1, <2>1, IncreasingAppend
  <2> QED
    BY <1>1, <1>2, <1>6, <2>2 DEF Parsed
<1>8. /\ columnsData = [i \in DOMAIN CellsAt(body, 1) |-> ColumnBefore(body, s, i)]
      /\ DOMAIN CellsAt(body, 1) \in SUBSET Int
      /\ columnsName = CellsAt(body, 1)
  <2>1. columnsData = [i \in DOMAIN CellsAt(body, 1) |-> ColumnBefore(body, s, i)]
    BY <1>1 DEF Parsed
  <2>2. columnsData \in Seq(Seq(Seq(Chars)))
    BY DEF ScanInv, TypeOK
  <2>3. DOMAIN columnsData \in SUBSET Int
    BY <2>2
  <2> QED
    BY <1>1, <2>1, <2>3 DEF Parsed
<1>9. AddRow(Cells) = [i \in DOMAIN CellsAt(body, 1) |-> ColumnBefore(body, pos + 1, i)]
  <2>1. \A i \in DOMAIN CellsAt(body, 1) :
            (IF i <= Len(Cells) THEN Append(columnsData[i], TextAt(Cells[i])) ELSE columnsData[i])
                = ColumnBefore(body, pos + 1, i)
    <3> SUFFICES ASSUME NEW i \in DOMAIN CellsAt(body, 1)
                 PROVE  (IF i <= Len(Cells) THEN Append(columnsData[i], TextAt(Cells[i]))
                         ELSE columnsData[i]) = ColumnBefore(body, pos + 1, i)
      OBVIOUS
    <3>1. i \in Int /\ columnsData[i] = ColumnBefore(body, s, i)
      BY <1>8
    <3>2. i >= 1
      <4>1. columnsData \in Seq(Seq(Seq(Chars))) /\ i \in DOMAIN columnsData
        BY <1>8 DEF ScanInv, TypeOK
      <4> QED
        BY <4>1
    <3>3. i <= Len(Cells) => TextAt(Cells[i]) = CellsAt(body, s)[i]
      BY <1>3, <1>4, <3>1, <3>2
    <3>4. ColumnBefore(body, pos + 1, i) = IF i <= Len(CellsAt(body, s))
                                           THEN Append(ColumnBefore(body, s, i), CellsAt(body, s)[i])
                                           ELSE ColumnBefore(body, s, i)
      <4>1. pos + 1 \in Int /\ Len(CellsAt(body, s)) \in Int
        BY <1>4, <1>5, LineFacts
      <4> QED
        BY <1>1, <1>6, <3>1, <4>1, ColumnGrows
    <3> QED
      BY <1>5, <3>1, <3>3, <3>4
  <2>2. DOMAIN columnsData = DOMAIN CellsAt(body, 1)
    BY <1>8
  <2> QED
    BY <2>1, <2>2 DEF AddRow
<1>10. Parsed(pos)'
  BY <1>2, <1>7, <1>8, <1>9 DEF Parsed
<1>11. (pos - 1 \in NewLines(body) \union {end})'
  <2>1. pos' - 1 = pos
    BY <1>2, LineFacts
  <2> QED
    BY <1>1, <1>2, <2>1 DEF LineEnds, end
<1> QED
  BY <1>2, <1>10, <1>11 DEF ParseInv, Scanning

\* The test of the loop over the data lines: the next line begins where the last one has
\* ended, or there is none.
LEMMA RowsTested ==
  ASSUME ScanInv, ParseInv, RowsBegin
  PROVE  ParseInv'
<1>1. /\ pos - 1 \in NewLines(body) \union {end} /\ fields = <<>> /\ size = 0 /\ Parsed(pos)
      /\ phase' = IF pos < end THEN "line" ELSE "return"
      /\ UNCHANGED <<body, pos, size, fields, columnsName, columnsData, count>>
  BY DEF RowsBegin, ParseInv
<1>2. end = Len(body) + 1 /\ end' = end
  BY <1>1 DEF end
<1>4. CASE pos < end
  <2>1. LineStart' = pos /\ LineStart = pos
    BY <1>1, LineFacts DEF LineStart
  <2>2. pos \in DataStarts(body)
    <3>1. pos - 1 \in 1..Len(body) /\ body[pos - 1] = NL
      BY <1>1, <1>2, <1>4, LineFacts DEF NewLines
    <3>2. pos \in 2..Len(body)
      BY <1>2, <1>4, <3>1, LineFacts
    <3> QED
      BY <3>1, <3>2, StartFacts, LineFacts
  <2>3. Parsed(LineStart)'
    BY <1>1, <2>1 DEF Parsed
  <2>4. LineInv'
    <3>1. CommasIn(LineStart, pos)' = {}
      BY <1>1, <2>1, LineFacts DEF CommasIn
    <3>2. Increasing(CommasIn(LineStart, pos))' = <<>>
      BY <3>1, NothingIncreasing
    <3>3. fields' = <<>> /\ pos' - size' = LineStart' /\ LineStart' \in 1..pos'
      BY <1>1, <2>1, LineFacts
    <3>4. \A p \in LineStart'..(pos' - 1) : body'[p] # NL
      BY <1>1, <2>1, LineFacts
    <3> QED
      BY <3>2, <3>3, <3>4 DEF LineInv
  <2> QED
    BY <1>1, <1>4, <2>1, <2>2, <2>3, <2>4 DEF ParseInv
<1>5. CASE ~(pos < end)
  <2>1. StartsBefore(body, pos) = StartsBefore(body, end)
    <3>1. \A s \in DataStarts(body) : s \in Int /\ s < end
      BY <1>2, StartFacts, LineFacts
    <3> QED
      BY <1>2, <1>5, <3>1, LineFacts DEF StartsBefore
  <2>2. \A i : LongBefore(body, pos, i) = LongBefore(body, end, i)
    BY <2>1 DEF LongBefore
  <2>3. \A i : ColumnBefore(body, pos, i) = ColumnBefore(body, end, i)
    BY <2>2 DEF ColumnBefore
  <2>4. Parsed(end)
    BY <1>1, <2>1, <2>3 DEF Parsed
  <2>5. Parsed(end)'
    BY <1>1, <1>2, <2>4 DEF Parsed
  <2> QED
    BY <1>1, <1>5, <2>5 DEF ParseInv, Scanning
<1> QED
  BY <1>4, <1>5

LEMMA NextParse == ScanInv /\ ParseInv /\ [Next]_vars => ParseInv'
<1> SUFFICES ASSUME ScanInv, ParseInv, [Next]_vars PROVE ParseInv'
  OBVIOUS
<1>1. CASE ScanChar \/ ScanComma
  <2>1. Scanning /\ LineInv /\ LineInv' /\ LineStart' = LineStart
    <3>1. Scanning /\ LineInv
      BY <1>1 DEF ScanChar, ScanComma, ParseInv
    <3> QED
      BY <1>1, <3>1, LineAfterChar, LineAfterComma
  <2>2. UNCHANGED <<body, phase, columnsName, columnsData, count>>
    BY <1>1 DEF ScanChar, ScanComma
  <2>3. phase = "line" => Parsed(LineStart)'
    BY <2>1, <2>2 DEF ParseInv, Parsed
  <2> QED
    BY <2>1, <2>2, <2>3 DEF ParseInv, Scanning
<1>2. CASE HeaderEnds
  BY <1>2, HeaderParsed
<1>3. CASE LineParsed
  BY <1>3, NextLineParsed
<1>4. CASE RowsBegin
  BY <1>4, RowsTested
<1>5. CASE UNCHANGED vars
  <2>1. UNCHANGED <<body, phase, pos, size, fields, columnsName, columnsData, count>>
    BY <1>5 DEF vars
  <2>2. LineStart' = LineStart /\ end' = end /\ Scanning' = Scanning
    BY <2>1 DEF LineStart, end, Scanning
  <2>3. CommasIn(LineStart, pos)' = CommasIn(LineStart, pos)
    BY <2>1, <2>2 DEF CommasIn
  <2>4. LineInv' = LineInv
    BY <2>1, <2>2, <2>3 DEF LineInv
  <2>5. Parsed(LineStart)' = Parsed(LineStart) /\ Parsed(pos)' = Parsed(pos)
        /\ Parsed(end)' = Parsed(end)
    BY <2>1, <2>2 DEF Parsed
  <2> QED
    BY <2>1, <2>2, <2>4, <2>5 DEF ParseInv
<1> QED
  BY <1>1, <1>2, <1>3, <1>4, <1>5 DEF Next

LEMMA ParsedMeansAll == ScanInv /\ ParseInv => ParsedAsMeant
<1> SUFFICES ASSUME ScanInv, ParseInv, phase = "return"
             PROVE  /\ columnsName = CellsAt(body, 1)
                    /\ columnsData = [i \in DOMAIN CellsAt(body, 1) |-> ColumnOf(body, i)]
                    /\ count = Cardinality(DataStarts(body))
  BY DEF ParsedAsMeant
<1>1. Parsed(end)
  BY DEF ParseInv
<1>2. StartsBefore(body, end) = DataStarts(body)
  <2>1. \A s \in DataStarts(body) : s < end
    BY StartFacts, LineFacts DEF end
  <2> QED
    BY <2>1 DEF StartsBefore
<1>3. \A i : ColumnBefore(body, end, i) = ColumnOf(body, i)
  BY <1>2 DEF ColumnBefore, LongBefore, ColumnOf
<1> QED
  BY <1>1, <1>2, <1>3 DEF Parsed

\* For every body csvParser has, when it returns, the column names, the columns and the
\* count that the commas and line feeds of the body mean: no cell is split, lost, doubled
\* or moved to another column or row, whatever is missing or left over (csvparser.h:17-84).
THEOREM ParserIsExact == Spec => []ParsedAsMeant
<1>1. Init => ScanInv /\ ParseInv
  BY InitInv, InitParse
<1>2. (ScanInv /\ ParseInv) /\ [Next]_vars => (ScanInv /\ ParseInv)'
  BY NextInv, NextParse
<1> QED
  BY <1>1, <1>2, ParsedMeansAll, PTL DEF Spec
=============================================================================
