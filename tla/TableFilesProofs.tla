-------------------------- MODULE TableFilesProofs --------------------------
(***************************************************************************)
(* Theorems about TableFiles, for any numbers of imports, queries, columns,  *)
(* rows and kills and any uploads: type correctness; what a reader's block   *)
(* looks like under any interleaving with imports; what imports leave in the *)
(* files, that an import that no other one overlaps stores what it was given *)
(* and that a gap in a file takes two imports; what queries read.            *)
(*                                                                         *)
(* That a lone import stores what it was given needs what it has written so  *)
(* far, in each of its phases, of columns that may have the same name; that  *)
(* a gap takes two, that without an overlap nobody truncates a file behind   *)
(* the back of the import that writes to it.                                 *)
(***************************************************************************)
EXTENDS TableFiles, PlacesProofs

(* A function on 1..n is a sequence.                                       *)
LEMMA FunctionIsSeq ==
    ASSUME NEW S, NEW n \in Nat, NEW f \in [1..n -> S]
    PROVE  f \in Seq(S) /\ Len(f) = n
OBVIOUS

(* What is left of a text behind an offset.                                *)
LEMMA RestType ==
    ASSUME NEW t \in Text, NEW off \in 0..Len(t)
    PROVE  /\ SubSeq(t, off + 1, Len(t)) \in Text
           /\ Len(SubSeq(t, off + 1, Len(t))) = Len(t) - off
<1>1. Len(t) \in Nat /\ \A i \in 1..Len(t) : t[i] \in Chars
    BY LenProperties, ElementOfSeq DEF Text
<1>2. \A i \in (off + 1)..Len(t) : t[i] \in Chars
    BY <1>1
<1>3. QED
    BY <1>1, <1>2, SubSeqProperties DEF Text

(* A write leaves a text, whatever the offset.                             *)
LEMMA WriteAtType ==
    ASSUME NEW old \in Text, NEW off \in Nat, NEW piece \in Text
    PROVE  WriteAt(old, off, piece) \in Text
<1> DEFINE n == IF Len(old) > off + Len(piece) THEN Len(old) ELSE off + Len(piece)
<1>1. /\ Len(old) \in Nat /\ \A i \in 1..Len(old) : old[i] \in Chars
      /\ Len(piece) \in Nat /\ \A i \in 1..Len(piece) : piece[i] \in Chars
    BY LenProperties, ElementOfSeq DEF Text
<1>2. n \in Nat
    BY <1>1
<1>3. \A i \in 1..n : (IF i \in (off + 1)..(off + Len(piece)) THEN piece[i - off]
                       ELSE IF i <= Len(old) THEN old[i] ELSE Hole) \in Chars
    BY <1>1, TextAssumption
<1>4. WriteAt(old, off, piece) \in [1..n -> Chars]
    BY <1>3 DEF WriteAt
<1>5. [1..n -> Chars] \subseteq Seq(Chars)
    BY <1>2
<1>6. QED
    BY <1>4, <1>5 DEF Text

(* A stream's next chunk is a text.                                        *)
LEMMA ChunkType ==
    ASSUME NEW t \in Text, NEW off \in Nat
    PROVE  Chunk(t, off) \in Text
<1>1. Len(t) \in Nat /\ \A i \in 1..Len(t) : t[i] \in Chars
    BY LenProperties, ElementOfSeq DEF Text
<1> DEFINE n == IF off + BufferSize < Len(t) THEN off + BufferSize ELSE Len(t)
<1>2. n \in Nat /\ \A i \in (off + 1)..n : t[i] \in Chars
    BY <1>1, TextAssumption
<1>3. SubSeq(t, off + 1, n) \in Text
    BY <1>2, SubSeqProperties DEF Text
<1>4. QED
    BY <1>3 DEF Chunk

(* Splitting a buffer gives two texts.                                     *)
LEMMA SplitType ==
    ASSUME NEW buf \in Text, NEW i \in 1..Len(buf)
    PROVE  /\ SubSeq(buf, 1, i - 1) \in Text
           /\ SubSeq(buf, i + 1, Len(buf)) \in Text
<1>1. Len(buf) \in Nat /\ \A j \in 1..Len(buf) : buf[j] \in Chars
    BY LenProperties, ElementOfSeq DEF Text
<1>2. /\ \A j \in 1..(i - 1) : buf[j] \in Chars
      /\ \A j \in (i + 1)..Len(buf) : buf[j] \in Chars
    BY <1>1
<1>3. SubSeq(buf, 1, i - 1) \in Text
    BY <1>1, <1>2, SubSeqProperties DEF Text
<1>4. SubSeq(buf, i + 1, Len(buf)) \in Text
    BY <1>1, <1>2, SubSeqProperties DEF Text
<1>5. QED
    BY <1>3, <1>4

-----------------------------------------------------------------------------
(*                            Type correctness                             *)

LEMMA InitTypeOK == Init => TypeOK
<1> SUFFICES ASSUME Init PROVE TypeOK
    OBVIOUS
<1>1. FilesOK
  <2>1. <<>> \in Text
    BY EmptySeq DEF Text
  <2>2. 0 \in 0..MaxCrashes
    BY TextAssumption
  <2>3. QED
    BY <2>1, <2>2 DEF Init, FilesOK
<1>2. ImportsOK
    BY DEF Init, ImportsOK, ImportPhases
<1>3. QueriesOK
  <2>1. ASSUME NEW q \in Queries
        PROVE  /\ block[q] \in Seq(Seq(Text)) /\ Len(block[q]) = Len(select[q])
               /\ got[q] \in Seq(Seq(Text)) /\ Len(got[q]) = Len(select[q])
    <3>1. select[q] \in Seq(FileNames)
      BY RequestsAssumption DEF Init
    <3>2. Len(select[q]) \in Nat /\ DOMAIN select[q] = 1..Len(select[q])
      BY <3>1, LenProperties
    <3>3. <<>> \in Seq(Text)
      BY EmptySeq
    <3>4. [k \in DOMAIN select[q] |-> <<>>] \in [1..Len(select[q]) -> Seq(Text)]
      BY <3>2, <3>3
    <3>5. [k \in DOMAIN select[q] |-> <<>>] \in Seq(Seq(Text))
      BY <3>2, <3>4, SeqDef
    <3>6. Len([k \in DOMAIN select[q] |-> <<>>]) = Len(select[q])
      BY <3>2, <3>4, <3>5, LenProperties
    <3>7. block[q] = [k \in DOMAIN select[q] |-> <<>>] /\ got[q] = block[q]
      BY DEF Init
    <3>8. QED
      BY <3>5, <3>6, <3>7
  <2>2. block \in [Queries -> Seq(Seq(Text))] /\ got \in [Queries -> Seq(Seq(Text))]
    BY <2>1 DEF Init
  <2>3. row \in [Queries -> Seq(Text)] /\ streams \in [Queries -> Seq(Stream)]
    BY EmptySeq DEF Init
  <2>4. QED
    BY <2>1, <2>2, <2>3 DEF Init, QueriesOK, QueryPhases
<1>4. HistoryOK
    BY DEF Init, HistoryOK
<1>5. QED
    BY <1>1, <1>2, <1>3, <1>4 DEF TypeOK

(* The parts of an upload.                                                 *)
LEMMA UploadType ==
    ASSUME ImportsOK, NEW m \in Imports
    PROVE  /\ upload[m] \in Upload
           /\ Len(upload[m].cols) \in Nat
           /\ DOMAIN upload[m].cols = 1..Len(upload[m].cols)
           /\ \A i \in DOMAIN upload[m].cols : /\ upload[m].cols[i] \in FileNames
                                              /\ upload[m].data[i] \in Text
           /\ upload[m].header \in Text
           /\ upload[m].count \in Text
<1>1. upload[m] \in Uploads
    BY DEF ImportsOK
<1>2. upload[m] \in Upload /\ Len(upload[m].data) = Len(upload[m].cols)
    BY <1>1, RequestsAssumption
<1>3. upload[m].cols \in Seq(FileNames) /\ upload[m].data \in Seq(Text)
    BY <1>2 DEF Upload
<1>4. /\ Len(upload[m].cols) \in Nat
      /\ DOMAIN upload[m].cols = 1..Len(upload[m].cols)
    BY <1>3, LenProperties
<1>5. ASSUME NEW i \in DOMAIN upload[m].cols
      PROVE  upload[m].cols[i] \in FileNames /\ upload[m].data[i] \in Text
    BY <1>2, <1>3, <1>4, ElementOfSeq
<1>6. QED
    BY <1>2, <1>4, <1>5 DEF Upload

(* Opening a file for writing keeps the files well-formed.                 *)
LEMMA TruncateType ==
    ASSUME FilesOK, NEW c \in FileNames, Truncate(c), UNCHANGED <<dir, crashes>>
    PROVE  FilesOK'
<1>1. <<>> \in Text
    BY EmptySeq DEF Text
<1>2. QED
    BY <1>1 DEF FilesOK, Truncate

LEMMA ImportTypeOK ==
    ASSUME FilesOK, ImportsOK, NEW m \in Imports, CreateDirectories(m) \/ ImportStep(m)
    PROVE  FilesOK' /\ ImportsOK'
<1> USE DEF ImportPhases
<1>0. /\ ColumnsTxt \in FileNames /\ CountTxt \in FileNames
      /\ \A c \in FileNames : text[c] \in Text
    BY NamesAssumption DEF FilesOK
<1>1. CASE CreateDirectories(m)
    BY <1>1, <1>0 DEF CreateDirectories, FilesOK, ImportsOK
<1>2. CASE OpenColumnsTxt(m)
  <2>1. FilesOK'
    BY <1>2, <1>0, TruncateType DEF OpenColumnsTxt
  <2>2. ImportsOK'
    BY <1>2 DEF OpenColumnsTxt, ImportsOK
  <2>3. QED
    BY <2>1, <2>2
<1>3. CASE OpenColumn(m)
  <2>1. upload[m].cols[icol[m]] \in FileNames /\ upload[m].data[icol[m]] \in Text
    BY <1>3, UploadType DEF OpenColumn, Cols
  <2>2. FilesOK'
    BY <1>3, <2>1, TruncateType DEF OpenColumn, Cols
  <2>3. 0 <= Len(upload[m].data[icol[m]])
    BY <2>1, LenProperties DEF Text
  <2>4. ImportsOK'
    BY <1>3, <2>3 DEF OpenColumn, ImportsOK, Cols
  <2>5. QED
    BY <2>2, <2>4
<1>4. CASE SkipColumn(m)
    BY <1>4 DEF SkipColumn, files, FilesOK, ImportsOK
<1>5. CASE WriteColumn(m)
  <2>1. /\ ipc[m] = "write" /\ icol[m] \in DOMAIN upload[m].cols
        /\ ioff[m] \in Nat /\ ioff[m] <= Len(upload[m].data[icol[m]])
    BY <1>5 DEF WriteColumn, ImportsOK
  <2> DEFINE c == upload[m].cols[icol[m]]
             d == upload[m].data[icol[m]]
  <2>2. c \in FileNames /\ d \in Text /\ Len(d) \in Nat
    BY <2>1, UploadType, LenProperties DEF Text
  <2>3. Remaining(m) \in Text /\ Len(Remaining(m)) = Len(d) - ioff[m]
    <3>1. ioff[m] \in 0..Len(d)
      BY <2>1, <2>2
    <3> HIDE DEF d
    <3>2. /\ SubSeq(d, ioff[m] + 1, Len(d)) \in Text
          /\ Len(SubSeq(d, ioff[m] + 1, Len(d))) = Len(d) - ioff[m]
      BY <2>2, <3>1, RestType
    <3>3. QED
      BY <3>2 DEF Remaining, d
  <2>4. PICK n \in 1..Len(Remaining(m)) :
            /\ text' = [text EXCEPT ![c] =
                        WriteAt(@, ioff[m], SubSeq(Remaining(m), 1, n))]
            /\ ioff' = [ioff EXCEPT ![m] = @ + n]
    BY <1>5 DEF WriteColumn, Cols
  <2>5. SubSeq(Remaining(m), 1, n) \in Text
    <3>1. \A i \in 1..n : Remaining(m)[i] \in Chars
      BY <2>3, LenProperties, ElementOfSeq DEF Text
    <3>2. QED
      BY <3>1, SubSeqProperties DEF Text
  <2>6. WriteAt(text[c], ioff[m], SubSeq(Remaining(m), 1, n)) \in Text
    BY <2>1, <2>2, <2>5, <1>0, WriteAtType
  <2>7. FilesOK'
    BY <1>5, <2>2, <2>4, <2>6 DEF FilesOK, WriteColumn
  <2>8. ioff'[m] \in Nat /\ ioff'[m] <= Len(d)
    BY <2>1, <2>2, <2>3, <2>4 DEF ImportsOK
  <2>9. ImportsOK'
    BY <1>5, <2>1, <2>4, <2>8 DEF ImportsOK, WriteColumn
  <2>10. QED
    BY <2>7, <2>9
<1>6. CASE CloseColumn(m)
    BY <1>6 DEF CloseColumn, files, FilesOK, ImportsOK
<1>7. CASE OpenCount(m)
  <2>1. FilesOK'
    BY <1>7, <1>0, TruncateType DEF OpenCount
  <2>2. ImportsOK'
    BY <1>7 DEF OpenCount, ImportsOK
  <2>3. QED
    BY <2>1, <2>2
<1>8. CASE FlushCount(m)
  <2>1. WriteAt(text[CountTxt], 0, upload[m].count) \in Text
    BY <1>0, UploadType, WriteAtType
  <2>2. QED
    BY <1>8, <1>0, <2>1 DEF FlushCount, FilesOK, ImportsOK
<1>9. CASE FlushHeader(m)
  <2>1. WriteAt(text[ColumnsTxt], 0, upload[m].header) \in Text
    BY <1>0, UploadType, WriteAtType
  <2>2. QED
    BY <1>9, <1>0, <2>1 DEF FlushHeader, FilesOK, ImportsOK
<1>10. QED
    BY <1>1, <1>2, <1>3, <1>4, <1>5, <1>6, <1>7, <1>8, <1>9 DEF ImportStep

(* Adding a row to a block.                                                *)
LEMMA AddRowType ==
    ASSUME NEW b \in Seq(Seq(Text)), NEW values \in Seq(Text)
    PROVE  /\ AddRow(b, values) \in Seq(Seq(Text))
           /\ Len(AddRow(b, values)) = Len(b)
           /\ \A k \in 1..Len(b) :
                /\ k <= Len(values) => AddRow(b, values)[k] = Append(b[k], values[k])
                /\ k > Len(values) => AddRow(b, values)[k] = b[k]
<1>1. /\ Len(b) \in Nat /\ DOMAIN b = 1..Len(b)
      /\ \A k \in 1..Len(b) : b[k] \in Seq(Text)
      /\ Len(values) \in Nat
      /\ \A k \in 1..Len(values) : values[k] \in Text
    BY LenProperties, ElementOfSeq
<1>2. ASSUME NEW k \in 1..Len(b)
      PROVE  (IF k <= Len(values) THEN Append(b[k], values[k]) ELSE b[k]) \in Seq(Text)
    BY <1>1
<1>3. AddRow(b, values) \in [1..Len(b) -> Seq(Text)]
    BY <1>1, <1>2 DEF AddRow
<1>4. AddRow(b, values) \in Seq(Seq(Text))
    BY <1>1, <1>3, FunctionIsSeq
<1>5. Len(AddRow(b, values)) = Len(b)
    BY <1>1, <1>3, FunctionIsSeq
<1>6. \A k \in 1..Len(b) :
        /\ k <= Len(values) => AddRow(b, values)[k] = Append(b[k], values[k])
        /\ k > Len(values) => AddRow(b, values)[k] = b[k]
    BY <1>1 DEF AddRow
<1>7. QED
    BY <1>4, <1>5, <1>6

(* What Advance does, with the nested updates taken apart.                 *)
LEMMA AdvanceEffect ==
    ASSUME QueriesOK, NEW q \in Queries, qpc[q] = "read",
           NEW s \in Stream, NEW values \in Seq(Text), Advance(q, s, values)
    PROVE  /\ streams' = [streams EXCEPT ![q] = [streams[q] EXCEPT ![qi[q]] = s]]
           /\ streams'[q] \in Seq(Stream) /\ Len(streams'[q]) = Width(q)
           /\ \A k \in 1..Width(q) :
                streams'[q][k] = IF k = qi[q] THEN s ELSE streams[q][k]
           /\ got' = [got EXCEPT ![q] =
                        [got[q] EXCEPT ![qi[q]] = got[q][qi[q]] \o values]]
           /\ got'[q] \in Seq(Seq(Text)) /\ Len(got'[q]) = Width(q)
           /\ \A k \in 1..Width(q) :
                got'[q][k] = IF k = qi[q] THEN got[q][k] \o values ELSE got[q][k]
           /\ row[q] \o values \in Seq(Text)
           /\ block'[q] \in Seq(Seq(Text)) /\ Len(block'[q]) = Width(q)
           /\ qi[q] \in 1..Width(q) /\ Width(q) \in Nat
<1>1. /\ streams[q] \in Seq(Stream) /\ Len(streams[q]) = Width(q)
      /\ got[q] \in Seq(Seq(Text)) /\ Len(got[q]) = Width(q)
      /\ block[q] \in Seq(Seq(Text)) /\ Len(block[q]) = Width(q)
      /\ row[q] \in Seq(Text)
      /\ qi[q] \in 1..Width(q)
    BY DEF QueriesOK, Width
<1>2. Width(q) \in Nat
    BY <1>1, LenProperties
<1>3. /\ streams' = [streams EXCEPT ![q] = [streams[q] EXCEPT ![qi[q]] = s]]
      /\ got' = [got EXCEPT ![q] =
                        [got[q] EXCEPT ![qi[q]] = got[q][qi[q]] \o values]]
      /\ block' = [block EXCEPT ![q] = IF qi[q] = Width(q)
                                      THEN AddRow(block[q], row[q] \o values)
                                      ELSE block[q]]
  <2>1. streams' = [streams EXCEPT ![q] = [streams[q] EXCEPT ![qi[q]] = s]]
    BY DEF Advance
  <2>2. got' = [got EXCEPT ![q] =
                        [got[q] EXCEPT ![qi[q]] = got[q][qi[q]] \o values]]
    BY DEF Advance
  <2>3. block' = [block EXCEPT ![q] = IF qi[q] = Width(q)
                                      THEN AddRow(block[q], row[q] \o values)
                                      ELSE block[q]]
    BY DEF Advance
  <2>4. QED
    BY <2>1, <2>2, <2>3
<1>4. /\ streams'[q] = [streams[q] EXCEPT ![qi[q]] = s]
      /\ got'[q] = [got[q] EXCEPT ![qi[q]] = got[q][qi[q]] \o values]
      /\ block'[q] = IF qi[q] = Width(q) THEN AddRow(block[q], row[q] \o values)
                                        ELSE block[q]
    BY <1>3 DEF QueriesOK
<1>5. /\ streams'[q] \in Seq(Stream) /\ Len(streams'[q]) = Width(q)
      /\ \A k \in 1..Width(q) :
            streams'[q][k] = IF k = qi[q] THEN s ELSE streams[q][k]
    BY <1>1, <1>4, ExceptSeq
<1>6. got[q][qi[q]] \in Seq(Text)
    BY <1>1, ElementOfSeq
<1>7. got[q][qi[q]] \o values \in Seq(Text)
    BY <1>6, ConcatProperties
<1>8. /\ got'[q] \in Seq(Seq(Text)) /\ Len(got'[q]) = Width(q)
      /\ \A k \in 1..Width(q) :
            got'[q][k] = IF k = qi[q] THEN got[q][k] \o values ELSE got[q][k]
    BY <1>1, <1>4, <1>7, ExceptSeq
<1>9. row[q] \o values \in Seq(Text)
    BY <1>1, ConcatProperties
<1>10. block'[q] \in Seq(Seq(Text)) /\ Len(block'[q]) = Width(q)
  <2>1. /\ AddRow(block[q], row[q] \o values) \in Seq(Seq(Text))
        /\ Len(AddRow(block[q], row[q] \o values)) = Len(block[q])
    BY <1>1, <1>9, AddRowType
  <2>2. QED
    BY <1>1, <1>4, <2>1
<1>11. QED
    BY <1>1, <1>2, <1>3, <1>5, <1>8, <1>9, <1>10

(* A step of one query that keeps its own part of the state well-formed    *)
(* keeps all of it well-formed.                                            *)
LEMMA OneQueryChanges ==
    ASSUME QueriesOK, NEW q \in Queries, select' = select,
           qpc' = [qpc EXCEPT ![q] = qpc'[q]],
           streams' = [streams EXCEPT ![q] = streams'[q]],
           qi' = [qi EXCEPT ![q] = qi'[q]],
           row' = [row EXCEPT ![q] = row'[q]],
           block' = [block EXCEPT ![q] = block'[q]],
           got' = [got EXCEPT ![q] = got'[q]],
           qpc'[q] \in QueryPhases, streams'[q] \in Seq(Stream),
           qi'[q] \in Nat \ {0}, row'[q] \in Seq(Text),
           block'[q] \in Seq(Seq(Text)), got'[q] \in Seq(Seq(Text)),
           Len(block'[q]) = Len(select[q]), Len(got'[q]) = Len(select[q]),
           qpc'[q] # "idle",
           qpc'[q] \in {"open", "read"} => qi'[q] \in 1..Len(select[q]),
           qpc'[q] = "open" => Len(streams'[q]) = qi'[q] - 1,
           qpc'[q] = "read" => Len(streams'[q]) = Len(select[q])
    PROVE  QueriesOK'
<1>1. qpc' \in [Queries -> QueryPhases] /\ streams' \in [Queries -> Seq(Stream)]
    BY DEF QueriesOK
<1>2a. qi' \in [Queries -> Nat \ {0}]
  <2> DEFINE Pos == Nat \ {0}
  <2>1. qi \in [Queries -> Pos] /\ qi'[q] \in Pos
    BY DEF QueriesOK
  <2> HIDE DEF Pos
  <2>2. qi' \in [Queries -> Pos]
    BY <2>1
  <2>3. QED
    BY <2>2 DEF Pos
<1>2. row' \in [Queries -> Seq(Text)]
    BY DEF QueriesOK
<1>3. block' \in [Queries -> Seq(Seq(Text))]
    BY DEF QueriesOK
<1>4. got' \in [Queries -> Seq(Seq(Text))]
    BY DEF QueriesOK
<1>5. ASSUME NEW p \in Queries
      PROVE  /\ Len(block'[p]) = Len(select[p])
             /\ Len(got'[p]) = Len(select[p])
             /\ qpc'[p] = "idle" => qi'[p] = 1 /\ streams'[p] = <<>>
             /\ qpc'[p] \in {"open", "read"} => qi'[p] \in 1..Len(select[p])
             /\ qpc'[p] = "open" => Len(streams'[p]) = qi'[p] - 1
             /\ qpc'[p] = "read" => Len(streams'[p]) = Len(select[p])
  <2>1. CASE p = q
    BY <2>1
  <2>0. /\ Len(block[p]) = Len(select[p])
        /\ Len(got[p]) = Len(select[p])
        /\ qpc[p] = "idle" => qi[p] = 1 /\ streams[p] = <<>>
        /\ qpc[p] \in {"open", "read"} => qi[p] \in 1..Len(select[p])
        /\ qpc[p] = "open" => Len(streams[p]) = qi[p] - 1
        /\ qpc[p] = "read" => Len(streams[p]) = Len(select[p])
    BY DEF QueriesOK
  <2>2. CASE p # q
    <3>1. /\ block'[p] = block[p] /\ got'[p] = got[p] /\ qpc'[p] = qpc[p]
          /\ qi'[p] = qi[p] /\ streams'[p] = streams[p]
      BY <2>2 DEF QueriesOK
    <3>2. QED
      BY <2>0, <3>1
  <2>3. QED
    BY <2>1, <2>2
<1>6. QED
    BY <1>1, <1>2a, <1>2, <1>3, <1>4, <1>5 DEF QueriesOK

LEMMA AdvanceTypeOK ==
    ASSUME QueriesOK, NEW q \in Queries, qpc[q] = "read",
           NEW s \in Stream, NEW values \in Seq(Text), Advance(q, s, values)
    PROVE  QueriesOK'
<1>1. /\ streams' = [streams EXCEPT ![q] = streams'[q]]
      /\ got' = [got EXCEPT ![q] = got'[q]]
      /\ block' = [block EXCEPT ![q] = block'[q]]
      /\ streams'[q] \in Seq(Stream) /\ Len(streams'[q]) = Width(q)
      /\ got'[q] \in Seq(Seq(Text)) /\ Len(got'[q]) = Width(q)
      /\ block'[q] \in Seq(Seq(Text)) /\ Len(block'[q]) = Width(q)
  <2>1. block' = [block EXCEPT ![q] = block'[q]]
    BY DEF Advance, QueriesOK
  <2>2. streams' = [streams EXCEPT ![q] = streams'[q]]
    BY DEF Advance, QueriesOK
  <2>3. got' = [got EXCEPT ![q] = got'[q]]
    BY DEF Advance, QueriesOK
  <2>4. /\ streams'[q] \in Seq(Stream) /\ Len(streams'[q]) = Width(q)
        /\ got'[q] \in Seq(Seq(Text)) /\ Len(got'[q]) = Width(q)
        /\ block'[q] \in Seq(Seq(Text)) /\ Len(block'[q]) = Width(q)
    BY AdvanceEffect
  <2>5. QED
    BY <2>1, <2>2, <2>3, <2>4
<1>2. /\ row' = [row EXCEPT ![q] = row'[q]] /\ row'[q] \in Seq(Text)
      /\ qi' = [qi EXCEPT ![q] = qi'[q]] /\ qi'[q] \in 1..Width(q)
      /\ qi'[q] \in Nat \ {0}
  <2>1. row[q] \o values \in Seq(Text) /\ <<>> \in Seq(Text)
    BY AdvanceEffect, EmptySeq
  <2>2. qi[q] \in 1..Width(q) /\ Width(q) \in Nat
    BY AdvanceEffect
  <2>3. QED
    BY <2>1, <2>2, SMTT(30) DEF Advance, QueriesOK
<1>3. select' = select /\ qpc' = qpc /\ qpc[q] \in QueryPhases
    BY DEF Advance, QueriesOK
<1>4. qpc' = [qpc EXCEPT ![q] = qpc'[q]]
    BY <1>3 DEF QueriesOK
<1>5. QED
    BY <1>1, <1>2, <1>3, <1>4, OneQueryChanges DEF Width

(* The stream whose turn it is.                                            *)
LEMMA CurrentType ==
    ASSUME FilesOK, QueriesOK, NEW q \in Queries, qpc[q] = "read"
    PROVE  /\ qi[q] \in 1..Width(q) /\ Width(q) \in Nat
           /\ streams[q] \in Seq(Stream) /\ Len(streams[q]) = Width(q)
           /\ Current(q) \in Stream
           /\ CurrentText(q) \in Text
<1>1. select[q] \in Seq(FileNames)
    BY RequestsAssumption DEF QueriesOK
<1>2. /\ qi[q] \in 1..Width(q) /\ Width(q) \in Nat
      /\ streams[q] \in Seq(Stream) /\ Len(streams[q]) = Width(q)
    BY <1>1, LenProperties DEF QueriesOK, Width
<1>3. Current(q) \in Stream
    BY <1>2, ElementOfSeq DEF Current
<1>4. select[q][qi[q]] \in FileNames
    BY <1>1, <1>2, ElementOfSeq DEF Width
<1>5. QED
    BY <1>2, <1>3, <1>4 DEF CurrentText, FilesOK

(* Every step that delivers a value or none is an Advance with a stream    *)
(* that fails exactly when there is none.                                  *)
Reading(q) == GetLine(q) \/ EndOfFile(q) \/ GetLineAfterEof(q)

LEMMA ReadingAdvances ==
    ASSUME FilesOK, QueriesOK, NEW q \in Queries, Reading(q)
    PROVE  /\ qpc[q] = "read" /\ Current(q).state # "fail"
           /\ \E s \in Stream : \E values \in Seq(Text) :
                /\ Advance(q, s, values)
                /\ \/ values = <<>> /\ s.state = "fail"
                   \/ Len(values) = 1 /\ s.state # "fail"
<1>1. qpc[q] = "read" /\ Current(q).state # "fail"
    BY DEF Reading, GetLine, EndOfFile, GetLineAfterEof
<1>2. Current(q) \in Stream /\ Current(q).buf \in Text
    BY <1>1, CurrentType DEF Stream
<1>3. <<>> \in Seq(Text) /\ <<>> \in Text
    BY EmptySeq DEF Text
<1>4. [Current(q) EXCEPT !.state = "fail"] \in Stream
    BY <1>2 DEF Stream
<1>5. CASE GetLine(q)
  <2>1. PICK i \in 1..Len(Current(q).buf) :
            Advance(q, [Current(q) EXCEPT
                            !.buf = SubSeq(Current(q).buf, i + 1, Len(Current(q).buf))],
                    <<SubSeq(Current(q).buf, 1, i - 1)>>)
    BY <1>5 DEF GetLine
  <2>2. /\ SubSeq(Current(q).buf, 1, i - 1) \in Text
        /\ SubSeq(Current(q).buf, i + 1, Len(Current(q).buf)) \in Text
    BY <1>2, SplitType
  <2> DEFINE s == [Current(q) EXCEPT
                     !.buf = SubSeq(Current(q).buf, i + 1, Len(Current(q).buf))]
             v == <<SubSeq(Current(q).buf, 1, i - 1)>>
  <2>3. s \in Stream /\ s.state # "fail"
    BY <1>1, <1>2, <2>2 DEF Stream
  <2>4. v \in Seq(Text) /\ Len(v) = 1
    BY <2>2
  <2>5. QED
    BY <1>1, <2>1, <2>3, <2>4
<1>6. CASE EndOfFile(q) /\ Current(q).buf = <<>>
    BY <1>1, <1>3, <1>4, <1>6 DEF EndOfFile, Stream
<1>7. CASE EndOfFile(q) /\ Current(q).buf # <<>>
  <2> DEFINE s == [Current(q) EXCEPT !.state = "eof", !.buf = <<>>]
  <2>1. s \in Stream /\ s.state # "fail"
    BY <1>2, <1>3 DEF Stream
  <2>2. <<Current(q).buf>> \in Seq(Text) /\ Len(<<Current(q).buf>>) = 1
    BY <1>2
  <2>3. Advance(q, s, <<Current(q).buf>>)
    BY <1>7 DEF EndOfFile
  <2>4. QED
    BY <1>1, <2>1, <2>2, <2>3
<1>8. CASE GetLineAfterEof(q)
    BY <1>1, <1>2, <1>3, <1>4, <1>8 DEF GetLineAfterEof, Stream
<1>9. QED
    BY <1>5, <1>6, <1>7, <1>8 DEF Reading

LEMMA QueryTypeOK ==
    ASSUME FilesOK, QueriesOK, NEW q \in Queries, StartQuery(q) \/ QueryStep(q)
    PROVE  QueriesOK'
<1>0. /\ select[q] \in Seq(FileNames) /\ Len(select[q]) \in Nat
      /\ select[q] # <<>> => Len(select[q]) \in Nat \ {0}
      /\ streams[q] \in Seq(Stream) /\ qi[q] \in Nat \ {0} /\ row[q] \in Seq(Text)
      /\ block[q] \in Seq(Seq(Text)) /\ got[q] \in Seq(Seq(Text))
      /\ Len(block[q]) = Len(select[q]) /\ Len(got[q]) = Len(select[q])
    BY RequestsAssumption, EmptySeq, LenProperties DEF QueriesOK
<1>s. /\ qpc = [qpc EXCEPT ![q] = qpc[q]] /\ streams = [streams EXCEPT ![q] = streams[q]]
      /\ qi = [qi EXCEPT ![q] = qi[q]] /\ row = [row EXCEPT ![q] = row[q]]
      /\ block = [block EXCEPT ![q] = block[q]] /\ got = [got EXCEPT ![q] = got[q]]
    BY DEF QueriesOK
<1>1. CASE StartQuery(q)
  <2>1. /\ qpc' = [qpc EXCEPT ![q] = qpc'[q]]
        /\ qpc'[q] \in {"open", "failed"}
        /\ qpc'[q] = "open" => Len(select[q]) \in Nat \ {0}
        /\ qi[q] = 1 /\ streams[q] = <<>> /\ Len(streams[q]) = 0
    BY <1>1, <1>0, EmptySeq DEF StartQuery, QueriesOK
  <2>2. UNCHANGED <<select, streams, qi, row, block, got>>
    BY <1>1 DEF StartQuery
  <2>3. qpc'[q] = "open" => 1 \in 1..Len(select[q])
    BY <2>1
  <2>4. /\ qpc'[q] \in QueryPhases /\ qpc'[q] # "idle" /\ qpc'[q] # "read"
        /\ qi'[q] = 1 /\ Len(streams'[q]) = qi'[q] - 1
    BY <2>1, <2>2 DEF QueryPhases
  <2>5. QED
    BY <1>0, <1>s, <2>1, <2>2, <2>3, <2>4, OneQueryChanges
<1>2. CASE OpenFile(q) /\ select[q][qi[q]] \in exists
  <2> DEFINE s == [state |-> "good", off |-> 0, buf |-> <<>>]
  <2>1. s \in Stream
    BY EmptySeq DEF Stream, Text
  <2>2. /\ Len(streams[q]) = qi[q] - 1 /\ qi[q] \in 1..Len(select[q])
    BY <1>2 DEF OpenFile, QueriesOK
  <2>3. /\ Append(streams[q], s) \in Seq(Stream)
        /\ Len(Append(streams[q], s)) = qi[q]
    <3>1. streams[q] \in Seq(Stream) /\ qi[q] \in Nat
      BY DEF QueriesOK
    <3> HIDE DEF s
    <3>2. QED
      BY <2>1, <2>2, <3>1, AppendProperties
  <2>4. /\ streams' = [streams EXCEPT ![q] = Append(streams[q], s)]
        /\ qi' = [qi EXCEPT ![q] = qi'[q]]
        /\ qpc' = [qpc EXCEPT ![q] = qpc'[q]]
        /\ \/ qi[q] = Len(select[q]) /\ qi'[q] = 1 /\ qpc'[q] = "read"
           \/ qi[q] # Len(select[q]) /\ qi'[q] = qi[q] + 1 /\ qpc'[q] = "open"
        /\ UNCHANGED <<select, row, block, got>>
    BY <1>2 DEF OpenFile, QueriesOK, Width
  <2> HIDE DEF s
  <2>5. /\ streams' = [streams EXCEPT ![q] = streams'[q]]
        /\ streams'[q] = Append(streams[q], s)
    BY <2>4 DEF QueriesOK
  <2>6. qi'[q] \in Nat \ {0} /\ qi'[q] \in 1..Len(select[q])
    BY <1>0, <2>2, <2>4, SMTT(30)
  <2>7. /\ qpc'[q] \in QueryPhases /\ qpc'[q] # "idle"
        /\ qpc'[q] = "open" => Len(streams'[q]) = qi'[q] - 1
        /\ qpc'[q] = "read" => Len(streams'[q]) = Len(select[q])
    BY <2>2, <2>3, <2>4, <2>5 DEF QueryPhases
  <2>8. QED
    BY <1>0, <1>s, <2>3, <2>4, <2>5, <2>6, <2>7, OneQueryChanges
<1>3. CASE OpenFile(q) /\ select[q][qi[q]] \notin exists
  <2>1. /\ qpc' = [qpc EXCEPT ![q] = qpc'[q]] /\ qpc'[q] = "failed"
        /\ UNCHANGED <<select, streams, qi, row, block, got>>
    BY <1>3 DEF OpenFile, QueriesOK
  <2>2. QED
    BY <1>0, <1>s, <2>1, OneQueryChanges DEF QueryPhases
<1>4. CASE ReadBuffer(q)
  <2> DEFINE chunk == Chunk(CurrentText(q), Current(q).off)
             s == [Current(q) EXCEPT !.buf = Current(q).buf \o chunk,
                                     !.off = Current(q).off + Len(chunk)]
  <2>1. /\ qi[q] \in 1..Len(streams[q]) /\ Len(streams[q]) = Len(select[q])
        /\ Current(q) \in Stream /\ CurrentText(q) \in Text /\ qpc[q] = "read"
    BY <1>4, CurrentType DEF ReadBuffer, Width
  <2>2. chunk \in Text
    BY <2>1, ChunkType DEF Stream
  <2>3. /\ Current(q).buf \o chunk \in Text
        /\ Current(q).off + Len(chunk) \in Nat
    <3>1. Current(q).buf \in Text /\ Current(q).off \in Nat
      BY <2>1 DEF Stream
    <3>2. Len(chunk) \in Nat
      BY <2>2, LenProperties DEF Text
    <3>3. Current(q).buf \o chunk \in Text
      BY <2>2, <3>1, ConcatProperties DEF Text
    <3> HIDE DEF chunk
    <3>4. QED
      BY <3>1, <3>2, <3>3
  <2>4. s \in Stream
    <3> HIDE DEF chunk
    <3>1. QED
      BY <2>1, <2>3 DEF Stream
  <2>5. streams' = [streams EXCEPT ![q] = [streams[q] EXCEPT ![qi[q]] = s]]
    BY <1>4 DEF ReadBuffer, Current
  <2> HIDE DEF s
  <2>6. /\ [streams[q] EXCEPT ![qi[q]] = s] \in Seq(Stream)
        /\ Len([streams[q] EXCEPT ![qi[q]] = s]) = Len(streams[q])
    BY <1>0, <2>1, <2>4, ExceptSeq
  <2>7. /\ streams' = [streams EXCEPT ![q] = streams'[q]]
        /\ streams'[q] = [streams[q] EXCEPT ![qi[q]] = s]
    BY <2>5 DEF QueriesOK
  <2>8. UNCHANGED <<select, qpc, qi, row, block, got>>
    BY <1>4 DEF ReadBuffer
  <2>9. QED
    BY <1>0, <1>s, <2>1, <2>6, <2>7, <2>8, OneQueryChanges DEF QueryPhases
<1>5. CASE Reading(q)
    BY <1>5, ReadingAdvances, AdvanceTypeOK
<1>6. CASE StopReading(q)
  <2>1. /\ row' = [row EXCEPT ![q] = row'[q]] /\ row'[q] = <<>>
        /\ qpc' = [qpc EXCEPT ![q] = qpc'[q]] /\ qpc'[q] = "ok"
        /\ UNCHANGED <<select, streams, qi, block, got>>
    BY <1>6 DEF StopReading, QueriesOK
  <2>2. <<>> \in Seq(Text)
    BY EmptySeq
  <2>3. QED
    BY <1>0, <1>s, <2>1, <2>2, OneQueryChanges DEF QueryPhases
<1>7. QED
    BY <1>1, <1>2, <1>3, <1>4, <1>5, <1>6 DEF QueryStep, Reading

LEMMA CrashTypeOK ==
    ASSUME TypeOK, Crash
    PROVE  TypeOK'
<1>1. FilesOK'
    BY TextAssumption DEF TypeOK, FilesOK, Crash, files
<1>2. ImportsOK'
    BY DEF TypeOK, ImportsOK, Crash, ImportPhases
<1>3. QueriesOK'
    BY DEF TypeOK, QueriesOK, Crash, QueryPhases
<1>4. HistoryOK'
    BY DEF TypeOK, HistoryOK, Crash, hvars
<1>5. QED
    BY <1>1, <1>2, <1>3, <1>4 DEF TypeOK

LEMMA NextTypeOK == TypeOK /\ [Next]_vars => TypeOK'
<1> SUFFICES ASSUME TypeOK, [Next]_vars PROVE TypeOK'
    OBVIOUS
<1>1. ASSUME NEW m \in Imports, CreateDirectories(m) \/ ImportStep(m) PROVE TypeOK'
  <2>1. FilesOK' /\ ImportsOK'
    BY <1>1, ImportTypeOK DEF TypeOK
  <2>2. UNCHANGED qvars
    BY <1>1 DEF CreateDirectories, ImportStep, OpenColumnsTxt, OpenColumn, SkipColumn,
                WriteColumn, CloseColumn, OpenCount, FlushCount, FlushHeader
  <2>3. QueriesOK'
    BY <2>2 DEF TypeOK, QueriesOK, qvars
  <2>4. HistoryOK'
    BY <1>1 DEF TypeOK, HistoryOK, hvars, CreateDirectories, ImportStep, OpenColumnsTxt,
                OpenColumn, SkipColumn, WriteColumn, CloseColumn, OpenCount, FlushCount,
                FlushHeader
  <2>5. QED
    BY <2>1, <2>3, <2>4 DEF TypeOK
<1>2. ASSUME NEW q \in Queries, StartQuery(q) \/ QueryStep(q) PROVE TypeOK'
  <2>1. QueriesOK'
    BY <1>2, QueryTypeOK DEF TypeOK
  <2>2. UNCHANGED <<files, crashes, ivars, sole, overlap>> /\ quiet' \subseteq Queries
    BY <1>2 DEF TypeOK, HistoryOK, hvars, StartQuery, QueryStep, OpenFile, ReadBuffer,
                GetLine, EndOfFile, GetLineAfterEof, StopReading, Advance
  <2>3. FilesOK' /\ ImportsOK' /\ HistoryOK'
    BY <2>2 DEF TypeOK, FilesOK, ImportsOK, HistoryOK, files, ivars
  <2>4. QED
    BY <2>1, <2>3 DEF TypeOK
<1>3. CASE Crash
    BY <1>3, CrashTypeOK
<1>4. CASE UNCHANGED vars
    BY <1>4 DEF TypeOK, FilesOK, ImportsOK, QueriesOK, HistoryOK, vars, files, ivars,
                qvars, hvars
<1>5. QED
    BY <1>1, <1>2, <1>3, <1>4 DEF Next

(* Every variable keeps its type, the offsets of a writer stay inside its  *)
(* column and a reader's streams match the columns it asked for, for any   *)
(* number of imports, queries, columns and crashes.                        *)
THEOREM TypeCorrect == Spec => []TypeOK
<1>1. Init => TypeOK
    BY InitTypeOK
<1>2. TypeOK /\ [Next]_vars => TypeOK'
    BY NextTypeOK
<1>3. QED
    BY <1>1, <1>2, PTL DEF Spec

-----------------------------------------------------------------------------
(*                      The shape of a reader's block                      *)

Failed(q, k) == streams[q][k].state = "fail"

Level(b) == \A i, j \in 1..Len(b) : Len(b[i]) = Len(b[j])

AlmostLevel(b) ==
    \A i, j \in 1..Len(b) : i < j => /\ Len(b[j]) <= Len(b[i])
                                    /\ Len(b[i]) <= Len(b[j]) + 1

\* Rows that the last column has are made of the values delivered for them.
Aligned(q) ==
    \A k \in 1..Width(q) : \A r \in 1..Len(block[q][Width(q)]) :
        r <= Len(got[q][k]) /\ block[q][k][r] = got[q][k][r]

\* No stream has failed: the block is as long as what was delivered before this
\* pass, and rowValues is what was delivered in this pass.
InStep(q) ==
    /\ Len(row[q]) = qi[q] - 1
    /\ \A k \in 1..Width(q) :
        /\ k < qi[q] => /\ Len(got[q][k]) = Len(block[q][k]) + 1
                        /\ got[q][k][Len(block[q][k]) + 1] = row[q][k]
        /\ k >= qi[q] => Len(got[q][k]) = Len(block[q][k])

\* A stream that failed in this pass: the pass cannot fill a row.
Short(q) ==
    /\ Len(row[q]) < qi[q] - 1
    /\ \E k \in 1..(qi[q] - 1) : Failed(q, k)

\* A stream that failed in the pass before and is still to come: the reading
\* stops before this pass ends.
Doomed(q) == \E k \in qi[q]..Width(q) : Failed(q, k)

ReadInv(q) ==
    /\ AlmostLevel(block[q])
    /\ Aligned(q)
    /\ qpc[q] \in {"idle", "open"} =>
        /\ row[q] = <<>>
        /\ \A k \in 1..Width(q) : block[q][k] = <<>> /\ got[q][k] = <<>>
    /\ qpc[q] = "read" =>
        \/ Doomed(q)
        \/ Level(block[q]) /\ (Short(q) \/ InStep(q))

(* What adding a row does to the lengths and the cells of a block.         *)
LEMMA AddRowCells ==
    ASSUME NEW b \in Seq(Seq(Text)), NEW values \in Seq(Text), NEW k \in 1..Len(b)
    PROVE  LET c == AddRow(b, values)[k]
           IN  /\ Len(b[k]) \in Nat
               /\ k <= Len(values) => /\ Len(c) = Len(b[k]) + 1
                                      /\ c[Len(b[k]) + 1] = values[k]
               /\ k > Len(values) => Len(c) = Len(b[k])
               /\ \A r \in 1..Len(b[k]) : c[r] = b[k][r]
<1>1. b[k] \in Seq(Text) /\ Len(b[k]) \in Nat /\ Len(values) \in Nat
    BY ElementOfSeq, LenProperties
<1>2. CASE k <= Len(values)
  <2>1. AddRow(b, values)[k] = Append(b[k], values[k])
    BY <1>2, AddRowType
  <2>2. values[k] \in Text
    BY <1>1, <1>2, ElementOfSeq, LenProperties
  <2>3. /\ Len(Append(b[k], values[k])) = Len(b[k]) + 1
        /\ Append(b[k], values[k])[Len(b[k]) + 1] = values[k]
        /\ \A r \in 1..Len(b[k]) : Append(b[k], values[k])[r] = b[k][r]
    BY <1>1, <2>2
  <2>4. QED
    BY <1>1, <1>2, <2>1, <2>3
<1>3. CASE k > Len(values)
  <2>1. AddRow(b, values)[k] = b[k]
    BY <1>3, AddRowType
  <2>2. QED
    BY <1>1, <1>3, <2>1
<1>4. QED
    BY <1>1, <1>2, <1>3

(* A row added to a level block leaves it almost level, and level when the *)
(* row is complete.                                                        *)
LEMMA AddRowShape ==
    ASSUME NEW b \in Seq(Seq(Text)), NEW values \in Seq(Text), Level(b)
    PROVE  /\ AlmostLevel(AddRow(b, values))
           /\ Len(values) = Len(b) => Level(AddRow(b, values))
<1>1. Len(AddRow(b, values)) = Len(b) /\ Len(b) \in Nat /\ Len(values) \in Nat
    BY AddRowType, LenProperties
<1>2. ASSUME NEW k \in 1..Len(b)
      PROVE  /\ Len(b[k]) \in Nat
             /\ k <= Len(values) => Len(AddRow(b, values)[k]) = Len(b[k]) + 1
             /\ k > Len(values) => Len(AddRow(b, values)[k]) = Len(b[k])
    BY AddRowCells
<1>3. AlmostLevel(AddRow(b, values))
  <2> SUFFICES ASSUME NEW i \in 1..Len(b), NEW j \in 1..Len(b), i < j
               PROVE  /\ Len(AddRow(b, values)[j]) <= Len(AddRow(b, values)[i])
                      /\ Len(AddRow(b, values)[i]) <= Len(AddRow(b, values)[j]) + 1
    BY <1>1 DEF AlmostLevel
  <2>1. Len(b[i]) = Len(b[j]) /\ Len(b[i]) \in Nat
    BY <1>2 DEF Level
  <2>2. /\ i <= Len(values) => Len(AddRow(b, values)[i]) = Len(b[i]) + 1
        /\ i > Len(values) => Len(AddRow(b, values)[i]) = Len(b[i])
    BY <1>2
  <2>3. /\ j <= Len(values) => Len(AddRow(b, values)[j]) = Len(b[i]) + 1
        /\ j > Len(values) => Len(AddRow(b, values)[j]) = Len(b[i])
    BY <1>2, <2>1
  <2> DEFINE li == Len(AddRow(b, values)[i])
             lj == Len(AddRow(b, values)[j])
             l  == Len(b[i])
             n  == Len(values)
  <2> HIDE DEF li, lj, l, n
  <2>4. /\ l \in Nat /\ n \in Nat /\ i \in Nat /\ j \in Nat
        /\ i <= n => li = l + 1
        /\ i > n => li = l
        /\ j <= n => lj = l + 1
        /\ j > n => lj = l
    BY <1>1, <2>1, <2>2, <2>3 DEF li, lj, l, n
  <2>5. lj <= li /\ li <= lj + 1
    BY <2>4
  <2>6. QED
    BY <2>5 DEF li, lj
<1>4. ASSUME Len(values) = Len(b) PROVE Level(AddRow(b, values))
  <2> SUFFICES ASSUME NEW i \in 1..Len(b), NEW j \in 1..Len(b)
               PROVE  Len(AddRow(b, values)[i]) = Len(AddRow(b, values)[j])
    BY <1>1 DEF Level
  <2>1. Len(b[i]) = Len(b[j])
    BY DEF Level
  <2>2. QED
    BY <1>1, <1>2, <1>4, <2>1
<1>5. QED
    BY <1>3, <1>4

LEMMA LevelIsAlmostLevel ==
    ASSUME NEW b \in Seq(Seq(Text)), Level(b)
    PROVE  AlmostLevel(b)
<1> SUFFICES ASSUME NEW i \in 1..Len(b), NEW j \in 1..Len(b), i < j
             PROVE  Len(b[j]) <= Len(b[i]) /\ Len(b[i]) <= Len(b[j]) + 1
    BY DEF AlmostLevel
<1>1. b[i] \in Seq(Text) /\ Len(b[i]) \in Nat
    BY ElementOfSeq, LenProperties
<1>2. QED
    BY <1>1 DEF Level

(* The heart of the argument: a value, or none, taken from the stream      *)
(* whose turn it is.                                                       *)
LEMMA AdvanceReadInv ==
    ASSUME QueriesOK, NEW q \in Queries, qpc[q] = "read", ReadInv(q), ~Failed(q, qi[q]),
           NEW s \in Stream, NEW values \in Seq(Text), Advance(q, s, values),
           \/ values = <<>> /\ s.state = "fail"
           \/ Len(values) = 1 /\ s.state # "fail"
    PROVE  ReadInv(q)'
<1> DEFINE W == Width(q)
           full == row[q] \o values
<1>1. W \in Nat /\ qi[q] \in Nat /\ 1 <= qi[q] /\ qi[q] <= W
    BY AdvanceEffect
<1>2. /\ block[q] \in Seq(Seq(Text)) /\ Len(block[q]) = W
      /\ got[q] \in Seq(Seq(Text)) /\ Len(got[q]) = W
      /\ row[q] \in Seq(Text) /\ full \in Seq(Text)
    BY AdvanceEffect DEF QueriesOK, Width
<1>3. ASSUME NEW k \in 1..W
      PROVE  /\ block[q][k] \in Seq(Text) /\ Len(block[q][k]) \in Nat
             /\ got[q][k] \in Seq(Text) /\ Len(got[q][k]) \in Nat
    BY <1>2, ElementOfSeq, LenProperties
<1>4. /\ row'[q] = IF qi[q] = W THEN <<>> ELSE full
      /\ qi'[q] = IF qi[q] = W THEN 1 ELSE qi[q] + 1
      /\ block'[q] = IF qi[q] = W THEN AddRow(block[q], full) ELSE block[q]
      /\ qpc'[q] = "read" /\ Width(q)' = W
    BY DEF Advance, QueriesOK, Width
<1>5. /\ Len(row[q]) \in Nat /\ Len(values) \in Nat /\ Len(values) <= 1
      /\ Len(full) = Len(row[q]) + Len(values)
  <2>1. Len(row[q]) \in Nat
    BY <1>2, LenProperties
  <2>2. Len(values) \in Nat /\ Len(values) <= 1
    <3>1. CASE values = <<>>
      <4>1. Len(values) = 0
        BY <3>1
      <4>2. QED
        BY <4>1
    <3>2. CASE Len(values) = 1
      BY <3>2
    <3>3. QED
      BY <3>1, <3>2
  <2>3. Len(full) = Len(row[q]) + Len(values)
    BY <1>2, ConcatProperties
  <2>4. QED
    BY <2>1, <2>2, <2>3
<1>s. Len(values) = 0 => s.state = "fail"
    BY EmptySeq
<1>e. ASSUME NEW k \in 1..W
      PROVE  /\ got'[q][k] = IF k = qi[q] THEN got[q][k] \o values ELSE got[q][k]
             /\ streams'[q][k] = IF k = qi[q] THEN s ELSE streams[q][k]
    BY AdvanceEffect
<1>6. /\ \A k \in 1..Len(row[q]) : full[k] = row[q][k]
      /\ Len(values) = 1 => full[Len(row[q]) + 1] = values[1]
    BY <1>2, <1>5, ConcatProperties
<1>7. ASSUME NEW k \in 1..W
      PROVE  /\ \A r \in 1..Len(got[q][k]) : got'[q][k][r] = got[q][k][r]
             /\ k = qi[q] => Len(got'[q][k]) = Len(got[q][k]) + Len(values)
             /\ k # qi[q] => Len(got'[q][k]) = Len(got[q][k])
             /\ k = qi[q] /\ Len(values) = 1 =>
                    got'[q][k][Len(got[q][k]) + 1] = values[1]
  <2>1. CASE k = qi[q]
    <3>1. got'[q][k] = got[q][k] \o values
      BY <2>1, <1>e
    <3>2. got[q][k] \in Seq(Text) /\ Len(got[q][k]) \in Nat
      BY <1>3
    <3>3. /\ Len(got[q][k] \o values) = Len(got[q][k]) + Len(values)
          /\ \A r \in 1..Len(got[q][k]) : (got[q][k] \o values)[r] = got[q][k][r]
          /\ Len(values) = 1 => (got[q][k] \o values)[Len(got[q][k]) + 1] = values[1]
      BY <1>5, <3>2, ConcatProperties
    <3>4. QED
      BY <2>1, <3>1, <3>3
  <2>2. CASE k # qi[q]
    <3>1. got'[q][k] = got[q][k]
      BY <2>2, <1>e
    <3>2. QED
      BY <2>2, <3>1
  <2>3. QED
    BY <2>1, <2>2
<1>8. ASSUME NEW k \in 1..W
      PROVE  /\ k # qi[q] => (Failed(q, k)' <=> Failed(q, k))
             /\ k = qi[q] /\ Len(values) = 0 => Failed(q, k)'
    BY <1>s, <1>e DEF Failed
<1> HIDE DEF W, full
<1>9. CASE qi[q] # W
  <2>1. qi'[q] = qi[q] + 1 /\ row'[q] = full /\ block'[q] = block[q]
    BY <1>4, <1>9
  <2>2. Aligned(q)'
    <3> SUFFICES ASSUME NEW k \in 1..W, NEW r \in 1..Len(block[q][W])
                 PROVE  r <= Len(got'[q][k]) /\ block[q][k][r] = got'[q][k][r]
      BY <1>4, <2>1 DEF Aligned
    <3>1. r <= Len(got[q][k]) /\ block[q][k][r] = got[q][k][r]
      BY DEF ReadInv, Aligned, W
    <3>2. Len(got[q][k]) \in Nat /\ r \in 1..Len(got[q][k])
      BY <1>3, <3>1
    <3>3. Len(got'[q][k]) >= Len(got[q][k])
      BY <1>5, <1>7, <3>2
    <3>4. QED
      BY <1>7, <3>1, <3>2, <3>3
  <2>3. CASE Doomed(q)
    <3>1. PICK k \in qi[q]..W : Failed(q, k)
      BY <2>3 DEF Doomed, W
    <3>2. k # qi[q]
      BY <3>1
    <3>3. k \in (qi[q] + 1)..W /\ k \in 1..W
      BY <1>1, <3>2
    <3>4. Failed(q, k)'
      BY <1>8, <3>1, <3>2, <3>3
    <3>5. Doomed(q)'
      BY <1>4, <2>1, <3>3, <3>4 DEF Doomed
    <3>6. QED
      BY <1>4, <2>1, <2>2, <3>5 DEF ReadInv
  <2>4. CASE Level(block[q]) /\ Short(q)
    <3>1. PICK k \in 1..(qi[q] - 1) : Failed(q, k)
      BY <2>4 DEF Short
    <3>2. k \in 1..W /\ k # qi[q] /\ k \in 1..(qi'[q] - 1)
      BY <1>1, <2>1
    <3>3. Failed(q, k)'
      BY <1>8, <3>1, <3>2
    <3>4. Len(row[q]) < qi[q] - 1
      BY <2>4 DEF Short
    <3>5. Len(row'[q]) < qi'[q] - 1
      BY <1>1, <1>5, <2>1, <3>4
    <3>6. Short(q)'
      BY <3>2, <3>3, <3>5 DEF Short
    <3>7. QED
      BY <1>4, <2>1, <2>2, <2>4, <3>6 DEF ReadInv
  <2>5. CASE Level(block[q]) /\ InStep(q) /\ Len(values) = 0
    <3>1. Len(row[q]) = qi[q] - 1
      BY <2>5 DEF InStep
    <3>2. Len(row'[q]) < qi'[q] - 1
      BY <1>1, <1>5, <2>1, <2>5, <3>1
    <3>3. qi[q] \in 1..W /\ qi[q] \in 1..(qi'[q] - 1)
      BY <1>1, <2>1
    <3>4. streams'[q][qi[q]].state = "fail"
      BY <1>8, <2>5, <3>3 DEF Failed
    <3>5. \E k \in 1..(qi'[q] - 1) : streams'[q][k].state = "fail"
      BY <3>3, <3>4
    <3>6. Short(q)'
      BY <3>2, <3>5 DEF Short, Failed
    <3>7. QED
      BY <1>4, <2>1, <2>2, <2>5, <3>6 DEF ReadInv
  <2>6. CASE Level(block[q]) /\ InStep(q) /\ Len(values) = 1
    <3>1. Len(row[q]) = qi[q] - 1
      BY <2>6 DEF InStep
    <3>2. Len(row'[q]) = qi'[q] - 1
      BY <1>1, <1>5, <2>1, <2>6, <3>1
    <3>3. ASSUME NEW k \in 1..W
          PROVE  /\ k < qi[q] + 1 => /\ Len(got'[q][k]) = Len(block[q][k]) + 1
                                     /\ got'[q][k][Len(block[q][k]) + 1] = full[k]
                 /\ k >= qi[q] + 1 => Len(got'[q][k]) = Len(block[q][k])
      <4>0. Len(block[q][k]) \in Nat /\ Len(got[q][k]) \in Nat
        BY <1>3
      <4>1. CASE k < qi[q]
        <5>1. /\ Len(got[q][k]) = Len(block[q][k]) + 1
              /\ got[q][k][Len(block[q][k]) + 1] = row[q][k]
          BY <2>6, <4>1 DEF InStep, W
        <5>2. k \in 1..Len(row[q]) /\ Len(block[q][k]) + 1 \in 1..Len(got[q][k])
          BY <1>1, <3>1, <4>0, <4>1, <5>1
        <5>3. got'[q][k][Len(block[q][k]) + 1] = full[k]
          BY <1>6, <1>7, <5>1, <5>2
        <5>4. Len(got'[q][k]) = Len(block[q][k]) + 1
          BY <1>7, <4>1, <5>1
        <5>5. QED
          BY <1>1, <4>1, <5>3, <5>4
      <4>2. CASE k = qi[q]
        <5>a. Len(row[q]) + 1 = k /\ k >= qi[q]
          BY <1>1, <3>1, <4>2
        <5>1. Len(got[q][k]) = Len(block[q][k]) /\ Len(row[q]) + 1 = k
          BY <2>6, <5>a DEF InStep, W
        <5>2. /\ Len(got'[q][k]) = Len(block[q][k]) + 1
              /\ got'[q][k][Len(block[q][k]) + 1] = full[k]
          BY <1>6, <1>7, <2>6, <4>2, <5>1
        <5>3. QED
          BY <1>1, <4>2, <5>2
      <4>3. CASE k > qi[q]
        <5>1. Len(got[q][k]) = Len(block[q][k])
          BY <1>1, <2>6, <4>3 DEF InStep, W
        <5>2. Len(got'[q][k]) = Len(block[q][k])
          BY <1>7, <4>3, <5>1
        <5>3. QED
          BY <1>1, <4>3, <5>2
      <4>4. QED
        BY <1>1, <4>1, <4>2, <4>3
    <3>4. InStep(q)'
      BY <1>4, <2>1, <3>2, <3>3 DEF InStep
    <3>5. QED
      BY <1>4, <2>1, <2>2, <2>6, <3>4 DEF ReadInv
  <2>7. QED
    BY <1>5, <2>3, <2>4, <2>5, <2>6 DEF ReadInv
<1>10. CASE qi[q] = W
  <2>1. qi'[q] = 1 /\ row'[q] = <<>> /\ block'[q] = AddRow(block[q], full)
    BY <1>4, <1>10
  <2>2. ~Doomed(q)
    BY <1>1, <1>10 DEF Doomed, W
  <2>3. Level(block[q]) /\ (Short(q) \/ InStep(q))
    BY <2>2 DEF ReadInv
  <2>4. AlmostLevel(block'[q])
    BY <1>2, <2>1, <2>3, AddRowShape
  <2>5. ASSUME NEW k \in 1..W
        PROVE  /\ k <= Len(full) => /\ Len(block'[q][k]) = Len(block[q][k]) + 1
                                    /\ block'[q][k][Len(block[q][k]) + 1] = full[k]
               /\ k > Len(full) => Len(block'[q][k]) = Len(block[q][k])
               /\ \A r \in 1..Len(block[q][k]) : block'[q][k][r] = block[q][k][r]
               /\ Len(block[q][k]) = Len(block[q][W])
    <3>1. k \in 1..Len(block[q]) /\ W \in 1..Len(block[q])
      BY <1>1, <1>2
    <3>2. Len(block[q][k]) = Len(block[q][W])
      BY <2>3, <3>1 DEF Level
    <3>3. LET c == AddRow(block[q], full)[k]
          IN  /\ k <= Len(full) => /\ Len(c) = Len(block[q][k]) + 1
                                    /\ c[Len(block[q][k]) + 1] = full[k]
              /\ k > Len(full) => Len(c) = Len(block[q][k])
              /\ \A r \in 1..Len(block[q][k]) : c[r] = block[q][k][r]
      BY <1>2, <3>1, AddRowCells
    <3>4. QED
      BY <2>1, <3>2, <3>3
  <2>6. W \in 1..W
    BY <1>1
  <2>7. CASE Len(full) < W
    <3>1. Len(block'[q][W]) = Len(block[q][W])
      BY <2>5, <2>6, <2>7
    <3>2. Aligned(q)'
      <4> SUFFICES ASSUME NEW k \in 1..W, NEW r \in 1..Len(block[q][W])
                   PROVE  r <= Len(got'[q][k]) /\ block'[q][k][r] = got'[q][k][r]
        BY <1>4, <3>1 DEF Aligned
      <4>1. r <= Len(got[q][k]) /\ block[q][k][r] = got[q][k][r]
        BY DEF ReadInv, Aligned, W
      <4>2. Len(got[q][k]) \in Nat /\ r \in 1..Len(got[q][k])
        BY <1>3, <4>1
      <4>3. block'[q][k][r] = block[q][k][r]
        BY <2>5
      <4>4. Len(got'[q][k]) >= Len(got[q][k])
        BY <1>5, <1>7, <4>2
      <4>5. QED
        BY <1>7, <4>1, <4>2, <4>3, <4>4
    <3>3. \E k \in 1..W : Failed(q, k)'
      <4>1. CASE Short(q)
        <5>1. PICK k \in 1..(qi[q] - 1) : Failed(q, k)
          BY <4>1 DEF Short
        <5>2. k \in 1..W /\ k # qi[q]
          BY <1>1
        <5>3. QED
          BY <1>8, <5>1, <5>2
      <4>2. CASE InStep(q)
        <5>1. Len(row[q]) = W - 1
          BY <1>10, <4>2 DEF InStep
        <5>2. Len(values) = 0
          BY <1>1, <1>5, <2>7, <5>1
        <5>3. QED
          BY <1>8, <1>10, <2>6, <5>2
      <4>3. QED
        BY <2>3, <4>1, <4>2
    <3>4. Doomed(q)'
      BY <1>4, <2>1, <3>3 DEF Doomed
    <3>5. QED
      BY <1>4, <2>4, <3>2, <3>4 DEF ReadInv
  <2>8. CASE Len(full) >= W
    <3>1. InStep(q) /\ Len(values) = 1 /\ Len(full) = W /\ Len(row[q]) = W - 1
      <4>1. CASE Short(q)
        <5>1. Len(row[q]) < W - 1
          BY <1>10, <4>1 DEF Short
        <5>2. QED
          BY <1>1, <1>5, <2>8, <5>1
      <4>2. CASE InStep(q)
        <5>1. Len(row[q]) = W - 1
          BY <1>10, <4>2 DEF InStep
        <5>2. QED
          BY <1>1, <1>5, <2>8, <4>2, <5>1
      <4>3. QED
        BY <2>3, <4>1, <4>2
    <3>2. Level(block'[q])
      BY <1>2, <2>1, <2>3, <3>1, AddRowShape
    <3>3. ASSUME NEW k \in 1..W
          PROVE  /\ Len(got'[q][k]) = Len(block[q][k]) + 1
                 /\ got'[q][k][Len(block[q][k]) + 1] = full[k]
                 /\ Len(block'[q][k]) = Len(block[q][k]) + 1
                 /\ block'[q][k][Len(block[q][k]) + 1] = full[k]
      <4>0. /\ Len(block[q][k]) \in Nat /\ Len(got[q][k]) \in Nat
            /\ Len(block'[q][k]) = Len(block[q][k]) + 1
            /\ block'[q][k][Len(block[q][k]) + 1] = full[k]
        BY <1>1, <1>3, <2>5, <3>1
      <4>1. CASE k < W
        <5>1. /\ Len(got[q][k]) = Len(block[q][k]) + 1
              /\ got[q][k][Len(block[q][k]) + 1] = row[q][k]
          BY <1>10, <3>1, <4>1 DEF InStep, W
        <5>2. k \in 1..Len(row[q]) /\ Len(block[q][k]) + 1 \in 1..Len(got[q][k])
          BY <1>1, <3>1, <4>0, <4>1, <5>1
        <5>3. got'[q][k][Len(block[q][k]) + 1] = full[k]
          BY <1>6, <1>7, <5>1, <5>2
        <5>4. Len(got'[q][k]) = Len(block[q][k]) + 1
          BY <1>1, <1>7, <1>10, <4>1, <5>1
        <5>5. QED
          BY <4>0, <5>3, <5>4
      <4>2. CASE k = W
        <5>1. Len(got[q][k]) = Len(block[q][k]) /\ Len(row[q]) + 1 = k
          BY <1>1, <1>10, <3>1, <4>2 DEF InStep, W
        <5>2. /\ Len(got'[q][k]) = Len(block[q][k]) + 1
              /\ got'[q][k][Len(block[q][k]) + 1] = full[k]
          BY <1>6, <1>7, <1>10, <3>1, <4>2, <5>1
        <5>3. QED
          BY <4>0, <5>2
      <4>3. QED
        BY <1>1, <4>1, <4>2
    <3>4. Aligned(q)'
      <4> SUFFICES ASSUME NEW k \in 1..W, NEW r \in 1..Len(block'[q][W])
                   PROVE  r <= Len(got'[q][k]) /\ block'[q][k][r] = got'[q][k][r]
        BY <1>4 DEF Aligned
      <4>1. /\ Len(block[q][k]) = Len(block[q][W]) /\ Len(block[q][k]) \in Nat
            /\ Len(got'[q][k]) = Len(block[q][k]) + 1
            /\ Len(block'[q][W]) = Len(block[q][W]) + 1
        BY <1>3, <2>5, <2>6, <3>3
      <4>2. CASE r = Len(block[q][k]) + 1
        <5>1. block'[q][k][r] = full[k] /\ got'[q][k][r] = full[k]
          BY <3>3, <4>2
        <5>2. r <= Len(got'[q][k])
          BY <4>1, <4>2
        <5>3. QED
          BY <5>1, <5>2
      <4>3. CASE r # Len(block[q][k]) + 1
        <5>1. r \in 1..Len(block[q][k]) /\ r \in 1..Len(block[q][W])
          BY <4>1, <4>3
        <5>2. r <= Len(got[q][k]) /\ block[q][k][r] = got[q][k][r]
          BY <5>1 DEF ReadInv, Aligned, W
        <5>3. r \in 1..Len(got[q][k])
          BY <1>3, <5>2
        <5>4. block'[q][k][r] = got'[q][k][r]
          BY <1>7, <2>5, <5>1, <5>2, <5>3
        <5>5. QED
          BY <4>1, <5>4
      <4>4. QED
        BY <4>2, <4>3
    <3>5. InStep(q)'
      <4>1. Len(row'[q]) = qi'[q] - 1
        BY <2>1, EmptySeq
      <4>2. \A k \in 1..W : ~(k < 1) /\ Len(got'[q][k]) = Len(block'[q][k])
        BY <3>3
      <4>3. QED
        BY <1>4, <2>1, <4>1, <4>2 DEF InStep
    <3>6. QED
      BY <1>4, <2>4, <3>2, <3>4, <3>5 DEF ReadInv
  <2>9. QED
    BY <1>1, <1>5, <2>7, <2>8
<1>11. QED
    BY <1>9, <1>10

BlocksInv == \A q \in Queries : ReadInv(q)

(* A step that leaves a query's reading alone keeps its invariant; so does *)
(* one that ends the reading.                                              *)
LEMMA UntouchedReadInv ==
    ASSUME NEW q \in Queries, ReadInv(q), select' = select,
           streams'[q] = streams[q], qi'[q] = qi[q], row'[q] = row[q],
           block'[q] = block[q], got'[q] = got[q], qpc'[q] = qpc[q]
    PROVE  ReadInv(q)'
<1>1. Width(q)' = Width(q)
    BY DEF Width
<1>2. Aligned(q)'
    BY <1>1 DEF ReadInv, Aligned
<1>3. Doomed(q) => Doomed(q)'
    BY <1>1 DEF Doomed, Failed
<1>4. /\ Short(q) => Short(q)'
      /\ InStep(q) => InStep(q)'
    BY <1>1 DEF Short, InStep, Failed
<1>5. AlmostLevel(block[q])' /\ (Level(block[q]) => Level(block[q])')
    BY DEF ReadInv
<1>6. qpc[q] \in {"idle", "open"} =>
        /\ row'[q] = <<>>
        /\ \A k \in 1..Width(q) : block'[q][k] = <<>> /\ got'[q][k] = <<>>
    BY DEF ReadInv
<1>7. ASSUME qpc'[q] = "read"
      PROVE  Doomed(q)' \/ (Level(block[q])' /\ (Short(q)' \/ InStep(q)'))
  <2>1. CASE Doomed(q)
    BY <1>3, <2>1
  <2>2. CASE Level(block[q]) /\ (Short(q) \/ InStep(q))
    BY <1>4, <1>5, <2>2
  <2>3. QED
    BY <1>7, <2>1, <2>2 DEF ReadInv
<1>8. QED
    BY <1>1, <1>2, <1>5, <1>6, <1>7 DEF ReadInv

LEMMA EndedReadInv ==
    ASSUME NEW q \in Queries, ReadInv(q), select' = select,
           block'[q] = block[q], got'[q] = got[q],
           qpc'[q] \notin {"idle", "open", "read"}
    PROVE  ReadInv(q)'
<1>1. Width(q)' = Width(q)
    BY DEF Width
<1>2. Aligned(q)' /\ AlmostLevel(block[q])'
    BY <1>1 DEF ReadInv, Aligned
<1>3. QED
    BY <1>2 DEF ReadInv

(* An empty block, before the reading and at its start.                    *)
LEMMA EmptyReadInv ==
    ASSUME NEW q \in Queries, Len(block[q]) = Width(q), Width(q) \in Nat, row[q] = <<>>,
           qi[q] = 1 \/ qpc[q] # "read",
           \A k \in 1..Width(q) : block[q][k] = <<>> /\ got[q][k] = <<>>
    PROVE  ReadInv(q)
<1>1. Len(<<>>) = 0
    OBVIOUS
<1>2. \A k \in 1..Width(q) : Len(block[q][k]) = 0 /\ Len(got[q][k]) = 0
    BY <1>1
<1>3. Level(block[q]) /\ AlmostLevel(block[q])
    BY <1>2 DEF Level, AlmostLevel
<1>4. Aligned(q)
  <2>1. CASE Width(q) = 0
    BY <2>1 DEF Aligned
  <2>2. CASE Width(q) # 0
    <3>1. Len(block[q][Width(q)]) = 0
      BY <1>2, <2>2
    <3>2. QED
      BY <3>1 DEF Aligned
  <2>3. QED
    BY <2>1, <2>2
<1>5. qpc[q] = "read" => InStep(q)
    BY <1>1, <1>2 DEF InStep
<1>6. QED
    BY <1>3, <1>4, <1>5 DEF ReadInv

LEMMA InitBlocksInv == TypeOK /\ Init => BlocksInv
<1> SUFFICES ASSUME TypeOK, Init, NEW q \in Queries PROVE ReadInv(q)
    BY DEF BlocksInv
<1>1. /\ select[q] \in Seq(FileNames) /\ Len(block[q]) = Width(q)
    BY RequestsAssumption DEF TypeOK, QueriesOK, Width
<1>2. Width(q) \in Nat /\ DOMAIN select[q] = 1..Width(q)
    BY <1>1, LenProperties DEF Width
<1>3. /\ \A k \in 1..Width(q) : block[q][k] = <<>> /\ got[q][k] = <<>>
      /\ row[q] = <<>> /\ qpc[q] = "idle"
    BY <1>2 DEF Init
<1>4. QED
    BY <1>1, <1>2, <1>3, EmptyReadInv

LEMMA QueryBlocksInv ==
    ASSUME TypeOK, NEW q \in Queries, ReadInv(q), StartQuery(q) \/ QueryStep(q)
    PROVE  ReadInv(q)'
<1>0. /\ FilesOK /\ QueriesOK
      /\ select[q] \in Seq(FileNames) /\ Len(block[q]) = Width(q) /\ Width(q) \in Nat
    BY RequestsAssumption, LenProperties DEF TypeOK, QueriesOK, Width
<1>1. CASE StartQuery(q) \/ OpenFile(q)
  <2>1. /\ row[q] = <<>>
        /\ \A k \in 1..Width(q) : block[q][k] = <<>> /\ got[q][k] = <<>>
    BY <1>1 DEF StartQuery, OpenFile, ReadInv
  <2>2. UNCHANGED <<select, row, block, got>> /\ Width(q)' = Width(q)
    BY <1>1 DEF StartQuery, OpenFile, Width
  <2>3. qi'[q] = 1 \/ qpc'[q] # "read"
    BY <1>0, <1>1 DEF StartQuery, OpenFile, QueriesOK
  <2>4. Aligned(q)' /\ AlmostLevel(block[q])'
    BY <2>2 DEF ReadInv, Aligned
  <2>5. \A k \in 1..Width(q) : Len(block'[q][k]) = 0 /\ Len(got'[q][k]) = 0
    BY <2>1, <2>2, EmptySeq
  <2>6. qpc'[q] = "read" => Level(block[q])' /\ InStep(q)'
    <3>1. Level(block[q])'
      BY <1>0, <2>2, <2>5 DEF Level
    <3>2. ASSUME qi'[q] = 1 PROVE InStep(q)'
      BY <2>1, <2>2, <2>5, <3>2, EmptySeq DEF InStep
    <3>3. QED
      BY <2>3, <3>1, <3>2
  <2>7. QED
    BY <2>1, <2>2, <2>4, <2>6 DEF ReadInv
<1>2. CASE ReadBuffer(q)
  <2>1. /\ UNCHANGED <<select, qpc, qi, row, block, got>> /\ qpc[q] = "read"
        /\ Width(q)' = Width(q)
    BY <1>2 DEF ReadBuffer, Width
  <2>2. ASSUME NEW k \in 1..Width(q) PROVE streams'[q][k].state = streams[q][k].state
    <3>1. /\ streams[q] \in Seq(Stream) /\ Len(streams[q]) = Width(q)
          /\ qi[q] \in 1..Width(q)
      BY <1>0, <2>1, CurrentType
    <3>2. streams[q][k] \in Stream /\ DOMAIN streams[q] = 1..Width(q)
      BY <3>1, ElementOfSeq, LenProperties
    <3> DEFINE chunk == Chunk(CurrentText(q), Current(q).off)
               s == [streams[q][qi[q]] EXCEPT
                        !.buf = streams[q][qi[q]].buf \o chunk,
                        !.off = streams[q][qi[q]].off + Len(chunk)]
    <3>3. streams' = [streams EXCEPT ![q] = [streams[q] EXCEPT ![qi[q]] = s]]
      BY <1>2 DEF ReadBuffer
    <3>4. s.state = streams[q][qi[q]].state
      BY <3>1, ElementOfSeq DEF Stream
    <3> HIDE DEF s
    <3>5. streams'[q][k] = IF k = qi[q] THEN s ELSE streams[q][k]
      BY <1>0, <3>2, <3>3 DEF QueriesOK
    <3>6. QED
      BY <3>4, <3>5
  <2>3. \A k \in 1..Width(q) : Failed(q, k)' <=> Failed(q, k)
    BY <2>2 DEF Failed
  <2>4. /\ Doomed(q) => Doomed(q)'
        /\ Short(q) => Short(q)'
    <3>1. qi[q] \in 1..Width(q)
      BY <1>0, <2>1, CurrentType
    <3>2. ASSUME Doomed(q) PROVE Doomed(q)'
      <4>1. PICK k \in qi[q]..Width(q) : Failed(q, k)
        BY <3>2 DEF Doomed
      <4>2. k \in 1..Width(q)
        BY <1>0, <3>1
      <4>3. Failed(q, k)'
        BY <2>3, <4>1, <4>2
      <4>4. QED
        BY <2>1, <4>3 DEF Doomed
    <3>3. ASSUME Short(q) PROVE Short(q)'
      <4>1. PICK k \in 1..(qi[q] - 1) : Failed(q, k)
        BY <3>3 DEF Short
      <4>2. k \in 1..Width(q)
        BY <1>0, <3>1
      <4>3. Failed(q, k)'
        BY <2>3, <4>1, <4>2
      <4>4. QED
        BY <2>1, <3>3, <4>3 DEF Short
    <3>4. QED
      BY <3>2, <3>3
  <2>5. /\ InStep(q) => InStep(q)'
        /\ Aligned(q)' /\ AlmostLevel(block[q])'
        /\ Level(block[q]) => Level(block[q])'
    BY <2>1 DEF ReadInv, InStep, Aligned
  <2>6. Doomed(q)' \/ (Level(block[q])' /\ (Short(q)' \/ InStep(q)'))
    <3>1. CASE Doomed(q)
      BY <2>4, <3>1
    <3>2. CASE Level(block[q]) /\ (Short(q) \/ InStep(q))
      BY <2>4, <2>5, <3>2
    <3>3. QED
      BY <2>1, <3>1, <3>2 DEF ReadInv
  <2>7. qpc'[q] = "read"
    BY <2>1
  <2>8. QED
    BY <2>5, <2>6, <2>7 DEF ReadInv
<1>3. CASE Reading(q)
  <2>1. PICK s \in Stream : \E values \in Seq(Text) :
                /\ Advance(q, s, values)
                /\ \/ values = <<>> /\ s.state = "fail"
                   \/ Len(values) = 1 /\ s.state # "fail"
    BY <1>0, <1>3, ReadingAdvances
  <2>2. qpc[q] = "read" /\ ~Failed(q, qi[q])
    BY <1>0, <1>3, ReadingAdvances DEF Failed, Current
  <2>3. QED
    BY <1>0, <2>1, <2>2, AdvanceReadInv
<1>4. CASE StopReading(q)
  <2>1. UNCHANGED <<select, block, got>> /\ qpc'[q] = "ok"
    BY <1>0, <1>4 DEF StopReading, QueriesOK
  <2>2. QED
    BY <2>1, EndedReadInv
<1>5. QED
    BY <1>1, <1>2, <1>3, <1>4 DEF QueryStep, Reading

(* A query's step changes the reading of no other query.                   *)
LEMMA OtherQueries ==
    ASSUME QueriesOK, NEW q \in Queries, StartQuery(q) \/ QueryStep(q),
           NEW p \in Queries, p # q
    PROVE  /\ select' = select
           /\ streams'[p] = streams[p] /\ qi'[p] = qi[p] /\ row'[p] = row[p]
           /\ block'[p] = block[p] /\ got'[p] = got[p] /\ qpc'[p] = qpc[p]
<1>1. CASE StartQuery(q) \/ OpenFile(q) \/ ReadBuffer(q) \/ StopReading(q)
    BY <1>1 DEF StartQuery, OpenFile, ReadBuffer, StopReading, QueriesOK
<1>2. CASE Reading(q)
    BY <1>2 DEF Reading, GetLine, EndOfFile, GetLineAfterEof, Advance, QueriesOK
<1>3. QED
    BY <1>1, <1>2 DEF QueryStep, Reading

LEMMA NextBlocksInv == TypeOK /\ BlocksInv /\ [Next]_vars => BlocksInv'
<1> SUFFICES ASSUME TypeOK, BlocksInv, [Next]_vars, NEW p \in Queries PROVE ReadInv(p)'
    BY DEF BlocksInv
<1>0. ReadInv(p)
    BY DEF BlocksInv
<1>1. ASSUME NEW m \in Imports, CreateDirectories(m) \/ ImportStep(m) PROVE ReadInv(p)'
  <2>1. UNCHANGED qvars
    BY <1>1 DEF CreateDirectories, ImportStep, OpenColumnsTxt, OpenColumn, SkipColumn,
                WriteColumn, CloseColumn, OpenCount, FlushCount, FlushHeader
  <2>2. QED
    BY <1>0, <2>1, UntouchedReadInv DEF qvars
<1>2. ASSUME NEW q \in Queries, StartQuery(q) \/ QueryStep(q) PROVE ReadInv(p)'
  <2>1. CASE p = q
    BY <1>0, <1>2, <2>1, QueryBlocksInv
  <2>2. CASE p # q
    BY <1>0, <1>2, <2>2, OtherQueries, UntouchedReadInv DEF TypeOK
  <2>3. QED
    BY <2>1, <2>2
<1>3. CASE Crash
  <2>1. UNCHANGED <<select, streams, qi, row, block, got>>
    BY <1>3 DEF Crash
  <2>2. qpc'[p] = IF qpc[p] \in {"open", "read"} THEN "crashed" ELSE qpc[p]
    BY <1>3 DEF Crash
  <2>3. CASE qpc[p] \in {"open", "read"}
    BY <1>0, <2>1, <2>2, <2>3, EndedReadInv
  <2>4. CASE qpc[p] \notin {"open", "read"}
    BY <1>0, <2>1, <2>2, <2>4, UntouchedReadInv
  <2>5. QED
    BY <2>3, <2>4
<1>4. CASE UNCHANGED vars
    BY <1>0, <1>4, UntouchedReadInv DEF vars, qvars
<1>5. QED
    BY <1>1, <1>2, <1>3, <1>4 DEF Next

LEMMA BlocksInvCorrect == Spec => []BlocksInv
<1>1. TypeOK /\ Init => BlocksInv
    BY InitBlocksInv
<1>2. TypeOK /\ BlocksInv /\ [Next]_vars => BlocksInv'
    BY NextBlocksInv
<1>3. QED
    BY <1>1, <1>2, TypeCorrect, PTL DEF Spec

LEMMA BlocksInvImplies ==
    ASSUME TypeOK, BlocksInv
    PROVE  AlmostRectangular /\ OnlyLastRowShifts
<1>1. ASSUME NEW q \in Queries
      PROVE  /\ DOMAIN block[q] = 1..Len(block[q])
             /\ Len(block[q]) = Width(q) /\ Len(got[q]) = Width(q)
             /\ AlmostLevel(block[q]) /\ Aligned(q)
             /\ \A k \in 1..Width(q) : /\ DOMAIN got[q][k] = 1..Len(got[q][k])
                                       /\ Len(got[q][k]) \in Nat
  <2>1. /\ block[q] \in Seq(Seq(Text)) /\ got[q] \in Seq(Seq(Text))
        /\ Len(block[q]) = Width(q) /\ Len(got[q]) = Width(q)
    BY DEF TypeOK, QueriesOK, Width
  <2>2. \A k \in 1..Width(q) : got[q][k] \in Seq(Text)
    BY <2>1, ElementOfSeq
  <2>3. QED
    BY <2>1, <2>2, LenProperties DEF BlocksInv, ReadInv
<1>2. AlmostRectangular
    BY <1>1 DEF AlmostRectangular, AlmostLevel
<1>3. OnlyLastRowShifts
  <2> SUFFICES ASSUME NEW q \in Queries, NEW k \in DOMAIN block[q],
                      NEW r \in 1..Len(block[q][Len(block[q])])
               PROVE  r \in DOMAIN got[q][k] /\ block[q][k][r] = got[q][k][r]
    BY DEF OnlyLastRowShifts
  <2>1. k \in 1..Width(q) /\ r \in 1..Len(block[q][Width(q)])
    BY <1>1
  <2>2. r <= Len(got[q][k]) /\ block[q][k][r] = got[q][k][r]
    BY <1>1, <2>1 DEF Aligned
  <2>3. QED
    BY <1>1, <2>1, <2>2
<1>4. QED
    BY <1>2, <1>3

(* The block of a query is at every moment at most one row out of shape,   *)
(* for any tables, any imports running meanwhile and any crashes.          *)
THEOREM BlocksAlmostRectangular == Spec => []AlmostRectangular
<1>1. TypeOK /\ BlocksInv => AlmostRectangular
    BY BlocksInvImplies
<1>2. QED
    BY <1>1, TypeCorrect, BlocksInvCorrect, PTL

(* Only that last row can hold values in the wrong columns.                *)
THEOREM ShiftsOnlyInLastRow == Spec => []OnlyLastRowShifts
<1>1. TypeOK /\ BlocksInv => OnlyLastRowShifts
    BY BlocksInvImplies
<1>2. QED
    BY <1>1, TypeCorrect, BlocksInvCorrect, PTL

-----------------------------------------------------------------------------
(* What has been written.                                                   *)

\* The data of the last of the first k columns that has the name c.
UpTo(u, c, k) ==
    LET named == {i \in DOMAIN u.cols : i <= k /\ u.cols[i] = c}
    IN  IF named = {} THEN <<>>
        ELSE u.data[CHOOSE i \in named : \A j \in named : j <= i]

\* What import m has written so far to the file c.
SoFar(m, c) ==
    IF ipc[m] = "write" /\ Cols(m)[icol[m]] = c
    THEN SubSeq(upload[m].data[icol[m]], 1, ioff[m])
    ELSE UpTo(upload[m], c, icol[m] - 1)

\* The columns that import m has opened.
Opened(m) ==
    {Cols(m)[i] : i \in {j \in DOMAIN Cols(m) :
                            j < icol[m] \/ (j = icol[m] /\ ipc[m] = "write")}} \ Unwritable

\* The columns of an import come one after another.
ColumnsInTurn ==
    \A m \in Imports :
        /\ ipc[m] \in {"idle", "header"} => icol[m] = 1
        /\ ipc[m] = "open" => icol[m] \in 1..(Len(Cols(m)) + 1)
        /\ ipc[m] = "write" => Cols(m)[icol[m]] \notin Unwritable
        /\ ipc[m] \in {"count", "return", "done"} => icol[m] = Len(Cols(m)) + 1

StoredSoFar(m) ==
    /\ ipc[m] \in {"open", "write", "count", "return", "done"} =>
          Opened(m) \union {ColumnsTxt} \subseteq exists
    /\ ipc[m] \in {"open", "write"} =>
          \A c \in Opened(m) \union {ColumnsTxt} : text[c] = SoFar(m, c)
    /\ ipc[m] \in {"count", "return"} =>
          /\ \A c \in (Opened(m) \union {ColumnsTxt}) \ {CountTxt} : text[c] = SoFar(m, c)
          /\ text[CountTxt] = IF ipc[m] = "count" THEN <<>> ELSE upload[m].count
    /\ ipc[m] = "done" =>
          \A c \in Opened(m) \union {ColumnsTxt, CountTxt} : text[c] = FinalText(upload[m], c)
    /\ ipc[m] \in {"count", "return", "done"} => CountTxt \in exists

SoleInv ==
    \A m \in sole :
        /\ sole = {m} /\ Writing \subseteq {m}
        /\ StoredSoFar(m)

StoredInv == ColumnsInTurn /\ SoleInv

-----------------------------------------------------------------------------
(* Gaps.                                                                    *)

NoGap(t) == \A i \in DOMAIN t : t[i] # Hole

\* No upload brings zero bytes of its own.
HolelessUploads ==
    \A u \in Uploads : /\ NoGap(u.header) /\ NoGap(u.count)
                       /\ \A i \in DOMAIN u.cols : NoGap(u.data[i])

NoGapsYet ==
    /\ \A m, n \in Writing : m = n
    /\ \A c \in FileNames : NoGap(text[c])
    /\ \A m \in Imports : ipc[m] = "write" => ioff[m] <= Len(text[Cols(m)[icol[m]]])

GapInv == ~overlap => NoGapsYet

-----------------------------------------------------------------------------
(* Writing at an offset.                                                    *)

LEMMA WriteAtEffect ==
  ASSUME NEW old \in Text, NEW off \in Nat, NEW piece \in Text,
         NEW new, new = WriteAt(old, off, piece)
  PROVE  /\ new \in Text /\ Len(new) \in Nat /\ DOMAIN new = 1..Len(new)
         /\ Len(old) <= Len(new) /\ off + Len(piece) <= Len(new)
         /\ Len(old) <= off + Len(piece) => Len(new) = off + Len(piece)
         /\ off <= Len(old) /\ Len(old) >= off + Len(piece) => Len(new) = Len(old)
         /\ \A i \in (off + 1)..(off + Len(piece)) : new[i] = piece[i - off]
         /\ \A i \in 1..Len(old) : i \notin (off + 1)..(off + Len(piece)) => new[i] = old[i]
<1> DEFINE n == IF Len(old) > off + Len(piece) THEN Len(old) ELSE off + Len(piece)
<1>1. Len(old) \in Nat /\ Len(piece) \in Nat
  BY LenProperties DEF Text
<1>2. n \in Nat /\ n >= Len(old) /\ n >= off + Len(piece)
      /\ (Len(old) <= off + Len(piece) => n = off + Len(piece))
      /\ (Len(old) >= off + Len(piece) => n = Len(old))
  BY <1>1
<1>3. new \in Text
  BY WriteAtType
<1>4. DOMAIN new = 1..n
  BY DEF WriteAt
<1>5. \A i \in 1..n : new[i] =
                IF i \in (off + 1)..(off + Len(piece)) THEN piece[i - off]
                ELSE IF i <= Len(old) THEN old[i] ELSE Hole
  BY DEF WriteAt
<1> HIDE DEF n
<1>6. Len(new) = n
  BY <1>2, <1>3, <1>4, LenProperties DEF Text
<1>7. \A i \in (off + 1)..(off + Len(piece)) : new[i] = piece[i - off]
  BY <1>1, <1>2, <1>5
<1>8. \A i \in 1..Len(old) : i \notin (off + 1)..(off + Len(piece)) => new[i] = old[i]
  BY <1>1, <1>2, <1>5
<1> QED
  BY <1>2, <1>3, <1>4, <1>6, <1>7, <1>8

\* A place that a write within a file of length old does not reach has been there before.
LEMMA PlaceBefore ==
  ASSUME NEW old \in Nat, NEW off \in Nat, NEW n \in Nat, NEW new \in Nat, off <= old,
         old <= off + n => new = off + n, old >= off + n => new = old,
         NEW i \in 1..new, i \notin (off + 1)..(off + n)
  PROVE  i \in 1..old
<1>1. i \in Nat /\ 1 <= i /\ i <= new /\ (i <= off \/ i > off + n)
  OBVIOUS
<1> QED
  BY <1>1

\* A write that begins within the file leaves no gap.
LEMMA WriteWithoutGap ==
  ASSUME NEW old \in Text, NEW off \in Nat, NEW piece \in Text,
         off <= Len(old), NoGap(old), NoGap(piece)
  PROVE  /\ NoGap(WriteAt(old, off, piece))
         /\ off + Len(piece) <= Len(WriteAt(old, off, piece))
<1> DEFINE new == WriteAt(old, off, piece)
<1>1. /\ DOMAIN old = 1..Len(old) /\ DOMAIN piece = 1..Len(piece)
      /\ Len(old) \in Nat /\ Len(piece) \in Nat
  BY LenProperties DEF Text
<1>2. /\ Len(new) \in Nat /\ DOMAIN new = 1..Len(new)
      /\ off + Len(piece) <= Len(new)
      /\ Len(old) <= off + Len(piece) => Len(new) = off + Len(piece)
      /\ Len(old) >= off + Len(piece) => Len(new) = Len(old)
  BY WriteAtEffect
<1>3. /\ \A i \in (off + 1)..(off + Len(piece)) : new[i] = piece[i - off]
      /\ \A i \in 1..Len(old) : i \notin (off + 1)..(off + Len(piece)) => new[i] = old[i]
  BY WriteAtEffect
<1> HIDE DEF new
<1>4. ASSUME NEW i \in 1..Len(new)
      PROVE  new[i] # Hole
  <2>1. CASE i \in (off + 1)..(off + Len(piece))
    <3>1. i - off \in 1..Len(piece)
      BY <1>1, <2>1
    <3> QED
      BY <1>1, <1>3, <2>1, <3>1 DEF NoGap
  <2>2. CASE i \notin (off + 1)..(off + Len(piece))
    <3>1. i \in 1..Len(old)
      BY <1>1, <1>2, <2>2, PlaceBefore
    <3>2. new[i] = old[i]
      BY <1>3, <2>2, <3>1
    <3> QED
      BY <1>1, <3>1, <3>2 DEF NoGap
  <2> QED
    BY <2>1, <2>2
<1> QED
  BY <1>2, <1>4 DEF NoGap, new

LEMMA SameSeq ==
  ASSUME NEW S, NEW s \in Seq(S), NEW t \in Seq(S), Len(s) = Len(t),
         \A i \in 1..Len(s) : s[i] = t[i]
  PROVE  s = t
  OBVIOUS

LEMMA PrefixFacts ==
  ASSUME NEW t \in Text, NEW n \in 0..Len(t)
  PROVE  /\ SubSeq(t, 1, n) \in Text /\ Len(SubSeq(t, 1, n)) = n
         /\ \A i \in 1..n : SubSeq(t, 1, n)[i] = t[i]
  BY SubSeqProperties, LenProperties DEF Text

\* A write goes on where the last one has ended.
LEMMA WriteGoesOn ==
  ASSUME NEW t \in Text, NEW off \in 0..Len(t), NEW n \in 1..(Len(t) - off)
  PROVE  WriteAt(SubSeq(t, 1, off), off, SubSeq(SubSeq(t, off + 1, Len(t)), 1, n))
           = SubSeq(t, 1, off + n)
<1> DEFINE rest == SubSeq(t, off + 1, Len(t))
           old == SubSeq(t, 1, off)
           piece == SubSeq(rest, 1, n)
           new == WriteAt(old, off, piece)
<1>0. Len(t) \in Nat
  BY LenProperties DEF Text
<1>1. rest \in Text /\ Len(rest) = Len(t) - off /\ \A i \in 1..(Len(t) - off) : rest[i] = t[off + i]
  BY <1>0, RestType, SubSeqProperties DEF Text
<1>2. old \in Text /\ Len(old) = off /\ \A i \in 1..off : old[i] = t[i]
  BY <1>0, PrefixFacts
<1>3. n \in 0..Len(rest)
  BY <1>0, <1>1
<1> HIDE DEF rest
<1>4. piece \in Text /\ Len(piece) = n /\ \A i \in 1..n : piece[i] = rest[i]
  BY <1>1, <1>3, PrefixFacts
<1> HIDE DEF old, piece
<1>5. off \in Nat /\ n \in Nat /\ off + n \in 0..Len(t)
  BY <1>0
<1>6. /\ new \in Text
      /\ off <= off + n => Len(new) = off + n
      /\ \A i \in (off + 1)..(off + n) : new[i] = piece[i - off]
      /\ \A i \in 1..off : i \notin (off + 1)..(off + n) => new[i] = old[i]
  <2>1. Len(old) = off /\ Len(piece) = n
    BY <1>2, <1>4
  <2>2. /\ new \in Text
        /\ (Len(old) <= off + Len(piece) => Len(new) = off + Len(piece))
        /\ \A i \in (off + 1)..(off + Len(piece)) : new[i] = piece[i - off]
        /\ \A i \in 1..Len(old) : i \notin (off + 1)..(off + Len(piece)) => new[i] = old[i]
    <3>1. old \in Text /\ piece \in Text /\ off \in Nat
      BY <1>2, <1>4, <1>5
    <3> QED
      BY ONLY <3>1, WriteAtEffect
  <2> HIDE DEF new
  <2>3. off + Len(piece) = off + n
    BY <2>1
  <2> QED
    BY ONLY <2>1, <2>2, <2>3
<1> HIDE DEF new
<1>7. \A i \in 1..(off + n) : new[i] = t[i]
  <2> SUFFICES ASSUME NEW i \in 1..(off + n) PROVE new[i] = t[i]
    OBVIOUS
  <2>2. CASE i <= off
    BY <1>2, <1>5, <1>6, <2>2
  <2>3. CASE i > off
    <3>1. i - off \in 1..n /\ i - off \in 1..(Len(t) - off) /\ off + (i - off) = i
      BY <1>0, <1>5, <2>3
    <3>2. piece[i - off] = t[i]
      BY <1>1, <1>4, <3>1
    <3> QED
      BY <1>5, <1>6, <2>3, <3>2
  <2> QED
    BY <1>5, <2>2, <2>3
<1>8. SubSeq(t, 1, off + n) \in Text /\ Len(SubSeq(t, 1, off + n)) = off + n
      /\ \A i \in 1..(off + n) : SubSeq(t, 1, off + n)[i] = t[i]
  BY <1>5, PrefixFacts
<1>9. new = SubSeq(t, 1, off + n)
  BY <1>5, <1>6, <1>7, <1>8, SameSeq DEF Text
<1> QED
  BY <1>9 DEF new, old, piece, rest

\* What is written into an empty file is what the file has then.
LEMMA WriteFirst ==
  ASSUME NEW piece \in Text
  PROVE  WriteAt(<<>>, 0, piece) = piece
<1>1. <<>> \in Text /\ Len(<<>>) = 0 /\ Len(piece) \in Nat
  BY EmptySeq, LenProperties DEF Text
<1> DEFINE new == WriteAt(<<>>, 0, piece)
<1>2. /\ new \in Text /\ (Len(<<>>) <= 0 + Len(piece) => Len(new) = 0 + Len(piece))
      /\ \A i \in (0 + 1)..(0 + Len(piece)) : new[i] = piece[i - 0]
  BY <1>1, WriteAtEffect
<1> HIDE DEF new
<1>3. Len(new) = Len(piece) /\ \A i \in 1..Len(piece) : new[i] = piece[i]
  BY <1>1, <1>2
<1>4. new = piece
  BY <1>1, <1>2, <1>3, SameSeq DEF Text
<1> QED
  BY <1>4 DEF new

\* A query writes nothing and starts no import.
LEMMA QueryLeavesFiles ==
  ASSUME NEW q \in Queries, StartQuery(q) \/ QueryStep(q)
  PROVE  UNCHANGED <<files, ivars, overlap, sole>>
<1>1. CASE StartQuery(q) \/ OpenFile(q) \/ ReadBuffer(q) \/ StopReading(q)
  BY <1>1 DEF StartQuery, OpenFile, ReadBuffer, StopReading, hvars
<1>2. CASE GetLine(q) \/ EndOfFile(q) \/ GetLineAfterEof(q)
  BY <1>2 DEF GetLine, EndOfFile, GetLineAfterEof, Advance, hvars
<1> QED
  BY <1>1, <1>2 DEF QueryStep

-----------------------------------------------------------------------------
(* A gap takes two imports.                                                 *)

LEMMA SubSeqNoGap ==
  ASSUME NEW t \in Text, NoGap(t), NEW off \in 0..Len(t), NEW n \in 1..(Len(t) - off)
  PROVE  /\ SubSeq(SubSeq(t, off + 1, Len(t)), 1, n) \in Text
         /\ NoGap(SubSeq(SubSeq(t, off + 1, Len(t)), 1, n))
         /\ Len(SubSeq(SubSeq(t, off + 1, Len(t)), 1, n)) = n
<1> DEFINE rest == SubSeq(t, off + 1, Len(t))
<1>0. Len(t) \in Nat
  BY LenProperties DEF Text
<1>1. rest \in Text /\ Len(rest) = Len(t) - off /\ \A i \in 1..(Len(t) - off) : rest[i] = t[off + i]
  BY <1>0, RestType, SubSeqProperties DEF Text
<1>2. n \in 0..Len(rest)
  BY <1>0, <1>1
<1>3. \A i \in 1..n : rest[i] # Hole
  <2>1. DOMAIN t = 1..Len(t)
    BY LenProperties DEF Text
  <2>2. \A i \in 1..Len(t) : t[i] # Hole
    BY <2>1 DEF NoGap
  <2> HIDE DEF rest
  <2> QED
    BY <1>0, <1>1, <2>2
<1> HIDE DEF rest
<1>4. /\ SubSeq(rest, 1, n) \in Text /\ Len(SubSeq(rest, 1, n)) = n
      /\ \A i \in 1..n : SubSeq(rest, 1, n)[i] = rest[i]
  BY <1>1, <1>2, PrefixFacts
<1>5. DOMAIN SubSeq(rest, 1, n) = 1..n
  BY <1>4, LenProperties DEF Text
<1> QED
  BY <1>3, <1>4, <1>5 DEF NoGap, rest

\* Import m, which is the only one, changes the file c to t.
LEMMA ChangeNoGap ==
  ASSUME NoGapsYet, FilesOK, NEW m \in Writing, Writing' \subseteq Writing,
         NEW c \in FileNames, NEW t, NoGap(t), text' = [text EXCEPT ![c] = t],
         UNCHANGED upload,
         ipc'[m] = "write" => /\ upload[m].cols[icol'[m]] = c
                              /\ ioff'[m] <= Len(t)
  PROVE  NoGapsYet'
<1>1. \A d \in FileNames : NoGap(text'[d])
  BY DEF NoGapsYet, FilesOK
<1>2. \A o, n \in Writing' : o = n
  BY DEF NoGapsYet
<1>3. ASSUME NEW n \in Imports, ipc'[n] = "write"
      PROVE  ioff'[n] <= Len(text'[upload'[n].cols[icol'[n]]])
  <2>1. n \in Writing'
    BY <1>3 DEF Writing
  <2>2. n = m
    BY <2>1 DEF NoGapsYet
  <2>3. text'[c] = t
    BY DEF FilesOK
  <2> QED
    BY <1>3, <2>2, <2>3
<1> QED
  BY <1>1, <1>2, <1>3 DEF NoGapsYet, Cols

\* Import m, which is the only one, does something that changes no file.
LEMMA KeepNoGap ==
  ASSUME NoGapsYet, NEW m \in Writing, Writing' \subseteq Writing,
         UNCHANGED <<text, upload>>, ipc'[m] # "write"
  PROVE  NoGapsYet'
<1>1. \A o, n \in Writing' : o = n
  BY DEF NoGapsYet
<1>2. ASSUME NEW n \in Imports PROVE ipc'[n] # "write"
  <2>1. ipc'[n] = "write" => n \in Writing'
    BY DEF Writing
  <2> QED
    BY <2>1 DEF NoGapsYet
<1>3. \A d \in FileNames : NoGap(text'[d])
  BY DEF NoGapsYet
<1> QED
  BY <1>1, <1>2, <1>3 DEF NoGapsYet

LEMMA WritingShrinks ==
  ASSUME ImportsOK, NEW m \in Imports, ImportStep(m)
  PROVE  m \in Writing /\ Writing' \subseteq Writing
<1> USE DEF Writing, ImportsOK
<1>1. CASE OpenColumnsTxt(m) \/ OpenColumn(m) \/ SkipColumn(m)
  BY <1>1 DEF OpenColumnsTxt, OpenColumn, SkipColumn
<1>2. CASE WriteColumn(m) \/ CloseColumn(m)
  BY <1>2 DEF WriteColumn, CloseColumn
<1>3. CASE OpenCount(m) \/ FlushCount(m) \/ FlushHeader(m)
  BY <1>3 DEF OpenCount, FlushCount, FlushHeader
<1> QED
  BY <1>1, <1>2, <1>3 DEF ImportStep

LEMMA EmptyNoGap == <<>> \in Text /\ NoGap(<<>>) /\ Len(<<>>) = 0
  BY EmptySeq DEF Text, NoGap

\* One step of the only import there is.
LEMMA ImportNoGap ==
  ASSUME FilesOK, ImportsOK, HolelessUploads, NoGapsYet, NEW m \in Imports, ImportStep(m)
  PROVE  NoGapsYet'
<1>0. /\ m \in Writing /\ Writing' \subseteq Writing
      /\ ColumnsTxt \in FileNames /\ CountTxt \in FileNames
  BY WritingShrinks, NamesAssumption
<1>1. /\ NoGap(upload[m].header) /\ NoGap(upload[m].count)
      /\ \A i \in DOMAIN upload[m].cols : NoGap(upload[m].data[i])
      /\ \A c \in FileNames : text[c] \in Text /\ NoGap(text[c]) /\ 0 <= Len(text[c])
  <2>1. upload[m] \in Uploads
    BY DEF ImportsOK
  <2>2. \A c \in FileNames : text[c] \in Text /\ Len(text[c]) \in Nat
    BY LenProperties DEF FilesOK, Text
  <2> QED
    BY <2>1, <2>2 DEF HolelessUploads, NoGapsYet
<1>2. CASE OpenColumnsTxt(m)
  <2>1. /\ UNCHANGED upload /\ text' = [text EXCEPT ![ColumnsTxt] = <<>>]
        /\ ipc'[m] = "open"
    BY <1>2 DEF OpenColumnsTxt, Truncate, ImportsOK
  <2> QED
    BY <1>0, <2>1, EmptyNoGap, ChangeNoGap
<1>3. CASE OpenColumn(m)
  <2>1. /\ UNCHANGED <<upload, icol>>
        /\ text' = [text EXCEPT ![upload[m].cols[icol[m]]] = <<>>]
        /\ ioff'[m] = 0 /\ icol[m] \in DOMAIN upload[m].cols
    BY <1>3 DEF OpenColumn, Truncate, ImportsOK, Cols
  <2>2. upload[m].cols[icol[m]] \in FileNames
    BY <2>1, UploadType
  <2>3. upload[m].cols[icol'[m]] = upload[m].cols[icol[m]] /\ ioff'[m] <= Len(<<>>)
    BY <2>1, EmptyNoGap
  <2> QED
    BY <1>0, <2>1, <2>2, <2>3, EmptyNoGap, ChangeNoGap
<1>4. CASE SkipColumn(m)
  <2>1. UNCHANGED <<text, upload, ipc>> /\ ipc[m] = "open"
    BY <1>4 DEF SkipColumn, files
  <2> QED
    BY <1>0, <2>1, KeepNoGap
<1>5. CASE WriteColumn(m)
  <2> DEFINE c == upload[m].cols[icol[m]]
             d == upload[m].data[icol[m]]
             off == ioff[m]
  <2>1. /\ icol[m] \in DOMAIN upload[m].cols /\ off \in Nat /\ off <= Len(d)
        /\ ipc[m] = "write"
    BY <1>5 DEF WriteColumn, ImportsOK
  <2>2. c \in FileNames /\ d \in Text /\ Len(d) \in Nat /\ NoGap(d)
    BY <1>1, <2>1, UploadType, LenProperties DEF Text
  <2>3. /\ Remaining(m) = SubSeq(d, off + 1, Len(d))
        /\ Len(Remaining(m)) = Len(d) - off
    <3>1. off \in 0..Len(d)
      BY <2>1, <2>2
    <3> HIDE DEF d, off
    <3>2. Len(SubSeq(d, off + 1, Len(d))) = Len(d) - off
      BY <2>2, <3>1, RestType
    <3> QED
      BY <3>2 DEF Remaining, d, off
  <2>4. PICK n \in 1..Len(Remaining(m)) :
            /\ text' = [text EXCEPT ![c] = WriteAt(text[c], off, SubSeq(Remaining(m), 1, n))]
            /\ ioff' = [ioff EXCEPT ![m] = off + n]
    BY <1>5 DEF WriteColumn, Cols
  <2> DEFINE piece == SubSeq(SubSeq(d, off + 1, Len(d)), 1, n)
             t == WriteAt(text[c], off, piece)
  <2>5. UNCHANGED <<upload, icol, ipc>>
    BY <1>5 DEF WriteColumn
  <2>6. ioff'[m] = off + n
    BY <2>4 DEF ImportsOK
  <2>7. text' = [text EXCEPT ![c] = t]
    BY <2>3, <2>4
  <2>8. off <= Len(text[c])
    BY <2>1 DEF NoGapsYet, Cols
  <2>9. off \in 0..Len(d) /\ n \in 1..(Len(d) - off)
    BY <2>1, <2>2, <2>3
  <2>10. text[c] \in Text /\ NoGap(text[c])
    BY <1>1, <2>2
  <2> HIDE DEF d, off, c
  <2>11. piece \in Text /\ NoGap(piece) /\ Len(piece) = n
    BY <2>2, <2>9, SubSeqNoGap
  <2> HIDE DEF piece
  <2>12. NoGap(t) /\ off + n <= Len(t)
    BY <2>1, <2>8, <2>10, <2>11, WriteWithoutGap
  <2> HIDE DEF t
  <2>13. upload[m].cols[icol'[m]] = c
    BY <2>5 DEF c
  <2> QED
    BY <1>0, <2>2, <2>5, <2>6, <2>7, <2>12, <2>13, ChangeNoGap, ZenonT(40)
<1>6. CASE CloseColumn(m)
  <2>1. UNCHANGED <<text, upload>> /\ ipc'[m] = "open"
    BY <1>6 DEF CloseColumn, files, ImportsOK
  <2> QED
    BY <1>0, <2>1, KeepNoGap
<1>7. CASE OpenCount(m)
  <2>1. /\ UNCHANGED upload /\ text' = [text EXCEPT ![CountTxt] = <<>>]
        /\ ipc'[m] = "count"
    BY <1>7 DEF OpenCount, Truncate, ImportsOK
  <2> QED
    BY <1>0, <2>1, EmptyNoGap, ChangeNoGap
<1>8. CASE FlushCount(m)
  <2> DEFINE t == WriteAt(text[CountTxt], 0, upload[m].count)
  <2>1. /\ UNCHANGED upload /\ text' = [text EXCEPT ![CountTxt] = t]
        /\ ipc'[m] = "return"
    BY <1>8 DEF FlushCount, ImportsOK
  <2>2. NoGap(t)
    BY <1>0, <1>1, UploadType, WriteWithoutGap
  <2> HIDE DEF t
  <2> QED
    BY <1>0, <2>1, <2>2, ChangeNoGap
<1>9. CASE FlushHeader(m)
  <2> DEFINE t == WriteAt(text[ColumnsTxt], 0, upload[m].header)
  <2>1. /\ UNCHANGED upload /\ text' = [text EXCEPT ![ColumnsTxt] = t]
        /\ ipc'[m] = "done"
    BY <1>9 DEF FlushHeader, ImportsOK
  <2>2. NoGap(t)
    BY <1>0, <1>1, UploadType, WriteWithoutGap
  <2> HIDE DEF t
  <2> QED
    BY <1>0, <2>1, <2>2, ChangeNoGap
<1> QED
  BY <1>2, <1>3, <1>4, <1>5, <1>6, <1>7, <1>8, <1>9 DEF ImportStep

LEMMA InitGapInv == Init => GapInv
<1> SUFFICES ASSUME Init PROVE NoGapsYet
  BY DEF GapInv
<1>1. Writing = {} /\ \A m \in Imports : ipc[m] # "write"
  BY DEF Init, Writing
<1>2. \A c \in FileNames : text[c] = <<>>
  BY DEF Init
<1> QED
  BY <1>1, <1>2, EmptyNoGap DEF NoGapsYet

LEMMA NextGapInv ==
  ASSUME HolelessUploads
  PROVE  TypeOK /\ GapInv /\ [Next]_vars => GapInv'
<1> SUFFICES ASSUME TypeOK, GapInv, [Next]_vars, ~overlap' PROVE NoGapsYet'
  BY DEF GapInv
<1>0. FilesOK /\ ImportsOK
  BY DEF TypeOK
<1>1. ASSUME NEW m \in Imports, CreateDirectories(m) PROVE NoGapsYet'
  <2>1. Writing = {} /\ ~overlap /\ UNCHANGED <<text, upload>>
    BY <1>1 DEF CreateDirectories
  <2>2. \A n \in Imports : ipc'[n] # "write"
    BY <1>0, <1>1, <2>1 DEF CreateDirectories, ImportsOK, Writing
  <2>3. Writing' \subseteq {m}
    BY <1>0, <1>1, <2>1 DEF CreateDirectories, ImportsOK, Writing
  <2>4. \A d \in FileNames : NoGap(text'[d])
    BY <2>1 DEF GapInv, NoGapsYet
  <2> QED
    BY <2>2, <2>3, <2>4 DEF NoGapsYet
<1>2. ASSUME NEW m \in Imports, ImportStep(m) PROVE NoGapsYet'
  <2>1. UNCHANGED overlap
    BY <1>2 DEF ImportStep, OpenColumnsTxt, OpenColumn, SkipColumn, WriteColumn, CloseColumn,
                OpenCount, FlushCount, FlushHeader, hvars
  <2> QED
    BY <1>0, <1>2, <2>1, ImportNoGap DEF GapInv
<1>3. ASSUME NEW q \in Queries, StartQuery(q) \/ QueryStep(q) PROVE NoGapsYet'
  <2>1. UNCHANGED <<files, ivars, overlap>>
    BY <1>3, QueryLeavesFiles
  <2> QED
    BY <2>1 DEF GapInv, NoGapsYet, Writing, Cols, files, ivars
<1>4. CASE Crash
  <2>1. /\ UNCHANGED <<text, upload, icol, ioff, overlap>>
        /\ Writing' = {} /\ \A n \in Imports : ipc'[n] # "write"
    BY <1>0, <1>4 DEF Crash, files, hvars, Writing, ImportsOK
  <2> QED
    BY <2>1 DEF GapInv, NoGapsYet
<1>5. CASE UNCHANGED vars
  BY <1>5 DEF vars, files, ivars, hvars, GapInv, NoGapsYet, Writing, Cols
<1> QED
  BY <1>1, <1>2, <1>3, <1>4, <1>5 DEF Next

(* A zero byte that no upload brought is in a file only if two imports have *)
(* overlapped, for any number of imports, columns and kills.                *)
THEOREM GapsTakeTwo ==
  ASSUME HolelessUploads
  PROVE  Spec => []HolesNeedOverlap
<1>1. GapInv => HolesNeedOverlap
  BY DEF GapInv, NoGapsYet, NoGap, HolesNeedOverlap
<1>2. TypeOK /\ GapInv /\ [Next]_vars => GapInv'
  BY NextGapInv
<1> QED
  BY <1>1, <1>2, InitGapInv, TypeCorrect, PTL DEF Spec

-----------------------------------------------------------------------------
(* A lone import stores what it was given.                                  *)

LEMMA SetEqual == \A S, T : (\A x : x \in S <=> x \in T) => S = T
  OBVIOUS

LEMMA UpToSteps ==
  ASSUME NEW u, NEW n \in Nat, DOMAIN u.cols = 1..n, NEW c
  PROVE  /\ UpTo(u, c, 0) = <<>>
         /\ \A k \in 1..n : UpTo(u, c, k) = IF u.cols[k] = c THEN u.data[k] ELSE UpTo(u, c, k - 1)
         /\ UpTo(u, c, n) = ColumnText(u, c)
<1> DEFINE named(k) == {i \in DOMAIN u.cols : i <= k /\ u.cols[i] = c}
           last(S) == CHOOSE i \in S : \A j \in S : j <= i
<1>1. \A k : UpTo(u, c, k) = IF named(k) = {} THEN <<>> ELSE u.data[last(named(k))]
  BY DEF UpTo
<1>2. named(0) = {}
  OBVIOUS
<1>3. ASSUME NEW k \in 1..n
      PROVE  UpTo(u, c, k) = IF u.cols[k] = c THEN u.data[k] ELSE UpTo(u, c, k - 1)
  <2>1. CASE u.cols[k] = c
    <3>1. k \in named(k) /\ (\A j \in named(k) : j <= k) /\ named(k) \subseteq Nat
      BY <2>1
    <3>2. \A i \in named(k) : (\A j \in named(k) : j <= i) => i = k
      BY <3>1
    <3> HIDE DEF named
    <3>3. last(named(k)) = k
      BY <3>1, <3>2
    <3> QED
      BY <1>1, <2>1, <3>1, <3>3
  <2>2. CASE u.cols[k] # c
    <3>1. named(k) = named(k - 1)
      BY <2>2
    <3> HIDE DEF named
    <3> QED
      BY <1>1, <2>2, <3>1
  <2> QED
    BY <2>1, <2>2
<1>4. UpTo(u, c, n) = ColumnText(u, c)
  <2>1. named(n) = {i \in DOMAIN u.cols : u.cols[i] = c}
    OBVIOUS
  <2> HIDE DEF named
  <2> QED
    BY <1>1, <2>1 DEF ColumnText
<1> QED
  BY <1>1, <1>2, <1>3, <1>4

LEMMA InitColumnsInTurn == Init => ColumnsInTurn
  BY DEF Init, ColumnsInTurn

\* The columns of the other imports.
LEMMA ImportColumnsInTurn ==
  ASSUME ImportsOK, ColumnsInTurn, NEW m \in Imports, CreateDirectories(m) \/ ImportStep(m)
  PROVE  ColumnsInTurn'
<1>0. /\ Len(upload[m].cols) \in Nat /\ DOMAIN upload[m].cols = 1..Len(upload[m].cols)
      /\ icol[m] \in Nat \ {0}
  BY UploadType DEF ImportsOK
<1> USE DEF Cols, ImportsOK, ImportPhases
<1>1. CASE CreateDirectories(m) \/ OpenColumnsTxt(m)
  BY <1>0, <1>1 DEF CreateDirectories, OpenColumnsTxt, ColumnsInTurn
<1>2. CASE OpenColumn(m)
  BY <1>0, <1>2 DEF OpenColumn, ColumnsInTurn
<1>3. CASE SkipColumn(m)
  BY <1>0, <1>3 DEF SkipColumn, ColumnsInTurn
<1>4. CASE WriteColumn(m)
  BY <1>0, <1>4 DEF WriteColumn, ColumnsInTurn
<1>5. CASE CloseColumn(m)
  BY <1>0, <1>5 DEF CloseColumn, ColumnsInTurn
<1>6. CASE OpenCount(m) \/ FlushCount(m) \/ FlushHeader(m)
  BY <1>0, <1>6 DEF OpenCount, FlushCount, FlushHeader, ColumnsInTurn
<1> QED
  BY <1>1, <1>2, <1>3, <1>4, <1>5, <1>6 DEF ImportStep

LEMMA ImportStored ==
  ASSUME FilesOK, ImportsOK, ColumnsInTurn, NEW m \in Imports, StoredSoFar(m), ImportStep(m)
  PROVE  StoredSoFar(m)'
<1> DEFINE u == upload[m]
           n == Len(u.cols)
           k == icol[m]
           files_of == Opened(m) \union {ColumnsTxt}
<1>0. /\ n \in Nat /\ DOMAIN u.cols = 1..n /\ k \in Nat \ {0}
      /\ \A i \in 1..n : u.cols[i] \in FileNames /\ u.data[i] \in Text
      /\ u.header \in Text /\ u.count \in Text
      /\ \A c \in FileNames : text[c] \in Text
  BY UploadType DEF ImportsOK, FilesOK
<1>1. /\ ColumnsTxt \in FileNames \ Unwritable /\ CountTxt \in FileNames \ Unwritable
      /\ ColumnsTxt # CountTxt
  BY NamesAssumption
<1>2. files_of \subseteq FileNames \ Unwritable
  BY <1>0, <1>1 DEF Opened, Cols
<1>3. \A c : /\ UpTo(u, c, 0) = <<>>
             /\ \A i \in 1..n : UpTo(u, c, i) =
                    IF u.cols[i] = c THEN u.data[i] ELSE UpTo(u, c, i - 1)
             /\ UpTo(u, c, n) = ColumnText(u, c)
  BY <1>0, UpToSteps
<1>4. /\ ipc[m] = "open" => k \in 1..(n + 1)
      /\ ipc[m] = "write" => k \in 1..n /\ u.cols[k] \notin Unwritable
      /\ ipc[m] \in {"count", "return", "done"} => k = n + 1
      /\ ipc[m] = "header" => k = 1
  BY <1>0 DEF ColumnsInTurn, ImportsOK, Cols
<1>5. \A c : c \in Opened(m) <=>
                /\ c \notin Unwritable
                /\ \E j \in 1..n : /\ u.cols[j] = c
                                   /\ j < k \/ (j = k /\ ipc[m] = "write")
  BY <1>0 DEF Opened, Cols
<1>6. CASE OpenColumnsTxt(m)
  <2>1. /\ UNCHANGED <<upload, icol>> /\ ipc[m] = "header" /\ ipc'[m] = "open"
        /\ exists' = exists \union {ColumnsTxt}
        /\ text' = [text EXCEPT ![ColumnsTxt] = <<>>]
    BY <1>6 DEF OpenColumnsTxt, Truncate, ImportsOK
  <2>2. Opened(m)' = {}
    BY <1>0, <1>4, <2>1 DEF Opened, Cols
  <2>3. SoFar(m, ColumnsTxt)' = <<>>
    BY <1>3, <1>4, <2>1 DEF SoFar, Cols
  <2>4. text'[ColumnsTxt] = <<>>
    BY <1>1, <2>1 DEF FilesOK
  <2> QED
    BY <2>1, <2>2, <2>3, <2>4 DEF StoredSoFar
<1>7. CASE OpenColumn(m)
  <2> DEFINE c == u.cols[k]
  <2>1. /\ UNCHANGED <<upload, icol>> /\ ipc[m] = "open" /\ ipc'[m] = "write" /\ ioff'[m] = 0
        /\ k \in 1..n /\ c \notin Unwritable
        /\ exists' = exists \union {c}
        /\ text' = [text EXCEPT ![c] = <<>>]
    BY <1>0, <1>7 DEF OpenColumn, Truncate, ImportsOK, Cols
  <2>2. Opened(m)' = Opened(m) \union {c}
    BY <1>0, <1>5, <2>1 DEF Opened, Cols
  <2>3. \A d \in files_of : SoFar(m, d)' = IF d = c THEN <<>> ELSE SoFar(m, d)
    <3>1. SubSeq(u.data[k], 1, 0) = <<>>
      BY <1>0, <2>1, SubSeqProperties DEF Text
    <3> QED
      BY <2>1, <3>1 DEF SoFar, Cols
  <2>4. SoFar(m, c)' = <<>>
    <3>1. SubSeq(u.data[k], 1, 0) = <<>>
      BY <1>0, <2>1, SubSeqProperties DEF Text
    <3> QED
      BY <2>1, <3>1 DEF SoFar, Cols
  <2>5. \A d \in FileNames : text'[d] = IF d = c THEN <<>> ELSE text[d]
    BY <1>0, <2>1 DEF FilesOK
  <2>6. files_of \subseteq exists /\ \A d \in files_of : text[d] = SoFar(m, d)
    BY <2>1 DEF StoredSoFar
  <2>7. Opened(m)' \union {ColumnsTxt} = files_of \union {c}
    BY <2>2
  <2>8. \A d \in files_of \union {c} : text'[d] = SoFar(m, d)'
    BY <1>0, <1>2, <2>1, <2>3, <2>4, <2>5, <2>6
  <2> QED
    BY <2>1, <2>6, <2>7, <2>8 DEF StoredSoFar
<1>8. CASE SkipColumn(m)
  <2>1. /\ UNCHANGED <<exists, text, upload, ipc>> /\ ipc[m] = "open"
        /\ icol'[m] = k + 1 /\ k \in 1..n /\ u.cols[k] \in Unwritable
    BY <1>0, <1>8 DEF SkipColumn, files, ImportsOK, Cols
  <2>2. Opened(m)' = Opened(m)
    <3>1. \A c : c \in Opened(m)' <=>
                    c \notin Unwritable /\ \E j \in 1..n : u.cols[j] = c /\ j < k + 1
      BY <1>0, <2>1 DEF Opened, Cols
    <3>2. \A j \in 1..n : j < k + 1 <=> (j < k \/ j = k)
      BY <1>0
    <3>3. \A c : c \in Opened(m)' <=> c \in Opened(m)
      <4>1. \A c : c \notin Unwritable =>
                ((\E j \in 1..n : u.cols[j] = c /\ j < k + 1)
                    <=> (\E j \in 1..n : u.cols[j] = c /\ j < k))
        BY <2>1, <3>2
      <4> QED
        BY <1>5, <2>1, <3>1, <4>1
    <3> QED
      BY <3>3, SetEqual
  <2>3. \A d \in files_of : SoFar(m, d)' = SoFar(m, d)
    <3>1. \A d \in files_of : UpTo(u, d, k) = UpTo(u, d, k - 1)
      BY <1>2, <1>3, <2>1
    <3>2. k + 1 - 1 = k
      BY <1>0
    <3> QED
      BY <2>1, <3>1, <3>2 DEF SoFar, Cols
  <2> QED
    BY <2>1, <2>2, <2>3 DEF StoredSoFar
<1>9. CASE WriteColumn(m)
  <2> DEFINE c == u.cols[k]
             d == u.data[k]
             off == ioff[m]
  <2>1. /\ UNCHANGED <<exists, upload, icol, ipc>> /\ ipc[m] = "write"
        /\ k \in 1..n /\ c \in FileNames \ Unwritable
        /\ d \in Text /\ off \in Nat /\ off <= Len(d) /\ Len(d) \in Nat
    BY <1>0, <1>4, <1>9, LenProperties DEF WriteColumn, ImportsOK, Text
  <2>2. Len(Remaining(m)) = Len(d) - off
    <3>1. off \in 0..Len(d)
      BY <2>1
    <3> HIDE DEF d, off
    <3>2. Len(SubSeq(d, off + 1, Len(d))) = Len(d) - off
      BY <2>1, <3>1, RestType
    <3> QED
      BY <3>2 DEF Remaining, d, off
  <2>3. PICK p \in 1..Len(Remaining(m)) :
            /\ text' = [text EXCEPT ![c] = WriteAt(text[c], off, SubSeq(Remaining(m), 1, p))]
            /\ ioff' = [ioff EXCEPT ![m] = off + p]
    BY <1>9 DEF WriteColumn, Cols
  <2>4. ioff'[m] = off + p
    BY <2>3 DEF ImportsOK
  <2>5. Opened(m)' = Opened(m) /\ c \in Opened(m)
    BY <1>0, <1>5, <2>1, SMTT(30) DEF Opened, Cols
  <2>6. files_of \subseteq exists /\ \A e \in files_of : text[e] = SoFar(m, e)
    BY <2>1 DEF StoredSoFar
  <2>7. text[c] = SubSeq(d, 1, off)
    BY <2>1, <2>5, <2>6 DEF SoFar, Cols
  <2>8. WriteAt(text[c], off, SubSeq(Remaining(m), 1, p)) = SubSeq(d, 1, off + p)
    <3>1. off \in 0..Len(d) /\ p \in 1..(Len(d) - off)
      BY <2>1, <2>2
    <3>2. Remaining(m) = SubSeq(d, off + 1, Len(d))
      BY DEF Remaining
    <3> HIDE DEF d, off, c
    <3> QED
      BY <2>1, <2>7, <3>1, <3>2, WriteGoesOn
  <2>9. \A e \in FileNames : text'[e] = IF e = c THEN SubSeq(d, 1, off + p) ELSE text[e]
    BY <2>1, <2>3, <2>8 DEF FilesOK
  <2>10. \A e \in files_of : SoFar(m, e)' = IF e = c THEN SubSeq(d, 1, off + p) ELSE SoFar(m, e)
    BY <2>1, <2>4 DEF SoFar, Cols
  <2>11. \A e \in files_of : text'[e] = SoFar(m, e)'
    BY <1>2, <2>6, <2>9, <2>10
  <2> QED
    BY <2>1, <2>5, <2>6, <2>11 DEF StoredSoFar
<1>10. CASE CloseColumn(m)
  <2> DEFINE c == u.cols[k]
             d == u.data[k]
  <2>1. /\ UNCHANGED <<exists, text, upload, ioff>> /\ ipc[m] = "write" /\ ipc'[m] = "open"
        /\ icol'[m] = k + 1 /\ k \in 1..n /\ c \notin Unwritable
        /\ Remaining(m) = <<>>
    BY <1>4, <1>10 DEF CloseColumn, files, ImportsOK
  <2>2. Opened(m)' = Opened(m)
    BY <1>0, <1>5, <2>1, SMTT(30) DEF Opened, Cols
  <2>3. SubSeq(d, 1, ioff[m]) = d
    <3>1. d \in Text /\ Len(d) \in Nat /\ ioff[m] \in 0..Len(d)
      BY <1>0, <2>1, LenProperties DEF ImportsOK, Text
    <3>2. Len(Remaining(m)) = Len(d) - ioff[m]
      <4> HIDE DEF d
      <4>1. Len(SubSeq(d, ioff[m] + 1, Len(d))) = Len(d) - ioff[m]
        BY <3>1, RestType
      <4> QED
        BY <4>1 DEF Remaining, d
    <3>3. ioff[m] = Len(d)
      BY <2>1, <3>1, <3>2, EmptySeq
    <3> HIDE DEF d
    <3>4. SubSeq(d, 1, Len(d)) = d
      <4>1. /\ SubSeq(d, 1, Len(d)) \in Text /\ Len(SubSeq(d, 1, Len(d))) = Len(d)
            /\ \A i \in 1..Len(d) : SubSeq(d, 1, Len(d))[i] = d[i]
        BY <3>1, PrefixFacts
      <4> QED
        BY <3>1, <4>1, SameSeq DEF Text
    <3> QED
      BY <3>3, <3>4
  <2>4. \A e \in files_of : SoFar(m, e)' = SoFar(m, e)
    <3>1. k + 1 - 1 = k
      BY <1>0
    <3>2. \A e \in files_of : SoFar(m, e)' = IF e = c THEN d ELSE UpTo(u, e, k - 1)
      BY <1>3, <2>1, <3>1 DEF SoFar, Cols
    <3> QED
      BY <2>1, <2>3, <3>2 DEF SoFar, Cols
  <2> QED
    BY <2>1, <2>2, <2>4 DEF StoredSoFar
<1>11. CASE OpenCount(m)
  <2>1. /\ UNCHANGED <<upload, icol>> /\ ipc[m] = "open" /\ ipc'[m] = "count"
        /\ exists' = exists \union {CountTxt}
        /\ text' = [text EXCEPT ![CountTxt] = <<>>]
    BY <1>11 DEF OpenCount, Truncate, ImportsOK
  <2>2. Opened(m)' = Opened(m)
    BY <2>1 DEF Opened, Cols
  <2>3. \A d \in files_of : SoFar(m, d)' = SoFar(m, d)
    BY <2>1 DEF SoFar, Cols
  <2>4. \A d \in FileNames : text'[d] = IF d = CountTxt THEN <<>> ELSE text[d]
    BY <1>1, <2>1 DEF FilesOK
  <2>5. files_of \subseteq exists /\ \A d \in files_of : text[d] = SoFar(m, d)
    BY <2>1 DEF StoredSoFar
  <2>6. \A d \in files_of \ {CountTxt} : text'[d] = SoFar(m, d)'
    BY <1>2, <2>3, <2>4, <2>5
  <2>7. text'[CountTxt] = <<>>
    BY <1>1, <2>4
  <2> QED
    BY <2>1, <2>2, <2>5, <2>6, <2>7 DEF StoredSoFar
<1>12. CASE FlushCount(m)
  <2>1. /\ UNCHANGED <<exists, upload, icol>> /\ ipc[m] = "count" /\ ipc'[m] = "return"
        /\ text' = [text EXCEPT ![CountTxt] = WriteAt(text[CountTxt], 0, u.count)]
    BY <1>12 DEF FlushCount, ImportsOK
  <2>2. Opened(m)' = Opened(m)
    BY <2>1 DEF Opened, Cols
  <2>3. \A d \in files_of : SoFar(m, d)' = SoFar(m, d)
    BY <2>1 DEF SoFar, Cols
  <2>4. /\ files_of \subseteq exists /\ CountTxt \in exists /\ text[CountTxt] = <<>>
        /\ \A d \in files_of \ {CountTxt} : text[d] = SoFar(m, d)
    BY <2>1 DEF StoredSoFar
  <2>5. WriteAt(text[CountTxt], 0, u.count) = u.count
    BY <1>0, <2>4, WriteFirst
  <2>6. \A d \in FileNames : text'[d] = IF d = CountTxt THEN u.count ELSE text[d]
    BY <1>1, <2>1, <2>5 DEF FilesOK
  <2>7. \A d \in files_of \ {CountTxt} : text'[d] = SoFar(m, d)'
    BY <1>2, <2>3, <2>4, <2>6
  <2>8. text'[CountTxt] = u.count
    BY <1>1, <2>6
  <2> QED
    BY <2>1, <2>2, <2>4, <2>7, <2>8 DEF StoredSoFar
<1>13. CASE FlushHeader(m)
  <2>1. /\ UNCHANGED <<exists, upload, icol>> /\ ipc[m] = "return" /\ ipc'[m] = "done"
        /\ text' = [text EXCEPT ![ColumnsTxt] = WriteAt(text[ColumnsTxt], 0, u.header)]
    BY <1>13 DEF FlushHeader, ImportsOK
  <2>2. Opened(m)' = Opened(m)
    BY <2>1 DEF Opened, Cols
  <2>3. \A d \in files_of : SoFar(m, d) = ColumnText(u, d)
    <3>1. k - 1 = n
      BY <1>0, <1>4, <2>1
    <3> QED
      BY <1>3, <2>1, <3>1 DEF SoFar
  <2>4. /\ files_of \subseteq exists /\ CountTxt \in exists /\ text[CountTxt] = u.count
        /\ \A d \in files_of \ {CountTxt} : text[d] = SoFar(m, d)
    BY <2>1 DEF StoredSoFar
  <2>5. \A d \in FileNames :
            text'[d] = IF d = ColumnsTxt THEN WriteAt(text[ColumnsTxt], 0, u.header) ELSE text[d]
    BY <1>1, <2>1 DEF FilesOK
  <2>6. \A d \in files_of \ {CountTxt} : text[d] = ColumnText(u, d)
    BY <2>3, <2>4
  <2>7. ASSUME NEW d \in files_of \union {CountTxt}
        PROVE  text'[d] = FinalText(u, d)
    <3>1. CASE d = CountTxt
      BY <1>1, <2>4, <2>5, <3>1 DEF FinalText
    <3>2. CASE d = ColumnsTxt
      BY <1>1, <2>5, <2>6, <3>2 DEF FinalText
    <3>3. CASE d # CountTxt /\ d # ColumnsTxt
      BY <1>2, <2>5, <2>6, <3>3 DEF FinalText
    <3> QED
      BY <3>1, <3>2, <3>3
  <2> QED
    BY <2>1, <2>2, <2>4, <2>7 DEF StoredSoFar
<1> QED
  BY <1>6, <1>7, <1>8, <1>9, <1>10, <1>11, <1>12, <1>13 DEF ImportStep

\* A step that leaves the imports and their files alone.
LEMMA UntouchedStored ==
  ASSUME ColumnsInTurn, SoleInv, UNCHANGED <<files, ivars, sole>>
  PROVE  StoredInv'
<1>1. ColumnsInTurn'
  BY DEF ColumnsInTurn, Cols, ivars
<1>2. ASSUME NEW m \in sole PROVE StoredSoFar(m)'
  BY DEF SoleInv, StoredSoFar, Opened, SoFar, Cols, files, ivars
<1>3. Writing' = Writing
  BY DEF Writing, ivars
<1> QED
  BY <1>1, <1>2, <1>3 DEF StoredInv, SoleInv

LEMMA InitStoredInv == Init => StoredInv
  BY InitColumnsInTurn DEF Init, StoredInv, SoleInv

LEMMA NextStoredInv == TypeOK /\ StoredInv /\ [Next]_vars => StoredInv'
<1> SUFFICES ASSUME TypeOK, StoredInv, [Next]_vars PROVE StoredInv'
  OBVIOUS
<1>0. FilesOK /\ ImportsOK /\ HistoryOK /\ ColumnsInTurn /\ SoleInv
  BY DEF TypeOK, StoredInv
<1>1. ASSUME NEW m \in Imports, CreateDirectories(m) PROVE StoredInv'
  <2>1. ColumnsInTurn'
    BY <1>0, <1>1, ImportColumnsInTurn
  <2>2. ipc'[m] = "header" /\ sole' = (IF Writing = {} THEN {m} ELSE {})
    BY <1>0, <1>1 DEF CreateDirectories, ImportsOK
  <2>3. Writing = {} => Writing' \subseteq {m}
    BY <1>0, <1>1 DEF CreateDirectories, ImportsOK, Writing
  <2>4. StoredSoFar(m)'
    BY <2>2 DEF StoredSoFar
  <2> QED
    BY <2>1, <2>2, <2>3, <2>4 DEF StoredInv, SoleInv
<1>2. ASSUME NEW m \in Imports, ImportStep(m) PROVE StoredInv'
  <2>1. ColumnsInTurn'
    BY <1>0, <1>2, ImportColumnsInTurn
  <2>2. UNCHANGED sole
    BY <1>2 DEF ImportStep, OpenColumnsTxt, OpenColumn, SkipColumn, WriteColumn, CloseColumn,
                OpenCount, FlushCount, FlushHeader, hvars
  <2>3. m \in Writing /\ Writing' \subseteq Writing
    BY <1>0, <1>2, WritingShrinks
  <2>4. ASSUME NEW o \in sole PROVE sole = {o} /\ Writing' \subseteq {o} /\ StoredSoFar(o)'
    <3>1. sole = {o} /\ Writing \subseteq {o} /\ StoredSoFar(o)
      BY <1>0 DEF SoleInv
    <3>2. o = m
      BY <2>3, <3>1
    <3> QED
      BY <1>0, <1>2, <2>3, <3>1, <3>2, ImportStored
  <2> QED
    BY <2>1, <2>2, <2>4 DEF StoredInv, SoleInv
<1>3. ASSUME NEW q \in Queries, StartQuery(q) \/ QueryStep(q) PROVE StoredInv'
  <2>1. UNCHANGED <<files, ivars, sole>>
    BY <1>3, QueryLeavesFiles
  <2> QED
    BY <1>0, <2>1, UntouchedStored
<1>4. CASE Crash
  <2>1. /\ UNCHANGED <<exists, text, upload, icol, ioff, sole>>
        /\ ipc' = [m \in Imports |-> IF m \in Writing THEN "crashed" ELSE ipc[m]]
    BY <1>4 DEF Crash, files, hvars
  <2>2. Writing' = {}
    BY <1>0, <2>1 DEF Writing, ImportsOK
  <2>3. ColumnsInTurn'
    BY <1>0, <2>1 DEF ColumnsInTurn, Cols, Writing
  <2>4. ASSUME NEW o \in sole PROVE sole = {o} /\ StoredSoFar(o)'
    <3>1. o \in Imports /\ sole = {o} /\ StoredSoFar(o)
      BY <1>0 DEF SoleInv, HistoryOK
    <3>2. ipc'[o] = ipc[o] \/ ipc'[o] = "crashed"
      BY <2>1, <3>1
    <3>3. CASE ipc'[o] = "crashed"
      BY <3>1, <3>3 DEF StoredSoFar
    <3>4. CASE ipc'[o] = ipc[o]
      BY <2>1, <3>1, <3>4 DEF StoredSoFar, Opened, SoFar, Cols
    <3> QED
      BY <3>1, <3>2, <3>3, <3>4
  <2> QED
    BY <2>1, <2>2, <2>3, <2>4 DEF StoredInv, SoleInv
<1>5. CASE UNCHANGED vars
  <2>1. UNCHANGED <<files, ivars, sole>>
    BY <1>5 DEF vars, hvars
  <2> QED
    BY <1>0, <2>1, UntouchedStored
<1> QED
  BY <1>1, <1>2, <1>3, <1>4, <1>5 DEF Next

(* Whatever the files held before and whatever queries do meanwhile, an      *)
(* import that no other one overlaps leaves every file it could open as its  *)
(* body says.                                                                *)
THEOREM LoneImportsStore == Spec => []LoneImportStored
<1>1. TypeOK /\ StoredInv => LoneImportStored
  <2> SUFFICES ASSUME TypeOK, StoredInv, NEW m \in sole, ipc[m] = "done",
                      NEW c \in ({Cols(m)[i] : i \in DOMAIN Cols(m)} \ Unwritable)
                                   \union {ColumnsTxt, CountTxt}
               PROVE  c \in exists /\ text[c] = FinalText(upload[m], c)
    BY DEF LoneImportStored
  <2>1. /\ m \in Imports /\ ImportsOK /\ StoredSoFar(m) /\ icol[m] = Len(Cols(m)) + 1
    BY DEF TypeOK, HistoryOK, StoredInv, SoleInv, ColumnsInTurn
  <2>2. Len(Cols(m)) \in Nat /\ DOMAIN Cols(m) = 1..Len(Cols(m))
    BY <2>1, UploadType DEF Cols
  <2>3. {Cols(m)[i] : i \in DOMAIN Cols(m)} \ Unwritable = Opened(m)
    BY <2>1, <2>2 DEF Opened
  <2> QED
    BY <2>1, <2>3 DEF StoredSoFar
<1> QED
  BY <1>1, InitStoredInv, NextStoredInv, TypeCorrect, PTL DEF Spec

-----------------------------------------------------------------------------
(***************************************************************************)
(* What queries read, for any numbers of imports, queries, columns, rows and *)
(* kills, any texts and any size of the buffer: files that nobody writes to, *)
(* exactly; the files of the first import, a prefix.                         *)
(*                                                                         *)
(* Neither is inductive.  A stream holds the beginning of the line it has    *)
(* not delivered yet (OnCourse), a pass over the streams has delivered one   *)
(* line of every file that still has one (InPass), and the file of a column  *)
(* that only one import has touched is a prefix of the column (Growing).     *)
(***************************************************************************)

-----------------------------------------------------------------------------
(* The lines of a text.                                                     *)

Breaks(t) == Increasing(NewLines(t))

\* Where the i-th line begins.
LineFrom(t, i) == IF i = 1 THEN 1 ELSE Breaks(t)[i - 1] + 1

LEMMA BreakFacts ==
  ASSUME NEW S, NEW t \in Seq(S)
  PROVE  /\ Len(t) \in Nat
         /\ NewLines(t) \in SUBSET Int /\ IsFiniteSet(NewLines(t))
         /\ Len(Breaks(t)) \in Nat /\ DOMAIN Breaks(t) = 1..Len(Breaks(t))
         /\ \A i \in 1..Len(Breaks(t)) : /\ Breaks(t)[i] \in 1..Len(t)
                                        /\ t[Breaks(t)[i]] = NL
         /\ \A p \in 1..Len(t) : t[p] = NL => \E i \in 1..Len(Breaks(t)) : Breaks(t)[i] = p
         /\ \A i, j \in 1..Len(Breaks(t)) : i < j => Breaks(t)[i] < Breaks(t)[j]
<1>1. Len(t) \in Nat
  BY LenProperties
<1>2. NewLines(t) \in SUBSET (1..Len(t)) /\ NewLines(t) \in SUBSET Int
  BY <1>1 DEF NewLines
<1>3. IsFiniteSet(NewLines(t))
  <2>1. IsFiniteSet(1..Len(t))
    BY <1>1, FS_Interval
  <2> QED
    BY <1>2, <2>1, FS_Subset
<1> DEFINE N == Cardinality(NewLines(t))
<1>4. /\ N \in Nat /\ Len(Breaks(t)) = N /\ DOMAIN Breaks(t) = 1..N
      /\ \A k \in 1..N : Breaks(t)[k] \in NewLines(t)
      /\ \A x \in NewLines(t) : Rank(NewLines(t), x) \in 1..N
                                /\ Breaks(t)[Rank(NewLines(t), x)] = x
      /\ \A i, j \in 1..N : i < j => Breaks(t)[i] < Breaks(t)[j]
  BY <1>2, <1>3, IncreasingFacts DEF Breaks
<1>5. \A i \in 1..N : Breaks(t)[i] \in 1..Len(t) /\ t[Breaks(t)[i]] = NL
  BY <1>4 DEF NewLines
<1>6. \A p \in 1..Len(t) : t[p] = NL => \E i \in 1..N : Breaks(t)[i] = p
  BY <1>4 DEF NewLines
<1> QED
  BY <1>1, <1>2, <1>3, <1>4, <1>5, <1>6

\* Every line begins behind the line before it, at most one place behind the text.
LEMMA LineFromFacts ==
  ASSUME NEW S, NEW t \in Seq(S), NEW i \in 1..(Len(Breaks(t)) + 1)
  PROVE  /\ LineFrom(t, i) \in 1..(Len(t) + 1)
         /\ i <= Len(Breaks(t)) => LineFrom(t, i) <= Breaks(t)[i]
<1>1. Len(t) \in Nat /\ Len(Breaks(t)) \in Nat
      /\ (\A k \in 1..Len(Breaks(t)) : Breaks(t)[k] \in 1..Len(t))
      /\ (\A k, j \in 1..Len(Breaks(t)) : k < j => Breaks(t)[k] < Breaks(t)[j])
  BY BreakFacts
<1>2. CASE i = 1
  BY <1>1, <1>2 DEF LineFrom
<1>3. CASE i # 1
  <2>1. i - 1 \in 1..Len(Breaks(t)) /\ i - 1 < i
    BY <1>1, <1>3
  <2>2. LineFrom(t, i) = Breaks(t)[i - 1] + 1
    BY <1>3 DEF LineFrom
  <2>3. Breaks(t)[i - 1] \in 1..Len(t)
    BY <1>1, <2>1
  <2>4. ASSUME i <= Len(Breaks(t)) PROVE LineFrom(t, i) <= Breaks(t)[i]
    <3>1. i \in 1..Len(Breaks(t))
      BY <1>1, <2>4
    <3>2. Breaks(t)[i - 1] < Breaks(t)[i] /\ Breaks(t)[i] \in 1..Len(t)
      BY <1>1, <2>1, <3>1
    <3> QED
      BY <2>2, <2>3, <3>2
  <2> QED
    BY <1>1, <2>2, <2>3, <2>4
<1> QED
  BY <1>2, <1>3

\* From the beginning of a line up to e there is no line feed: the next one is behind e.
LEMMA NoBreak ==
  ASSUME NEW S, NEW t \in Seq(S), NEW j \in 0..Len(Breaks(t)), NEW e \in 0..Len(t),
         \A x \in LineFrom(t, j + 1)..e : t[x] # NL
  PROVE  j < Len(Breaks(t)) => Breaks(t)[j + 1] > e
<1> SUFFICES ASSUME j < Len(Breaks(t)), Breaks(t)[j + 1] <= e PROVE FALSE
  <2>1. j < Len(Breaks(t)) => Breaks(t)[j + 1] \in Int
    BY BreakFacts
  <2> QED
    BY <2>1, BreakFacts
<1>1. j + 1 \in 1..Len(Breaks(t))
  BY BreakFacts
<1>2. Breaks(t)[j + 1] \in 1..Len(t) /\ t[Breaks(t)[j + 1]] = NL
  BY <1>1, BreakFacts
<1>3. LineFrom(t, j + 1) <= Breaks(t)[j + 1] /\ LineFrom(t, j + 1) \in 1..(Len(t) + 1)
  BY <1>1, BreakFacts, LineFromFacts
<1>4. Breaks(t)[j + 1] \in LineFrom(t, j + 1)..e
  BY <1>2, <1>3
<1> QED
  BY <1>2, <1>4

\* The first line feed behind the beginning of a line ends it.
LEMMA NextBreak ==
  ASSUME NEW S, NEW t \in Seq(S), NEW j \in 0..Len(Breaks(t)),
         NEW p \in LineFrom(t, j + 1)..Len(t), t[p] = NL,
         \A x \in LineFrom(t, j + 1)..(p - 1) : t[x] # NL
  PROVE  /\ j < Len(Breaks(t))
         /\ Breaks(t)[j + 1] = p
         /\ LineFrom(t, j + 2) = p + 1
<1>0. Len(t) \in Nat /\ Len(Breaks(t)) \in Nat
      /\ (\A k \in 1..Len(Breaks(t)) : Breaks(t)[k] \in 1..Len(t) /\ t[Breaks(t)[k]] = NL)
      /\ (\A k, l \in 1..Len(Breaks(t)) : k < l => Breaks(t)[k] < Breaks(t)[l])
  BY BreakFacts
<1>1. LineFrom(t, j + 1) \in 1..(Len(t) + 1) /\ p \in 1..Len(t)
  <2>1. j + 1 \in 1..(Len(Breaks(t)) + 1)
    BY <1>0
  <2>2. LineFrom(t, j + 1) \in 1..(Len(t) + 1)
    BY <2>1, LineFromFacts
  <2> QED
    BY <1>0, <2>2
<1>2. PICK r \in 1..Len(Breaks(t)) : Breaks(t)[r] = p
  BY <1>1, BreakFacts
<1>3. r > j
  <2> SUFFICES ASSUME r <= j PROVE FALSE
    BY <1>0
  <2>1. j \in 1..Len(Breaks(t)) /\ j + 1 # 1 /\ j + 1 - 1 = j
    BY <1>0
  <2>2. LineFrom(t, j + 1) = Breaks(t)[j] + 1 /\ Breaks(t)[j] \in Int
    BY <1>0, <2>1 DEF LineFrom
  <2>3. p <= Breaks(t)[j]
    <3>1. r = j \/ r < j
      BY <1>0
    <3> QED
      BY <1>0, <1>2, <2>1, <2>2, <3>1
  <2> QED
    BY <1>1, <2>2, <2>3
<1>4. r = j + 1
  <2> SUFFICES ASSUME r > j + 1 PROVE FALSE
    BY <1>0, <1>3
  <2>1. j + 1 \in 1..Len(Breaks(t))
    BY <1>0
  <2>2. Breaks(t)[j + 1] < p /\ Breaks(t)[j + 1] \in 1..Len(t) /\ t[Breaks(t)[j + 1]] = NL
    BY <1>0, <1>2, <2>1
  <2>3. LineFrom(t, j + 1) <= Breaks(t)[j + 1]
    BY <1>0, <2>1, LineFromFacts
  <2>4. Breaks(t)[j + 1] \in LineFrom(t, j + 1)..(p - 1)
    BY <1>1, <2>2, <2>3
  <2> QED
    BY <2>2, <2>4
<1>5. j + 2 # 1 /\ j + 2 - 1 = j + 1
  BY <1>0
<1> QED
  BY <1>0, <1>2, <1>4, <1>5 DEF LineFrom

\* What LinesOf is made of.
LEMMA LinesFacts ==
  ASSUME NEW S, NEW t \in Seq(S)
  PROVE  LET n == Len(Breaks(t))
         IN  /\ LinesOf(t) \in Seq(Seq(S))
             /\ Len(LinesOf(t)) = IF LineFrom(t, n + 1) <= Len(t) THEN n + 1 ELSE n
             /\ \A i \in 1..n : LinesOf(t)[i] = SubSeq(t, LineFrom(t, i), Breaks(t)[i] - 1)
             /\ LineFrom(t, n + 1) <= Len(t) =>
                   LinesOf(t)[n + 1] = SubSeq(t, LineFrom(t, n + 1), Len(t))
<1> DEFINE n == Len(Breaks(t))
<1>0. Len(t) \in Nat /\ n \in Nat /\ DOMAIN Breaks(t) = 1..n
      /\ (\A k \in 1..n : Breaks(t)[k] \in 1..Len(t))
      /\ (\A k \in 1..(n + 1) : LineFrom(t, k) \in 1..(Len(t) + 1))
      /\ (\A x \in 1..Len(t) : t[x] \in S)
  BY BreakFacts, LineFromFacts, ElementOfSeq
<1> DEFINE first == [i \in 1..(n + 1) |-> IF i = 1 THEN 1 ELSE Breaks(t)[i - 1] + 1]
           tail == SubSeq(t, first[n + 1], Len(t))
           lines == [i \in DOMAIN Breaks(t) |-> SubSeq(t, first[i], Breaks(t)[i] - 1)]
<1>1. LinesOf(t) = IF tail = <<>> THEN lines ELSE Append(lines, tail)
  BY DEF LinesOf, Breaks
<1> SUFFICES /\ LinesOf(t) \in Seq(Seq(S))
             /\ Len(LinesOf(t)) = IF LineFrom(t, n + 1) <= Len(t) THEN n + 1 ELSE n
             /\ \A i \in 1..n : LinesOf(t)[i] = SubSeq(t, LineFrom(t, i), Breaks(t)[i] - 1)
             /\ LineFrom(t, n + 1) <= Len(t) =>
                   LinesOf(t)[n + 1] = SubSeq(t, LineFrom(t, n + 1), Len(t))
  OBVIOUS
<1> HIDE DEF n
<1>2. \A k \in 1..(n + 1) : first[k] = LineFrom(t, k)
  BY DEF LineFrom
<1> HIDE DEF first
<1>3. ASSUME NEW k \in 1..n
      PROVE  SubSeq(t, first[k], Breaks(t)[k] - 1) \in Seq(S)
  <2>1. LineFrom(t, k) \in 1..(Len(t) + 1) /\ Breaks(t)[k] - 1 \in 0..Len(t) /\ first[k] = LineFrom(t, k)
    BY <1>0, <1>2
  <2>2. \A x \in LineFrom(t, k)..(Breaks(t)[k] - 1) : t[x] \in S
    BY <1>0, <2>1
  <2> QED
    BY <2>1, <2>2, SubSeqProperties
<1>4. lines \in Seq(Seq(S)) /\ Len(lines) = n
      /\ \A k \in 1..n : lines[k] = SubSeq(t, LineFrom(t, k), Breaks(t)[k] - 1)
  <2> DEFINE SS == Seq(S)
  <2>1. lines \in [1..n -> SS]
    BY <1>0, <1>3
  <2>2. ASSUME NEW k \in 1..n
        PROVE  lines[k] = SubSeq(t, LineFrom(t, k), Breaks(t)[k] - 1)
    <3>1. k \in 1..(n + 1) /\ k \in DOMAIN Breaks(t)
      BY <1>0
    <3>2. first[k] = LineFrom(t, k)
      BY <1>2, <3>1
    <3>3. lines[k] = SubSeq(t, first[k], Breaks(t)[k] - 1)
      BY <3>1, Zenon
    <3> QED
      BY <3>2, <3>3, Zenon
  <2> HIDE DEF SS, lines
  <2>3. lines \in Seq(SS) /\ Len(lines) = n
    BY <1>0, <2>1
  <2> QED
    BY <2>2, <2>3 DEF SS
<1>5. /\ tail = SubSeq(t, LineFrom(t, n + 1), Len(t)) /\ tail \in Seq(S)
      /\ tail = <<>> <=> LineFrom(t, n + 1) > Len(t)
  <2>1. n + 1 \in 1..(n + 1)
    BY <1>0
  <2>2. LineFrom(t, n + 1) \in 1..(Len(t) + 1) /\ tail = SubSeq(t, LineFrom(t, n + 1), Len(t))
    BY <1>0, <1>2, <2>1
  <2>3. \A x \in LineFrom(t, n + 1)..Len(t) : t[x] \in S
    BY <1>0, <2>2
  <2>4. tail \in Seq(S) /\ Len(tail) = IF LineFrom(t, n + 1) <= Len(t)
                                      THEN Len(t) - LineFrom(t, n + 1) + 1 ELSE 0
    BY <1>0, <2>2, <2>3, SubSeqProperties
  <2> HIDE DEF tail
  <2>5. tail = <<>> <=> Len(tail) = 0
    BY <2>4, EmptySeq
  <2> QED
    BY <1>0, <2>2, <2>4, <2>5
<1> HIDE DEF tail, lines
<1>6. CASE LineFrom(t, n + 1) > Len(t)
  <2>1. LinesOf(t) = lines
    BY <1>1, <1>5, <1>6
  <2>2. ~(LineFrom(t, n + 1) <= Len(t))
    <3>1. LineFrom(t, n + 1) \in Int
      BY <1>0
    <3> QED
      BY <1>0, <1>6, <3>1
  <2> QED
    BY <1>4, <2>1, <2>2
<1>7. CASE LineFrom(t, n + 1) <= Len(t)
  <2>1. LinesOf(t) = Append(lines, tail)
    <3>1. ~(LineFrom(t, n + 1) > Len(t))
      <4>1. LineFrom(t, n + 1) \in Int
        BY <1>0
      <4> QED
        BY <1>0, <1>7, <4>1
    <3> QED
      BY <1>1, <1>5, <3>1
  <2>2. /\ Append(lines, tail) \in Seq(Seq(S)) /\ Len(Append(lines, tail)) = n + 1
        /\ \A k \in 1..n : Append(lines, tail)[k] = lines[k]
        /\ Append(lines, tail)[n + 1] = tail
    <3> DEFINE SS == Seq(S)
    <3>1. lines \in Seq(SS) /\ tail \in SS /\ Len(lines) = n
      BY <1>4, <1>5
    <3> HIDE DEF SS
    <3>2. /\ Append(lines, tail) \in Seq(SS) /\ Len(Append(lines, tail)) = n + 1
          /\ \A k \in 1..n : Append(lines, tail)[k] = lines[k]
          /\ Append(lines, tail)[n + 1] = tail
      BY <3>1
    <3> QED
      BY <3>2 DEF SS
  <2> QED
    BY <1>4, <1>5, <1>7, <2>1, <2>2
<1> QED
  <2>1. LineFrom(t, n + 1) \in Int
    BY <1>0
  <2>2. LineFrom(t, n + 1) > Len(t) \/ LineFrom(t, n + 1) <= Len(t)
    BY <1>0, <2>1
  <2> QED
    BY <1>6, <1>7, <2>2, Zenon

-----------------------------------------------------------------------------
(* One stream.                                                              *)

\* Stream s, which has delivered the values g, reads the text t: the lines so far,
\* and in its buffer what it has read of the next one and those behind it.
OnCourse(s, t, g) ==
    /\ Len(g) <= Len(Breaks(t))
    /\ s.off <= Len(t) /\ LineFrom(t, Len(g) + 1) <= s.off + 1
    /\ s.buf = SubSeq(t, LineFrom(t, Len(g) + 1), s.off)
    /\ \A i \in 1..Len(g) : g[i] = LinesOf(t)[i]

Exactly(s, t, g) ==
    IF s.state = "good" THEN OnCourse(s, t, g) ELSE g = LinesOf(t)

\* The same with a text that the file has only a beginning of.
Partly(s, t, g) ==
    /\ s.state = "good" => OnCourse(s, t, g)
    /\ CutPrefix(g, LinesOf(t))

\* The k-th of the streams ss of a query; before it is opened it has delivered nothing.
ReadsExactly(ss, k, t, gs) ==
    IF k \in DOMAIN ss THEN Exactly(ss[k], t, gs[k]) ELSE gs[k] = <<>>

ReadsPartly(ss, k, t, gs) ==
    IF k \in DOMAIN ss THEN Partly(ss[k], t, gs[k]) ELSE gs[k] = <<>>

-----------------------------------------------------------------------------
(* A query that nobody disturbs.                                            *)

TextOf(q, k) == text[select[q][k]]

Lines(q) == [k \in DOMAIN select[q] |-> LinesOf(TextOf(q, k))]

\* The streams before the i-th that had a line for the row after the first b.
Fuller(l, i, b) == {k \in 1..(i - 1) : Len(l[k]) > b}

RowOf(l, i, b) ==
    LET fuller == Increasing(Fuller(l, i, b))
    IN  [x \in DOMAIN fuller |-> l[fuller[x]][b + 1]]

\* The row when every stream has been asked.
FullRow(W, l, b) == RowOf(l, W + 1, b)

\* The streams that have a line for the row after the first b.
Longer(W, l, b) == Increasing({k \in 1..W : Len(l[k]) > b})

\* The block has b rows, and rowValues the next value of the streams that have one.
InPass(q, b) ==
    /\ row[q] = RowOf(Lines(q), qi[q], b)
    /\ \A k \in 1..Width(q) :
        /\ b <= Len(Lines(q)[k]) /\ block[q][k] = SubSeq(Lines(q)[k], 1, b)
        /\ k >= qi[q] => Len(got[q][k]) = b /\ ~Failed(q, k)
        /\ k < qi[q] => Len(got[q][k]) = IF Failed(q, k) THEN b ELSE b + 1

\* What a query has made so far of files that nobody writes to.
Undisturbed(q) ==
    /\ \A k \in 1..Width(q) : ReadsExactly(streams[q], k, TextOf(q, k), got[q])
    /\ qpc[q] = "open" => \A k \in DOMAIN streams[q] : ~Failed(q, k)
    /\ qpc[q] = "read" =>
        \/ \E b \in 0..Len(block[q][1]) : InPass(q, b)
        \/ Doomed(q) /\ block[q] = RowsRead(q)
    /\ qpc[q] = "ok" => block[q] = RowsRead(q)

QuietInv ==
    /\ quiet # {} => Writing = {}
    /\ \A q \in quiet : Undisturbed(q)

-----------------------------------------------------------------------------
(* The first import.                                                        *)

\* Column i of import m has its file for itself.
OwnFile(m, i) ==
    /\ Cols(m)[i] \notin {ColumnsTxt, CountTxt}
    /\ \A j \in DOMAIN Cols(m) : Cols(m)[j] = Cols(m)[i] => j = i

\* The file c has a beginning of column i.
Growing(m, i) ==
    /\ Len(text[Cols(m)[i]]) <= Len(upload[m].data[i])
    /\ text[Cols(m)[i]] = SubSeq(upload[m].data[i], 1, Len(text[Cols(m)[i]]))
    /\ ipc[m] = "write" /\ icol[m] = i => Len(text[Cols(m)[i]]) = ioff[m]

Alone(m) == \A o \in Imports \ {m} : ipc[o] = "idle"

FirstInv ==
    \A m \in Imports : Alone(m) =>
        \A i \in DOMAIN Cols(m) : OwnFile(m, i) =>
            /\ Growing(m, i)
            /\ \A q \in Queries : \A k \in 1..Width(q) : select[q][k] = Cols(m)[i] =>
                    ReadsPartly(streams[q], k, upload[m].data[i], got[q])

-----------------------------------------------------------------------------
(* What a stream's steps do to its buffer.                                  *)

LEMMA TextParts ==
  ASSUME NEW t \in Text, NEW a \in 1..(Len(t) + 1), NEW e \in 0..Len(t), a <= e + 1
  PROVE  /\ Len(t) \in Nat
         /\ SubSeq(t, a, e) \in Text /\ Len(SubSeq(t, a, e)) = e - a + 1
         /\ \A i \in 1..(e - a + 1) : SubSeq(t, a, e)[i] = t[a + i - 1]
<1>1. Len(t) \in Nat /\ \A i \in 1..Len(t) : t[i] \in Chars
  BY LenProperties, ElementOfSeq DEF Text
<1>2. \A i \in a..e : t[i] \in Chars
  BY <1>1
<1>3. a \in Int /\ e \in Int
  BY <1>1
<1>4. SubSeq(t, a, e) \in Seq(Chars)
      /\ Len(SubSeq(t, a, e)) = (IF a <= e THEN e - a + 1 ELSE 0)
      /\ \A i \in 1..(e - a + 1) : SubSeq(t, a, e)[i] = t[a + i - 1]
  BY <1>2, <1>3, SubSeqProperties
<1> QED
  BY <1>1, <1>3, <1>4 DEF Text

LEMMA PartsJoin ==
  ASSUME NEW t \in Text, NEW a \in 1..(Len(t) + 1), NEW b \in 0..Len(t), NEW e \in 0..Len(t),
         a <= b + 1, b <= e
  PROVE  SubSeq(t, a, b) \o SubSeq(t, b + 1, e) = SubSeq(t, a, e)
<1> DEFINE u == SubSeq(t, a, b)
           v == SubSeq(t, b + 1, e)
           w == SubSeq(t, a, e)
<1>0. Len(t) \in Nat /\ a \in Nat /\ b \in Nat /\ e \in Nat /\ b + 1 \in 1..(Len(t) + 1) /\ b + 1 <= e + 1 /\ a <= e + 1
  BY LenProperties DEF Text
<1>1. u \in Text /\ Len(u) = b - a + 1 /\ \A i \in 1..(b - a + 1) : u[i] = t[a + i - 1]
  BY TextParts
<1>2. v \in Text /\ Len(v) = e - (b + 1) + 1 /\ \A i \in 1..(e - (b + 1) + 1) : v[i] = t[(b + 1) + i - 1]
  BY <1>0, TextParts
<1>3. w \in Text /\ Len(w) = e - a + 1 /\ \A i \in 1..(e - a + 1) : w[i] = t[a + i - 1]
  BY <1>0, TextParts
<1> HIDE DEF u, v, w
<1>4. /\ u \o v \in Text /\ Len(u \o v) = Len(u) + Len(v)
      /\ \A i \in 1..(Len(u) + Len(v)) : (u \o v)[i] = IF i <= Len(u) THEN u[i] ELSE v[i - Len(u)]
  BY <1>1, <1>2, ConcatProperties DEF Text
<1>5. Len(u \o v) = Len(w)
  BY <1>0, <1>1, <1>2, <1>3, <1>4
<1>6. ASSUME NEW i \in 1..Len(w) PROVE (u \o v)[i] = w[i]
  <2>1. i \in 1..(e - a + 1) /\ i \in 1..(Len(u) + Len(v))
    BY <1>0, <1>1, <1>2, <1>3
  <2>2. CASE i <= Len(u)
    BY <1>0, <1>1, <1>3, <1>4, <2>1, <2>2
  <2>3. CASE i > Len(u)
    <3>1. i - Len(u) \in 1..(e - (b + 1) + 1) /\ (b + 1) + (i - Len(u)) - 1 = a + i - 1
      BY <1>0, <1>1, <2>1, <2>3
    <3>2. (u \o v)[i] = v[i - Len(u)]
      BY <1>0, <1>1, <1>4, <2>1, <2>3
    <3> QED
      BY <1>2, <1>3, <2>1, <3>1, <3>2
  <2>4. i <= Len(u) \/ i > Len(u)
    BY <1>0, <1>1, <2>1
  <2> QED
    BY <2>2, <2>3, <2>4
<1>7. u \o v = w
  BY <1>3, <1>4, <1>5, <1>6, SameSeq DEF Text
<1> QED
  BY <1>7 DEF u, v, w

\* Where in the text a stream is.
LEMMA StreamPlace ==
  ASSUME NEW t \in Text, NEW g \in Seq(Text), NEW s \in Stream, OnCourse(s, t, g),
         NEW f, f = LineFrom(t, Len(g) + 1)
  PROVE  /\ Len(t) \in Nat /\ Len(g) \in 0..Len(Breaks(t)) /\ Len(Breaks(t)) \in Nat
         /\ f \in 1..(Len(t) + 1) /\ s.off \in 0..Len(t) /\ f <= s.off + 1
         /\ s.buf = SubSeq(t, f, s.off) /\ s.buf \in Text /\ Len(s.buf) = s.off - f + 1
         /\ \A i \in 1..(s.off - f + 1) : s.buf[i] = t[f + i - 1]
<1>1. Len(t) \in Nat /\ Len(g) \in Nat /\ s.off \in Nat /\ s.buf \in Text
  BY LenProperties DEF Text, Stream
<1>2. Len(Breaks(t)) \in Nat
  BY BreakFacts DEF Text
<1>3. Len(g) + 1 \in 1..(Len(Breaks(t)) + 1)
  BY <1>1, <1>2 DEF OnCourse
<1>4. f \in 1..(Len(t) + 1)
  BY <1>3, LineFromFacts DEF Text
<1>5. s.off \in 0..Len(t) /\ f <= s.off + 1 /\ s.buf = SubSeq(t, f, s.off)
  BY <1>1 DEF OnCourse
<1>6. Len(SubSeq(t, f, s.off)) = s.off - f + 1
      /\ \A i \in 1..(s.off - f + 1) : SubSeq(t, f, s.off)[i] = t[f + i - 1]
  BY <1>4, <1>5, TextParts
<1> QED
  BY <1>1, <1>2, <1>3, <1>4, <1>5, <1>6

\* A refill from a file that has a beginning of the text.
LEMMA RefillStays ==
  ASSUME NEW t \in Text, NEW g \in Seq(Text), NEW s \in Stream, OnCourse(s, t, g),
         NEW file \in Text, Len(file) <= Len(t), file = SubSeq(t, 1, Len(file)),
         Chunk(file, s.off) # <<>>,
         NEW r \in Stream, r.off = s.off + Len(Chunk(file, s.off)),
         r.buf = s.buf \o Chunk(file, s.off)
  PROVE  OnCourse(r, t, g)
<1> DEFINE f == LineFrom(t, Len(g) + 1)
           off == s.off
           e == IF off + BufferSize < Len(file) THEN off + BufferSize ELSE Len(file)
           n == Len(file)
<1>1. /\ Len(t) \in Nat /\ f \in 1..(Len(t) + 1) /\ off \in 0..Len(t) /\ f <= off + 1
      /\ s.buf = SubSeq(t, f, off) /\ Len(g) <= Len(Breaks(t))
  BY StreamPlace DEF OnCourse
<1>2. n \in Nat /\ n \in 0..Len(t) /\ BufferSize \in Nat /\ BufferSize > 0
  BY <1>1, LenProperties, TextAssumption DEF Text
<1>3. Chunk(file, off) = SubSeq(file, off + 1, e)
  BY DEF Chunk
<1>4. e \in 0..n /\ off < n /\ off <= e
  <2>1. ASSUME off >= n PROVE FALSE
    <3>1. e = n
      BY <1>1, <1>2, <2>1
    <3>2. SubSeq(file, off + 1, n) = <<>>
      BY <1>1, <1>2, <2>1, SubSeqProperties, SMTT(30)
    <3> QED
      BY <1>3, <3>1, <3>2
  <2>2. e = IF off + BufferSize < n THEN off + BufferSize ELSE n
    OBVIOUS
  <2> HIDE DEF e, n, off
  <2>3. off < n
    BY <1>1, <1>2, <2>1
  <2> QED
    BY <1>1, <1>2, <2>2, <2>3
<1> HIDE DEF f, off, e, n
<1>5. \A i \in 1..n : file[i] = t[i]
  <2>1. file = SubSeq(t, 1, n)
    BY DEF n
  <2> QED
    BY <1>2, <2>1, PrefixFacts
<1>6. SubSeq(file, off + 1, e) = SubSeq(t, off + 1, e)
  <2>1. off + 1 \in 1..(Len(file) + 1) /\ e \in 0..Len(file) /\ off + 1 <= e + 1
        /\ off + 1 \in 1..(Len(t) + 1) /\ e \in 0..Len(t)
    BY <1>1, <1>2, <1>4 DEF n
  <2>2. /\ SubSeq(file, off + 1, e) \in Text /\ Len(SubSeq(file, off + 1, e)) = e - (off + 1) + 1
        /\ \A i \in 1..(e - (off + 1) + 1) : SubSeq(file, off + 1, e)[i] = file[off + 1 + i - 1]
    BY <2>1, TextParts
  <2>3. /\ SubSeq(t, off + 1, e) \in Text /\ Len(SubSeq(t, off + 1, e)) = e - (off + 1) + 1
        /\ \A i \in 1..(e - (off + 1) + 1) : SubSeq(t, off + 1, e)[i] = t[off + 1 + i - 1]
    BY <2>1, TextParts
  <2>4. \A i \in 1..(e - (off + 1) + 1) : off + 1 + i - 1 \in 1..n
    BY <1>1, <1>2, <1>4
  <2>5. \A i \in 1..(e - (off + 1) + 1) : SubSeq(file, off + 1, e)[i] = SubSeq(t, off + 1, e)[i]
    BY <1>5, <2>2, <2>3, <2>4
  <2> QED
    BY <2>2, <2>3, <2>5, SameSeq DEF Text
<1>7. r.off = e
  <2>1. Len(SubSeq(t, off + 1, e)) = e - (off + 1) + 1
    <3>1. off + 1 \in 1..(Len(t) + 1) /\ e \in 0..Len(t) /\ off + 1 <= e + 1
      BY <1>1, <1>2, <1>4
    <3> QED
      BY <3>1, TextParts
  <2>2. r.off = off + (e - (off + 1) + 1)
    BY <1>3, <1>6, <2>1 DEF off
  <2> QED
    BY <1>1, <1>2, <1>4, <2>2
<1>8. r.buf = SubSeq(t, f, e)
  <2>1. e \in 0..Len(t)
    BY <1>1, <1>2, <1>4
  <2>2. SubSeq(t, f, off) \o SubSeq(t, off + 1, e) = SubSeq(t, f, e)
    BY <1>1, <1>4, <2>1, PartsJoin
  <2> QED
    BY <1>1, <1>3, <1>6, <2>2 DEF off
<1>9. e <= Len(t) /\ f <= e + 1
  BY <1>1, <1>2, <1>4
<1> QED
  BY <1>1, <1>7, <1>8, <1>9 DEF OnCourse, f

LEMMA OneMore ==
  ASSUME NEW S, NEW g \in Seq(S), NEW v \in S
  PROVE  /\ g \o <<v>> \in Seq(S) /\ Len(g \o <<v>>) = Len(g) + 1 /\ Len(g) \in Nat
         /\ (\A x \in 1..Len(g) : (g \o <<v>>)[x] = g[x])
         /\ (g \o <<v>>)[Len(g) + 1] = v
  OBVIOUS

\* A line taken from the buffer is the next line of the text.
LEMMA LineDelivered ==
  ASSUME NEW t \in Text, NEW g \in Seq(Text), NEW s \in Stream, OnCourse(s, t, g),
         NEW i \in 1..Len(s.buf), FirstNL(s.buf, i),
         NEW r \in Stream, r.off = s.off, r.buf = SubSeq(s.buf, i + 1, Len(s.buf))
  PROVE  OnCourse(r, t, g \o <<SubSeq(s.buf, 1, i - 1)>>)
<1> DEFINE f == LineFrom(t, Len(g) + 1)
           off == s.off
           buf == s.buf
           p == f + i - 1
           line == SubSeq(buf, 1, i - 1)
           h == g \o <<line>>
           L == LinesOf(t)
<1>1. /\ Len(t) \in Nat /\ Len(g) \in 0..Len(Breaks(t)) /\ Len(Breaks(t)) \in Nat
      /\ f \in 1..(Len(t) + 1) /\ off \in 0..Len(t) /\ f <= off + 1
      /\ buf \in Text /\ Len(buf) = off - f + 1
      /\ \A x \in 1..(off - f + 1) : buf[x] = t[f + x - 1]
  BY StreamPlace, SMTT(30)
<1>2. buf[i] = NL /\ \A x \in 1..(i - 1) : buf[x] # NL
  BY DEF FirstNL
<1> HIDE DEF f, off, buf, L
<1>3. i \in 1..(off - f + 1) /\ p \in f..Len(t) /\ p <= off /\ p = f + i - 1
  BY <1>1 DEF buf
<1> HIDE DEF p
<1>4. t[p] = NL
  BY <1>1, <1>2, <1>3
<1>5. ASSUME NEW x \in f..(p - 1) PROVE t[x] # NL
  <2>1. x - f + 1 \in 1..(i - 1) /\ x - f + 1 \in 1..(off - f + 1) /\ f + (x - f + 1) - 1 = x
    BY <1>1, <1>3
  <2> QED
    BY <1>1, <1>2, <2>1
<1>6. Len(g) < Len(Breaks(t)) /\ Breaks(t)[Len(g) + 1] = p /\ LineFrom(t, Len(g) + 2) = p + 1
  <2>1. p \in LineFrom(t, Len(g) + 1)..Len(t) /\ \A x \in LineFrom(t, Len(g) + 1)..(p - 1) : t[x] # NL
    BY <1>3, <1>5 DEF f
  <2> QED
    BY <1>1, <1>4, <2>1, NextBreak DEF Text
<1>7. /\ line \in Text
      /\ line = SubSeq(t, f, p - 1)
  <2>1. 1 \in 1..(Len(buf) + 1) /\ i - 1 \in 0..Len(buf) /\ 1 <= (i - 1) + 1
    BY <1>1, <1>3
  <2>2. line \in Text /\ Len(line) = (i - 1) - 1 + 1
        /\ \A x \in 1..((i - 1) - 1 + 1) : line[x] = buf[1 + x - 1]
    BY <1>1, <2>1, TextParts
  <2>3. p - 1 \in 0..Len(t) /\ f <= (p - 1) + 1
    BY <1>1, <1>3
  <2>4. /\ SubSeq(t, f, p - 1) \in Text /\ Len(SubSeq(t, f, p - 1)) = (p - 1) - f + 1
        /\ \A x \in 1..((p - 1) - f + 1) : SubSeq(t, f, p - 1)[x] = t[f + x - 1]
    BY <1>1, <2>3, TextParts
  <2> HIDE DEF line
  <2>5. Len(line) = Len(SubSeq(t, f, p - 1))
    <3>1. (i - 1) - 1 + 1 = (p - 1) - f + 1
      BY <1>1, <1>3
    <3> QED
      BY <2>2, <2>4, <3>1
  <2>6. ASSUME NEW x \in 1..Len(line) PROVE line[x] = SubSeq(t, f, p - 1)[x]
    <3>1. x \in 1..(i - 1) /\ 1 + x - 1 = x /\ x \in 1..((p - 1) - f + 1) /\ x \in 1..(off - f + 1)
          /\ x \in 1..((i - 1) - 1 + 1)
      BY <1>1, <1>3, <2>2, SMTT(30)
    <3> QED
      BY <1>1, <2>2, <2>4, <3>1
  <2> QED
    BY <2>2, <2>4, <2>5, <2>6, SameSeq DEF Text
<1>8. L[Len(g) + 1] = line
  <2>1. Len(g) + 1 \in 1..Len(Breaks(t))
    BY <1>1, <1>6
  <2>2. \A k \in 1..Len(Breaks(t)) : L[k] = SubSeq(t, LineFrom(t, k), Breaks(t)[k] - 1)
    <3>1. t \in Seq(Chars)
      BY DEF Text
    <3>2. \A k \in 1..Len(Breaks(t)) : LinesOf(t)[k] = SubSeq(t, LineFrom(t, k), Breaks(t)[k] - 1)
      BY ONLY <3>1, LinesFacts
    <3> QED
      BY <3>2 DEF L
  <2>3. L[Len(g) + 1] = SubSeq(t, f, p - 1)
    BY <1>6, <2>1, <2>2 DEF f
  <2> QED
    BY <1>7, <2>3
<1>9. Len(h) = Len(g) + 1 /\ (\A x \in 1..Len(g) : h[x] = g[x]) /\ h[Len(g) + 1] = line
  <2> HIDE DEF line
  <2>1. g \in Seq(Text) /\ line \in Text
    BY <1>7
  <2>2. Len(g \o <<line>>) = Len(g) + 1 /\ (\A x \in 1..Len(g) : (g \o <<line>>)[x] = g[x])
        /\ (g \o <<line>>)[Len(g) + 1] = line
    BY ONLY <2>1, OneMore
  <2> QED
    BY <2>2 DEF h
<1>10. \A x \in 1..Len(h) : h[x] = L[x]
  <2>1. \A x \in 1..Len(g) : g[x] = L[x]
    BY DEF OnCourse, L
  <2> HIDE DEF h
  <2>2. \A x \in 1..Len(h) : x \in 1..Len(g) \/ x = Len(g) + 1
    BY <1>1, <1>9
  <2> QED
    BY <1>8, <1>9, <2>1, <2>2
<1>11. r.buf = SubSeq(t, p + 1, off)
  <2>1. i + 1 \in 1..(Len(buf) + 1) /\ Len(buf) \in 0..Len(buf) /\ i + 1 <= Len(buf) + 1
    BY <1>1, <1>3
  <2> DEFINE rest == SubSeq(buf, i + 1, Len(buf))
             part == SubSeq(t, p + 1, off)
  <2>2. rest \in Text /\ Len(rest) = Len(buf) - (i + 1) + 1
        /\ \A x \in 1..(Len(buf) - (i + 1) + 1) : rest[x] = buf[(i + 1) + x - 1]
    BY <1>1, <2>1, TextParts
  <2>3. p + 1 \in 1..(Len(t) + 1) /\ p + 1 <= off + 1
    BY <1>1, <1>3
  <2>4. part \in Text /\ Len(part) = off - (p + 1) + 1
        /\ \A x \in 1..(off - (p + 1) + 1) : part[x] = t[(p + 1) + x - 1]
    BY <1>1, <2>3, TextParts
  <2> HIDE DEF rest, part
  <2>5. Len(rest) = Len(part)
    BY <1>1, <1>3, <2>2, <2>4
  <2>6. ASSUME NEW x \in 1..Len(rest) PROVE rest[x] = part[x]
    <3>1. /\ x \in 1..(Len(buf) - (i + 1) + 1) /\ x \in 1..(off - (p + 1) + 1)
          /\ (i + 1) + x - 1 \in 1..(off - f + 1)
          /\ f + ((i + 1) + x - 1) - 1 = (p + 1) + x - 1
      BY <1>1, <1>3, <2>2
    <3> QED
      BY <1>1, <2>2, <2>4, <3>1
  <2>7. rest = part
    BY <2>2, <2>4, <2>5, <2>6, SameSeq DEF Text
  <2> QED
    BY <2>7 DEF rest, part, buf
<1>12. LineFrom(t, Len(h) + 1) = p + 1 /\ Len(h) <= Len(Breaks(t)) /\ p + 1 <= off + 1
  <2>1. Len(h) + 1 = Len(g) + 2
    BY <1>1, <1>9
  <2> QED
    BY <1>1, <1>3, <1>6, <1>9, <2>1
<1>13. r.off = off /\ off <= Len(t)
  BY <1>1 DEF off
<1> HIDE DEF h
<1>14. OnCourse(r, t, h)
  BY <1>10, <1>11, <1>12, <1>13 DEF OnCourse, L
<1> QED
  BY <1>14 DEF h, line, buf

\* What has been delivered of the text is a beginning of its lines.
LEMMA CourseLines ==
  ASSUME NEW t \in Text, NEW g \in Seq(Text), NEW s \in Stream, OnCourse(s, t, g)
  PROVE  /\ LinesOf(t) \in Seq(Text) /\ Len(LinesOf(t)) \in Nat
         /\ Len(g) \in Nat /\ Len(g) <= Len(LinesOf(t))
         /\ \A i \in 1..Len(g) : g[i] = LinesOf(t)[i]
<1>1. t \in Seq(Chars)
  BY DEF Text
<1>2. LinesOf(t) \in Seq(Seq(Chars))
      /\ Len(LinesOf(t)) = (IF LineFrom(t, Len(Breaks(t)) + 1) <= Len(t)
                            THEN Len(Breaks(t)) + 1 ELSE Len(Breaks(t)))
  BY ONLY <1>1, LinesFacts
<1>3. LinesOf(t) \in Seq(Text) /\ Len(LinesOf(t)) \in Nat
  BY <1>2, LenProperties DEF Text
<1>4. Len(g) \in 0..Len(Breaks(t)) /\ Len(Breaks(t)) \in Nat
  BY StreamPlace
<1>5. Len(g) <= Len(LinesOf(t))
  BY <1>2, <1>4
<1> QED
  BY <1>3, <1>4, <1>5 DEF OnCourse

LEMMA WholeText ==
  ASSUME NEW t \in Text
  PROVE  SubSeq(t, 1, Len(t)) = t
<1>1. Len(t) \in 0..Len(t)
  BY LenProperties DEF Text
<1>2. /\ SubSeq(t, 1, Len(t)) \in Text /\ Len(SubSeq(t, 1, Len(t))) = Len(t)
      /\ \A i \in 1..Len(t) : SubSeq(t, 1, Len(t))[i] = t[i]
  BY <1>1, PrefixFacts
<1> QED
  BY <1>2, SameSeq DEF Text

LEMMA BeginningIsCut ==
  ASSUME NEW l \in Seq(Text), NEW g \in Seq(Text), Len(g) <= Len(l),
         \A i \in 1..Len(g) : g[i] = l[i]
  PROVE  CutPrefix(g, l)
<1>1. Len(g) \in Nat /\ Len(l) \in Nat
  BY LenProperties
<1>2. ASSUME g # <<>>
      PROVE  \E n \in 0..Len(l[Len(g)]) : g[Len(g)] = SubSeq(l[Len(g)], 1, n)
  <2>1. Len(g) \in 1..Len(g) /\ Len(g) \in 1..Len(l)
    BY <1>1, <1>2, EmptySeq
  <2>2. l[Len(g)] \in Text /\ g[Len(g)] = l[Len(g)]
    BY <2>1, ElementOfSeq
  <2>3. g[Len(g)] = SubSeq(l[Len(g)], 1, Len(l[Len(g)]))
    BY <2>2, WholeText
  <2>4. Len(l[Len(g)]) \in 0..Len(l[Len(g)])
    BY <2>2, LenProperties DEF Text
  <2> QED
    BY <2>3, <2>4
<1>3. \A i \in 1..(Len(g) - 1) : g[i] = l[i]
  BY <1>1
<1> QED
  BY <1>2, <1>3 DEF CutPrefix

\* No line feed is left in the buffer, and the buffer is not empty: it holds a
\* beginning of the next line, and all of it if the text ends there.
LEMMA LastLine ==
  ASSUME NEW t \in Text, NEW g \in Seq(Text), NEW s \in Stream, OnCourse(s, t, g),
         ~HasLine(s.buf), s.buf # <<>>, NEW line, line = LinesOf(t)[Len(g) + 1]
  PROVE  /\ Len(g) < Len(LinesOf(t)) /\ line \in Text
         /\ \E n \in 0..Len(line) : s.buf = SubSeq(line, 1, n)
         /\ s.off = Len(t) => Len(LinesOf(t)) = Len(g) + 1 /\ s.buf = line
<1> DEFINE f == LineFrom(t, Len(g) + 1)
           off == s.off
           buf == s.buf
           N == Len(Breaks(t))
           L == LinesOf(t)
           j == Len(g)
<1>1. /\ Len(t) \in Nat /\ j \in 0..N /\ N \in Nat
      /\ f \in 1..(Len(t) + 1) /\ off \in 0..Len(t) /\ f <= off + 1
      /\ buf = SubSeq(t, f, off)
      /\ buf \in Text /\ Len(buf) = off - f + 1
      /\ \A x \in 1..(off - f + 1) : buf[x] = t[f + x - 1]
  BY StreamPlace, SMTT(30)
<1>2. DOMAIN buf = 1..Len(buf) /\ Len(buf) \in Nat /\ Len(buf) # 0
  BY <1>1, LenProperties, EmptySeq DEF Text
<1>3. \A x \in 1..Len(buf) : buf[x] # NL
  BY <1>2 DEF HasLine
<1>4. /\ L \in Seq(Text)
      /\ Len(L) = IF LineFrom(t, N + 1) <= Len(t) THEN N + 1 ELSE N
      /\ \A i \in 1..N : L[i] = SubSeq(t, LineFrom(t, i), Breaks(t)[i] - 1)
      /\ LineFrom(t, N + 1) <= Len(t) => L[N + 1] = SubSeq(t, LineFrom(t, N + 1), Len(t))
  <2>1. t \in Seq(Chars)
    BY DEF Text
  <2>2. /\ LinesOf(t) \in Seq(Seq(Chars))
        /\ Len(LinesOf(t)) = IF LineFrom(t, Len(Breaks(t)) + 1) <= Len(t)
                            THEN Len(Breaks(t)) + 1 ELSE Len(Breaks(t))
        /\ \A i \in 1..Len(Breaks(t)) :
              LinesOf(t)[i] = SubSeq(t, LineFrom(t, i), Breaks(t)[i] - 1)
        /\ LineFrom(t, Len(Breaks(t)) + 1) <= Len(t) =>
              LinesOf(t)[Len(Breaks(t)) + 1] = SubSeq(t, LineFrom(t, Len(Breaks(t)) + 1), Len(t))
    BY ONLY <2>1, LinesFacts
  <2> QED
    BY <2>2 DEF Text
<1>5. \A i \in 1..N : Breaks(t)[i] \in 1..Len(t)
  <2>1. t \in Seq(Chars)
    BY DEF Text
  <2>2. \A i \in 1..Len(Breaks(t)) : Breaks(t)[i] \in 1..Len(t)
    BY ONLY <2>1, BreakFacts
  <2> QED
    BY <2>2
<1>6. j < N => Breaks(t)[j + 1] > off
  <2>1. ASSUME NEW x \in f..off PROVE t[x] # NL
    <3> HIDE DEF f, off, buf
    <3>1. x - f + 1 \in 1..(off - f + 1) /\ x - f + 1 \in 1..Len(buf) /\ f + (x - f + 1) - 1 = x
      BY <1>1
    <3> QED
      BY <1>1, <1>3, <3>1
  <2> QED
    BY <1>1, <2>1, NoBreak DEF Text
\* Where the line ends.
<1> DEFINE e == IF j < N THEN Breaks(t)[j + 1] - 1 ELSE Len(t)
<1>7. e \in 0..Len(t) /\ off <= e
  <2> HIDE DEF off, N, j
  <2>1. CASE j < N
    <3>1. j + 1 \in 1..N
      BY <1>1, <2>1
    <3>2. Breaks(t)[j + 1] \in 1..Len(t) /\ Breaks(t)[j + 1] > off /\ e = Breaks(t)[j + 1] - 1
      BY <1>5, <1>6, <2>1, <3>1
    <3> QED
      BY <1>1, <3>2, SMTT(30)
  <2>2. CASE ~(j < N)
    BY <1>1, <2>2
  <2> QED
    BY <2>1, <2>2
<1>8. line = SubSeq(t, f, e) /\ j < Len(L)
  <2>1. CASE j < N
    <3>1. j + 1 \in 1..N /\ e = Breaks(t)[j + 1] - 1
      BY <1>1, <2>1
    <3>2. L[j + 1] = SubSeq(t, f, e)
      BY <1>4, <3>1
    <3>3. j < Len(L)
      BY <1>1, <1>4, <2>1
    <3> QED
      BY <3>2, <3>3
  <2>2. CASE j = N
    <3>1. f = LineFrom(t, N + 1) /\ f <= Len(t) /\ e = Len(t)
      BY <1>1, <1>2, <2>2
    <3> HIDE DEF f
    <3>2. Len(L) = N + 1 /\ L[j + 1] = SubSeq(t, f, e)
      BY <1>4, <2>2, <3>1
    <3> QED
      BY <1>1, <2>2, <3>2
  <2>3. j < N \/ j = N
    BY <1>1
  <2> QED
    BY <2>1, <2>2, <2>3
<1>9. off = Len(t) => Len(L) = j + 1 /\ buf = line
  <2> SUFFICES ASSUME off = Len(t) PROVE Len(L) = j + 1 /\ buf = line
    OBVIOUS
  <2>1. j = N
    <3>1. j < N => Breaks(t)[j + 1] \in 1..Len(t)
      BY <1>1, <1>5
    <3> QED
      BY <1>1, <1>6, <3>1
  <2>2. e = Len(t) /\ f = LineFrom(t, N + 1) /\ f <= Len(t)
    BY <1>1, <1>2, <2>1
  <2>3. Len(L) = N + 1
    <3> HIDE DEF f, e
    <3> QED
      BY <1>4, <2>2
  <2> QED
    BY <1>1, <1>8, <2>1, <2>2, <2>3
<1> HIDE DEF f, off, buf, N, L, j, e
<1>10. line \in Text /\ Len(line) = e - f + 1 /\ \A x \in 1..(e - f + 1) : line[x] = t[f + x - 1]
  BY <1>1, <1>7, <1>8, TextParts
<1>11. buf = SubSeq(line, 1, Len(buf)) /\ Len(buf) \in 0..Len(line)
  <2>1. Len(buf) \in 0..Len(line)
    BY <1>1, <1>2, <1>7, <1>10
  <2>2. /\ SubSeq(line, 1, Len(buf)) \in Text /\ Len(SubSeq(line, 1, Len(buf))) = Len(buf)
        /\ \A x \in 1..Len(buf) : SubSeq(line, 1, Len(buf))[x] = line[x]
    BY <1>10, <2>1, PrefixFacts
  <2>3. ASSUME NEW x \in 1..Len(buf) PROVE buf[x] = line[x]
    <3>1. x \in 1..(off - f + 1) /\ x \in 1..(e - f + 1)
      BY <1>1, <1>7
    <3> QED
      BY <1>1, <1>10, <3>1
  <2> QED
    BY <1>1, <2>1, <2>2, <2>3, SameSeq DEF Text
<1> QED
  BY <1>8, <1>9, <1>10, <1>11 DEF off, buf, L, j

\* The same with an empty buffer: nothing is left if the text ends there.
LEMMA NoLastLine ==
  ASSUME NEW t \in Text, NEW g \in Seq(Text), NEW s \in Stream, OnCourse(s, t, g),
         s.buf = <<>>, s.off = Len(t)
  PROVE  g = LinesOf(t)
<1> DEFINE f == LineFrom(t, Len(g) + 1)
           N == Len(Breaks(t))
<1>1. /\ Len(t) \in Nat /\ Len(g) \in 0..N /\ N \in Nat
      /\ f \in 1..(Len(t) + 1) /\ Len(s.buf) = s.off - f + 1
  BY StreamPlace
<1>2. f = Len(t) + 1
  <2>1. Len(s.buf) = 0
    BY EmptySeq
  <2> QED
    BY <1>1, <2>1
<1>3. Len(g) = N
  <2> SUFFICES ASSUME Len(g) < N PROVE FALSE
    BY <1>1
  <2>1. t \in Seq(Chars)
    BY DEF Text
  <2>2. Len(g) + 1 \in 1..N /\ Len(g) + 1 \in 1..(N + 1)
    BY <1>1
  <2>3. Breaks(t)[Len(g) + 1] \in 1..Len(t)
    BY <2>1, <2>2, BreakFacts
  <2>4. f <= Breaks(t)[Len(g) + 1]
    BY <2>1, <2>2, LineFromFacts
  <2> QED
    BY <1>1, <1>2, <2>3, <2>4
<1>4. Len(LinesOf(t)) = N
  <2>1. t \in Seq(Chars)
    BY DEF Text
  <2>2. Len(LinesOf(t)) = IF LineFrom(t, N + 1) <= Len(t) THEN N + 1 ELSE N
    BY ONLY <2>1, LinesFacts
  <2>3. LineFrom(t, N + 1) = Len(t) + 1
    BY <1>2, <1>3
  <2> QED
    BY <1>1, <2>2, <2>3
<1>5. LinesOf(t) \in Seq(Text) /\ \A i \in 1..Len(g) : g[i] = LinesOf(t)[i]
  BY CourseLines
<1> QED
  BY <1>3, <1>4, <1>5, SameSeq

LEMMA NothingMore ==
  ASSUME NEW S, NEW g \in Seq(S)
  PROVE  g \o <<>> = g
  OBVIOUS

LEMMA EmptyChunk ==
  ASSUME NEW t \in Text, NEW off \in Nat, Chunk(t, off) = <<>>
  PROVE  off >= Len(t)
<1> DEFINE n == Len(t)
           e == IF off + BufferSize < n THEN off + BufferSize ELSE n
<1>1. n \in Nat /\ BufferSize \in Nat /\ BufferSize > 0
  BY LenProperties, TextAssumption DEF Text
<1>2. SubSeq(t, off + 1, e) = <<>>
  BY DEF Chunk
<1> HIDE DEF n
<1>3. ASSUME off < n PROVE FALSE
  <2>1. off + 1 \in 1..(n + 1) /\ e \in 0..n /\ off + 1 <= e
    BY <1>1, <1>3
  <2> HIDE DEF e
  <2>2. Len(SubSeq(t, off + 1, e)) = e - (off + 1) + 1
    <3>1. off + 1 <= e + 1
      BY <1>1, <2>1
    <3> QED
      BY <2>1, <3>1, TextParts DEF n
  <2>3. Len(SubSeq(t, off + 1, e)) = 0
    BY <1>2, EmptySeq
  <2> QED
    BY <1>1, <2>1, <2>2, <2>3
<1> QED
  BY <1>1, <1>3 DEF n

\* A stream that delivers, at whatever text it is.
LEMMA LineDelivers ==
  ASSUME NEW t \in Text, NEW g \in Seq(Text), NEW s \in Stream, s.state = "good",
         NEW i \in 1..Len(s.buf), FirstNL(s.buf, i),
         NEW r \in Stream, r.off = s.off, r.state = "good",
         r.buf = SubSeq(s.buf, i + 1, Len(s.buf)),
         NEW values, values = <<SubSeq(s.buf, 1, i - 1)>>
  PROVE  /\ Exactly(s, t, g) => Exactly(r, t, g \o values)
         /\ Partly(s, t, g) => Partly(r, t, g \o values)
<1> SUFFICES ASSUME OnCourse(s, t, g)
             PROVE  OnCourse(r, t, g \o values) /\ CutPrefix(g \o values, LinesOf(t))
  BY DEF Exactly, Partly
<1>1. OnCourse(r, t, g \o values)
  BY LineDelivered
<1>2. g \o values \in Seq(Text)
  <2>1. SubSeq(s.buf, 1, i - 1) \in Text
    BY SplitType DEF Stream
  <2> QED
    BY <2>1, OneMore
<1> QED
  BY <1>1, <1>2, CourseLines, BeginningIsCut

LEMMA EndDelivers ==
  ASSUME NEW t \in Text, NEW g \in Seq(Text), NEW s \in Stream, s.state = "good",
         ~HasLine(s.buf),
         NEW r \in Stream, r.state # "good",
         NEW values, values = IF s.buf = <<>> THEN <<>> ELSE <<s.buf>>
  PROVE  /\ Exactly(s, t, g) /\ s.off >= Len(t) => Exactly(r, t, g \o values)
         /\ Partly(s, t, g) => Partly(r, t, g \o values)
<1>0. LinesOf(t) \in Seq(Text) /\ Len(g) \in Nat /\ s.off \in Nat /\ Len(t) \in Nat /\ s.buf \in Text
  <2>1. LinesOf(t) \in Seq(Seq(Chars))
    BY LinesFacts DEF Text
  <2> QED
    BY <2>1, LenProperties DEF Text, Stream
<1>1. CASE s.buf = <<>>
  <2>1. g \o values = g
    BY <1>1, NothingMore
  <2>2. OnCourse(s, t, g) /\ s.off >= Len(t) => g = LinesOf(t)
    <3>1. OnCourse(s, t, g) /\ s.off >= Len(t) => s.off = Len(t)
      BY <1>0 DEF OnCourse
    <3> QED
      BY <1>1, <3>1, NoLastLine
  <2> QED
    BY <2>1, <2>2 DEF Exactly, Partly
<1>2. CASE s.buf # <<>>
  <2> SUFFICES ASSUME OnCourse(s, t, g)
               PROVE  /\ s.off >= Len(t) => g \o values = LinesOf(t)
                      /\ CutPrefix(g \o values, LinesOf(t))
    BY DEF Exactly, Partly
  <2> DEFINE L == LinesOf(t)
             h == g \o values
             line == L[Len(g) + 1]
  <2>1. /\ h \in Seq(Text) /\ Len(h) = Len(g) + 1
        /\ \A x \in 1..Len(g) : h[x] = g[x]
        /\ h[Len(g) + 1] = s.buf
    BY <1>0, <1>2, OneMore
  <2>2. /\ Len(g) < Len(L)
        /\ \E n \in 0..Len(line) : s.buf = SubSeq(line, 1, n)
        /\ s.off = Len(t) => Len(L) = Len(g) + 1 /\ s.buf = line
    <3>1. ASSUME NEW l, l = LinesOf(t)[Len(g) + 1]
          PROVE  /\ Len(g) < Len(LinesOf(t))
                 /\ \E n \in 0..Len(l) : s.buf = SubSeq(l, 1, n)
                 /\ s.off = Len(t) => Len(LinesOf(t)) = Len(g) + 1 /\ s.buf = l
      BY <1>2, <3>1, LastLine
    <3> HIDE DEF line
    <3>2. line = LinesOf(t)[Len(g) + 1]
      BY DEF line
    <3> QED
      BY <3>1, <3>2
  <2>3. Len(L) \in Nat /\ \A x \in 1..Len(g) : g[x] = L[x]
    BY CourseLines
  <2> HIDE DEF L, h
  <2>4. s.off >= Len(t) => h = L
    <3> SUFFICES ASSUME s.off >= Len(t) PROVE h = L
      OBVIOUS
    <3>1. s.off = Len(t)
      BY <1>0 DEF OnCourse
    <3>2. \A x \in 1..Len(h) : x \in 1..Len(g) \/ x = Len(g) + 1
      BY <1>0, <2>1
    <3>3. \A x \in 1..Len(h) : h[x] = L[x]
      BY <2>1, <2>2, <2>3, <3>1, <3>2
    <3>4. Len(h) = Len(L)
      BY <2>1, <2>2, <3>1
    <3> QED
      BY <1>0, <2>1, <3>3, <3>4, SameSeq DEF L
  <2>5. CutPrefix(h, L)
    <3>1. Len(h) <= Len(L)
      BY <1>0, <2>1, <2>2, <2>3
    <3>2. \A x \in 1..(Len(h) - 1) : h[x] = L[x]
      BY <1>0, <2>1, <2>3
    <3>3. \E n \in 0..Len(L[Len(h)]) : h[Len(h)] = SubSeq(L[Len(h)], 1, n)
      BY <2>1, <2>2
    <3> QED
      BY <3>1, <3>2, <3>3 DEF CutPrefix
  <2> QED
    BY <2>4, <2>5 DEF h, L
<1> QED
  BY <1>1, <1>2

\* Every step that delivers a value or none keeps a stream on the lines of its file,
\* if the file is as the stream has it, and of every text it is partly through.
LEMMA ReadingKeepsLines ==
  ASSUME FilesOK, QueriesOK, NEW q \in Queries, Reading(q)
  PROVE  /\ qpc[q] = "read"
         /\ \E s \in Stream : \E values \in Seq(Text) :
              /\ Advance(q, s, values)
              /\ \/ values = <<>> /\ s.state = "fail"
                 \/ Len(values) = 1 /\ s.state # "fail"
              /\ \A t \in Text : \A g \in Seq(Text) :
                    /\ t = CurrentText(q) /\ Exactly(Current(q), t, g) => Exactly(s, t, g \o values)
                    /\ Partly(Current(q), t, g) => Partly(s, t, g \o values)
<1>1. qpc[q] = "read" /\ Current(q).state # "fail"
  BY DEF Reading, GetLine, EndOfFile, GetLineAfterEof
<1> DEFINE c == Current(q)
<1>2. /\ c \in Stream /\ c.buf \in Text /\ c.off \in Nat /\ CurrentText(q) \in Text
      /\ <<>> \in Seq(Text) /\ <<>> \in Text
  BY <1>1, CurrentType, EmptySeq DEF Stream, Text
<1>3. CASE GetLine(q)
  <2>1. PICK i \in 1..Len(c.buf) :
            /\ FirstNL(c.buf, i)
            /\ Advance(q, [c EXCEPT !.buf = SubSeq(c.buf, i + 1, Len(c.buf))],
                       <<SubSeq(c.buf, 1, i - 1)>>)
    BY <1>3 DEF GetLine
  <2> DEFINE s == [c EXCEPT !.buf = SubSeq(c.buf, i + 1, Len(c.buf))]
             v == <<SubSeq(c.buf, 1, i - 1)>>
  <2>2. SubSeq(c.buf, 1, i - 1) \in Text /\ SubSeq(c.buf, i + 1, Len(c.buf)) \in Text
    BY <1>2, SplitType
  <2>3. /\ s \in Stream /\ s.state = c.state /\ s.off = c.off
        /\ s.buf = SubSeq(c.buf, i + 1, Len(c.buf)) /\ c.state = "good"
    BY <1>2, <1>3, <2>2 DEF Stream, GetLine
  <2>4. v \in Seq(Text) /\ Len(v) = 1 /\ s.state # "fail"
    BY <2>2, <2>3
  <2> HIDE DEF s, c
  <2>5. \A t \in Text : \A g \in Seq(Text) :
            /\ Exactly(c, t, g) => Exactly(s, t, g \o v)
            /\ Partly(c, t, g) => Partly(s, t, g \o v)
    BY <1>2, <2>1, <2>3, LineDelivers
  <2> QED
    BY <1>1, <2>1, <2>4, <2>3, <2>5 DEF s, c
<1>4. CASE EndOfFile(q)
  <2>1. /\ c.state = "good" /\ ~HasLine(c.buf) /\ Chunk(CurrentText(q), c.off) = <<>>
        /\ c.off >= Len(CurrentText(q))
    BY <1>2, <1>4, EmptyChunk DEF EndOfFile
  <2> DEFINE s == IF c.buf = <<>> THEN [c EXCEPT !.state = "fail"]
                  ELSE [c EXCEPT !.state = "eof", !.buf = <<>>]
             v == IF c.buf = <<>> THEN <<>> ELSE <<c.buf>>
  <2>2. Advance(q, s, v)
    BY <1>4 DEF EndOfFile
  <2>3. s \in Stream /\ s.state = IF c.buf = <<>> THEN "fail" ELSE "eof"
    BY <1>2 DEF Stream
  <2>4. v \in Seq(Text)
    BY <1>2
  <2>5. \/ v = <<>> /\ s.state = "fail"
        \/ Len(v) = 1 /\ s.state # "fail"
    <3> HIDE DEF s, c
    <3>1. CASE c.buf = <<>>
      <4>1. v = <<>>
        BY <3>1
      <4> HIDE DEF v
      <4>2. s.state = "fail"
        BY <2>3, <3>1
      <4> QED
        BY <4>1, <4>2
    <3>2. CASE c.buf # <<>>
      <4>1. Len(<<c.buf>>) = 1
        OBVIOUS
      <4>2. v = <<c.buf>> /\ s.state = "eof"
        BY <2>3, <3>2
      <4> QED
        BY <4>1, <4>2
    <3> QED
      BY <3>1, <3>2
  <2> HIDE DEF c, s
  <2>6. \A t \in Text : \A g \in Seq(Text) :
            /\ t = CurrentText(q) /\ Exactly(c, t, g) => Exactly(s, t, g \o v)
            /\ Partly(c, t, g) => Partly(s, t, g \o v)
    BY <1>2, <2>1, <2>3, EndDelivers
  <2> HIDE DEF v
  <2> QED
    BY <1>1, <2>2, <2>3, <2>4, <2>5, <2>6 DEF c
<1>5. CASE GetLineAfterEof(q)
  <2> DEFINE s == [c EXCEPT !.state = "fail"]
  <2>1. Advance(q, s, <<>>) /\ c.state = "eof"
    BY <1>5 DEF GetLineAfterEof
  <2>2. s \in Stream /\ s.state = "fail"
    BY <1>2 DEF Stream
  <2> HIDE DEF c, s
  <2>3. \A t \in Text : \A g \in Seq(Text) :
            /\ Exactly(c, t, g) => Exactly(s, t, g \o <<>>)
            /\ Partly(c, t, g) => Partly(s, t, g \o <<>>)
    BY <2>1, <2>2, NothingMore DEF Exactly, Partly
  <2> QED
    BY <1>1, <1>2, <2>1, <2>2, <2>3 DEF c
<1> QED
  BY <1>3, <1>4, <1>5 DEF Reading

\* A stream that has just been opened.
LEMMA NewStream ==
  ASSUME NEW t \in Text, NEW s, s = [state |-> "good", off |-> 0, buf |-> <<>>]
  PROVE  s \in Stream /\ Exactly(s, t, <<>>) /\ Partly(s, t, <<>>)
<1>1. /\ Len(t) \in Nat /\ Len(Breaks(t)) \in Nat /\ LinesOf(t) \in Seq(Text)
      /\ <<>> \in Text /\ <<>> \in Seq(Text) /\ Len(<<>>) = 0
  <2>1. t \in Seq(Chars)
    BY DEF Text
  <2>2. LinesOf(t) \in Seq(Seq(Chars)) /\ Len(Breaks(t)) \in Nat
    BY <2>1, LinesFacts, BreakFacts
  <2> QED
    BY <2>2, LenProperties, EmptySeq DEF Text
<1>2. s \in Stream
  BY <1>1 DEF Stream
<1>3. SubSeq(t, 1, 0) = <<>>
  BY <1>1, PrefixFacts, EmptySeq DEF Text
<1>4. OnCourse(s, t, <<>>)
  <2>1. LineFrom(t, Len(<<>>) + 1) = 1
    BY <1>1 DEF LineFrom
  <2> QED
    BY <1>1, <1>3, <2>1 DEF OnCourse
<1>5. CutPrefix(<<>>, LinesOf(t))
  <2>1. Len(LinesOf(t)) \in Nat
    BY <1>1, LenProperties
  <2>2. Len(<<>>) <= Len(LinesOf(t)) /\ \A i \in 1..Len(<<>>) : <<>>[i] = LinesOf(t)[i]
    BY <1>1, <2>1
  <2>3. <<>> \in Seq(Text) /\ LinesOf(t) \in Seq(Text)
    BY <1>1
  <2> QED
    BY ONLY <2>2, <2>3, BeginningIsCut
<1> QED
  BY <1>2, <1>4, <1>5 DEF Exactly, Partly

\* No step of a query leads one of its streams off the lines.
LEMMA StreamSteps ==
  ASSUME FilesOK, QueriesOK, NEW q \in Queries, StartQuery(q) \/ QueryStep(q),
         NEW k \in 1..Width(q), NEW t \in Text, NEW file, file = text[select[q][k]]
  PROVE  /\ t = file /\ ReadsExactly(streams[q], k, t, got[q])
              => ReadsExactly(streams'[q], k, t, got'[q])
         /\ Len(file) <= Len(t) /\ file = SubSeq(t, 1, Len(file))
              /\ ReadsPartly(streams[q], k, t, got[q])
              => ReadsPartly(streams'[q], k, t, got'[q])
<1>0. /\ streams[q] \in Seq(Stream) /\ DOMAIN streams[q] = 1..Len(streams[q])
      /\ Len(streams[q]) \in Nat
      /\ got[q] \in Seq(Seq(Text)) /\ Len(got[q]) = Width(q)
      /\ select[q] \in Seq(FileNames) /\ Width(q) \in Nat
      /\ file \in Text
  <2>1. select[q] \in Seq(FileNames)
    BY RequestsAssumption DEF QueriesOK
  <2>2. select[q][k] \in FileNames
    BY <2>1, ElementOfSeq DEF Width
  <2> QED
    BY <2>1, <2>2, LenProperties DEF QueriesOK, Width, FilesOK
<1>1. CASE UNCHANGED <<streams, got>>
  BY <1>1
<1>2. CASE OpenFile(q)
  <2> DEFINE s == [state |-> "good", off |-> 0, buf |-> <<>>]
  <2>1. s \in Stream /\ Exactly(s, t, <<>>) /\ Partly(s, t, <<>>)
    BY NewStream
  <2>2. CASE select[q][qi[q]] \in exists
    <3>1. streams'[q] = Append(streams[q], s) /\ got' = got
      BY <1>2, <2>2 DEF OpenFile, QueriesOK
    <3> HIDE DEF s
    <3>2. /\ DOMAIN streams'[q] = 1..(Len(streams[q]) + 1)
          /\ \A i \in 1..Len(streams[q]) : streams'[q][i] = streams[q][i]
          /\ streams'[q][Len(streams[q]) + 1] = s
      BY <1>0, <2>1, <3>1
    <3>3. CASE k \in DOMAIN streams[q]
      BY <1>0, <3>1, <3>2, <3>3 DEF ReadsExactly, ReadsPartly
    <3>4. CASE k = Len(streams[q]) + 1
      <4>1. k \notin DOMAIN streams[q] /\ k \in DOMAIN streams'[q] /\ streams'[q][k] = s
        BY <1>0, <3>2, <3>4
      <4> QED
        BY <2>1, <3>1, <4>1 DEF ReadsExactly, ReadsPartly
    <3>5. CASE k > Len(streams[q]) + 1
      <4>1. k \notin DOMAIN streams[q] /\ k \notin DOMAIN streams'[q]
        BY <1>0, <3>2, <3>5
      <4> QED
        BY <3>1, <4>1 DEF ReadsExactly, ReadsPartly
    <3>6. k \in DOMAIN streams[q] \/ k = Len(streams[q]) + 1 \/ k > Len(streams[q]) + 1
      BY <1>0
    <3> QED
      BY <3>3, <3>4, <3>5, <3>6
  <2>3. CASE select[q][qi[q]] \notin exists
    BY <1>1, <1>2, <2>3 DEF OpenFile
  <2> QED
    BY <2>2, <2>3
<1>3. CASE ReadBuffer(q)
  <2> DEFINE c == Current(q)
             chunk == Chunk(CurrentText(q), c.off)
             r == [c EXCEPT !.buf = c.buf \o chunk, !.off = c.off + Len(chunk)]
  <2>1. qpc[q] = "read" /\ c.state = "good" /\ chunk # <<>> /\ got' = got
    BY <1>3 DEF ReadBuffer
  <2>2. /\ qi[q] \in 1..Width(q) /\ c \in Stream /\ CurrentText(q) \in Text
        /\ Len(streams[q]) = Width(q)
    BY <2>1, CurrentType
  <2>3. c.off \in Nat /\ chunk \in Text /\ Len(chunk) \in Nat /\ c.buf \in Text
    <3>1. c.off \in Nat /\ c.buf \in Text
      BY <2>2 DEF Stream
    <3> HIDE DEF c
    <3>2. chunk \in Text
      BY <2>2, <3>1, ChunkType
    <3> QED
      BY <3>1, <3>2, LenProperties DEF Text
  <2>4. /\ r \in Stream /\ r.state = "good" /\ r.off = c.off + Len(chunk)
        /\ r.buf = c.buf \o chunk
    <3>1. c.buf \o chunk \in Text /\ c.off + Len(chunk) \in Nat
      BY <2>3, ConcatProperties DEF Text
    <3> QED
      BY <2>1, <2>2, <3>1 DEF Stream
  <2>5. streams' = [streams EXCEPT ![q] = [streams[q] EXCEPT ![qi[q]] = r]]
    BY <1>3 DEF ReadBuffer, Current
  <2> HIDE DEF r
  <2>6. /\ DOMAIN streams'[q] = DOMAIN streams[q]
        /\ \A i \in DOMAIN streams[q] : streams'[q][i] = IF i = qi[q] THEN r ELSE streams[q][i]
    BY <1>0, <2>5 DEF QueriesOK
  <2>7. CASE k # qi[q]
    BY <2>1, <2>6, <2>7 DEF ReadsExactly, ReadsPartly
  <2>8. CASE k = qi[q]
    <3>1. file = CurrentText(q) /\ c = streams[q][k] /\ k \in DOMAIN streams[q]
          /\ streams'[q][k] = r
      BY <1>0, <2>2, <2>6, <2>8 DEF CurrentText, Current
    <3>2. got[q][k] \in Seq(Text)
      BY <1>0, ElementOfSeq
    <3>3. ASSUME OnCourse(c, t, got[q][k]), Len(file) <= Len(t), file = SubSeq(t, 1, Len(file))
          PROVE  OnCourse(r, t, got[q][k])
      <4> HIDE DEF c
      <4>1. Chunk(file, c.off) # <<>> /\ r.off = c.off + Len(Chunk(file, c.off))
            /\ r.buf = c.buf \o Chunk(file, c.off)
        BY <2>1, <2>4, <3>1
      <4> HIDE DEF chunk
      <4> QED
        BY <1>0, <2>2, <2>4, <3>2, <3>3, <4>1, RefillStays
    <3>4. t = file => Len(file) <= Len(t) /\ file = SubSeq(t, 1, Len(file))
      <4>1. Len(t) \in Nat /\ SubSeq(t, 1, Len(t)) = t
        BY WholeText, LenProperties DEF Text
      <4> QED
        BY <4>1
    <3> HIDE DEF c, chunk
    <3> QED
      BY <2>1, <2>4, <2>6, <3>1, <3>3, <3>4 DEF ReadsExactly, ReadsPartly, Exactly, Partly
  <2> QED
    BY <2>7, <2>8
<1>4. CASE Reading(q)
  <2>1. qpc[q] = "read"
    BY <1>4, ReadingKeepsLines
  <2>2. PICK s \in Stream, values \in Seq(Text) :
              /\ Advance(q, s, values)
              /\ \A u \in Text : \A g \in Seq(Text) :
                    /\ u = CurrentText(q) /\ Exactly(Current(q), u, g) => Exactly(s, u, g \o values)
                    /\ Partly(Current(q), u, g) => Partly(s, u, g \o values)
    BY <1>4, ReadingKeepsLines
  <2>3. /\ streams'[q] \in Seq(Stream) /\ Len(streams'[q]) = Width(q)
        /\ \A i \in 1..Width(q) :
                streams'[q][i] = IF i = qi[q] THEN s ELSE streams[q][i]
        /\ \A i \in 1..Width(q) :
                got'[q][i] = IF i = qi[q] THEN got[q][i] \o values ELSE got[q][i]
    BY <2>1, <2>2, AdvanceEffect
  <2>4. k \in DOMAIN streams'[q] /\ k \in DOMAIN streams[q] /\ got[q][k] \in Seq(Text)
    BY <1>0, <2>1, <2>3, LenProperties, ElementOfSeq DEF QueriesOK, Width
  <2>5. CASE k # qi[q]
    BY <2>3, <2>4, <2>5 DEF ReadsExactly, ReadsPartly
  <2>6. CASE k = qi[q]
    <3>1. file = CurrentText(q) /\ Current(q) = streams[q][k]
      BY <2>6 DEF CurrentText, Current
    <3>2. streams'[q][k] = s /\ got'[q][k] = got[q][k] \o values
      BY <2>3, <2>6
    <3> QED
      BY <2>2, <2>4, <3>1, <3>2 DEF ReadsExactly, ReadsPartly
  <2> QED
    BY <2>5, <2>6
<1>5. CASE StartQuery(q) \/ StopReading(q)
  BY <1>1, <1>5 DEF StartQuery, StopReading
<1> QED
  BY <1>2, <1>3, <1>4, <1>5 DEF QueryStep, Reading

-----------------------------------------------------------------------------
(* The files of the first import.                                           *)

LEMMA ImportGrows ==
  ASSUME FilesOK, ImportsOK, NEW m \in Imports, CreateDirectories(m) \/ ImportStep(m),
         NEW i \in DOMAIN Cols(m), OwnFile(m, i), Growing(m, i)
  PROVE  Growing(m, i)'
<1> DEFINE u == upload[m]
           c == u.cols[i]
           d == u.data[i]
<1>0. /\ DOMAIN u.cols = 1..Len(u.cols) /\ Len(u.cols) \in Nat
      /\ i \in DOMAIN u.cols /\ c \in FileNames /\ d \in Text /\ Len(d) \in Nat
      /\ c # ColumnsTxt /\ c # CountTxt
      /\ \A j \in DOMAIN u.cols : j # i => u.cols[j] # c
      /\ text \in [FileNames -> Text] /\ ioff[m] \in Nat
      /\ <<>> \in Text /\ Len(<<>>) = 0 /\ SubSeq(d, 1, 0) = <<>>
  <2>1. i \in DOMAIN u.cols
    BY DEF Cols
  <2>2. c \in FileNames /\ d \in Text /\ Len(d) \in Nat
    BY <2>1, UploadType, LenProperties DEF Text
  <2>3. SubSeq(d, 1, 0) = <<>>
    <3> HIDE DEF d
    <3> QED
      BY <2>2, PrefixFacts, EmptySeq DEF Text
  <2> QED
    BY <2>1, <2>2, <2>3, UploadType, EmptySeq DEF OwnFile, Cols, FilesOK, ImportsOK, Text
<1>1. /\ Len(text[c]) <= Len(d) /\ text[c] = SubSeq(d, 1, Len(text[c]))
      /\ ipc[m] = "write" /\ icol[m] = i => Len(text[c]) = ioff[m]
  BY DEF Growing, Cols
<1>2. SUFFICES /\ upload' = upload
               /\ Len(text'[c]) <= Len(d) /\ text'[c] = SubSeq(d, 1, Len(text'[c]))
               /\ ipc'[m] = "write" /\ icol'[m] = i => Len(text'[c]) = ioff'[m]
  <2> HIDE DEF c, d
  <2> QED
    BY DEF Growing, Cols, c, d
<1> HIDE DEF c, d
<1>3. CASE CreateDirectories(m)
  BY <1>1, <1>3 DEF CreateDirectories, ImportsOK
<1>4. CASE OpenColumnsTxt(m)
  BY <1>0, <1>1, <1>4 DEF OpenColumnsTxt, Truncate, ImportsOK
<1>5. CASE OpenColumn(m)
  <2>1. /\ upload' = upload /\ icol' = icol /\ icol[m] \in DOMAIN u.cols
        /\ text' = [text EXCEPT ![u.cols[icol[m]]] = <<>>] /\ ioff'[m] = 0
    BY <1>0, <1>5 DEF OpenColumn, Truncate, Cols, ImportsOK
  <2>2. CASE icol[m] = i
    <3>1. text'[c] = <<>>
      BY <1>0, <2>1, <2>2 DEF c
    <3>2. Len(text'[c]) = 0
      BY <1>0, <3>1
    <3>3. text'[c] = SubSeq(d, 1, Len(text'[c]))
      BY <1>0, <3>1, <3>2
    <3> QED
      BY <1>0, <2>1, <3>2, <3>3
  <2>3. CASE icol[m] # i
    <3>1. text'[c] = text[c]
      BY <1>0, <2>1, <2>3
    <3> QED
      BY <1>1, <2>1, <2>3, <3>1
  <2> QED
    BY <2>2, <2>3
<1>6. CASE SkipColumn(m)
  BY <1>1, <1>6 DEF SkipColumn, files
<1>7. CASE WriteColumn(m)
  <2>1. /\ ipc[m] = "write" /\ icol[m] \in DOMAIN u.cols /\ upload' = upload /\ icol' = icol
        /\ ioff[m] <= Len(u.data[icol[m]])
    BY <1>7 DEF WriteColumn, ImportsOK
  <2>2. PICK n \in 1..Len(Remaining(m)) :
            /\ text' = [text EXCEPT ![u.cols[icol[m]]] =
                            WriteAt(text[u.cols[icol[m]]], ioff[m], SubSeq(Remaining(m), 1, n))]
            /\ ioff' = [ioff EXCEPT ![m] = ioff[m] + n]
    BY <1>7 DEF WriteColumn, Cols
  <2>3. CASE icol[m] # i
    <3>1. text'[c] = text[c]
      BY <1>0, <2>1, <2>2, <2>3
    <3> QED
      BY <1>1, <2>1, <2>3, <3>1
  <2>4. CASE icol[m] = i
    <3>1. Remaining(m) = SubSeq(d, ioff[m] + 1, Len(d)) /\ ioff[m] \in 0..Len(d)
      BY <1>0, <2>1, <2>4 DEF Remaining, d
    <3>2. n \in 1..(Len(d) - ioff[m])
      BY <1>0, <3>1, RestType
    <3>3. WriteAt(SubSeq(d, 1, ioff[m]), ioff[m], SubSeq(SubSeq(d, ioff[m] + 1, Len(d)), 1, n))
            = SubSeq(d, 1, ioff[m] + n)
      BY <1>0, <3>1, <3>2, WriteGoesOn
    <3>4. text[c] = SubSeq(d, 1, ioff[m])
      BY <1>1, <2>1, <2>4
    <3>5. text'[c] = SubSeq(d, 1, ioff[m] + n)
      <4>1. u.cols[icol[m]] = c
        BY <2>4 DEF c
      <4> QED
        BY <1>0, <2>2, <3>1, <3>3, <3>4, <4>1
    <3>6. ioff[m] + n \in 0..Len(d) /\ ioff'[m] = ioff[m] + n
      BY <1>0, <2>2, <3>1, <3>2, SMTT(30) DEF ImportsOK
    <3>7. Len(text'[c]) = ioff[m] + n
      BY <1>0, <3>5, <3>6, PrefixFacts
    <3> QED
      BY <1>0, <2>1, <3>5, <3>6, <3>7
  <2> QED
    BY <2>3, <2>4
<1>8. CASE CloseColumn(m)
  BY <1>1, <1>8 DEF CloseColumn, files, ImportsOK
<1>9. CASE OpenCount(m)
  BY <1>0, <1>1, <1>9 DEF OpenCount, Truncate, ImportsOK
<1>10. CASE FlushCount(m)
  BY <1>0, <1>1, <1>10 DEF FlushCount, ImportsOK
<1>11. CASE FlushHeader(m)
  BY <1>0, <1>1, <1>11 DEF FlushHeader, ImportsOK
<1> QED
  BY <1>3, <1>4, <1>5, <1>6, <1>7, <1>8, <1>9, <1>10, <1>11 DEF ImportStep

LEMMA InitFirstInv == TypeOK /\ Init => FirstInv
<1> SUFFICES ASSUME TypeOK, Init, NEW m \in Imports, NEW i \in DOMAIN Cols(m), OwnFile(m, i)
             PROVE  /\ Growing(m, i)
                    /\ \A q \in Queries : \A k \in 1..Width(q) :
                          ReadsPartly(streams[q], k, upload[m].data[i], got[q])
  BY DEF FirstInv
<1>1. upload[m].cols[i] \in FileNames /\ upload[m].data[i] \in Text /\ Len(upload[m].data[i]) \in Nat
  BY UploadType, LenProperties DEF TypeOK, Cols, Text
<1>2. SubSeq(upload[m].data[i], 1, 0) = <<>> /\ Len(<<>>) = 0
  BY <1>1, PrefixFacts, EmptySeq DEF Text
<1>3. Growing(m, i)
  BY <1>1, <1>2 DEF Init, Growing, Cols
<1>4. ASSUME NEW q \in Queries, NEW k \in 1..Width(q)
      PROVE  ReadsPartly(streams[q], k, upload[m].data[i], got[q])
  <2>1. k \in DOMAIN select[q]
    BY RequestsAssumption, LenProperties DEF TypeOK, QueriesOK, Width
  <2>2. streams[q] = <<>> /\ got[q][k] = <<>>
    BY <2>1 DEF Init
  <2> QED
    BY <2>2 DEF ReadsPartly
<1> QED
  BY <1>3, <1>4

LEMMA NextFirstInv == TypeOK /\ FirstInv /\ [Next]_vars => FirstInv'
<1> SUFFICES ASSUME TypeOK, FirstInv, [Next]_vars,
                    NEW m \in Imports, Alone(m)', NEW i \in DOMAIN Cols(m)', OwnFile(m, i)'
             PROVE  /\ Growing(m, i)'
                    /\ \A q \in Queries : \A k \in 1..Width(q)' : select'[q][k] = Cols(m)'[i] =>
                          ReadsPartly(streams'[q], k, upload'[m].data[i], got'[q])
  BY DEF FirstInv
<1>0. FilesOK /\ ImportsOK /\ QueriesOK
  BY DEF TypeOK
<1>1. /\ upload' = upload /\ select' = select /\ Cols(m)' = Cols(m)
      /\ (OwnFile(m, i) <=> OwnFile(m, i)') /\ (\A q \in Queries : Width(q)' = Width(q))
  <2>1. upload' = upload /\ select' = select
    BY ZenonT(40) DEF Next, vars, ivars, qvars, CreateDirectories, ImportStep, OpenColumnsTxt, OpenColumn,
           SkipColumn, WriteColumn, CloseColumn, OpenCount, FlushCount, FlushHeader, StartQuery,
           QueryStep, OpenFile, ReadBuffer, GetLine, EndOfFile, GetLineAfterEof, Advance,
           StopReading, Crash
  <2> QED
    BY <2>1 DEF Cols, OwnFile, Width
<1>2. i \in DOMAIN Cols(m) /\ OwnFile(m, i)
  BY <1>1
<1> DEFINE d == upload[m].data[i]
           Before == /\ Growing(m, i)
                     /\ \A q \in Queries : \A k \in 1..Width(q) : select[q][k] = Cols(m)[i] =>
                           ReadsPartly(streams[q], k, d, got[q])
           After == /\ Growing(m, i)'
                    /\ \A q \in Queries : \A k \in 1..Width(q) : select[q][k] = Cols(m)[i] =>
                          ReadsPartly(streams'[q], k, d, got'[q])
<1>3. Alone(m) => Before
  BY <1>2 DEF FirstInv
<1>4. SUFFICES After
  BY <1>1
<1> HIDE DEF d
<1>5. ASSUME NEW o \in Imports, CreateDirectories(o) \/ ImportStep(o) PROVE After
  <2>1. ipc'[o] # "idle" /\ \A p \in Imports : p # o => ipc'[p] = ipc[p]
    BY <1>0, <1>5 DEF ImportsOK, CreateDirectories, ImportStep, OpenColumnsTxt, OpenColumn,
           SkipColumn, WriteColumn, CloseColumn, OpenCount, FlushCount, FlushHeader
  <2>2. o = m
    BY <2>1 DEF Alone
  <2>3. Alone(m)
    BY <2>1, <2>2 DEF Alone
  <2>4. UNCHANGED <<streams, got>>
    BY <1>5 DEF CreateDirectories, ImportStep, OpenColumnsTxt, OpenColumn, SkipColumn,
                WriteColumn, CloseColumn, OpenCount, FlushCount, FlushHeader, qvars
  <2>5. Growing(m, i)'
    BY <1>0, <1>2, <1>3, <1>5, <2>2, <2>3, ImportGrows
  <2> QED
    BY <1>3, <2>3, <2>4, <2>5
<1>6. ASSUME NEW p \in Queries, StartQuery(p) \/ QueryStep(p) PROVE After
  <2>1. UNCHANGED <<text, ipc, icol, ioff, upload>>
    BY <1>6, QueryLeavesFiles DEF files, ivars
  <2>2. Alone(m)
    BY <2>1 DEF Alone
  <2>3. Growing(m, i)'
    BY <1>3, <2>1, <2>2 DEF Growing, Cols
  <2>4. ASSUME NEW q \in Queries, NEW k \in 1..Width(q), select[q][k] = Cols(m)[i]
        PROVE  ReadsPartly(streams'[q], k, d, got'[q])
    <3>1. ReadsPartly(streams[q], k, d, got[q])
      BY <1>3, <2>2, <2>4
    <3>2. CASE q = p
      <4>1. d \in Text
        BY <1>0, <1>2, UploadType DEF Cols, d
      <4>2. Len(text[select[q][k]]) <= Len(d)
            /\ text[select[q][k]] = SubSeq(d, 1, Len(text[select[q][k]]))
        BY <1>3, <2>2, <2>4 DEF Growing, d
      <4> QED
        BY <1>0, <1>6, <3>1, <3>2, <4>1, <4>2, StreamSteps
    <3>3. CASE q # p
      BY <1>0, <1>6, <3>1, <3>3, OtherQueries
    <3> QED
      BY <3>2, <3>3
  <2> QED
    BY <2>3, <2>4
<1>7. CASE Crash
  <2>1. /\ UNCHANGED <<text, upload, icol, ioff, streams, got>>
        /\ ipc' = [o \in Imports |-> IF o \in Writing THEN "crashed" ELSE ipc[o]]
    BY <1>7 DEF Crash, files
  <2>2. Alone(m) /\ ipc'[m] # "write"
    BY <2>1 DEF Alone, Writing
  <2>3. Growing(m, i)'
    BY <1>3, <2>1, <2>2 DEF Growing, Cols
  <2> QED
    BY <1>3, <2>1, <2>2, <2>3
<1>8. CASE UNCHANGED vars
  <2>1. UNCHANGED <<text, upload, ipc, icol, ioff, streams, got>>
    BY <1>8 DEF vars, files, ivars, qvars
  <2>2. Alone(m)
    BY <2>1 DEF Alone
  <2>3. Growing(m, i)'
    BY <1>3, <2>1, <2>2 DEF Growing, Cols
  <2> QED
    BY <1>3, <2>1, <2>2, <2>3
<1> QED
  BY <1>5, <1>6, <1>7, <1>8 DEF Next

(* While a table's first import runs, after it, and after a kill that cut it *)
(* off, every query reads of every column of its own file a prefix of the    *)
(* uploaded values, at worst with the last one cut short: no order of opens, *)
(* partial writes and refills of any size shows it anything else.            *)
THEOREM FirstImportSeenInPrefixes == Spec => []FirstImportReadsPrefix
<1>1. TypeOK /\ FirstInv => FirstImportReadsPrefix
  <2> SUFFICES ASSUME TypeOK, FirstInv, NEW m \in Imports, NEW q \in Queries,
                      \A o \in Imports \ {m} : ipc[o] = "idle",
                      NEW k \in DOMAIN select[q], NEW i \in DOMAIN Cols(m),
                      Cols(m)[i] = select[q][k],
                      Cols(m)[i] \notin {ColumnsTxt, CountTxt},
                      \A j \in DOMAIN Cols(m) : Cols(m)[j] = Cols(m)[i] => j = i
               PROVE  CutPrefix(got[q][k], LinesOf(upload[m].data[i]))
    BY DEF FirstImportReadsPrefix
  <2>1. k \in 1..Width(q)
    BY RequestsAssumption, LenProperties DEF TypeOK, QueriesOK, Width
  <2>2. ReadsPartly(streams[q], k, upload[m].data[i], got[q])
    BY <2>1 DEF FirstInv, Alone, OwnFile
  <2>3. upload[m].data[i] \in Text
    BY UploadType DEF TypeOK, Cols
  <2>4. CutPrefix(<<>>, LinesOf(upload[m].data[i]))
    BY <2>3, NewStream DEF Partly
  <2> QED
    BY <2>2, <2>4 DEF ReadsPartly, Partly
<1> QED
  BY <1>1, InitFirstInv, NextFirstInv, TypeCorrect, PTL DEF Spec

-----------------------------------------------------------------------------
(* A query that nobody disturbs: the rows.                                  *)

\* The next stream has a line for the row, or has none.
LEMMA RowGrows ==
  ASSUME NEW W \in Nat, NEW l \in [1..W -> Seq(Text)], NEW i \in 1..W, NEW b \in Nat
  PROVE  /\ Len(l[i]) > b => RowOf(l, i + 1, b) = Append(RowOf(l, i, b), l[i][b + 1])
         /\ ~(Len(l[i]) > b) => RowOf(l, i + 1, b) = RowOf(l, i, b)
<1> DEFINE F == Fuller(l, i, b)
           G == Fuller(l, i + 1, b)
<1>1. \A k : k \in 1..(i + 1 - 1) <=> (k \in 1..(i - 1) \/ k = i)
  OBVIOUS
<1>2. ASSUME ~(Len(l[i]) > b) PROVE RowOf(l, i + 1, b) = RowOf(l, i, b)
  <2>1. G = F
    BY <1>1, <1>2 DEF Fuller
  <2> QED
    BY <2>1 DEF RowOf
<1>3. ASSUME Len(l[i]) > b PROVE RowOf(l, i + 1, b) = Append(RowOf(l, i, b), l[i][b + 1])
  <2>1. G = F \union {i}
    BY <1>1, <1>3 DEF Fuller
  <2>2. F \in SUBSET (1..(i - 1))
    BY DEF Fuller
  <2>3. F \in SUBSET Int /\ IsFiniteSet(F) /\ i \in Int /\ \A x \in F : x < i
    <3>1. IsFiniteSet(1..(i - 1))
      BY FS_Interval
    <3> HIDE DEF F
    <3>2. IsFiniteSet(F)
      BY <2>2, <3>1, FS_Subset
    <3> QED
      BY <2>2, <3>2
  <2> DEFINE M == [x \in F \union {i} |-> l[x][b + 1]]
             t == Increasing(F)
  <2> HIDE DEF F, G
  <2>4. Increasing(G) = Append(t, i)
    BY <2>1, <2>3, IncreasingAppend
  <2>5. t \in Seq(F)
    BY <2>3, IncreasingFacts
  <2> HIDE DEF t
  <2>6. t \in Seq(F \union {i}) /\ Append(t, i) \in Seq(F \union {i})
        /\ (\A x \in DOMAIN t : t[x] \in F \union {i})
        /\ (\A x \in DOMAIN Append(t, i) : Append(t, i)[x] \in F \union {i})
    BY <2>5
  <2>7. RowOf(l, i, b) = [x \in DOMAIN t |-> M[t[x]]]
    <3>1. RowOf(l, i, b) = [x \in DOMAIN t |-> l[t[x]][b + 1]]
      BY DEF RowOf, F, t
    <3>2. \A x \in DOMAIN t : M[t[x]] = l[t[x]][b + 1]
      BY <2>6
    <3> HIDE DEF M
    <3> QED
      BY <3>1, <3>2
  <2>8. RowOf(l, i + 1, b) = [x \in DOMAIN Append(t, i) |-> M[Append(t, i)[x]]]
    <3>1. RowOf(l, i + 1, b) = [x \in DOMAIN Append(t, i) |-> l[Append(t, i)[x]][b + 1]]
      BY <2>4 DEF RowOf, G
    <3>2. \A x \in DOMAIN Append(t, i) : M[Append(t, i)[x]] = l[Append(t, i)[x]][b + 1]
      BY <2>6
    <3> HIDE DEF M
    <3> QED
      BY <3>1, <3>2
  <2>9. DOMAIN M = F \union {i} /\ M[i] = l[i][b + 1]
    OBVIOUS
  <2> DEFINE U == F \union {i}
  <2>10. t \in Seq(U) /\ i \in U /\ DOMAIN M = U
    BY <2>6, <2>9
  <2> HIDE DEF M, U
  <2>11. [x \in DOMAIN Append(t, i) |-> M[Append(t, i)[x]]]
           = Append([x \in DOMAIN t |-> M[t[x]]], M[i])
    BY ONLY <2>10, MapOfAppend
  <2> QED
    BY <2>7, <2>8, <2>9, <2>11
<1> QED
  BY <1>2, <1>3

LEMMA NoRowYet ==
  ASSUME NEW l, NEW b \in Nat
  PROVE  RowOf(l, 1, b) = <<>>
<1>1. Fuller(l, 1, b) = {}
  BY DEF Fuller
<1>2. DOMAIN Increasing(Fuller(l, 1, b)) = {}
  BY <1>1, NothingIncreasing
<1> QED
  BY <1>2 DEF RowOf

\* The numbers up to W in increasing order.
LEMMA IncreasingInterval ==
  ASSUME NEW W \in Nat
  PROVE  Len(Increasing(1..W)) = W /\ \A k \in 1..W : Increasing(1..W)[k] = k
<1>1. 1..W \in SUBSET Int /\ IsFiniteSet(1..W) /\ Cardinality(1..W) = W
  BY FS_Interval
<1>2. ASSUME NEW k \in 1..W PROVE Increasing(1..W)[k] = k
  <2>1. {y \in 1..W : y <= k} = 1..k
    OBVIOUS
  <2>2. Cardinality(1..k) = k
    BY FS_Interval
  <2>3. Rank(1..W, k) = k
    BY <2>1, <2>2 DEF Rank
  <2> QED
    BY <1>1, <2>3, IncreasingFacts
<1> QED
  BY <1>1, <1>2, IncreasingFacts

\* The row when every stream has been asked.
LEMMA RowFacts ==
  ASSUME NEW W \in Nat, NEW l \in [1..W -> Seq(Text)], NEW b \in Nat
  PROVE  LET longer == Longer(W, l, b) IN
         /\ FullRow(W, l, b) \in Seq(Text) /\ Len(longer) \in 0..W
         /\ Len(FullRow(W, l, b)) = Len(longer) /\ DOMAIN longer = 1..Len(longer)
         /\ \A x \in 1..Len(longer) :
               longer[x] \in 1..W /\ l[longer[x]][b + 1] \in Text
         /\ FullRow(W, l, b) = [x \in 1..Len(longer) |-> l[longer[x]][b + 1]]
         /\ (\A k \in 1..W : Len(l[k]) > b) =>
               Len(longer) = W /\ \A k \in 1..W : longer[k] = k
<1> DEFINE S == {k \in 1..W : Len(l[k]) > b}
           R == FullRow(W, l, b)
           longer == Longer(W, l, b)
<1>1. Fuller(l, W + 1, b) = S
  BY DEF Fuller
<1>2. S \in SUBSET Int /\ IsFiniteSet(S) /\ Cardinality(S) \in 0..W /\ S \in SUBSET (1..W)
  <2>1. IsFiniteSet(1..W) /\ Cardinality(1..W) = W /\ S \in SUBSET (1..W)
    BY FS_Interval
  <2> HIDE DEF S
  <2>2. IsFiniteSet(S) /\ Cardinality(S) <= Cardinality(1..W)
    BY ONLY <2>1, FS_Subset
  <2>3. Cardinality(S) \in Nat
    BY <2>2, FS_CardinalityType
  <2> QED
    BY <2>1, <2>2, <2>3
<1>3. longer = Increasing(S)
  BY DEF Longer
<1>4. ASSUME \A k \in 1..W : Len(l[k]) > b
      PROVE  Len(longer) = W /\ \A k \in 1..W : longer[k] = k
  <2>1. S = 1..W
    BY <1>4
  <2> QED
    BY <1>3, <2>1, IncreasingInterval
<1>5. ASSUME NEW k \in S PROVE k \in 1..W /\ l[k][b + 1] \in Text
  <2>1. l[k] \in Seq(Text) /\ Len(l[k]) \in Nat /\ Len(l[k]) > b
    BY LenProperties
  <2>2. b + 1 \in 1..Len(l[k])
    BY <2>1
  <2> QED
    BY <2>1, <2>2, ElementOfSeq
<1> HIDE DEF S, longer
<1>6. /\ longer \in Seq(S) /\ Len(longer) = Cardinality(S) /\ DOMAIN longer = 1..Len(longer)
      /\ \A x \in 1..Len(longer) : longer[x] \in S
  BY <1>2, <1>3, IncreasingFacts
<1>7. R = [x \in 1..Len(longer) |-> l[longer[x]][b + 1]]
  BY <1>1, <1>3, <1>6 DEF RowOf, FullRow
<1> HIDE DEF R
<1>8. Len(longer) \in Nat
  BY <1>2, <1>6
<1>9. \A x \in 1..Len(longer) : l[longer[x]][b + 1] \in Text
  BY <1>5, <1>6
<1>10. R \in [1..Len(longer) -> Text]
  BY <1>7, <1>9
<1>11. R \in Seq(Text) /\ Len(R) = Len(longer)
  BY <1>8, <1>10, FunctionIsSeq
<1> QED
  BY <1>2, <1>4, <1>5, <1>6, <1>7, <1>11 DEF R, longer

LEMMA RowCell ==
  ASSUME NEW W \in Nat, NEW l \in [1..W -> Seq(Text)], NEW b \in Nat,
         NEW x \in 1..Len(Longer(W, l, b))
  PROVE  FullRow(W, l, b)[x] = l[Longer(W, l, b)[x]][b + 1]
  BY RowFacts, SMTT(30)

\* No file is at its end: the row has a value for every column.
LEMMA CompleteRow ==
  ASSUME NEW W \in Nat, NEW l \in [1..W -> Seq(Text)], NEW b \in Nat,
         \A k \in 1..W : Len(l[k]) > b
  PROVE  /\ FullRow(W, l, b) \in Seq(Text) /\ Len(FullRow(W, l, b)) = W
         /\ \A k \in 1..W : FullRow(W, l, b)[k] = l[k][b + 1]
  BY RowFacts, SMTT(30)

LEMMA LinesType ==
  ASSUME FilesOK, QueriesOK, NEW q \in Queries
  PROVE  /\ Width(q) \in Nat /\ DOMAIN select[q] = 1..Width(q)
         /\ Lines(q) \in [1..Width(q) -> Seq(Text)]
         /\ \A k \in 1..Width(q) : /\ TextOf(q, k) \in Text
                                   /\ Lines(q)[k] = LinesOf(TextOf(q, k))
                                   /\ Lines(q)[k] \in Seq(Text) /\ Len(Lines(q)[k]) \in Nat
<1>1. select[q] \in Seq(FileNames)
  BY RequestsAssumption DEF QueriesOK
<1>2. Width(q) \in Nat /\ DOMAIN select[q] = 1..Width(q)
  BY <1>1, LenProperties DEF Width
<1>3. ASSUME NEW k \in 1..Width(q) PROVE TextOf(q, k) \in Text /\ LinesOf(TextOf(q, k)) \in Seq(Text)
  <2>1. select[q][k] \in FileNames
    BY <1>1, ElementOfSeq DEF Width
  <2>2. TextOf(q, k) \in Text
    BY <2>1 DEF TextOf, FilesOK
  <2>3. LinesOf(TextOf(q, k)) \in Seq(Seq(Chars))
    BY <2>2, LinesFacts DEF Text
  <2> QED
    BY <2>2, <2>3 DEF Text
<1>4. Lines(q) \in [1..Width(q) -> Seq(Text)]
  BY <1>2, <1>3 DEF Lines
<1>5. ASSUME NEW k \in 1..Width(q)
      PROVE  Lines(q)[k] = LinesOf(TextOf(q, k)) /\ Lines(q)[k] \in Seq(Text)
             /\ Len(Lines(q)[k]) \in Nat
  BY <1>2, <1>3, LenProperties DEF Lines
<1> QED
  BY <1>2, <1>3, <1>4, <1>5

LEMMA AppendJoins ==
  ASSUME NEW S, NEW g \in Seq(S), NEW v \in S
  PROVE  Append(g, v) = g \o <<v>>
  OBVIOUS

\* RowsRead, of any lines.
RowsFrom(l) ==
    LET all    == CHOOSE n \in {Len(l[k]) : k \in DOMAIN l} :
                      \A k \in DOMAIN l : n <= Len(l[k])
        longer == Increasing({k \in DOMAIN l : Len(l[k]) > all})
    IN  [k \in DOMAIN l |->
            SubSeq(l[k], 1, all) \o
            IF k \in DOMAIN longer THEN <<l[longer[k]][all + 1]>> ELSE <<>>]

LEMMA RowsOfLines ==
  ASSUME NEW q \in Queries
  PROVE  RowsRead(q) = RowsFrom(Lines(q))
  BY DEF RowsRead, RowsFrom, Lines, TextOf

\* The last, incomplete row makes the block what RowsRead says.
LEMMA LastRow ==
  ASSUME NEW W \in Nat, NEW l \in [1..W -> Seq(Text)], NEW b \in Nat,
         \E short \in 1..W : Len(l[short]) = b, \A k \in 1..W : b <= Len(l[k]),
         NEW rows, rows \in Seq(Seq(Text)), Len(rows) = W,
         \A k \in 1..W : rows[k] = SubSeq(l[k], 1, b)
  PROVE  AddRow(rows, FullRow(W, l, b)) = RowsFrom(l)
<1> DEFINE all == CHOOSE n \in {Len(l[k]) : k \in DOMAIN l} : \A k \in DOMAIN l : n <= Len(l[k])
           longer == Increasing({k \in DOMAIN l : Len(l[k]) > all})
           R == FullRow(W, l, b)
<1>1. \A k \in 1..W : l[k] \in Seq(Text) /\ Len(l[k]) \in Nat
  BY LenProperties
<1>2. RowsFrom(l) = [k \in DOMAIN l |-> SubSeq(l[k], 1, all) \o
                        IF k \in DOMAIN longer THEN <<l[longer[k]][all + 1]>> ELSE <<>>]
  BY DEF RowsFrom
<1>3. DOMAIN l = 1..W
  BY <1>1
<1>4. all = b
  <2>1. b \in {Len(l[k]) : k \in DOMAIN l} /\ \A k \in DOMAIN l : b <= Len(l[k])
    BY <1>3
  <2>2. all \in {Len(l[k]) : k \in DOMAIN l} /\ \A k \in DOMAIN l : all <= Len(l[k])
    BY <2>1
  <2> HIDE DEF all
  <2>3. all <= b /\ b <= all /\ all \in Nat
    BY <1>1, <1>3, <2>1, <2>2
  <2> QED
    BY <2>3
<1>5. longer = Longer(W, l, b)
  BY <1>3, <1>4 DEF Longer
<1> HIDE DEF all, longer, R
<1>6. /\ R \in Seq(Text) /\ Len(longer) \in 0..W
      /\ Len(R) = Len(longer) /\ DOMAIN longer = 1..Len(longer)
      /\ \A x \in 1..Len(longer) : R[x] = l[longer[x]][b + 1]
  <2> DEFINE G == Longer(W, l, b)
             Q == FullRow(W, l, b)
  <2>0. W \in Nat /\ l \in [1..W -> Seq(Text)] /\ b \in Nat
    OBVIOUS
  <2>1. Q \in Seq(Text) /\ Len(G) \in 0..W /\ Len(Q) = Len(G)
    BY ONLY <2>0, RowFacts
  <2>2. DOMAIN G = 1..Len(G)
    BY ONLY <2>0, RowFacts
  <2>3. \A x \in 1..Len(G) : Q[x] = l[G[x]][b + 1]
    BY ONLY <2>0, RowCell
  <2> QED
    BY <1>5, <2>1, <2>2, <2>3 DEF R
<1>7. DOMAIN rows = 1..W /\ \A k \in 1..W : rows[k] \in Seq(Text) /\ rows[k] = SubSeq(l[k], 1, b)
  BY LenProperties, ElementOfSeq
<1>8. AddRow(rows, R) = [k \in 1..W |-> IF k <= Len(R) THEN Append(rows[k], R[k]) ELSE rows[k]]
  BY <1>7 DEF AddRow
<1>9. RowsFrom(l) = [k \in 1..W |-> SubSeq(l[k], 1, b) \o
                        IF k \in DOMAIN longer THEN <<l[longer[k]][b + 1]>> ELSE <<>>]
  BY <1>2, <1>3, <1>4
<1>10. ASSUME NEW k \in 1..W
       PROVE  (IF k <= Len(R) THEN Append(rows[k], R[k]) ELSE rows[k])
                = SubSeq(l[k], 1, b) \o
                        (IF k \in DOMAIN longer THEN <<l[longer[k]][b + 1]>> ELSE <<>>)
  <2>1. k <= Len(R) <=> k \in DOMAIN longer
    BY <1>1, <1>6
  <2>2. CASE k <= Len(R)
    <3>1. k \in DOMAIN longer /\ R[k] = l[longer[k]][b + 1] /\ R[k] \in Text
      BY <1>6, <2>1, <2>2, ElementOfSeq
    <3>2. rows[k] \in Seq(Text)
      BY <1>7
    <3>3. Append(rows[k], R[k]) = rows[k] \o <<R[k]>>
      BY ONLY <3>1, <3>2, AppendJoins
    <3> QED
      BY <1>7, <2>2, <3>1, <3>3
  <2>3. CASE ~(k <= Len(R))
    BY <1>7, <2>1, <2>3, NothingMore
  <2> QED
    BY <2>2, <2>3
<1>11. AddRow(rows, R) = RowsFrom(l)
  BY <1>8, <1>9, <1>10
<1> QED
  BY <1>11 DEF R

LEMMA ExactLines ==
  ASSUME NEW t \in Text, NEW g \in Seq(Text), NEW s \in Stream, Exactly(s, t, g)
  PROVE  /\ LinesOf(t) \in Seq(Text) /\ Len(g) \in Nat /\ Len(LinesOf(t)) \in Nat
         /\ Len(g) <= Len(LinesOf(t))
         /\ \A x \in 1..Len(g) : g[x] = LinesOf(t)[x]
         /\ s.state = "fail" => g = LinesOf(t)
<1>1. CASE s.state = "good"
  BY <1>1, CourseLines DEF Exactly
<1>2. CASE s.state # "good"
  <2>1. g = LinesOf(t) /\ Len(g) \in Nat
    BY <1>2, LenProperties DEF Exactly
  <2> QED
    BY <2>1
<1> QED
  BY <1>1, <1>2

LEMMA OneValue ==
  ASSUME NEW S, NEW g \in Seq(S), NEW v \in Seq(S), Len(v) = 1
  PROVE  /\ v[1] \in S /\ g \o v = Append(g, v[1]) /\ Len(g) \in Nat
         /\ Len(g \o v) = Len(g) + 1 /\ (g \o v)[Len(g) + 1] = v[1]
<1> DEFINE x == v[1]
<1>1. x \in S /\ v = <<x>>
  OBVIOUS
<1> HIDE DEF x
<1>2. g \o <<x>> = Append(g, x)
  BY <1>1, AppendJoins
<1>3. Len(g) \in Nat /\ Len(g \o <<x>>) = Len(g) + 1 /\ (g \o <<x>>)[Len(g) + 1] = x
  BY <1>1, OneMore
<1>4. x \in S /\ g \o v = Append(g, x) /\ Len(g) \in Nat
      /\ Len(g \o v) = Len(g) + 1 /\ (g \o v)[Len(g) + 1] = x
  BY <1>1, <1>2, <1>3
<1> QED
  BY <1>4 DEF x

LEMMA BeginningGrows ==
  ASSUME NEW S, NEW g \in Seq(S), NEW b \in Nat, b < Len(g)
  PROVE  Append(SubSeq(g, 1, b), g[b + 1]) = SubSeq(g, 1, b + 1)
  OBVIOUS

\* A step of the reading of undisturbed files goes on with the pass, begins the next
\* one with one more row, or ends the pass that could not fill its row.
LEMMA PassGoesOn ==
  ASSUME FilesOK, QueriesOK, NEW q \in Queries, Reading(q), NEW b \in Nat, InPass(q, b),
         \A k \in 1..Width(q) : ReadsExactly(streams[q], k, TextOf(q, k), got[q])
  PROVE  \/ InPass(q, b)'
         \/ InPass(q, b + 1)'
         \/ Doomed(q)' /\ block'[q] = RowsRead(q)
<1> DEFINE W == Width(q)
           l == Lines(q)
           i == qi[q]
<1>1. /\ W \in Nat /\ l \in [1..W -> Seq(Text)]
      /\ \A k \in 1..W : /\ TextOf(q, k) \in Text /\ l[k] = LinesOf(TextOf(q, k))
                         /\ l[k] \in Seq(Text) /\ Len(l[k]) \in Nat
  BY LinesType
<1>2. /\ qpc[q] = "read" /\ i \in 1..W /\ i \in Nat
      /\ streams[q] \in Seq(Stream) /\ Len(streams[q]) = W
      /\ got[q] \in Seq(Seq(Text)) /\ Len(got[q]) = W
      /\ block[q] \in Seq(Seq(Text)) /\ Len(block[q]) = W
      /\ row[q] \in Seq(Text)
  BY ReadingKeepsLines DEF QueriesOK, Width
<1>3. PICK s \in Stream, values \in Seq(Text) :
              /\ Advance(q, s, values)
              /\ \/ values = <<>> /\ s.state = "fail"
                 \/ Len(values) = 1 /\ s.state # "fail"
  BY ReadingAdvances
<1>4. /\ streams'[q] \in Seq(Stream) /\ Len(streams'[q]) = W
      /\ \A k \in 1..W : streams'[q][k] = IF k = i THEN s ELSE streams[q][k]
      /\ got'[q] \in Seq(Seq(Text)) /\ Len(got'[q]) = W
      /\ \A k \in 1..W : got'[q][k] = IF k = i THEN got[q][k] \o values ELSE got[q][k]
      /\ row[q] \o values \in Seq(Text)
  <2>1. QueriesOK /\ qpc[q] = "read"
    BY <1>2
  <2>2. row[q] \o values \in Seq(Text) /\ W = Width(q) /\ i = qi[q]
    BY <1>2
  <2> HIDE DEF W, i
  <2> QED
    BY ONLY q \in Queries, <1>3, <2>1, <2>2, AdvanceEffect
<1>5. /\ row'[q] = (IF i = W THEN <<>> ELSE row[q] \o values)
      /\ qi'[q] = (IF i = W THEN 1 ELSE i + 1)
      /\ block'[q] = IF i = W THEN AddRow(block[q], row[q] \o values) ELSE block[q]
  BY <1>3 DEF Advance, QueriesOK
<1>6. Lines(q)' = l /\ Width(q)' = W
  <2>1. UNCHANGED <<text, select>>
    BY <1>3 DEF Advance, files
  <2> QED
    BY <2>1 DEF Lines, TextOf, Width
<1>7. ASSUME NEW k \in 1..W
      PROVE  /\ got'[q][k] \in Seq(Text) /\ Len(got'[q][k]) \in Nat
             /\ Len(got'[q][k]) <= Len(l[k])
             /\ \A x \in 1..Len(got'[q][k]) : got'[q][k][x] = l[k][x]
             /\ streams'[q][k].state = "fail" => got'[q][k] = l[k]
  <2>1. StartQuery(q) \/ QueryStep(q)
    BY DEF Reading, QueryStep
  <2>2. ReadsExactly(streams'[q], k, TextOf(q, k), got'[q])
    <3>1. TextOf(q, k) = text[select[q][k]]
      BY DEF TextOf
    <3>2. ReadsExactly(streams[q], k, TextOf(q, k), got[q])
      OBVIOUS
    <3> QED
      BY <1>1, <2>1, <3>1, <3>2, StreamSteps
  <2>3. k \in DOMAIN streams'[q] /\ streams'[q][k] \in Stream /\ got'[q][k] \in Seq(Text)
    BY <1>4, LenProperties, ElementOfSeq
  <2>4. Exactly(streams'[q][k], TextOf(q, k), got'[q][k])
    BY <2>2, <2>3 DEF ReadsExactly
  <2>5. TextOf(q, k) \in Text /\ l[k] = LinesOf(TextOf(q, k))
    BY <1>1
  <2> HIDE DEF l
  <2> QED
    BY <2>3, <2>4, <2>5, ExactLines
<1>8. /\ row[q] = RowOf(l, i, b)
      /\ \A k \in 1..W : /\ b <= Len(l[k]) /\ block[q][k] = SubSeq(l[k], 1, b)
                         /\ k >= i => Len(got[q][k]) = b /\ streams[q][k].state # "fail"
                         /\ k < i => Len(got[q][k]) =
                                       IF streams[q][k].state = "fail" THEN b ELSE b + 1
  BY DEF InPass, Failed
<1> DEFINE G == got'[q]
           T == streams'[q]
<1> HIDE DEF W, l, i
<1>a. /\ T[i] = s /\ G[i] = got[q][i] \o values
      /\ \A k \in 1..W : k # i => T[k] = streams[q][k] /\ G[k] = got[q][k]
  BY <1>2, <1>4
<1>b. \A k \in 1..W : /\ Len(G[k]) \in Nat /\ Len(G[k]) <= Len(l[k])
                      /\ \A x \in 1..Len(G[k]) : G[k][x] = l[k][x]
                      /\ T[k].state = "fail" => G[k] = l[k]
  BY <1>7
<1> HIDE DEF G, T
<1>9. /\ row[q] \o values = RowOf(l, i + 1, b)
      /\ Len(G[i]) = IF s.state = "fail" THEN b ELSE b + 1
  <2>1. /\ got[q][i] \in Seq(Text) /\ G[i] = got[q][i] \o values /\ Len(got[q][i]) = b
        /\ T[i] = s
    <3>1. got[q][i] \in Seq(Text)
      BY <1>2, ElementOfSeq
    <3>2. i >= i
      BY <1>2
    <3> QED
      BY <1>2, <1>8, <1>a, <3>1, <3>2
  <2>2. CASE values = <<>> /\ s.state = "fail"
    <3>1. G[i] = got[q][i] /\ row[q] \o values = row[q]
      BY <1>2, <2>1, <2>2, NothingMore
    <3>2. G[i] = l[i]
      BY <1>2, <1>b, <2>1, <2>2
    <3>3. ~(Len(l[i]) > b)
      BY <1>2, <2>1, <3>1, <3>2
    <3> QED
      BY <1>1, <1>2, <1>8, <2>1, <2>2, <3>1, <3>3, RowGrows
  <2>3. CASE Len(values) = 1 /\ s.state # "fail"
    <3>0. got[q][i] \in Seq(Text) /\ values \in Seq(Text) /\ Len(values) = 1
      BY <2>1, <2>3
    <3>1. /\ Len(G[i]) = b + 1 /\ G[i][b + 1] = values[1]
      <4>1. /\ Len(got[q][i] \o values) = Len(got[q][i]) + 1
            /\ (got[q][i] \o values)[Len(got[q][i]) + 1] = values[1]
        BY ONLY <3>0, OneValue
      <4> QED
        BY <2>1, <4>1
    <3>2. row[q] \o values = Append(row[q], values[1])
      BY <1>2, <2>3, OneValue
    <3>3. b + 1 <= Len(l[i]) /\ l[i][b + 1] = values[1] /\ Len(l[i]) > b
      <4>1. b + 1 \in 1..Len(G[i])
        BY <3>1
      <4>2. Len(G[i]) <= Len(l[i]) /\ G[i][b + 1] = l[i][b + 1] /\ Len(l[i]) \in Nat
        BY <1>1, <1>2, <1>b, <4>1
      <4> QED
        BY <3>1, <4>2
    <3>4. RowOf(l, i + 1, b) = Append(RowOf(l, i, b), l[i][b + 1])
      BY <1>1, <1>2, <3>3, RowGrows
    <3> QED
      BY <1>8, <2>3, <3>1, <3>2, <3>3, <3>4
  <2> QED
    BY <1>3, <2>2, <2>3
<1>10. ASSUME NEW k \in 1..W, k <= i
       PROVE  Len(G[k]) = IF T[k].state = "fail" THEN b ELSE b + 1
  <2>1. CASE k = i
    BY <1>1, <1>2, <1>a, <1>9, <2>1
  <2>2. CASE k # i
    <3>1. k < i
      BY <1>1, <1>2, <1>10, <2>2
    <3>2. T[k] = streams[q][k] /\ G[k] = got[q][k]
      BY <1>a, <2>2
    <3>3. Len(got[q][k]) = IF streams[q][k].state = "fail" THEN b ELSE b + 1
      BY <1>8, <3>1
    <3> QED
      BY <3>2, <3>3
  <2> QED
    BY <2>1, <2>2
<1>11. CASE i # W
  <2>1. qi'[q] = i + 1 /\ row'[q] = RowOf(l, i + 1, b) /\ block'[q] = block[q]
    BY <1>5, <1>9, <1>11
  <2>2. ASSUME NEW k \in 1..W
        PROVE  /\ k >= i + 1 => Len(G[k]) = b /\ T[k].state # "fail"
               /\ k < i + 1 => Len(G[k]) =
                                 IF T[k].state = "fail" THEN b ELSE b + 1
    <3>1. ASSUME k >= i + 1 PROVE Len(G[k]) = b /\ T[k].state # "fail"
      <4>1. k >= i /\ k # i
        BY <1>1, <1>2, <3>1
      <4>2. T[k] = streams[q][k] /\ G[k] = got[q][k]
        BY <1>a, <4>1
      <4>3. Len(got[q][k]) = b /\ streams[q][k].state # "fail"
        BY <1>8, <4>1
      <4> QED
        BY <4>2, <4>3
    <3>2. k < i + 1 => k <= i
      BY <1>1, <1>2
    <3> QED
      BY <1>10, <3>1, <3>2
  <2>3. InPass(q, b)'
    <3>1. /\ row'[q] = RowOf(Lines(q)', qi'[q], b)
          /\ \A k \in 1..Width(q)' :
                /\ b <= Len(Lines(q)'[k]) /\ block'[q][k] = SubSeq(Lines(q)'[k], 1, b)
                /\ k >= qi'[q] => Len(G[k]) = b /\ T[k].state # "fail"
                /\ k < qi'[q] => Len(G[k]) =
                                   IF T[k].state = "fail" THEN b ELSE b + 1
      BY <1>6, <1>8, <2>1, <2>2
    <3> QED
      BY <3>1 DEF InPass, Failed, G, T
  <2> QED
    BY <2>3
<1>12. CASE i = W
  <2>1. /\ qi'[q] = 1 /\ row'[q] = <<>>
        /\ block'[q] = AddRow(block[q], FullRow(W, l, b))
    BY <1>5, <1>9, <1>12 DEF FullRow
  <2>2. CASE \A k \in 1..W : Len(l[k]) > b
    <3>1. ASSUME NEW k \in 1..W
          PROVE  /\ b + 1 <= Len(l[k]) /\ block'[q][k] = SubSeq(l[k], 1, b + 1)
                 /\ Len(G[k]) = b + 1 /\ T[k].state # "fail"
      <4>1. l[k] \in Seq(Text) /\ b < Len(l[k]) /\ b + 1 <= Len(l[k])
        BY <1>1, <2>2
      <4>2. /\ FullRow(W, l, b) \in Seq(Text) /\ Len(FullRow(W, l, b)) = W
            /\ FullRow(W, l, b)[k] = l[k][b + 1]
        <5>1. W \in Nat /\ l \in [1..W -> Seq(Text)] /\ b \in Nat /\ \A x \in 1..W : Len(l[x]) > b
          BY <1>1, <2>2
        <5>2. /\ FullRow(W, l, b) \in Seq(Text) /\ Len(FullRow(W, l, b)) = W
              /\ \A x \in 1..W : FullRow(W, l, b)[x] = l[x][b + 1]
          BY ONLY <5>1, CompleteRow
        <5> QED
          BY <5>2
      <4>3. AddRow(block[q], FullRow(W, l, b))[k]
              = Append(block[q][k], FullRow(W, l, b)[k])
        <5> DEFINE R == FullRow(W, l, b)
        <5>1. R \in Seq(Text) /\ k <= Len(R) /\ k \in 1..Len(block[q]) /\ block[q] \in Seq(Seq(Text))
          BY <1>1, <1>2, <4>2
        <5> HIDE DEF R
        <5>2. AddRow(block[q], R)[k] = Append(block[q][k], R[k])
          BY <5>1, AddRowType
        <5> QED
          BY <5>2 DEF R
      <4>4. Append(SubSeq(l[k], 1, b), l[k][b + 1]) = SubSeq(l[k], 1, b + 1)
        BY ONLY <4>1, b \in Nat, BeginningGrows
      <4>5. T[k].state # "fail"
        <5>1. ASSUME T[k].state = "fail" PROVE FALSE
          <6>1. Len(G[k]) = b
            BY <1>1, <1>10, <1>12, <5>1
          <6>2. G[k] = l[k]
            BY <1>b, <5>1
          <6> QED
            BY <4>1, <6>1, <6>2
        <5> QED
          BY <5>1
      <4>6. Len(G[k]) = b + 1
        BY <1>1, <1>10, <1>12, <4>5
      <4> QED
        BY <1>8, <2>1, <4>1, <4>2, <4>3, <4>4, <4>5, <4>6
    <3>2. RowOf(l, 1, b + 1) = <<>>
      BY NoRowYet
    <3>3. \A k \in 1..W : k >= 1 /\ ~(k < 1)
      BY <1>1
    <3>4. InPass(q, b + 1)'
      <4>1. /\ row'[q] = RowOf(Lines(q)', qi'[q], b + 1)
            /\ \A k \in 1..Width(q)' :
                  /\ b + 1 <= Len(Lines(q)'[k])
                  /\ block'[q][k] = SubSeq(Lines(q)'[k], 1, b + 1)
                  /\ k >= qi'[q] => Len(G[k]) = b + 1 /\ T[k].state # "fail"
                  /\ k < qi'[q] => Len(G[k]) =
                        IF T[k].state = "fail" THEN b + 1 ELSE b + 1 + 1
        BY <1>6, <2>1, <3>1, <3>2, <3>3
      <4> QED
        BY <4>1 DEF InPass, Failed, G, T
    <3> QED
      BY <3>4
  <2>3. ASSUME NEW short \in 1..W, ~(Len(l[short]) > b)
        PROVE  Doomed(q)' /\ block'[q] = RowsRead(q)
    <3>1. Len(l[short]) = b
      BY <1>1, <1>8, <2>3
    <3>2. AddRow(block[q], FullRow(W, l, b)) = RowsRead(q)
      <4>1. AddRow(block[q], FullRow(W, l, b)) = RowsFrom(l)
        <5> DEFINE rows == block[q]
        <5>1. /\ W \in Nat /\ l \in [1..W -> Seq(Text)] /\ b \in Nat 
              /\ \E k \in 1..W : Len(l[k]) = b
              /\ \A k \in 1..W : b <= Len(l[k])
          BY <1>1, <1>8, <3>1
        <5>2. /\ rows \in Seq(Seq(Text)) /\ Len(rows) = W
              /\ \A k \in 1..W : rows[k] = SubSeq(l[k], 1, b)
          BY <1>2, <1>8
        <5> HIDE DEF rows
        <5>3. AddRow(rows, FullRow(W, l, b)) = RowsFrom(l)
          BY ONLY <5>1, <5>2, LastRow
        <5> QED
          BY <5>3 DEF rows
      <4> QED
        BY <4>1, RowsOfLines DEF l
    <3>3. T[short].state = "fail"
      <4>1. Len(G[short]) <= b /\ short <= i
        BY <1>1, <1>b, <1>12, <3>1
      <4> QED
        BY <1>10, <4>1
    <3>4. Doomed(q)'
      BY <1>6, <2>1, <3>3 DEF Doomed, Failed, T
    <3> QED
      BY <2>1, <3>2, <3>4
  <2> QED
    BY <2>2, <2>3
<1> QED
  BY <1>11, <1>12

-----------------------------------------------------------------------------
(* A query that nobody disturbs: its steps.                                 *)

LEMMA RowsStay ==
  ASSUME NEW q \in Queries, UNCHANGED <<text, select>>
  PROVE  /\ RowsRead(q)' = RowsRead(q) /\ Lines(q)' = Lines(q) /\ Width(q)' = Width(q)
         /\ \A k \in 1..Width(q) : TextOf(q, k)' = TextOf(q, k)
<1>1. RowsRead(q) = RowsFrom(Lines(q))
  BY RowsOfLines
<1>2. RowsRead(q)' = RowsFrom(Lines(q)')
  BY DEF RowsRead, RowsFrom, Lines, TextOf
<1>3. Lines(q)' = Lines(q) /\ Width(q)' = Width(q) /\ \A k \in 1..Width(q) : TextOf(q, k)' = TextOf(q, k)
  BY DEF Lines, TextOf, Width
<1> QED
  BY <1>1, <1>2, <1>3

LEMMA UndisturbedStays ==
  ASSUME NEW q \in Queries, Undisturbed(q), UNCHANGED <<text, select>>,
         streams'[q] = streams[q], qi'[q] = qi[q], row'[q] = row[q], block'[q] = block[q],
         got'[q] = got[q], qpc'[q] = qpc[q] \/ qpc'[q] \in {"failed", "crashed"}
  PROVE  Undisturbed(q)'
<1>1. /\ RowsRead(q)' = RowsRead(q) /\ Lines(q)' = Lines(q) /\ Width(q)' = Width(q)
      /\ \A k \in 1..Width(q) : TextOf(q, k)' = TextOf(q, k)
  BY RowsStay
<1>2. \A k \in 1..Width(q)' : ReadsExactly(streams'[q], k, TextOf(q, k)', got'[q])
  BY <1>1 DEF Undisturbed
<1>3. Doomed(q) => Doomed(q)'
  BY <1>1 DEF Doomed, Failed
<1>4. \A b : InPass(q, b) => InPass(q, b)'
  BY <1>1 DEF InPass, Failed
<1>5. qpc'[q] = "open" => \A k \in DOMAIN streams'[q] : ~Failed(q, k)'
  BY DEF Undisturbed, Failed
<1>6. /\ qpc'[q] = "read" =>
            \/ \E b \in 0..Len(block'[q][1]) : InPass(q, b)'
            \/ Doomed(q)' /\ block'[q] = RowsRead(q)'
      /\ qpc'[q] = "ok" => block'[q] = RowsRead(q)'
  BY <1>1, <1>3, <1>4 DEF Undisturbed
<1> QED
  BY <1>2, <1>5, <1>6 DEF Undisturbed

LEMMA UndisturbedStart ==
  ASSUME TypeOK, NEW q \in Queries, ReadInv(q), StartQuery(q)
  PROVE  Undisturbed(q)'
<1>1. /\ qpc[q] = "idle" /\ qpc'[q] \in {"open", "failed"} /\ streams' = streams
      /\ UNCHANGED <<text, select, got>> /\ streams[q] = <<>>
  BY DEF StartQuery, TypeOK, QueriesOK, files
<1>2. DOMAIN streams[q] = {}
  BY <1>1
<1>3. \A k \in 1..Width(q) : got[q][k] = <<>>
  BY <1>1 DEF ReadInv
<1>4. Width(q)' = Width(q)
  BY <1>1 DEF Width
<1>5. \A k \in 1..Width(q)' : ReadsExactly(streams'[q], k, TextOf(q, k)', got'[q])
  BY <1>1, <1>2, <1>3, <1>4 DEF ReadsExactly
<1>6. \A k \in DOMAIN streams'[q] : ~Failed(q, k)'
  BY <1>1, <1>2
<1> QED
  BY <1>1, <1>5, <1>6 DEF Undisturbed

\* A refill changes the state of no stream.
LEMMA RefillKeepsStates ==
  ASSUME FilesOK, QueriesOK, NEW q \in Queries, ReadBuffer(q), NEW k \in 1..Width(q)
  PROVE  streams'[q][k].state = streams[q][k].state
<1>1. /\ streams[q] \in Seq(Stream) /\ Len(streams[q]) = Width(q)
      /\ qi[q] \in 1..Width(q)
  BY CurrentType DEF ReadBuffer
<1>2. streams[q][k] \in Stream /\ DOMAIN streams[q] = 1..Width(q)
  BY <1>1, ElementOfSeq, LenProperties
<1> DEFINE chunk == Chunk(CurrentText(q), Current(q).off)
           s == [streams[q][qi[q]] EXCEPT
                    !.buf = streams[q][qi[q]].buf \o chunk,
                    !.off = streams[q][qi[q]].off + Len(chunk)]
<1>3. streams' = [streams EXCEPT ![q] = [streams[q] EXCEPT ![qi[q]] = s]]
  BY DEF ReadBuffer
<1>4. s.state = streams[q][qi[q]].state
  BY <1>1, ElementOfSeq DEF Stream
<1> HIDE DEF s
<1>5. streams'[q][k] = IF k = qi[q] THEN s ELSE streams[q][k]
  BY <1>2, <1>3 DEF QueriesOK
<1> QED
  BY <1>4, <1>5

LEMMA UndisturbedQuery ==
  ASSUME TypeOK, NEW q \in Queries, ReadInv(q), Undisturbed(q), QueryStep(q)
  PROVE  Undisturbed(q)'
<1> DEFINE W == Width(q)
<1>0. /\ FilesOK /\ QueriesOK /\ QueriesOK'
      /\ W \in Nat /\ Len(block[q]) = W
      /\ streams[q] \in Seq(Stream) /\ DOMAIN streams[q] = 1..Len(streams[q])
      /\ Len(streams[q]) \in Nat
  <2>1. select[q] \in Seq(FileNames)
    BY RequestsAssumption DEF TypeOK, QueriesOK
  <2>2. W \in Nat
    BY <2>1, LenProperties DEF Width
  <2>3. QueriesOK'
    BY QueryTypeOK DEF TypeOK
  <2> QED
    BY <2>2, <2>3, LenProperties DEF TypeOK, QueriesOK, Width
<1>1. UNCHANGED <<text, select>>
  <2>1. select' = select
    BY DEF QueryStep, OpenFile, ReadBuffer, GetLine, EndOfFile, GetLineAfterEof, Advance,
           StopReading
  <2> QED
    BY <2>1, QueryLeavesFiles DEF files
<1>2. /\ RowsRead(q)' = RowsRead(q) /\ Lines(q)' = Lines(q) /\ Width(q)' = W
      /\ \A k \in 1..W : TextOf(q, k)' = TextOf(q, k)
  BY <1>1, RowsStay
<1>3. \A k \in 1..W : TextOf(q, k) \in Text /\ Lines(q)[k] \in Seq(Text) /\ Len(Lines(q)[k]) \in Nat
  BY <1>0, LinesType
<1>4. \A k \in 1..Width(q)' : ReadsExactly(streams'[q], k, TextOf(q, k)', got'[q])
  <2>1. ASSUME NEW k \in 1..W PROVE ReadsExactly(streams'[q], k, TextOf(q, k), got'[q])
    <3>1. TextOf(q, k) = text[select[q][k]] /\ ReadsExactly(streams[q], k, TextOf(q, k), got[q])
      BY DEF TextOf, Undisturbed
    <3> QED
      BY <1>0, <1>3, <3>1, StreamSteps
  <2> QED
    BY <1>2, <2>1
<1>5. SUFFICES
        /\ qpc'[q] = "open" => \A k \in DOMAIN streams'[q] : ~Failed(q, k)'
        /\ qpc'[q] = "read" =>
              \/ \E b \in 0..Len(block'[q][1]) : InPass(q, b)'
              \/ Doomed(q)' /\ block'[q] = RowsRead(q)
        /\ qpc'[q] = "ok" => block'[q] = RowsRead(q)
  BY <1>2, <1>4 DEF Undisturbed
<1>6. CASE OpenFile(q)
  <2>1. /\ qpc[q] = "open" /\ UNCHANGED <<row, block, got>> /\ qi[q] \in 1..W
        /\ Len(streams[q]) = qi[q] - 1
    BY <1>0, <1>6 DEF OpenFile, QueriesOK, Width
  <2>2. row[q] = <<>> /\ \A k \in 1..W : block[q][k] = <<>> /\ got[q][k] = <<>>
    BY <2>1 DEF ReadInv
  <2>3. CASE select[q][qi[q]] \in exists
    <3> DEFINE s == [state |-> "good", off |-> 0, buf |-> <<>>]
    <3>1. /\ streams'[q] = Append(streams[q], s)
          /\ qi'[q] = IF qi[q] = W THEN 1 ELSE qi[q] + 1
          /\ qpc'[q] = IF qi[q] = W THEN "read" ELSE "open"
      BY <1>0, <1>6, <2>3 DEF OpenFile, QueriesOK
    <3>2. s \in Stream /\ s.state # "fail"
      BY EmptySeq DEF Stream, Text
    <3> HIDE DEF s
    <3>3. /\ DOMAIN streams'[q] = 1..qi[q]
          /\ \A k \in 1..Len(streams[q]) : streams'[q][k] = streams[q][k]
          /\ streams'[q][qi[q]] = s
      BY <1>0, <2>1, <3>1, <3>2
    <3>4. \A k \in DOMAIN streams'[q] : ~Failed(q, k)'
      <4>1. \A k \in 1..qi[q] : k \in 1..Len(streams[q]) \/ k = qi[q]
        BY <1>0, <2>1
      <4> QED
        BY <1>0, <2>1, <3>2, <3>3, <4>1 DEF Undisturbed, Failed
    <3>5. ASSUME qi[q] = W
          PROVE  InPass(q, 0)' /\ 0 \in 0..Len(block'[q][1])
      <4>1. Len(<<>>) = 0
        OBVIOUS
      <4>2. ASSUME NEW k \in 1..W
            PROVE  0 <= Len(Lines(q)[k]) /\ SubSeq(Lines(q)[k], 1, 0) = <<>> /\ k >= 1 /\ ~(k < 1)
        <5>1. Lines(q)[k] \in Seq(Text) /\ Len(Lines(q)[k]) \in Nat /\ k \in Nat
          BY <1>0, <1>3
        <5> QED
          BY <5>1
      <4>3. RowOf(Lines(q), 1, 0) = <<>>
        BY NoRowYet
      <4>4. \A k \in 1..W : Len(got'[q][k]) = 0 /\ block'[q][k] = <<>> /\ ~Failed(q, k)'
        BY <2>1, <2>2, <3>3, <3>4, <3>5, <4>1
      <4>5. qi'[q] = 1 /\ row'[q] = <<>>
        BY <2>1, <2>2, <3>1, <3>5
      <4>6. InPass(q, 0)'
        <5>1. /\ row'[q] = RowOf(Lines(q)', qi'[q], 0)
              /\ \A k \in 1..Width(q)' :
                    /\ 0 <= Len(Lines(q)'[k]) /\ block'[q][k] = SubSeq(Lines(q)'[k], 1, 0)
                    /\ k >= qi'[q] => Len(got'[q][k]) = 0 /\ ~Failed(q, k)'
                    /\ k < qi'[q] => Len(got'[q][k]) = IF Failed(q, k)' THEN 0 ELSE 0 + 1
          BY <1>2, <4>2, <4>3, <4>4, <4>5
        <5> QED
          BY <5>1 DEF InPass
      <4> QED
        BY <1>0, <2>1, <4>1, <4>4, <4>6
    <3> QED
      BY <3>1, <3>4, <3>5
  <2>4. CASE select[q][qi[q]] \notin exists
    BY <1>0, <1>6, <2>4 DEF OpenFile, QueriesOK
  <2> QED
    BY <2>3, <2>4
<1>7. CASE ReadBuffer(q)
  <2>1. UNCHANGED <<select, qpc, qi, row, block, got>> /\ qpc[q] = "read" /\ qi[q] \in 1..W
    BY <1>0, <1>7, CurrentType DEF ReadBuffer
  <2>2. \A k \in 1..W : Failed(q, k)' <=> Failed(q, k)
    BY <1>0, <1>7, RefillKeepsStates DEF Failed
  <2>3. \A b : InPass(q, b) => InPass(q, b)'
    BY <1>2, <2>1, <2>2 DEF InPass
  <2>4. Doomed(q) => Doomed(q)'
    <3>1. \A k \in qi[q]..W : k \in 1..W
      BY <1>0, <2>1
    <3> QED
      BY <1>2, <2>1, <2>2, <3>1 DEF Doomed
  <2> QED
    BY <2>1, <2>3, <2>4 DEF Undisturbed
<1>8. CASE Reading(q)
  <2>1. qpc[q] = "read" /\ ~Failed(q, qi[q])
    BY <1>0, <1>8, ReadingAdvances DEF Failed, Current
  <2>2. PICK s \in Stream, values \in Seq(Text) : Advance(q, s, values)
    BY <1>0, <1>8, ReadingAdvances
  <2>3. qpc'[q] = "read" /\ qi[q] \in 1..W
    BY <1>0, <2>1, <2>2 DEF Advance, QueriesOK, Width
  <2>4. ASSUME NEW b \in Nat, InPass(q, b)' PROVE b \in 0..Len(block'[q][1])
    <3>1. 1 \in 1..W
      BY <1>0, <2>3
    <3>2. b <= Len(Lines(q)[1]) /\ block'[q][1] = SubSeq(Lines(q)[1], 1, b)
      BY <1>2, <2>4, <3>1 DEF InPass
    <3>3. Lines(q)[1] \in Seq(Text) /\ Len(Lines(q)[1]) \in Nat
      BY <1>3, <3>1
    <3>4. Len(SubSeq(Lines(q)[1], 1, b)) = b
      BY <3>2, <3>3
    <3> QED
      BY <3>2, <3>4
  <2>5. CASE \E b \in 0..Len(block[q][1]) : InPass(q, b)
    <3>1. PICK b \in 0..Len(block[q][1]) : InPass(q, b)
      BY <2>5
    <3>2. b \in Nat /\ b + 1 \in Nat
      OBVIOUS
    <3>3. \A k \in 1..W : ReadsExactly(streams[q], k, TextOf(q, k), got[q])
      BY DEF Undisturbed
    <3>4. \/ InPass(q, b)'
          \/ InPass(q, b + 1)'
          \/ Doomed(q)' /\ block'[q] = RowsRead(q)
      BY <1>0, <1>8, <3>1, <3>2, <3>3, PassGoesOn
    <3> QED
      BY <2>3, <2>4, <3>2, <3>4
  <2>6. CASE Doomed(q) /\ block[q] = RowsRead(q)
    <3>1. PICK k \in qi[q]..W : Failed(q, k)
      BY <2>6 DEF Doomed
    <3>2. k # qi[q] /\ k \in 1..W /\ k \in (qi[q] + 1)..W /\ qi[q] # W
      BY <1>0, <2>1, <2>3, <3>1
    <3>3. qi'[q] = qi[q] + 1 /\ block'[q] = block[q]
      BY <1>0, <2>2, <3>2 DEF Advance, QueriesOK
    <3>4. Failed(q, k)'
      BY <1>0, <2>1, <2>2, <3>1, <3>2, AdvanceEffect DEF Failed
    <3>5. Doomed(q)'
      BY <1>2, <3>2, <3>3, <3>4 DEF Doomed
    <3> QED
      BY <2>3, <2>6, <3>3, <3>5
  <2> QED
    BY <2>1, <2>5, <2>6 DEF Undisturbed
<1>9. CASE StopReading(q)
  <2>1. qpc[q] = "read" /\ Failed(q, qi[q]) /\ qpc'[q] = "ok" /\ block' = block /\ qi[q] \in 1..W
    BY <1>0, <1>9, CurrentType DEF StopReading, QueriesOK, Failed, Current
  <2>2. ASSUME NEW b, InPass(q, b) PROVE FALSE
    BY <1>0, <2>1, <2>2 DEF InPass
  <2> QED
    BY <2>1, <2>2 DEF Undisturbed
<1> QED
  BY <1>6, <1>7, <1>8, <1>9 DEF QueryStep, Reading

LEMMA NextQuietInv == TypeOK /\ BlocksInv /\ QuietInv /\ [Next]_vars => QuietInv'
<1> SUFFICES ASSUME TypeOK, BlocksInv, QuietInv, [Next]_vars PROVE QuietInv'
  OBVIOUS
<1>0. QueriesOK /\ \A q \in Queries : ReadInv(q)
  BY DEF TypeOK, BlocksInv
<1>1. ASSUME NEW m \in Imports, CreateDirectories(m) \/ ImportStep(m) PROVE quiet' = {}
  <2>1. CASE CreateDirectories(m)
    BY <2>1 DEF CreateDirectories
  <2>2. CASE ImportStep(m)
    <3>1. m \in Writing /\ quiet' = quiet
      BY <2>2 DEF ImportStep, OpenColumnsTxt, OpenColumn, SkipColumn, WriteColumn, CloseColumn,
                  OpenCount, FlushCount, FlushHeader, Writing, hvars
    <3> QED
      BY <3>1 DEF QuietInv
  <2> QED
    BY <1>1, <2>1, <2>2
<1>2. quiet' = {} => QuietInv'
  BY DEF QuietInv
<1>3. ASSUME NEW p \in Queries, StartQuery(p) \/ QueryStep(p) PROVE QuietInv'
  <2>1. UNCHANGED <<text, ipc>> /\ Writing' = Writing
    BY <1>3, QueryLeavesFiles DEF files, ivars, Writing
  <2>2. /\ quiet' \subseteq quiet \union {p}
        /\ quiet' # {} => Writing = {}
        /\ QueryStep(p) => quiet' = quiet
    <3>1. CASE StartQuery(p)
      <4>1. quiet' = IF Writing = {} THEN quiet \union {p} ELSE quiet
        BY <3>1 DEF StartQuery
      <4>2. ~QueryStep(p)
        BY <3>1 DEF StartQuery, QueryStep, OpenFile, ReadBuffer, GetLine, EndOfFile,
                    GetLineAfterEof, StopReading
      <4> QED
        BY <4>1, <4>2 DEF QuietInv
    <3>2. CASE QueryStep(p)
      <4>1. quiet' = quiet
        BY <3>2 DEF QueryStep, OpenFile, ReadBuffer, GetLine, EndOfFile, GetLineAfterEof,
                    Advance, StopReading, hvars
      <4> QED
        BY <4>1 DEF QuietInv
    <3> QED
      BY <1>3, <3>1, <3>2
  <2>3. ASSUME NEW q \in quiet' PROVE Undisturbed(q)'
    <3>0. q \in Queries
      BY <2>2 DEF TypeOK, HistoryOK
    <3>1. CASE q = p
      <4>1. CASE StartQuery(p)
        BY <1>0, <3>1, <4>1, UndisturbedStart
      <4>2. CASE QueryStep(p)
        <5>1. Undisturbed(q)
          BY <2>2, <4>2 DEF QuietInv
        <5> QED
          BY <1>0, <3>1, <4>2, <5>1, UndisturbedQuery
      <4> QED
        BY <1>3, <4>1, <4>2
    <3>2. CASE q # p
      <4>1. Undisturbed(q)
        BY <2>2, <3>2 DEF QuietInv
      <4> QED
        BY <1>0, <1>3, <2>1, <3>0, <3>2, <4>1, OtherQueries, UndisturbedStays
    <3> QED
      BY <3>1, <3>2
  <2> QED
    BY <2>1, <2>2, <2>3 DEF QuietInv
<1>4. CASE Crash
  <2>1. /\ UNCHANGED <<text, select, streams, qi, row, block, got, quiet>>
        /\ ipc' = [m \in Imports |-> IF m \in Writing THEN "crashed" ELSE ipc[m]]
        /\ qpc' = [q \in Queries |-> IF qpc[q] \in {"open", "read"} THEN "crashed" ELSE qpc[q]]
    BY <1>4 DEF Crash, files, hvars
  <2>2. Writing' = {}
    BY <2>1 DEF Writing
  <2>3. \A q \in quiet : q \in Queries
    BY DEF TypeOK, HistoryOK
  <2>4. ASSUME NEW q \in quiet' PROVE Undisturbed(q)'
    BY <2>1, <2>3, UndisturbedStays DEF QuietInv
  <2> QED
    BY <2>2, <2>4 DEF QuietInv
<1>5. CASE UNCHANGED vars
  <2>1. /\ UNCHANGED <<text, select, streams, qi, row, block, got, quiet, qpc>> /\ Writing' = Writing
    BY <1>5 DEF vars, files, qvars, hvars, ivars, Writing
  <2>2. ASSUME NEW q \in quiet' PROVE Undisturbed(q)'
    BY <2>1, UndisturbedStays DEF QuietInv, TypeOK, HistoryOK
  <2> QED
    BY <2>1, <2>2 DEF QuietInv
<1> QED
  BY <1>1, <1>2, <1>3, <1>4, <1>5 DEF Next

(* A query that no import overlaps answers with exactly the lines its files  *)
(* hold, whatever their number, lengths and last characters, in whatever     *)
(* pieces the buffers bring them, and next to any other queries: all rows    *)
(* that every file has, then what is left of the longer ones for one more.   *)
THEOREM QuietQueriesExact == Spec => []QuietQueryExact
<1>1. Init => QuietInv
  BY DEF Init, QuietInv
<1>2. QuietInv => QuietQueryExact
  BY DEF QuietInv, Undisturbed, QuietQueryExact
<1> QED
  BY <1>1, <1>2, NextQuietInv, TypeCorrect, BlocksInvCorrect, PTL DEF Spec
=============================================================================
